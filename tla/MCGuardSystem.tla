--------------------------- MODULE MCGuardSystem ---------------------------
EXTENDS GuardSystem, TLC
CONSTANTS base, dropped, m1, c1, c2
TwoSchemas == {base, dropped}
VerdictTable == [c \in Schemas \X Schemas |->
   IF c[1] = c[2] THEN "NONE" ELSE IF c[2] = dropped THEN "CRITICAL" ELSE "INFO"]
Intervals == [m \in Monitors |-> 1]
One == [kind |-> "number", value |-> 1]
=============================================================================
