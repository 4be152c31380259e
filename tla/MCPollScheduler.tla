--------------------------- MODULE MCPollScheduler ---------------------------
EXTENDS PollScheduler, TLC
CONSTANTS m1, m2, m3
Intervals == [m \in Monitors |-> 1]
Two == [kind |-> "number", value |-> 2]
=============================================================================
