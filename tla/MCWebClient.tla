----------------------------- MODULE MCWebClient -----------------------------
EXTENDS WebClient
CONSTANTS t1, t2, u1, u2
OwnerTable == [t \in Tokens |-> IF t = t1 THEN u1 ELSE u2]
=============================================================================
