---------------------------- MODULE MCPollTiming ----------------------------
EXTENDS PollTiming, TLC
CONSTANTS m1, m2
Intervals == [m \in Monitors |-> IF m = m1 THEN 2 * Minute ELSE Minute]
Zero == [kind |-> "number", value |-> 0]
=============================================================================
