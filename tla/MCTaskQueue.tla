---------------------------- MODULE MCTaskQueue ----------------------------
(* Constants for TLC: row 2 has the higher priority, so it is fetched      *)
(* before row 1, which is older.                                           *)
EXTENDS TaskQueue

CONSTANTS w1, w2

MCTask == {1, 2}
MCPriority == [t \in {1, 2} |-> t]
=============================================================================
