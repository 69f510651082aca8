---------------------------- MODULE MCZeroCopyTx ----------------------------
(* Two tasks of one priority and one above them, or one of each; a write of  *)
(* two bytes can be interrupted in the middle.                               *)
EXTENDS ZeroCopyTx

MCTasks == {"low", "other", "high"}
MCPrio == [t \in MCTasks |-> IF t = "high" THEN 2 ELSE 1]
MCPair == {"low", "high"}
MCPairPrio == [t \in MCPair |-> MCPrio[t]]
=============================================================================
