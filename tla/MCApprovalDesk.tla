--------------------------- MODULE MCApprovalDesk ---------------------------
(* Instance of ApprovalDesk for TLC: two processes share a durable store, the *)
(* third has one in memory.                                                  *)
EXTENDS ApprovalDesk

MCStoreOf == [v \in Verifiers |-> IF v = "alone" THEN "memory" ELSE "database"]

=============================================================================
