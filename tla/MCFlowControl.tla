---------------------------- MODULE MCFlowControl ----------------------------
(* FlowControl with one message of the client to send. *)
EXTENDS FlowControl

McFlowLoads == {[e \in Ends |-> IF e = "client" THEN 1 ELSE 0]}
=============================================================================
