-------------------------- MODULE MCOperatorQueue --------------------------
(* OperatorQueue with two overlapping workers. *)
EXTENDS OperatorQueue
=============================================================================
