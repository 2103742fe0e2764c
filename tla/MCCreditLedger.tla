--------------------------- MODULE MCCreditLedger ---------------------------
(* CreditLedger on a small instance: requests and users are interchangeable. *)
EXTENDS CreditLedger, TLC

Symmetric == Permutations(Requests) \cup Permutations(Users)
=============================================================================
