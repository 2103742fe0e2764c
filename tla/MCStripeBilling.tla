-------------------------- MODULE MCStripeBilling --------------------------
(* StripeBilling with one user, so that deliveries race on one account. *)
EXTENDS StripeBilling
=============================================================================
