----------------------------- MODULE MCMailbox ------------------------------
(***************************************************************************)
(* Model checking Mailbox: goroutines are interchangeable, and so are      *)
(* mailboxes.                                                              *)
(***************************************************************************)
EXTENDS Mailbox, TLC

Symmetry == Permutations(Actor) \cup Permutations(Box)
=============================================================================
