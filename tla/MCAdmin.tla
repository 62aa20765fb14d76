------------------------------ MODULE MCAdmin ------------------------------
(***************************************************************************)
(* Model checking Admin: two domains and two users, which the model does   *)
(* not tell apart.                                                         *)
(***************************************************************************)
EXTENDS Admin, TLC

Symmetry == Permutations(Domain) \cup Permutations(User)
=============================================================================
