----------------------------- MODULE MCOutbound -----------------------------
(***************************************************************************)
(* Model checking Outbound: browsers are interchangeable, and so are       *)
(* workers.                                                                *)
(***************************************************************************)
EXTENDS Outbound, TLC

Symmetry == Permutations(Browser) \cup Permutations(Worker)
=============================================================================
