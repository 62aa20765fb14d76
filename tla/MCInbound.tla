----------------------------- MODULE MCInbound -----------------------------
(***************************************************************************)
(* Model checking Inbound: m1 goes to an alias of two users, m2 to one of  *)
(* them directly and with the same subject, m3 to an address that only the *)
(* catch-all user takes; in Inbound.cfg the sender of m2 is on both lists, *)
(* and that of m3 is blacklisted.                                          *)
(***************************************************************************)
EXTENDS Inbound, TLC

CONSTANTS m1, m2, m3, u1, u2, sales, ann, other, hello, long

MCTo == m1 :> sales @@ m2 :> ann @@ m3 :> other
MCOwner == sales :> None @@ ann :> u1 @@ other :> None
MCSubject == m1 :> hello @@ m2 :> hello @@ m3 :> long
MCAlias == sales :> {u1, u2} @@ ann :> {} @@ other :> {}

Symmetry == Permutations(Worker)
=============================================================================
