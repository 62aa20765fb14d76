----------------------------- MODULE MCJobQueue -----------------------------
(***************************************************************************)
(* Two goroutines, of one process or of two, for model checking JobQueue.  *)
(***************************************************************************)
EXTENDS JobQueue, TLC

CONSTANTS w1, w2, p1, p2

OnePool == w1 :> p1 @@ w2 :> p1
TwoPools == w1 :> p1 @@ w2 :> p2

NoSkew == w1 :> 0 @@ w2 :> 0
=============================================================================
