------------------------------- MODULE MCTls -------------------------------
(***************************************************************************)
(* Model checking Tls: one of two names is stored at first, and the DNS    *)
(* provider wants one credential.                                          *)
(***************************************************************************)
EXTENDS Tls
=============================================================================
