----------------------------- MODULE MCCompose -----------------------------
(***************************************************************************)
(* Model checking Compose: one address, one file, two pages, two drafts,   *)
(* two versions of the content, two requests at a time.                    *)
(***************************************************************************)
EXTENDS Compose
=============================================================================
