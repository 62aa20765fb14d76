------------------------------ MODULE MCInbox ------------------------------
(***************************************************************************)
(* Model checking Inbox: two labels, pages of one message.                 *)
(***************************************************************************)
EXTENDS Inbox
=============================================================================
