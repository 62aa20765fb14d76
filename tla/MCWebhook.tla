------------------------------ MODULE MCWebhook ------------------------------
(***************************************************************************)
(* Three events, two of which belong to one message, for model checking    *)
(* Webhook.                                                                *)
(***************************************************************************)
EXTENDS Webhook, TLC

CONSTANTS e1, e2, e3, k1

(* Two events of one message and one that carries no MessageID.            *)
OneShared == e1 :> k1 @@ e2 :> k1 @@ e3 :> NoId

(* One event of one message.                                               *)
OneEvent == e1 :> k1
=============================================================================
