----------------------------- MODULE MCWebhook -----------------------------
(* Webhook on small instances. *)
EXTENDS Webhook, TLC

=============================================================================
