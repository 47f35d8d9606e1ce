------------------------------- MODULE MCWebhook -------------------------------
(* Instances of WebhookDelivery for TLC. *)
EXTENDS WebhookDelivery
=============================================================================
