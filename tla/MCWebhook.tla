------------------------------- MODULE MCWebhook -------------------------------
(* The outgoing webhooks on a small instance.                                 *)
EXTENDS WebhookDelivery

CONSTANTS d1, d2, p1, p2, a1
================================================================================
