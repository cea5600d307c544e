------------------------- MODULE MCWebhookDelivery -------------------------
(* Instances of WebhookDelivery for TLC.                                     *)
EXTENDS WebhookDelivery

CONSTANTS d1, w1, w2
=============================================================================
