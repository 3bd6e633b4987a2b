------------------------- MODULE MCWebhookDelivery --------------------------
(* Instances of WebhookDelivery for TLC.  No symmetry: it has liveness.      *)
EXTENDS WebhookDelivery
=============================================================================
