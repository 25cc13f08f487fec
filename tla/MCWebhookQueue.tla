--------------------------- MODULE MCWebhookQueue ---------------------------
(* Model-checking instance of WebhookQueue: two deliveries, and two hooks of *)
(* which one has a secret that cannot be decrypted.                        *)
EXTENDS WebhookQueue
=============================================================================
