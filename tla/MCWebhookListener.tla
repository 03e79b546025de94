------------------------- MODULE MCWebhookListener -------------------------
(* Three episodes of a season pack and one restart of the process.          *)
EXTENDS WebhookListener

CONSTANTS e1, e2, e3
MCEvent == {e1, e2, e3}
=============================================================================
