------------------------- MODULE MCWebhookDelivery -------------------------
(* Instances of WebhookDelivery for TLC.                                    *)
EXTENDS WebhookDelivery, TLC

CONSTANTS n1, n2, h1, h2, e1, e2

OneEvent  == {<<h1, e1>>, <<h2, e1>>}
TwoEvents == {<<h1, e1>>, <<h1, e2>>}
=============================================================================
