------------------------- MODULE MCWebhookDispatcher -------------------------
(* WebhookDispatcher with two workers and three deliveries, one without a  *)
(* url.                                                                    *)
EXTENDS WebhookDispatcher
CONSTANTS d1, d2, d3, w1, w2, none

MCDeliveries == {d1, d2, d3}
MCUrlless == {d3}
MCWorkers == {w1, w2}
=============================================================================
