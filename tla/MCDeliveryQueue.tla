--------------------------- MODULE MCDeliveryQueue ---------------------------
(* TLC instances of DeliveryQueue: one event, so an email and a webhook. *)
EXTENDS DeliveryQueue, TLC

CONSTANT e1
=============================================================================
