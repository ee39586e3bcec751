--------------------------- MODULE WebhookDelivery ---------------------------
(***************************************************************************)
(* What the webhook worker promises of a delivery, whatever queues and     *)
(* processes it takes: it is attempted up to MaxAttempts times, never      *)
(* again once the receiver has acknowledged it, and it is given up only    *)
(* after the last attempt.  WebhookDispatcher implements this.             *)
(***************************************************************************)
EXTENDS Naturals

CONSTANTS Deliveries, MaxAttempts

VARIABLES
  delivery,   \* what has become of each delivery
  tries       \* POST requests sent for it

Outcomes == {"new", "pending", "delivered", "dead", "discarded", "lost"}

DeliveryInit ==
  /\ delivery = [d \in Deliveries |-> "new"]
  /\ tries = [d \in Deliveries |-> 0]

Become(d, from, to) ==
  /\ delivery[d] = from
  /\ delivery' = [delivery EXCEPT ![d] = to]

Request(d) == Become(d, "new", "pending") /\ UNCHANGED tries

(* A POST, acknowledged with a 2xx or not.                                 *)
Try(d) ==
  /\ tries[d] < MaxAttempts
  /\ tries' = [tries EXCEPT ![d] = @ + 1]
  /\ Become(d, "pending", "pending") \/ Become(d, "pending", "delivered")

GiveUp(d) ==
  /\ tries[d] = MaxAttempts
  /\ Become(d, "pending", "dead")
  /\ UNCHANGED tries

(* A delivery of a webhook without url.                                    *)
Discard(d) == Become(d, "pending", "discarded") /\ UNCHANGED tries

(* A worker stops, or fails on a Redis error, with these in its hands.     *)
Lose(some) ==
  /\ \A d \in some : delivery[d] = "pending"
  /\ delivery' = [d \in Deliveries |-> IF d \in some THEN "lost" ELSE delivery[d]]
  /\ UNCHANGED tries

DeliveryNext ==
  \/ \E d \in Deliveries : Request(d) \/ Try(d) \/ GiveUp(d) \/ Discard(d)
  \/ \E some \in SUBSET Deliveries : Lose(some)

DeliverySpec == DeliveryInit /\ [][DeliveryNext]_<<delivery, tries>>
=============================================================================
