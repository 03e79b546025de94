----------------------------- MODULE AtMostOnce -----------------------------
(***************************************************************************)
(* What the webhook listener promises of Plex's events, without threads,   *)
(* queue or answers (scripts/plex-webhook-listener.py): an event that came *)
(* is shown or given up, once, and no event is shown after that or before. *)
(***************************************************************************)
EXTENDS Naturals

CONSTANT Message

VARIABLES
  arrived,   \* messages that were acknowledged
  pending,   \* those of which neither is true: shown, given up
  shown      \* per message: how often it is shown

deliveryVars == <<arrived, pending, shown>>

DeliveryInit == arrived = {} /\ pending = {} /\ shown = [m \in Message |-> 0]

Arrives(m) ==
  /\ m \notin arrived
  /\ arrived' = arrived \cup {m} /\ pending' = pending \cup {m}
  /\ UNCHANGED shown

IsShown(m) ==
  /\ m \in pending /\ pending' = pending \ {m}
  /\ shown' = [shown EXCEPT ![m] = @ + 1]
  /\ UNCHANGED arrived

\* One that is refused or unusable, or all that are pending when the process ends.
AreGivenUp ==
  /\ pending' \subseteq pending
  /\ UNCHANGED <<arrived, shown>>

DeliveryNext == AreGivenUp \/ \E m \in Message : Arrives(m) \/ IsShown(m)

DeliverySpec == DeliveryInit /\ [][DeliveryNext]_deliveryVars
=============================================================================
