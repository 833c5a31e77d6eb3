---------------------------- MODULE InboxContract ----------------------------
(***************************************************************************)
(* What becomes of the orders/created webhooks of one brand, as the        *)
(* docstrings of process_order_webhook and WebhookEvent promise it, without *)
(* handlers, duplicates, pages or crashes: an event is recorded before     *)
(* Shopify is told that its order was received, an order is filed before   *)
(* its event counts as processed, and nothing recorded, filed or processed *)
(* is ever lost.  An order is given up only after its shop was looked for  *)
(* and found connected to nobody; by the time Shopify is told, it may be   *)
(* connected again.                                                        *)
(***************************************************************************)
CONSTANT Orders

VARIABLES
    notice,     \* per order: "none", "unacked", "dropped" or "acked"
    reachable,  \* the orders whose shop is connected to the brand
    missed,     \* the orders whose shop was just found not connected
    recorded,   \* the orders with a webhook event
    filed,      \* the orders with a row in the orders table
    settled     \* the orders with a processed event

inbox == <<notice, reachable, missed, recorded, filed, settled>>

Known == {o \in Orders : notice[o] # "none"}

Empty ==
    /\ notice = [o \in Orders |-> "none"]
    /\ reachable \subseteq Orders
    /\ missed = {} /\ recorded = {} /\ filed = {} /\ settled = {}

Announce(o) ==
    /\ notice[o] = "none"
    /\ notice' = [notice EXCEPT ![o] = "unacked"]
    /\ UNCHANGED <<reachable, missed, recorded, filed, settled>>

(* The brand disconnects, connects or turns to another shop. *)
Switch ==
    /\ reachable' \in SUBSET Orders
    /\ UNCHANGED <<notice, missed, recorded, filed, settled>>

(* A webhook's event is in, with or without its order. *)
Record(o) ==
    /\ o \in Known
    /\ recorded' = recorded \cup {o}
    /\ filed' \in {filed, filed \cup {o}}
    /\ UNCHANGED <<notice, reachable, missed, settled>>

(* A sync brings in orders of a page. *)
File ==
    /\ filed \subseteq filed' /\ filed' \subseteq filed \cup Known
    /\ UNCHANGED <<notice, reachable, missed, recorded, settled>>

Settle(o) ==
    /\ o \in recorded \cap filed
    /\ settled' = settled \cup {o}
    /\ UNCHANGED <<notice, reachable, missed, recorded, filed>>

Acknowledge(o) ==
    /\ notice[o] = "unacked" /\ o \in recorded
    /\ notice' = [notice EXCEPT ![o] = "acked"]
    /\ UNCHANGED <<reachable, missed, recorded, filed, settled>>

Miss(o) ==
    /\ o \in Known \ reachable
    /\ missed' = missed \cup {o}
    /\ UNCHANGED <<notice, reachable, recorded, filed, settled>>

Drop(o) ==
    /\ notice[o] = "unacked" /\ o \in missed
    /\ notice' = [notice EXCEPT ![o] = "dropped"]
    /\ missed' \in {missed, missed \ {o}}     \* another delivery of it may be about to
    /\ UNCHANGED <<reachable, recorded, filed, settled>>

(* The answer is lost, or no longer awaited. *)
Forget(o) ==
    /\ missed' = missed \ {o}
    /\ UNCHANGED <<notice, reachable, recorded, filed, settled>>

Step ==
    \/ Switch \/ File
    \/ \E o \in Orders :
          \/ Announce(o) \/ Record(o) \/ Settle(o) \/ Acknowledge(o)
          \/ Miss(o) \/ Drop(o) \/ Forget(o)

Contract == Empty /\ [][Step]_inbox
=============================================================================
