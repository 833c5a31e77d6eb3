---------------------------- MODULE ShopifyIngest ----------------------------
(***************************************************************************)
(* How the products and orders of a brand's shop reach the database:       *)
(* POST /sync (sync_products, then sync_orders, page by page) and          *)
(* POST /webhook (process_order_webhook), running side by side with the    *)
(* brand, which may connect another shop, and with Shopify, which adds,    *)
(* changes and removes items at any time and re-sends a webhook until one  *)
(* is answered with a 200.  The brand keeps one set of tables, whichever   *)
(* shop it is connected to, and no code ever deletes a row of them.        *)
(*                                                                         *)
(* An item is its version number; a stored row is the version its updated  *)
(* columns came from.  Every commit is one action, because that is what    *)
(* other sessions see; a row that is only flushed is visible to nobody and *)
(* stays in the handler's program counter.  A handler or a sync may end at *)
(* any await: the process is killed, or an exception reaches get_db.       *)
(***************************************************************************)
EXTENDS Integers, Sequences, FiniteSets, FiniteSetsExt

CONSTANTS
    Products, Orders,   \* Shopify ids, disjoint; new items get greater ids
    Shops, NoShop,      \* shop domains
    ShopOf,             \* the shop that has each item
    Hooks,              \* webhook deliveries being handled at a time
    Syncs,              \* sync requests being served at a time
    PAGE_SIZE,
    WEBHOOK_UPSERT,     \* how the upsert of a webhook may end
    MAX_VERSION,        \* bound on the versions of an item
    MAX_CHANGES,        \* bound on the items Shopify adds, changes and removes
    MAX_POSTS           \* bound on the deliveries Shopify attempts

Items == Products \cup Orders

(* "ok": the order is written.  "raises": an exception before the statement
   reaches the server (an invalid payload, a raw_data that json.dumps refuses);
   the transaction stays usable.  "db_error": the server refuses the statement;
   the transaction is lost.  In this build a webhook's raw_data always holds the
   datetime of serializers.py:119-124, so its upsert always "raises"; checking
   the three outcomes together covers this build and its repair. *)
UpsertOutcomes == {"ok", "raises", "db_error"}

ASSUME IngestAssumption ==
    /\ Products \subseteq Nat \ {0} /\ Orders \subseteq Nat \ {0}
    /\ IsFiniteSet(Products) /\ IsFiniteSet(Orders)
    /\ Products \cap Orders = {}
    /\ NoShop \notin Shops /\ ShopOf \in [Items -> Shops]
    /\ PAGE_SIZE \in Nat \ {0}
    /\ MAX_VERSION \in Nat \ {0} /\ MAX_CHANGES \in Nat /\ MAX_POSTS \in Nat
    /\ WEBHOOK_UPSERT \subseteq UpsertOutcomes

VARIABLES
    upstream,       \* the version of each item at Shopify, 0 before it exists
    removed,        \* the items that Shopify has no more
    changes,        \* additions, changes and removals so far
    connected,      \* the shop that the brand's row of shopify_connections names
                    \* while is_connected, NoShop while a callback is awaited
    notice,         \* the orders/created webhook of each order, as Shopify sees it
    posts,          \* deliveries attempted so far
    stored,         \* products and orders tables: version stored, 0 for no row
    events,         \* webhook_events: committed rows, oldest first
    hook,           \* the webhook handlers
    sync            \* the sync requests

vars == <<upstream, removed, changes, connected, notice, posts, stored, events,
          hook, sync>>

listing == <<upstream, removed, changes>>
shopify == <<listing, notice, posts>>
database == <<connected, stored, events>>

Versions == 0 .. MAX_VERSION
Tables == {"products", "orders"}
Table(kind) == IF kind = "products" THEN Products ELSE Orders

Event == [external_id: Orders, processed: BOOLEAN]

Hook == [pc: {"idle", "dropping", "checking", "storing", "marking", "answering"},
         order: Orders \cup {0},
         event: Nat]      \* the webhook_events row it has committed and not yet marked, or 0

Sync == [pc: {"idle", "fetching", "upserting", "stamping"},
         shop: Shops \cup {NoShop},      \* connection.shop_domain as it was read
         table: Tables,
         cursor: Items \cup {0},         \* last id of the pages already read
         page: [Items -> Versions],      \* the page in hand, 0 off the page
         more: BOOLEAN,                  \* rel="next" was present
         alone: BOOLEAN]  \* history: since it began nobody else wrote an item
                          \* and Shopify changed nothing

TypeOK ==
    /\ upstream \in [Items -> Versions]
    /\ removed \subseteq Items
    /\ changes \in 0 .. MAX_CHANGES
    /\ connected \in Shops \cup {NoShop}
    /\ notice \in [Orders -> {"none", "unacked", "dropped", "acked"}]
    /\ posts \in 0 .. MAX_POSTS
    /\ stored \in [Items -> Versions]
    /\ events \in Seq(Event)
    /\ hook \in [Hooks -> Hook]
    /\ sync \in [Syncs -> Sync]

-----------------------------------------------------------------------------

NoPage == [i \in Items |-> 0]

IdleHook == [pc |-> "idle", order |-> 0, event |-> 0]
IdleSync == [pc |-> "idle", shop |-> NoShop, table |-> "products",
             cursor |-> 0, page |-> NoPage, more |-> FALSE, alone |-> FALSE]

Init ==
    /\ upstream = NoPage
    /\ removed = {}
    /\ changes = 0
    /\ connected = NoShop
    /\ notice = [o \in Orders |-> "none"]
    /\ posts = 0
    /\ stored = NoPage
    /\ events = <<>>
    /\ hook = [w \in Hooks |-> IdleHook]
    /\ sync = [s \in Syncs |-> IdleSync]

(* The history field alone of every sync but s, when an item is written. *)
Disturbed(s) == [t \in Syncs |-> IF t = s THEN sync[t]
                                 ELSE [sync[t] EXCEPT !.alone = FALSE]]
DisturbAll == sync' = [t \in Syncs |-> [sync[t] EXCEPT !.alone = FALSE]]

-----------------------------------------------------------------------------
(* Shopify and the connection. *)

Counted ==
    /\ changes < MAX_CHANGES
    /\ changes' = changes + 1

(* An item appears, after the items of its kind with smaller ids, or changes;
   an order that appears is announced. *)
Change(i) ==
    /\ Counted
    /\ upstream[i] < MAX_VERSION /\ i \notin removed
    /\ \A kind \in Tables : i \in Table(kind) =>
          \A j \in Table(kind) : j < i => upstream[j] > 0
    /\ upstream' = [upstream EXCEPT ![i] = @ + 1]
    /\ notice' = [o \in Orders |-> IF o = i /\ notice[o] = "none" THEN "unacked"
                                   ELSE notice[o]]
    /\ DisturbAll
    /\ UNCHANGED <<removed, posts, database, hook>>

Remove(i) ==
    /\ Counted
    /\ upstream[i] > 0 /\ i \notin removed
    /\ removed' = removed \cup {i}
    /\ DisturbAll
    /\ UNCHANGED <<upstream, notice, posts, database, hook>>

(* /connect clears is_connected and names a shop, perhaps another one than before;
   the callback connects it (module ShopifyOAuth).  The tables stay as they are. *)
Connect ==
    /\ connected' = NoShop
    /\ UNCHANGED <<shopify, stored, events, hook, sync>>

Callback(d) ==
    /\ connected = NoShop
    /\ connected' = d
    /\ UNCHANGED <<shopify, stored, events, hook, sync>>

-----------------------------------------------------------------------------
(* POST /webhook. *)

Goto(w, pc) == hook' = [hook EXCEPT ![w].pc = pc]

(* Faulty variants, one plausible slip each, used by no action: they show that
   the properties below can fail. *)

\* forgets which order the event is about
NewEventUnnamed(o) == [external_id |-> 0, processed |-> FALSE]

\* records the event as processed before it is
NewEventProcessed(o) == [external_id |-> o, processed |-> TRUE]

\* answers 200 although the transaction was rolled back
UpsertAbortsAnswered(w) ==
    /\ hook[w].pc = "storing"
    /\ "db_error" \in WEBHOOK_UPSERT
    /\ Goto(w, "answering")
    /\ UNCHANGED <<shopify, database, sync>>

\* ON CONFLICT DO NOTHING: a row of the page never replaces what is stored
MergedNewOnly(page) == [i \in Items |-> IF stored[i] > 0 THEN stored[i] ELSE page[i]]

(* Shopify posts an unanswered webhook, perhaps while an earlier attempt is still
   being handled; the handler's first statement looks for a connected row with the
   order's shop.  Before it the handler reads nothing that can change. *)
Post(w, o, pc) ==
    /\ hook[w].pc = "idle"
    /\ notice[o] = "unacked"
    /\ posts < MAX_POSTS
    /\ posts' = posts + 1
    /\ hook' = [hook EXCEPT ![w] = [pc |-> pc, order |-> o, event |-> 0]]
    /\ UNCHANGED <<listing, notice, database, sync>>

\* slip: does not find the row of a connected shop either
MissWhoever(w, o) == Post(w, o, "dropping")

Miss(w, o) == connected # ShopOf[o] /\ Post(w, o, "dropping")

Resolve(w, o) == connected = ShopOf[o] /\ Post(w, o, "checking")

(* The 200 that ends a delivery, unless it is lost on the way. *)
Answer(w, verdict, heard) ==
    /\ notice' = [notice EXCEPT ![hook[w].order] =
                    IF heard /\ @ = "unacked" THEN verdict ELSE @]
    /\ hook' = [hook EXCEPT ![w] = IdleHook]
    /\ UNCHANGED <<listing, posts>>

(* No connected brand had this shop: the webhook is acknowledged and dropped,
   whoever has connected since. *)
Drop(w, heard) ==
    /\ hook[w].pc = "dropping"
    /\ Answer(w, "dropped", heard)
    /\ UNCHANGED <<database, sync>>

EventsOf(o) == {n \in DOMAIN events : events[n].external_id = o}

(* The event found, if any: the query has no ORDER BY, so .first() may be any
   of the order's rows; 0 stands for none. *)
Found(o) == IF EventsOf(o) = {} THEN {0} ELSE EventsOf(o)

IsDuplicate(n) == n # 0 /\ events[n].processed

Check(w) ==
    /\ hook[w].pc = "checking"
    /\ \E n \in Found(hook[w].order) :
          Goto(w, IF IsDuplicate(n) THEN "answering" ELSE "storing")
    /\ UNCHANGED <<shopify, database, sync>>

(* The version a webhook carries: the order as it was when created. *)
PayloadVersion == 1

NewEvent(o) == [external_id |-> o, processed |-> FALSE]

(* The commit inside _upsert_orders makes the flushed event durable together
   with the order. *)
UpsertOrder(w) ==
    LET o == hook[w].order IN
    /\ hook[w].pc = "storing"
    /\ "ok" \in WEBHOOK_UPSERT
    /\ stored' = [stored EXCEPT ![o] = PayloadVersion]
    /\ events' = Append(events, NewEvent(o))
    /\ hook' = [hook EXCEPT ![w].pc = "marking", ![w].event = Len(events')]
    /\ DisturbAll
    /\ UNCHANGED <<shopify, connected>>

(* The exception is caught, noted in processing_error, and the event committed
   as it is. *)
UpsertRaises(w) ==
    /\ hook[w].pc = "storing"
    /\ "raises" \in WEBHOOK_UPSERT
    /\ events' = Append(events, NewEvent(hook[w].order))
    /\ Goto(w, "answering")
    /\ UNCHANGED <<shopify, connected, stored, sync>>

(* The exception is caught, but the server has given the transaction up: the
   commit that follows raises, get_db rolls back, and Shopify gets a 500. *)
UpsertAborts(w) ==
    /\ hook[w].pc = "storing"
    /\ "db_error" \in WEBHOOK_UPSERT
    /\ hook' = [hook EXCEPT ![w] = IdleHook]
    /\ UNCHANGED <<shopify, database, sync>>

MarkProcessed(w) ==
    /\ hook[w].pc = "marking"
    /\ events' = [events EXCEPT ![hook[w].event].processed = TRUE]
    /\ hook' = [hook EXCEPT ![w].pc = "answering", ![w].event = 0]
    /\ UNCHANGED <<shopify, connected, stored, sync>>

Acknowledge(w, heard) ==
    /\ hook[w].pc = "answering"
    /\ Answer(w, "acked", heard)
    /\ UNCHANGED <<database, sync>>

KillHook(w) ==
    /\ hook[w].pc # "idle"
    /\ hook' = [hook EXCEPT ![w] = IdleHook]
    /\ UNCHANGED <<shopify, database, sync>>

-----------------------------------------------------------------------------
(* POST /sync. *)

StartSync(s) ==
    /\ sync[s].pc = "idle"
    /\ connected # NoShop
    /\ sync' = [sync EXCEPT ![s] = [IdleSync EXCEPT !.pc = "fetching", !.alone = TRUE,
                                                   !.shop = connected]]
    /\ UNCHANGED <<shopify, database, hook>>

(* The items a shop lists, those of a kind beyond a cursor, and the ids of the
   next page of them. *)
Listed(d) == {i \in Items : ShopOf[i] = d /\ upstream[i] > 0 /\ i \notin removed}
Beyond(q) == {i \in Listed(q.shop) \cap Table(q.table) : i > q.cursor}
PageIds(q) == {i \in Beyond(q) : Cardinality({j \in Beyond(q) : j < i}) < PAGE_SIZE}

\* slip: asks for the shop that the connection names now
FetchedAfresh(q) ==
    LET p == [q EXCEPT !.shop = connected] IN
    [q EXCEPT !.pc = "upserting",
              !.cursor = Max(PageIds(p) \cup {q.cursor}),
              !.page = [i \in Items |-> IF i \in PageIds(p) THEN upstream[i] ELSE 0],
              !.more = PageIds(p) # Beyond(p)]

(* get_with_headers returns the page and its Link header. *)
Fetched(q) ==
    [q EXCEPT !.pc = "upserting",
              !.cursor = Max(PageIds(q) \cup {q.cursor}),
              !.page = [i \in Items |-> IF i \in PageIds(q) THEN upstream[i] ELSE 0],
              !.more = PageIds(q) # Beyond(q)]

Fetch(s) ==
    /\ sync[s].pc = "fetching"
    /\ sync' = [sync EXCEPT ![s] = Fetched(sync[s])]
    /\ UNCHANGED <<shopify, database, hook>>

(* ON CONFLICT DO UPDATE: a row of the page replaces what is stored. *)
Merged(page) == [i \in Items |-> IF page[i] = 0 THEN stored[i] ELSE page[i]]

UpsertPage(s) ==
    LET q == sync[s] IN
    /\ q.pc = "upserting"
    /\ stored' = Merged(q.page)
    /\ sync' = [Disturbed(s) EXCEPT ![s].pc = IF q.more THEN "fetching" ELSE "stamping",
                                    ![s].page = NoPage]
    /\ UNCHANGED <<shopify, connected, events, hook>>

NextPhase(q) ==
    IF q.table = "products"
    THEN [q EXCEPT !.pc = "fetching", !.table = "orders", !.cursor = 0]
    ELSE IdleSync

(* Each half of the sync stamps last_synced_at when its pages are in: nothing here
   reads it (what the stamp writes to the connection row is in module
   ShopifyOAuth). *)
Stamp(s) ==
    /\ sync[s].pc = "stamping"
    /\ sync' = [sync EXCEPT ![s] = NextPhase(sync[s])]
    /\ UNCHANGED <<shopify, database, hook>>

(* A fetch out of retries, a failed statement, a killed process: the pages
   already committed stay. *)
KillSync(s) ==
    /\ sync[s].pc # "idle"
    /\ sync' = [sync EXCEPT ![s] = IdleSync]
    /\ UNCHANGED <<shopify, database, hook>>

-----------------------------------------------------------------------------

HandleHook(w) ==
    \/ Check(w) \/ UpsertOrder(w) \/ UpsertRaises(w) \/ UpsertAborts(w) \/ MarkProcessed(w)
    \/ \E heard \in BOOLEAN : Drop(w, heard) \/ Acknowledge(w, heard)

Next ==
    \/ \E i \in Items : Change(i) \/ Remove(i)
    \/ Connect \/ \E d \in Shops : Callback(d)
    \/ \E w \in Hooks, o \in Orders : Miss(w, o) \/ Resolve(w, o)
    \/ \E w \in Hooks : HandleHook(w) \/ KillHook(w)
    \/ \E s \in Syncs : StartSync(s) \/ Fetch(s) \/ UpsertPage(s) \/ Stamp(s) \/ KillSync(s)

Spec == Init /\ [][Next]_vars

(* A handler that is not killed goes on; nothing obliges Shopify, the brand or
   the crash to act. *)
FairSpec == Spec /\ \A w \in Hooks : WF_vars(HandleHook(w))

-----------------------------------------------------------------------------

(* A webhook event says it was processed only when its order is in the orders
   table, whatever crashes, retries and duplicates came in between
   (service.py:419-426): the order is committed first. *)
ProcessedIsStored ==
    \A n \in DOMAIN events :
        events[n].processed => stored[events[n].external_id] > 0

(* Persist first (service.py:419-420, models/__init__.py:304-305): Shopify is
   told to stop re-sending an order only when the event is durable, or when the
   shop was looked for and found connected to nobody ("dropped", kept apart). *)
AcknowledgedIsRecorded ==
    \A o \in Orders : notice[o] = "acked" => EventsOf(o) # {}

(* The items a sync has been through by the end of its half for this table. *)
Through(table) == IF table = "products" THEN Products ELSE Items

(* A sync that nothing interfered with ends each half with every item that its
   shop lists in the tables it has been through, at its present version, whatever
   earlier syncs, webhooks and other shops left there (service.py:32, "safe to
   retry at any point"): it skips nothing at a page boundary, its orders' half
   undoes nothing of the products', and a reconnect meanwhile does not turn it to
   another shop.  Rows of items that Shopify has removed, or of a former shop, are
   left as they are: a sync brings the tables up to date and never cleans them. *)
SyncCatchesUp ==
    \A s \in Syncs :
        sync[s].pc = "stamping" /\ sync[s].alone =>
            \A i \in Through(sync[s].table) \cap Listed(sync[s].shop) :
                stored[i] = upstream[i]

(* What Shopify and the readers of the tables may rely on (service.py:410-426,
   models/__init__.py:304-305): however deliveries, duplicates, syncs, reconnects
   and crashes interleave, the webhooks are handled as InboxContract says. *)
Implemented == INSTANCE InboxContract WITH
    reachable <- {o \in Orders : connected = ShopOf[o]},
    missed <- {o \in Orders : \E w \in Hooks : hook[w].pc = "dropping" /\ hook[w].order = o},
    recorded <- {o \in Orders : EventsOf(o) # {}},
    filed <- {o \in Orders : stored[o] > 0},
    settled <- {o \in Orders : \E n \in EventsOf(o) : events[n].processed}

KeepsContract == Implemented!Contract

(* service.py:419-426: "Attempt to upsert the order", "Mark as processed=True",
   and "even a crash between steps 3 and 4 can be recovered by re-running
   unprocessed events": an event that is in does not stay unprocessed. *)
EventuallyProcessed ==
    \A o \in Orders : (EventsOf(o) # {}) ~>
        \E n \in EventsOf(o) : events[n].processed
=============================================================================
