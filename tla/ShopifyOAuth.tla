---------------------------- MODULE ShopifyOAuth ----------------------------
(***************************************************************************)
(* The Shopify connection of a brand: POST /connect, GET /callback and the *)
(* two ends of POST /sync, as they read and write the single row that      *)
(* shopify_connections holds per brand (app/models/__init__.py:169-195).   *)
(*                                                                         *)
(* Every request has a database session of its own at READ COMMITTED.      *)
(* /connect is one upsert and its commit, hence one action.  A callback    *)
(* reads the row in one statement and commits an UPDATE of the columns it  *)
(* assigned in another; a sync reads the row, awaits page after page, and  *)
(* commits an UPDATE of last_synced_at.  Between the two halves of either, *)
(* any other request may commit.                                           *)
(***************************************************************************)
EXTENDS Integers, Sequences

CONSTANTS
    Brands,
    Shops,
    Requests,       \* callback and sync requests being served at a time
    MAX_CONNECTS,   \* bound on the calls of /connect
    NoRow,          \* a brand that never called /connect
    NoShop          \* no token, or never synced

VARIABLES
    row,        \* shopify_connections: the brand's row, or NoRow
    issued,     \* the states handed out by /connect, in order: issued[n] is the
                \* brand and shop that state n authorises
    request,    \* the requests in progress
    latest,     \* history: the last state issued to each brand, 0 before
    consumed,   \* history: consumed[n] callbacks have accepted state n
    overtaken   \* history: the brand's row was completed by a callback that had
                \* read it before the latest /connect

vars == <<row, issued, request, latest, consumed, overtaken>>

NULL == 0   \* no oauth_state

States == 1 .. MAX_CONNECTS

Connection ==
    [shop_domain: Shops,
     oauth_state: States \cup {NULL},
     is_connected: BOOLEAN,
     access_token: Shops \cup {NoShop},     \* the shop the token is for
     last_synced: Shops \cup {NoShop}]      \* the shop the last stamped sync read

ASSUME OAuthAssumption ==
    /\ MAX_CONNECTS \in Nat
    /\ NoRow \notin Connection
    /\ NoShop \notin Shops

Request ==
    [pc: {"idle", "exchanging", "syncing", "not_found", "mismatch", "refused",
          "done", "aborted"},
     brand: Brands,
     shop: Shops,
     state: States \cup {NULL}]

TypeOK ==
    /\ row \in [Brands -> Connection \cup {NoRow}]
    /\ issued \in Seq([brand: Brands, shop: Shops])
    /\ Len(issued) <= MAX_CONNECTS
    /\ request \in [Requests -> Request]
    /\ latest \in [Brands -> 0 .. Len(issued)]
    /\ consumed \in [States -> Nat]
    /\ overtaken \in [Brands -> BOOLEAN]

-----------------------------------------------------------------------------

Init ==
    /\ row = [b \in Brands |-> NoRow]
    /\ issued = <<>>
    /\ request \in [Requests -> [pc: {"idle"}, brand: Brands, shop: Shops, state: {NULL}]]
    /\ latest = [b \in Brands |-> 0]
    /\ consumed = [n \in States |-> 0]
    /\ overtaken = [b \in Brands |-> FALSE]

(* Faulty variants, one plausible slip each, used by no action: they show that
   the properties below can fail. *)

\* inserts a row without its shop
PendingWithoutShop(old, shop, state) ==
    IF old = NoRow
    THEN [shop_domain |-> NoShop, oauth_state |-> state, is_connected |-> FALSE,
          access_token |-> NoShop, last_synced |-> NoShop]
    ELSE [old EXCEPT !.oauth_state = state, !.is_connected = FALSE]

\* puts a fresh row in place of the old one
PendingAfresh(old, shop, state) ==
    [shop_domain |-> shop, oauth_state |-> state, is_connected |-> FALSE,
     access_token |-> NoShop, last_synced |-> NoShop]

\* leaves a reconnecting brand connected
PendingStillConnected(old, shop, state) ==
    IF old = NoRow
    THEN [shop_domain |-> shop, oauth_state |-> state, is_connected |-> FALSE,
          access_token |-> NoShop, last_synced |-> NoShop]
    ELSE [old EXCEPT !.shop_domain = shop, !.oauth_state = state]

\* does not consume the state
CompletedKeepsState(old, q) ==
    [old EXCEPT !.access_token = q.shop, !.is_connected = TRUE]

\* writes the whole row back as the callback read it
CompletedWholeRow(old, q) ==
    [old EXCEPT !.access_token = q.shop, !.is_connected = TRUE,
                !.oauth_state = NULL, !.shop_domain = q.shop]

Busy(r) == request[r].pc \in {"exchanging", "syncing"}

(* The row a /connect leaves: a fresh one, or the old one with shop_domain,
   oauth_state and is_connected overwritten and everything else kept. *)
Pending(old, shop, state) ==
    IF old = NoRow
    THEN [shop_domain |-> shop, oauth_state |-> state, is_connected |-> FALSE,
          access_token |-> NoShop, last_synced |-> NoShop]
    ELSE [old EXCEPT !.shop_domain = shop, !.oauth_state = state,
                     !.is_connected = FALSE]

Connect(b, shop) ==
    LET state == Len(issued) + 1 IN
    /\ Len(issued) < MAX_CONNECTS
    /\ row' = [row EXCEPT ![b] = Pending(@, shop, state)]
    /\ issued' = Append(issued, [brand |-> b, shop |-> shop])
    /\ latest' = [latest EXCEPT ![b] = state]
    /\ overtaken' = [overtaken EXCEPT ![b] = FALSE]
    /\ UNCHANGED <<request, consumed>>

\* slip: a brand with no callback pending accepts any
VerdictPendingOnly(b, shop, n) ==
    IF row[b] = NoRow \/ row[b].shop_domain # shop THEN "not_found"
    ELSE IF row[b].oauth_state = NULL THEN "mismatch"
    ELSE "exchanging"

(* What a callback to brand b for this shop and state finds in the row. *)
Verdict(b, shop, n) ==
    IF row[b] = NoRow \/ row[b].shop_domain # shop THEN "not_found"
    ELSE IF row[b].oauth_state # n THEN "mismatch"
    ELSE "exchanging"

(* The brand is the one of the user who is logged in, shop and state are query
   parameters: any shop, and any state issued so far, the latest one of this
   brand, an older one, one of another brand, or one that came back already. *)
CallbackRead(r, b, shop, n) ==
    /\ ~Busy(r)
    /\ request' = [request EXCEPT ![r] =
                     IF Verdict(b, shop, n) = "exchanging"
                     THEN [pc |-> "exchanging", brand |-> b, shop |-> shop, state |-> n]
                     ELSE [@ EXCEPT !.pc = Verdict(b, shop, n)]]
    /\ UNCHANGED <<row, issued, latest, consumed, overtaken>>

(* The UPDATE names only the columns the callback assigned. *)
Completed(old, q) ==
    [old EXCEPT !.access_token = q.shop, !.is_connected = TRUE,
                !.oauth_state = NULL]

CallbackCommit(r) ==
    LET q == request[r] IN
    /\ q.pc = "exchanging"
    /\ row' = [row EXCEPT ![q.brand] = Completed(@, q)]
    /\ consumed' = [consumed EXCEPT ![q.state] = @ + 1]
    /\ overtaken' = [overtaken EXCEPT ![q.brand] = @ \/ latest[q.brand] # q.state]
    /\ request' = [request EXCEPT ![r].pc = "done"]
    /\ UNCHANGED <<issued, latest>>

SyncStart(r, b) ==
    /\ ~Busy(r)
    /\ LET active == row[b] # NoRow /\ row[b].is_connected IN
       request' = [request EXCEPT ![r] =
                     IF active
                     THEN [pc |-> "syncing", brand |-> b,
                           shop |-> row[b].shop_domain, state |-> NULL]
                     ELSE [@ EXCEPT !.pc = "refused"]]
    /\ UNCHANGED <<row, issued, latest, consumed, overtaken>>

\* slip: marks the connection as working
StampedHealthy(old, q) ==
    [old EXCEPT !.last_synced = q.shop, !.is_connected = TRUE, !.oauth_state = NULL]

Stamped(old, q) == [old EXCEPT !.last_synced = q.shop]

(* sync_products and sync_orders each stamp last_synced_at when their pages are
   in; the request ends after the second. *)
SyncStamp(r, last) ==
    LET q == request[r] IN
    /\ q.pc = "syncing"
    /\ row' = [row EXCEPT ![q.brand] = Stamped(@, q)]
    /\ request' = [request EXCEPT ![r].pc = IF last THEN "done" ELSE @]
    /\ UNCHANGED <<issued, latest, consumed, overtaken>>

(* A crash, a database error or an upstream error before the commit: get_db
   rolls back and nothing of the request is left. *)
Abort(r) ==
    /\ Busy(r)
    /\ request' = [request EXCEPT ![r].pc = "aborted"]
    /\ UNCHANGED <<row, issued, latest, consumed, overtaken>>

Next ==
    \/ \E b \in Brands, shop \in Shops : Connect(b, shop)
    \/ \E r \in Requests, b \in Brands, shop \in Shops, n \in DOMAIN issued :
          CallbackRead(r, b, shop, n)
    \/ \E r \in Requests, b \in Brands : SyncStart(r, b)
    \/ \E r \in Requests, last \in BOOLEAN : SyncStamp(r, last)
    \/ \E r \in Requests : CallbackCommit(r) \/ Abort(r)

Spec == Init /\ [][Next]_vars

-----------------------------------------------------------------------------

(* A row is either waiting for its callback or connected, never both and never
   neither, whatever callbacks and reconnects interleave: the two columns are
   always written together (service.py:97, :147-148). *)
PendingIffDisconnected ==
    \A b \in Brands : row[b] # NoRow =>
        (row[b].oauth_state = NULL <=> row[b].is_connected)

(* What the latest /connect wrote stands, whatever requests had read the row
   before it (service.py:88-97): the row names the shop it was called for, and
   awaits the state it handed out until a callback with that very state has
   completed the row, or one that was past its checks when /connect committed.
   Such a callback, and nothing else, takes a state away that was not its own. *)
LatestConnectStands ==
    \A b \in Brands : row[b] # NoRow =>
        /\ latest[b] # 0
        /\ issued[latest[b]] = [brand |-> b, shop |-> row[b].shop_domain]
        /\ \/ row[b].oauth_state = latest[b]
           \/ /\ row[b].oauth_state = NULL
              /\ consumed[latest[b]] > 0 \/ overtaken[b]

(* A token is stored only for a shop whose merchant came back with a state that
   was issued to this very brand for this very shop (service.py:135-146). *)
TokenWasGranted ==
    \A b \in Brands : row[b] # NoRow /\ row[b].access_token # NoShop =>
        \E n \in DOMAIN issued :
            /\ issued[n] = [brand |-> b, shop |-> row[b].access_token]
            /\ consumed[n] > 0

(* A connected brand syncs with a token of the shop its row names, unless a
   callback overtaken by a newer /connect completed the row: that race is the
   only way to a row that pairs one shop with another shop's token. *)
TokenMatchesShop ==
    \A b \in Brands :
        row[b] # NoRow /\ row[b].is_connected /\ ~overtaken[b]
            => row[b].access_token = row[b].shop_domain

(* What the endpoints rely on, of the writes as well as of what they leave.  Only a
   /connect takes a brand off line, and it hands out a state of its own for it
   (service.py:91-98); only a callback that brought back the awaited state and shop
   brings the brand on line, and the token is for the shop it brought
   (service.py:135-148).  The stamp of a sync and a step of another brand do
   neither, and no callback completes a row that did not let it in. *)
Implemented == INSTANCE OAuthContract WITH
    Tickets <- States,
    Accounts <- Shops,
    Visitors <- Requests,
    None <- NoShop,
    issued <- DOMAIN issued,
    awaited <- [b \in Brands |->
                  IF row[b] = NoRow \/ row[b].oauth_state = NULL THEN {}
                  ELSE [brand: {b}, ticket: {row[b].oauth_state},
                        account: {row[b].shop_domain}]],
    online <- [b \in Brands |-> row[b] # NoRow /\ row[b].is_connected],
    token <- [b \in Brands |-> IF row[b] = NoRow THEN NoShop
                               ELSE row[b].access_token],
    visit <- [r \in Requests |->
                IF request[r].pc = "exchanging"
                THEN {[brand |-> request[r].brand, ticket |-> request[r].state,
                       account |-> request[r].shop]}
                ELSE {}]

KeepsContract == Implemented!Contract

(* service.py:148, "consume the state -- prevent replay": no state completes
   two callbacks. *)
StateConsumedOnce == \A n \in States : consumed[n] <= 1
=============================================================================
