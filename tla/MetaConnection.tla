--------------------------- MODULE MetaConnection ---------------------------
(***************************************************************************)
(* The Meta Ads connection of one brand and the sync of its campaign       *)
(* insights: POST /connect, GET /callback and POST /sync of meta_logic.py  *)
(* over integrations/meta/service.py.  Every statement of these handlers   *)
(* names the brand, so brands do not interact.                             *)
(*                                                                         *)
(* Unlike Shopify's, /connect commits twice: the new state first, the ad   *)
(* account it was called with in a second transaction.  The callback       *)
(* brings an ad account of its own.  A sync reads the row once, then       *)
(* fetches a page and commits its rows until a page has no next link.      *)
(* Each commit and each await is one action; a request may die at any.     *)
(***************************************************************************)
EXTENDS Integers

CONSTANTS
    Accounts,       \* ad accounts of the brand at Meta
    Empty,          \* the empty string, which is no account but may be named as one
    Requests,       \* requests being served at a time
    TOTAL_ROWS,     \* rows in the insights of an account: campaigns times days
    PAGE_SIZE,      \* rows Meta puts on a page
    CURSORLESS,     \* may a page carry a next link and no cursor?
    MAX_CONNECTS,   \* bound on the calls of /connect
    NoRow,          \* the brand never called /connect
    NoAccount       \* an account or a token that is NULL

VARIABLES
    row,        \* meta_connections: the brand's row, or NoRow
    spend,      \* ad_spend_daily: which of each account's rows it holds
    issued,     \* how many states /connect has made
    answered,   \* the states that have reached the merchant
    request,    \* the requests in progress
    crossed     \* history: requests crossed while the present pair of token and
                \* account was written to the row

vars == <<row, spend, issued, answered, request, crossed>>

NULL == 0   \* no oauth_state, no cursor

(* What /connect and the callback take for an ad account: a plain str. *)
Names == Accounts \cup {Empty}

States == 1 .. MAX_CONNECTS
InsightRows == 1 .. TOTAL_ROWS

Connection ==
    [oauth_state: States \cup {NULL},
     ad_account_id: Names \cup {NoAccount},
     is_connected: BOOLEAN,
     access_token: Names \cup {NoAccount},      \* the account it was granted for
     last_synced_at: BOOLEAN]                   \* it is set

ASSUME MetaAssumption ==
    /\ TOTAL_ROWS \in Nat /\ PAGE_SIZE \in Nat \ {0}
    /\ CURSORLESS \in BOOLEAN
    /\ MAX_CONNECTS \in Nat
    /\ NoRow \notin Connection
    /\ NoAccount \notin Names
    /\ Empty \notin Accounts

Request ==
    [pc: {"idle", "naming", "exchanging", "fetching", "upserting", "stamping"},
     account: Names \cup {NoAccount},
     state: States \cup {NULL},
     loaded: Names \cup {NoAccount},        \* ad_account_id when a callback read it
     after: Nat,                            \* cursor, NULL before the first page
     page: SUBSET InsightRows,              \* rows in hand
     more: BOOLEAN,                         \* the page in hand had a next link
     overtaken: BOOLEAN,    \* history: someone wrote the row since it was read
     fresh: SUBSET InsightRows, \* history: rows written since the sync began
     cut: BOOLEAN]              \* history: it met a next link without a cursor

TypeOK ==
    /\ row \in Connection \cup {NoRow}
    /\ spend \in [Accounts -> SUBSET InsightRows]
    /\ issued \in 0 .. MAX_CONNECTS
    /\ answered \subseteq 1 .. issued
    /\ request \in [Requests -> Request]
    /\ crossed \in BOOLEAN

-----------------------------------------------------------------------------

Idle == [pc |-> "idle", account |-> NoAccount, state |-> NULL,
         loaded |-> NoAccount, after |-> NULL, page |-> {}, more |-> FALSE,
         overtaken |-> FALSE, fresh |-> {}, cut |-> FALSE]

Init ==
    /\ row = NoRow
    /\ spend = [a \in Accounts |-> {}]
    /\ issued = 0
    /\ answered = {}
    /\ request = [r \in Requests |-> Idle]
    /\ crossed = FALSE

(* Request r goes on as q; the others learn, for the record only, that the
   connection row was written. *)
Wrote(r, q) ==
    request' = [s \in Requests |-> IF s = r THEN q
                                   ELSE [request[s] EXCEPT !.overtaken = TRUE]]

-----------------------------------------------------------------------------
(* POST /connect. *)

(* Faulty variants, one plausible slip each, used by no action: they show that
   the properties below can fail. *)

\* inserts the row as connected
InitiatedConnected(old, state) ==
    IF old = NoRow
    THEN [oauth_state |-> state, ad_account_id |-> NoAccount, is_connected |-> TRUE,
          access_token |-> NoAccount, last_synced_at |-> FALSE]
    ELSE [old EXCEPT !.oauth_state = state, !.is_connected = FALSE]

\* clears the token with the other columns of the conflict clause
InitiatedTokenless(old, state) ==
    IF old = NoRow
    THEN [oauth_state |-> state, ad_account_id |-> NoAccount, is_connected |-> FALSE,
          access_token |-> NoAccount, last_synced_at |-> FALSE]
    ELSE [old EXCEPT !.oauth_state = state, !.is_connected = FALSE,
                     !.access_token = NoAccount]

(* initiate_meta_oauth: a fresh row, or the old one with the two columns of the
   conflict clause overwritten. *)
Initiated(old, state) ==
    IF old = NoRow
    THEN [oauth_state |-> state, ad_account_id |-> NoAccount, is_connected |-> FALSE,
          access_token |-> NoAccount, last_synced_at |-> FALSE]
    ELSE [old EXCEPT !.oauth_state = state, !.is_connected = FALSE]

ConnectInitiate(r, a) ==
    LET state == issued + 1 IN
    /\ request[r].pc = "idle"
    /\ issued < MAX_CONNECTS
    /\ issued' = state
    /\ row' = Initiated(row, state)
    /\ Wrote(r, [Idle EXCEPT !.pc = "naming", !.account = a, !.state = state])
    /\ UNCHANGED <<spend, answered, crossed>>

\* slip: repeats the first upsert along with the account
NamedAgain(old, q) ==
    [old EXCEPT !.ad_account_id = q.account, !.oauth_state = q.state,
                !.is_connected = FALSE]

Named(old, q) == [old EXCEPT !.ad_account_id = q.account]

(* The second transaction finds the row of the first and overwrites its account
   only, whatever became of the row in between; then the merchant gets the
   state.  If the row is connected by now, its token is another callback's. *)
ConnectName(r) ==
    LET q == request[r] IN
    /\ q.pc = "naming"
    /\ row' = Named(row, q)
    /\ answered' = answered \cup {q.state}
    /\ crossed' = (crossed \/ row.is_connected)
    /\ Wrote(r, Idle)
    /\ UNCHANGED <<spend, issued>>

-----------------------------------------------------------------------------
(* GET /callback. *)

(* complete_meta_oauth raises when there is no row or its state is not the one
   that came back; a completed row has none, which no query string equals. *)
Accepts(n) == row # NoRow /\ row.oauth_state = n

(* State and ad account are query parameters: any state a merchant holds, with
   any account.  A refused callback changes nothing and is no step. *)
CallbackRead(r, a, n) ==
    /\ request[r].pc = "idle"
    /\ Accepts(n)
    /\ request' = [request EXCEPT ![r] =
                     [Idle EXCEPT !.pc = "exchanging", !.account = a, !.state = n,
                                  !.loaded = row.ad_account_id]]
    /\ UNCHANGED <<row, spend, issued, answered, crossed>>

\* slip: keeps the account /connect named
CompletedAsNamed(old, q) ==
    [old EXCEPT !.access_token = q.account, !.is_connected = TRUE, !.oauth_state = NULL]

(* The UPDATE names the columns whose value differs from the one loaded.  The
   token is a fresh ciphertext and the state was set, so only the account may
   be missing from it. *)
Completed(old, q) ==
    [old EXCEPT !.access_token = q.account,
                !.ad_account_id = IF q.account = q.loaded THEN @ ELSE q.account,
                !.is_connected = TRUE,
                !.oauth_state = NULL]

CallbackCommit(r) ==
    LET q == request[r] IN
    /\ q.pc = "exchanging"
    /\ row' = Completed(row, q)
    /\ crossed' = q.overtaken
    /\ Wrote(r, Idle)
    /\ UNCHANGED <<spend, issued, answered>>

-----------------------------------------------------------------------------
(* POST /sync. *)

(* trigger_meta_sync selects a connected row; sync_meta_insights refuses one whose
   token or account is NULL or empty. *)
Configured ==
    row.access_token # NoAccount /\ row.ad_account_id \notin {NoAccount, Empty}

SyncStart(r) ==
    /\ request[r].pc = "idle"
    /\ row # NoRow
    /\ row.is_connected
    /\ Configured
    /\ request' = [request EXCEPT ![r] =
                     [Idle EXCEPT !.pc = "fetching", !.account = row.ad_account_id]]
    /\ UNCHANGED <<row, spend, issued, answered, crossed>>

Syncing(s) == request[s].pc \in {"fetching", "upserting", "stamping"}

(* Meta's cursors are offsets: a page holds the PAGE_SIZE rows after its cursor
   and links to the next page if rows are left. *)
HasNext(after) == after + PAGE_SIZE < TOTAL_ROWS

\* slip: a last page as long as the others
PageRowsPadded(after) == (after + 1) .. (after + PAGE_SIZE)

PageRows(after) == {i \in InsightRows : after < i /\ i <= after + PAGE_SIZE}

(* client.get returns a page.  When it has a next link its cursor is the new
   offset, or is missing; without a next link the loop looks at no cursor. *)
Fetch(r, cursorless) ==
    LET q == request[r] IN
    /\ q.pc = "fetching"
    /\ cursorless => CURSORLESS /\ HasNext(q.after)
    /\ request' = [request EXCEPT ![r] =
                     [q EXCEPT !.pc = "upserting", !.page = PageRows(q.after),
                               !.more = HasNext(q.after),
                               !.after = IF cursorless THEN NULL ELSE @ + PAGE_SIZE]]
    /\ UNCHANGED <<row, spend, issued, answered, crossed>>

\* slip: fetches the same page again
AdvanceStuck(q) ==
    IF q.more /\ q.after # NULL
    THEN [q EXCEPT !.pc = "fetching", !.page = {}, !.after = @ - PAGE_SIZE]
    ELSE [q EXCEPT !.pc = "stamping", !.page = {}, !.cut = q.more]

(* The loop goes on while a page has both a next link and a cursor. *)
Advance(q) ==
    IF q.more /\ q.after # NULL
    THEN [q EXCEPT !.pc = "fetching", !.page = {}]
    ELSE [q EXCEPT !.pc = "stamping", !.page = {}, !.cut = q.more]

\* slip: ON CONFLICT DO NOTHING
WrittenNewOnly(q) == q.page \ spend[q.account]

(* UNIQUE(brand_id, platform, campaign_id, date), ON CONFLICT DO UPDATE: a row
   that is there is written again. *)
Written(q) == q.page

UpsertAdSpend(r) ==
    LET q == request[r] IN
    /\ q.pc = "upserting"
    /\ spend' = [spend EXCEPT ![q.account] = @ \cup Written(q)]
    /\ request' = [s \in Requests |->
                     IF s = r THEN Advance([q EXCEPT !.fresh = @ \cup Written(q)])
                     ELSE IF Syncing(s) /\ request[s].account = q.account
                     THEN [request[s] EXCEPT !.fresh = @ \cup Written(q)]
                     ELSE request[s]]
    /\ UNCHANGED <<row, issued, answered, crossed>>

(* last_synced_at is the only column the sync assigns. *)
Stamp(r) ==
    /\ request[r].pc = "stamping"
    /\ row' = [row EXCEPT !.last_synced_at = TRUE]
    /\ request' = [request EXCEPT ![r] = Idle]
    /\ UNCHANGED <<spend, issued, answered, crossed>>

(* An error that comes before any write: a callback whose state is not awaited
   (known or not), a sync of a brand that is not connected or not configured. *)
Refuse(r) ==
    /\ request[r].pc = "idle"
    /\ \/ \E n \in States : ~Accepts(n)
       \/ ~(row # NoRow /\ row.is_connected /\ Configured)
    /\ UNCHANGED vars

(* A refusal by Meta, a failed statement, a killed process: get_db rolls back
   what is not committed, and no answer reaches the merchant.  In this build
   every upsert ends so: date_start is a string, and the driver takes only a
   date for ad_spend_daily.date. *)
Abort(r) ==
    /\ request[r].pc # "idle"
    /\ request' = [request EXCEPT ![r] = Idle]
    /\ UNCHANGED <<row, spend, issued, answered, crossed>>

-----------------------------------------------------------------------------

SyncStep(r) ==
    \/ \E cursorless \in BOOLEAN : Fetch(r, cursorless)
    \/ UpsertAdSpend(r)
    \/ Stamp(r)

Next ==
    \/ \E r \in Requests, a \in Names :
          \/ ConnectInitiate(r, a)
          \/ \E n \in answered : CallbackRead(r, a, n)
    \/ \E r \in Requests : ConnectName(r) \/ CallbackCommit(r)
    \/ \E r \in Requests : SyncStart(r) \/ SyncStep(r)
    \/ \E r \in Requests : Refuse(r) \/ Abort(r)

Spec == Init /\ [][Next]_vars

(* A fetch ends (EveryFetchEnds of RetryClient) and so does a statement; nobody
   is obliged to ask, to answer or to die. *)
FairSpec == Spec /\ \A r \in Requests : WF_vars(SyncStep(r))

-----------------------------------------------------------------------------

(* A row is connected exactly when no callback is awaited, and then its token and
   its account are not NULL, whatever dies between the two commits of /connect
   (meta_logic.py:44-52).  What is left of the "not fully configured" error of
   service.py:129-130 is an account given as the empty string, which neither
   endpoint refuses. *)
ConnectedIsConfigured ==
    row # NoRow =>
        /\ row.is_connected <=> row.oauth_state = NULL
        /\ row.is_connected => row.access_token # NoAccount /\ row.ad_account_id # NoAccount

(* A sync asks for an account with a token granted for it (service.py:99-103),
   unless a callback or the second commit of a /connect crossed the callback
   that completed the row: those races are the only way to a row that pairs one
   account with another one's token. *)
TokenMatchesAccount ==
    row # NoRow /\ row.is_connected /\ ~crossed => row.access_token = row.ad_account_id

(* When a sync gets to stamp last_synced_at, every row of its account is in the
   table and has been written since the sync began, whatever earlier syncs left
   half done (service.py:7-10, "We follow paging.next until it's absent").  Only
   a next link without a cursor, which ends the loop at line 167, lets a sync
   stamp earlier. *)
SyncIsComplete ==
    \A r \in Requests :
        LET q == request[r] IN
        q.pc = "stamping" /\ ~q.cut =>
            q.fresh = InsightRows /\ spend[q.account] = InsightRows

(* The row keeps the same contract as Shopify's: only the first commit of a
   /connect takes the brand off line, with a state of its own (service.py:51-57);
   only a callback that brought back the awaited state brings the brand on line,
   with a token for the account it brought (service.py:93-103).  The second commit
   of a /connect and the stamp of a sync do neither.  A state is good for any
   account, since the callback names it. *)
Implemented == INSTANCE OAuthContract WITH
    Brands <- {"brand"},
    Tickets <- States,
    Accounts <- Names,
    Visitors <- Requests,
    None <- NoAccount,
    issued <- 1 .. issued,
    awaited <- [b \in {"brand"} |->
                  IF row = NoRow \/ row.oauth_state = NULL THEN {}
                  ELSE [brand: {b}, ticket: {row.oauth_state}, account: Names]],
    online <- [b \in {"brand"} |-> row # NoRow /\ row.is_connected],
    token <- [b \in {"brand"} |-> IF row = NoRow THEN NoAccount
                                  ELSE row.access_token],
    visit <- [r \in Requests |->
                IF request[r].pc = "exchanging"
                THEN {[brand |-> "brand", ticket |-> request[r].state,
                       account |-> request[r].account]}
                ELSE {}]

KeepsContract == Implemented!Contract

(* The loop of service.py:141-170 has no bound of its own; it ends because the
   cursors that Meta hands out advance. *)
EverySyncEnds ==
    \A r \in Requests : (request[r].pc = "fetching") ~> (request[r].pc = "idle")
=============================================================================
