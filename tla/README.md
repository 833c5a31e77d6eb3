# A TLA+ model of the D2C platform

The platform is a FastAPI service over PostgreSQL in which brands connect their
Shopify shop and their Meta ad account, synchronise products, orders and ad
spend, receive Shopify webhooks and query the result. This directory holds TLA+
modules that follow the code of that service, the TLC configurations that check
them on small instances, and TLAPS proofs of the properties that matter most for
every instance. Line references are to the files under `src/`; `PROJECT.json`
lists, for every definition, the lines it translates.

## 1. The system

The process is one asyncio event loop. A request handler runs alone until it
awaits a database statement, an HTTP request, a sleep or a lock. Each request has
a database session of its own (`app/db/session.py`, `get_db`) at PostgreSQL's
default isolation, READ COMMITTED; what requests share is the database, and the
in-process dictionaries and globals of a few modules. Several instances of the
process may run behind one database, each with the secrets it started with.

| Component | State | Operations | Talks to |
|---|---|---|---|
| Circuit breaker `integrations/circuit_breaker.py` | `_circuits`: state, failure count, last failure, half-open calls per key; `_lock` | `call_with_circuit_breaker`: admit, run, record | wraps upstream calls; imported by the Shopify service, called by no code yet |
| Retrying client `integrations/base_client.py` | local to a call: attempt, wait | `get`, `post`, `get_with_headers` | upstream APIs; used by both syncs |
| Shopify connection `shopify/service.py`, `shopify_logic.py` | row of `shopify_connections` | `/connect`, `/callback`, `/status` | the merchant's browser, the database |
| Shopify ingestion, same files | `products`, `orders`, `webhook_events`, `last_synced_at` | `/sync` (pages of products, then of orders), `/webhook` | retrying client, Shopify's deliveries |
| Login and authentication `auth_logic.py`, `middleware/auth.py`, `core/jwt.py` | `users`, `brands`; tokens held by clients | `/auth/login`, `get_current_user`, `/auth/me` | every protected route |
| Meta connection and sync `meta/service.py`, `meta_logic.py` | row of `meta_connections`, `ad_spend_daily` | `/connect` (two commits), `/callback`, `/sync`, `/status` | retrying client, Meta |
| Token lifecycle `token_lifecycle.py` | none (reads `token_expires_at`) | `get_token_state`, `get_decrypted_token_or_raise` | called by the Shopify sync, not by the Meta sync |
| Token encryption `core/encryption.py` | `_fernet`, built once per process | encrypt, decrypt, reset | settings |
| Tenant isolation `db/tenant.py`, `migrations/0002_rls.py` | `app.current_brand_id` of a transaction | scoped queries, `activate` | routes; PostgreSQL policies |
| Session and pool `db/session.py` | pooled connections | `get_db`, health check | every handler |
| Configuration `core/config.py`, `core/secret_manger.py`, `main.py` | the `settings` singleton | phase 1 (environment), phase 2 (Secret Manager) | every module, at import or at use |
| Insights and products `insights_logic.py` | none | two read-only queries | database |
| Models and migrations, logging, mock servers, seed script, deployment files | schema; log files; mock data | | |

What is hard in this code:

- **Read, await, commit.** A callback decides on a row it read in an earlier
  statement; a sync holds a snapshot of its connection row across minutes of HTTP;
  a login checks its brand before the commit after which it issues the token.
- **Partial commits.** A sync commits page by page; a webhook commits its order
  and its mark separately; anything may die in between.
- **Unreliable deliveries.** Shopify repeats a webhook until it hears a 200, also
  while the first attempt is still running. Answers to GETs get lost.
- **Late outcomes.** Calls admitted by a closed circuit report to an open or
  half-open one; callers may cancel a call.
- **Time.** Timeouts, backoffs, token expiry.
- **Pooled state.** A connection goes from one request to the next; what a request
  set on it must not.
- **Secrets in two places.** Values are read at import, at start-up or at first use,
  and then kept; instances of different age run side by side through a rotation.

What makes each component correct is stated next to its module below. The hazards,
each at its line, with the properties that watch it or the reason why none does,
are listed in `PROJECT.json`.

## 2. The modules

```
BreakerContract <--implements-- CircuitBreaker    <-- CircuitBreakerProofs
FetchContract   <--implements-- RetryClient       <-- RetryClientProofs
     |  (its atomic read is the Fetch step of)
     v
InboxContract   <--implements-- ShopifyIngest     <-- ShopifyIngestProofs
                                     |
              (its Connect and Callback stand for the steps of)
                                     v
OAuthContract   <--implements-- ShopifyOAuth      <-- ShopifyOAuthProofs
OAuthContract   <--implements-- MetaConnection    <-- MetaConnectionProofs
                                (each page is a fetch of RetryClient)
Auth <-- AuthProofs
Tenancy <-- TenancyProofs       (the session and connection under every handler above)
Instances <-- InstancesProofs   (the processes, their secrets, the tokens they store)
```

Each `MC*.tla` names the values with which TLC instantiates a module; each
`.cfg` is one run.

### CircuitBreaker and BreakerContract

`circuit[k]` is the `CircuitBreakerState` of a key, `call[c]` the place of a task
in `call_with_circuit_breaker`. Nothing awaits under `_lock`, so the admission
(lines 107-129) and the recording (135-147, 150-172) are one action each: `Admit`
or `Reject`, then `Succeed`, `Fail` or `Cancel`. `Cancel` is the `CancelledError`
that `except Exception` does not see. The code compares `now - last_failure_time`
with the timeout and with nothing else, so the model keeps the elapsed ticks, up to
the timeout. `probes` is a history variable: the calls in flight that the present
half-open episode admitted.

`BreakerContract` states what the module's docstring promises: a circuit that is
cut off stays so for a full quiet timeout, is then tested by at most
`HALF_OPEN_MAX_CALLS` calls, and closes only out of such a test. It knows neither
failure counts nor tasks. `KeepsContract` is the refinement: `phase` is the state,
`quiet` the elapsed ticks while OPEN, `permits` what is left of the half-open calls.

Properties: `ProbeBudget` (calls of an earlier episode never refill or overrun the
budget of this one), `CountMatchesState`, `KeepsContract`, `HalfOpenResolves` and
`Recovers` (if no call is cancelled and the upstream stops failing, every circuit
closes for good).

### RetryClient and FetchContract

`request[c]` is the frame of one `get_with_headers` or `_request`; the two loops
differ only in what they return. `Serve` is upstream computing its answer;
`TransportError` may strike before or after it. Only GETs are made through the
client. `Or` is Python's `or`: an argument of 0 means the default. A wait is any
number of whole seconds within the jitter's range. `FetchContract` is what the sync
loops rely on: a fetch raises, or returns the resource as it was at some moment
between the call and the return. `Fetch` of `ShopifyIngest` is that step.

Properties: `PatienceBounded`, `RaisesLast`, `KeepsContract`, `EveryFetchEnds`.
`PatienceBounded` bounds the time a fetch sleeps from both sides: at least the waits
that upstream named, and beyond them at most one capped backoff per attempt. The
sleep after the last rate-limited or 5xx attempt, which the code makes before it
raises, is in the model (`Wake`) and counts.

### ShopifyOAuth and OAuthContract

`row[b]` is the brand's row. `/connect` is a single upsert with its commit.
A callback is two actions, the SELECT with its verdict (`CallbackRead`) and the
UPDATE of the columns it assigned (`CallbackCommit`): SQLAlchemy writes only
changed columns, so a callback that was overtaken by a `/connect` leaves the new
`shop_domain` and takes the rest: it clears the new state, connects the row and stores
the token of the shop it had read. A sync reads the row and stamps
`last_synced_at` twice. `Abort` is any crash or error before a commit. States are
numbered in the order of their issue; they are random and unguessable in the code,
so a callback brings only a state that was issued, with any shop, to any brand.

Properties: `PendingIffDisconnected`, `LatestConnectStands`, `TokenWasGranted`,
`TokenMatchesShop`. `LatestConnectStands` says how far the latest `/connect` stands
against requests that had read the row before it: its shop always, its state until a
callback with that very state completed the row, or one that was past its checks when
the `/connect` committed. The history variable `overtaken` keeps apart the rows which
such a callback completed; `TokenMatchesShop` excepts them too. That race is real
(section 4), and the theorems say that it is the only way to lose a state that was not
one's own, or to a connected row with another shop's token.

`OAuthContract` is what the endpoints of a brand rely on in its connection row, with
no rows, columns or commits. It keeps the tickets handed out (`issued`), what each brand
is let in with (`awaited`), `online`, `token`, and for each visitor the pass it was let
in with (`visit`). `Ask` hands out a ticket that nobody had before and takes the brand
off line in the same step; `Return` lets a visitor in who brings an awaited pass; `Grant`
ends a visit with the brand on line and a token for the account of the pass; `Leave` ends
it with nothing. There is no other step, so a stamp that wrote back the flag, the state
or the token it had read, a second commit that did, or a callback that completed a row
without having been let in, does not refine the contract. What the contract leaves open
is what the code leaves open: two visitors may be let in on one ticket, and one that was
let in before a later `Ask` still completes. `KeepsContract` is the refinement: tickets
are states, a visitor is a request between `CallbackRead` and its end.

### ShopifyIngest and InboxContract

One brand, which may connect one shop and then another (`Connect`, `Callback`); it has
one set of tables for all of them, from which no code ever deletes. `upstream` and
`stored` give each item's version at Shopify and in our tables, `removed` the items that
Shopify has no more, `connected` the shop that the brand is connected to, `events` is
`webhook_events`, `notice` is what Shopify believes of each order's webhook, `hook` and
`sync` are the handlers. One action is one
commit or one await. `process_order_webhook` flushes its event (line 459) and
commits it inside `_upsert_orders` together with the order (`UpsertOrder`), then
commits the mark (`MarkProcessed`). If the upsert raises before its statement
reaches the server the event is committed as unprocessed (`UpsertRaises`); if the
server refuses the statement the transaction is lost, the final commit raises and
Shopify gets a 500 (`UpsertAborts`). In the present build the upsert of a webhook
always raises, because its `raw_data` holds a datetime; the run over all three
outcomes therefore covers this build and the build in which that is repaired.
A sync fetches a page, commits its upsert, follows the next link, stamps, and does
the same for orders. It asks for the shop that its row named when it began.
The look-up of a webhook's shop (`Miss`, `Resolve`) and the 200 that gives it up
(`Drop`) are two actions: the brand may connect in between.

Properties: `ProcessedIsStored`, `AcknowledgedIsRecorded`, `KeepsContract`, and
`SyncCatchesUp`: a sync with which nothing interfered ends each half with every item
that its shop lists stored at its present version, whatever earlier syncs, webhooks and
other shops left in the tables; the orders' half undoes nothing of the products', and a
reconnect meanwhile does not turn it to another shop. Rows of items that Shopify has
removed, and of a former shop, stay: the tables are brought up to date and not mirrored.

`InboxContract` states what the docstrings promise of webhooks, without handlers,
duplicates, pages or crashes: an event is recorded before Shopify is told that its
order was received (`Record`, `Acknowledge`), an order is filed before its event counts
as processed (`File`, `Settle`), nothing recorded, filed or processed is ever lost, and
an order is given up only after its shop was looked for and found connected to nobody
(`Miss`, then `Drop`; by then it may be connected again). The
refinement maps `recorded`, `filed` and `settled` to the orders with an event, with a
row, and with a processed event; that no step of theirs removes one is what a crash, a
failed statement or a second handler could break. `reachable` is the orders of the
shop that is connected, `missed` those whose shop a handler looked for in vain.

### Auth

`login` is its two statements (user, brand) and its commit with the token; the row
of the first statement is what the token is made from. `get_current_user` is two
actions: the check of the token's expiry (`Decode`), and the membership query it then
awaits (`Admit`, `Reject`), for which it may have to wait for a connection. Any number of
ticks up to `MAX_WAIT` may pass from a request's first read to what it does with it. No
code suspends a brand or moves a user: `Administer`, `Suspend` and `Reinstate` stand for
operators in the database, at any time. `suspended[b]` counts the ticks since a
suspension, `away[u][b]` those since user u was last an active member of brand b.

Properties: `GraceBounded` bounds the tokens of a suspended brand, `LeaversBounded` those
of a user who was moved or deactivated: neither outlives its grounds by more than
`GRACE`, a token's lifetime plus the wait of a login that had read the user, or passed the
check, before. A user who is moved back is admitted again with whatever token is left;
after `GRACE` there is none. `LockedOutAfterGrace` is an action property, what a
suspension comes to for a request: nobody is admitted for a brand that has been suspended
for more than `GRACE + MAX_WAIT` ticks, neither with a token of that brand, which may
have expired while the request waited for the database, nor, after a move, with another
brand's.

### MetaConnection

One brand's row of `meta_connections` and its rows of `ad_spend_daily`. `/connect`
commits twice: `initiate_meta_oauth` writes the state (`ConnectInitiate`), and the
endpoint then writes the ad account it was called with in a second transaction
(`ConnectName`), after which the merchant has the state. A callback brings an ad
account of its own, any string (`Names`: the accounts and the empty string); like
Shopify's it is a read and a commit, and its UPDATE leaves
out the account if it equals the one loaded (`Completed`). A sync reads the row once,
then fetches a page (`Fetch`) and commits its rows (`UpsertAdSpend`) for as long as a
page has a next link and a cursor (`Advance`), and stamps. Cursors are offsets, as in
`mock_servers/meta_mock.py`; a page with a next link and no cursor is the case that
the loop breaks off at line 167. `crossed`, `overtaken`, `fresh` and `cut` are history
variables.

Properties: `ConnectedIsConfigured` (whatever dies between the two commits, a row is
connected exactly when it awaits no callback, and then its token and account are not
NULL; an account that the merchant's query gave as the empty string is possible, and then
every sync is refused, `Configured`), `TokenMatchesAccount` (only a crossed callback pairs
an account with another account's token), `SyncIsComplete` (a sync that stamps has written
every row of its account, whatever earlier syncs left half done), `KeepsContract` and
`EverySyncEnds`. The row implements the same `OAuthContract` as Shopify's, for one brand;
a state is good for any account, because the callback names it. The second commit of
`/connect` (`Named`) and the stamp of a sync are no steps of the contract.

### Tenancy

`session[s]` is a request's database session with the `TenantSession` around it,
`setting[c]` is `app.current_brand_id` in the transaction of connection `c`, and `role`
is the database role of the deployment: the superuser of docker-compose or `d2c_app`.
A session takes a connection at the first statement of a transaction (`Want`,
`Checkout`, `PoolTimeout`) and gives it back when the transaction ends (`Commit`,
`Rollback`). A statement may name several tables. Where it names one, it reaches
`Scope \cap Permitted`: the WHERE clause of TenantSession, which is about the table of the
`model` argument and about no other that the statement joins, nor the same one again under
an alias (`own`), and is left out for a model without `brand_id`; and the policies of
migration 0002, command by command, which bind `d2c_app` and spare the superuser. Both
were translated apart, and neither knows of the other. A client of TenantSession may call
its methods in any order (`Query`, `ScopedExecute`, `Refresh`, `Register`, `Flush`), may
alter an object it has read (`Alter`), and may use the session underneath
(`Underneath`, `RegisterUnderneath`), since that is what the second layer is for. What a
session read and still holds is `touched`; `refresh` reads it again by its key, without a
filter, perhaps in a later transaction without a context.

Properties: `Isolation`, `ContextIsOfHolder` (the brand set on a pooled connection is that
of the session that activated it in its present transaction, and no two sessions hold one
connection) and `EveryWaitEnds`. `Isolation` says what it takes to reach, alter or add
another brand's row of a tenant table: an exempt role *and* a statement of this session
that named a tenant table without its filter (`strayed`). Under `d2c_app` the policies
suffice whatever the statements are; under the superuser TenantSession suffices for
statements that name a tenant table only as their model. It does not suffice for others,
and nothing in the code refuses those (section 4).

### Instances

`instance[i]` is a process: its settings, the `DATABASE_URL` and the engine made from it
at import, the secrets fetched so far, the cipher built at first use, and a ciphertext
not yet committed. `deployment` keeps the five facts in which environments differ:
whether ENVIRONMENT is production, whether the lifespan calls `build_settings` (as
`config.py` says) or not (as `main.py` is), whether the environment holds the secrets
(`.env`, `env.uat.j2`, `cloudrun-service.yaml`) or placeholders, whether DATABASE_URL is
the default, has PENDING in it or a password (a setting of its own, whatever DB_PASSWORD
is), and whether a Cloud SQL instance is named. The run checks all 48. Phase 2 needs both
of the first (`Loads`, `config.py:257`); it replaces PENDING only where there is one
(`Assembled`). The default URL has the password of docker-compose, with which development
works and production does not (`Connects`). `since` keeps the versions that were the
latest when an instance started. A
secret is its version number; version v of ENCRYPTION_KEY is one key or "new,old" by
turns (`NewestKey`, `OldestKey`), as the rotation procedure of `encryption.py` has it.
`AddKey` and `DropKey` are its two steps, the second with its conditions.

Properties: `NeverPartlyConfigured` (where the environment or phase 2 supplies the
secrets, an instance that serves has each of them, none older than its own start, whatever
fails, is slow or is rotated meanwhile; in production its engine connects with a password
that DATABASE_URL held at the import and with no other), `CipherIsOfSettings` (no order of
loading and use leaves a cipher of a placeholder) and `TokensReadable` (an instance that
has the key value its deployment currently supplies reads every stored token, through
every rotation that follows the procedure).

## 3. The runs

| Run | Instance | Shows |
|---|---|---|
| `breaker` | 2 keys, 3 tasks (1 cancellable), threshold 2, timeout 1, 1 probe | all properties of CircuitBreaker, liveness included (130 thousand states) |
| `breaker_cancel` | 1 key, 2 tasks | a cancelled probe wedges its circuit (counterexample) |
| `oauth` | 2 brands, 2 shops, 2 requests, 3 connects | the properties of ShopifyOAuth, its contract included (508 thousand states) |
| `oauth_replay` | 1 brand, 1 shop, 2 requests, 1 connect | one state completes two callbacks (counterexample) |
| `ingest` | 2 shops, 1 product, 2 orders, pages of 1, 2 handlers, 1 sync, 2 versions, 3 changes, 2 deliveries | the properties of ShopifyIngest, its contract included (743 thousand states) |
| `ingest_unprocessed` | 1 handler, the upsert raises | an acknowledged event is never processed (counterexample) |
| `retry` | 1 caller, 3 attempts, cap 3 s, Retry-After 1 s and 4 s, 3 changes | the properties of RetryClient, liveness included (10 thousand states) |
| `auth` | 1 user, 2 brands, 2 requests, tokens of 2 ticks, waits of 1 | the properties of Auth (901 thousand states) |
| `auth_suspended` | 1 user, 1 brand, 1 request | a token survives its brand's suspension (counterexample) |
| `meta` | 2 accounts and the empty name, 2 requests, 3 rows on pages of 2, 2 connects, cursors may be missing | the properties of MetaConnection, its contract and liveness included (152 thousand states) |
| `tenancy` | 2 brands, 2 sessions, 1 connection, both roles | the properties of Tenancy, liveness included (30 thousand states) |
| `instances` | 2 instances, 1 token, versions up to 4, all 48 wirings | the properties of Instances (1.6 million states) |

Why the bounds are enough for what they are to show:

- Three tasks are a straggler from a closed circuit, a probe, and a third call that
  must be refused; a second key shows that a call touches only its own. A threshold
  of two tells "counted" from "tripped". `COUNT_CAP` equals the threshold: beyond it
  the count is compared with nothing.
- Three connects on two brands allow connect, reconnect to the other shop, and a
  connect of the other brand around two open callbacks; every race of two requests is
  a race of these.
- Pages of one item with two orders make every sync turn a page, so that a webhook
  or a change can fall between two pages; two deliveries of one order are a duplicate,
  two orders are independent ones. Two versions are "old" and "new"; three changes let an
  item appear, change and disappear. The second shop has no items: connecting it takes the
  first off line, before, while or after a webhook of the first is looked for, leaves the
  first one's rows in the tables, and tempts a sync of the first away from it. Items of two
  shops do not meet in any guard.
- Backoff ceilings 1, 2 and 3 (the cap, below 4) show doubling and capping; the
  Retry-After values lie on both sides of the cap. `Callers` do not interact, so one
  is enough; the proofs are for any number.
- One user suffices in `Auth`, because no guard compares two users; two brands are
  needed to be moved between; two requests are a login and a protected route, or two
  logins. One tick of waiting on both sides of every check is enough to be on either side
  of it; the clocks are capped only beyond everything that is compared with them (`LONG`).
- Three rows on pages of two are a full page with a next link and a shorter last one;
  two connects with two accounts are a connect and a reconnect that names another
  account, around which two open requests can cross. The empty string is a third name.
- Two sessions and one connection are a holder and a waiter, and make every transaction
  follow another session's on the same connection. No guard of `Tenancy` compares three
  sessions, or two connections. `Register` holds one object until the flush; objects do
  not interact there, since each is checked on its own. One place of a statement and one
  row reached there stand for all of its places and rows, which are other behaviours.
- Versions up to 4 walk the key through add, drop and add again, so that an instance can
  be two rotations behind; two instances are the old and the new one. Tokens do not
  interact except in `DropKey`, which asks for all of them. RotatePassword shares the
  bound.

Every property of a passing run has, in its module, a faulty variant of one mapped
operator (a dropped guard, an off-by-one, a missing reset) with which TLC finds the
property violated; `PROJECT.json` lists them as mutants.

### Fairness

- `breaker`: time passes (`WF Tick`); a call ends because the HTTP client's timeouts
  end it (`WF` of `Succeed \/ Fail`); callers keep asking. The last is strong
  fairness per key, since a task busy on another key is a limit of the model and not
  of the process. Nobody is obliged to cancel, and nobody is obliged to succeed.
- `retry`: `WF` of the client's own steps. httpx's timeouts (connect 5 s, read 30 s)
  end each attempt, sleeps end, and the loop runs what is ready. Upstream owes nothing.
- `meta`: `WF` of the steps of a sync, whose fetches and statements end. Nobody is
  obliged to connect, to come back or to die.
- `tenancy`: `SF` of `Checkout` per session, because the pool's queue serves waiters in
  turn and passes nobody over for ever; `WF` of a session's end, because what a handler
  awaits ends and get_db closes the session on every path. The pool's timeout is not
  needed for it.
- `ingest_unprocessed`: `WF` of the handlers; Shopify, syncs and crashes owe nothing.

## 4. Where code and documentation disagree

The four violation runs each check one sentence of the repository; `PROJECT.json`
(`findings`) quotes the lines.

1. A cancelled probe leaves its circuit half-open, without a permit, until the
   process restarts (`circuit_breaker.py:149`).
2. A state completes two callbacks that race (`shopify/service.py:138`, comment `:148`).
3. A webhook event whose upsert raised stays unprocessed; there is nothing that
   re-runs it, and in this build every upsert of a webhook raises
   (`shopify/service.py:479`, `serializers.py:119-124`).
4. A suspended brand's tokens work until they expire (`middleware/auth.py:21-26`).

Reading the code for the models turned up more, which one statement shows without a
run. None of it is assumed away: the models leave both outcomes open.

- `base_client.py:161` says of transport errors "retry immediately once"; the code
  retries them up to `max_retries` times with backoff.
- Meta's `date_start` is passed as a string to the DATE column of `ad_spend_daily`,
  which asyncpg refuses: in this build every insights upsert ends in `Abort`.
- `models/__init__.py:353` says "latest data wins"; of two syncs at once, the one that
  commits last wins, whichever fetched last.
- `middleware/auth.py:18` says that every protected route goes through the tenant
  context; no route opens a `TenantSession` or calls `activate`. Under `d2c_app`,
  where no statement has a context, no query would see a row.
- `SET LOCAL ... = :brand_id` (`tenant.py:102`) carries a bind parameter, which
  PostgreSQL does not accept there.
- Migration 0002 gives all tables but `users` a `FOR ALL` policy with `WITH CHECK` and
  without `USING` (line 137): UPDATE and DELETE see no row there. Its comment at line 79
  says that FORCE binds the superuser as well; it binds the owner only.
- A Shopify callback that was past its checks when a later `/connect` committed clears
  the later state, connects the row and stores its own token (`shopify/service.py:146-148`);
  the merchant who comes back from the later `/connect` is refused.
- The Meta callback takes `ad_account_id` as it comes (`meta_logic.py:59`). An empty one
  leaves a row that is connected and of which every sync says that it is not fully
  configured (`meta/service.py:129`).
- `shopify/service.py:32` calls syncs safe to retry. They never remove a row: items that
  Shopify has deleted, and all items of a shop the brand was connected to before, stay.
- `tenant.py:29` says that execute() without scoping raises, and lines 115-117 that using
  the session underneath is not possible; nothing refuses it. The WHERE clause is about the
  `model` argument only (lines 146-147, 198), and `refresh` has none.
- `main.py` never calls `build_settings`. Were it called as `config.py` describes, the
  engine built at import would keep the URL it was built from: with PENDING in it,
  production would load its secrets and never connect. `config.py:176-178` says
  that weak defaults make the application refuse to start; a key is derived from the
  placeholder instead, and `/health` answers 200.
- `secret_manger.py:283` calls the rotation zero-downtime; an instance that has not been
  redeployed cannot read what a newer one encrypted. `TokensReadable` is therefore about
  instances with the current value.

## 5. The proofs

All theorems hold for every value of the constants that satisfies the module's
named assumption (`BreakerAssumption`, `OAuthAssumption`, `RetryAssumption`,
`IngestAssumption`, `AuthAssumption`, `MetaAssumption`, `TenancyAssumption`,
`InstancesAssumption`): positive thresholds, timeouts and page sizes, natural bounds,
finite sets of numbered items, fresh "none" values. Each proof has the same shape:
`Init => IInv`, one lemma or step per action for `IInv /\ [Next]_vars => IInv'`, and a
final step of temporal logic.

- **CircuitBreakerProofs.** `ProbeBudget` alone is not inductive: `Fail` can leave
  a circuit open, and the next episode must start with no probe of the last one. The
  invariant is `TypeOK`, `ProbeBudget` (with its clause that a circuit that is not
  half-open has no probes) and `CountMatchesState`; that the probe set is finite and
  small is a cardinality argument of its own. `ContractKept` maps each action to a
  step of `BreakerContract` or to a stutter: `Succeed` to `Close` or nothing, `Fail`
  to `Trip`, `Disturb` or nothing, `Admit` to `Probe`, `ProbeAgain` or nothing, `Tick`
  to `Wait`.
- **ShopifyOAuthProofs.** The strengthening (`RequestsIssued`) says what a request
  between its read and its commit may still rely on: its brand has a row, and a
  callback's state was issued to that brand for that shop. With it, by cases on who
  writes the row, follow `PendingIffDisconnected`, `LatestConnectStands`, `TokenWasGranted`
  and `TokenMatchesShop`. `ContractKept` maps `Connect` to `Ask`, with the next state as the
  fresh ticket; a `CallbackRead` that passes its checks to `Return`, a callback's commit to
  `Grant`, the end of one that dies to `Leave`, and every other step, the stamps included,
  to a stutter (`StampUnseen`).
- **RetryClientProofs.** The strengthening (`Fine`, one conjunct per property and
  caller) adds that an answer in hand is no older than the call and no newer than the
  resource now, that a sleep in progress is what upstream named plus at most a capped
  backoff, and that a fetch returns only with a final answer in hand. From it follow
  the three invariants and `ContractKept`. `FetchesAdvanceHolds` is the safe half of
  `EveryFetchEnds`: a natural number, twice the attempts left and the sleep, falls with
  every step of the client and rises with no step of anyone, for every `MAX_RETRIES`.
- **ShopifyIngestProofs.** `ProcessedIsStored` and `AcknowledgedIsRecorded` need what a
  handler knows between its commits (`HookFine`): before it marks, its event is in, is of
  its own order, and the order has its row; before it answers, some event of the order is
  in. `SyncCatchesUp` speaks of a sync about to stamp; `SyncFine` says that every item its
  shop lists up to its cursor is up to date, or will be once the page in hand is merged.
  Turning a page keeps that because of three facts: a page takes the first ids beyond the
  cursor (`PageSkipsNothing`, by cardinality), its greatest id exists (`MaxIsGreatest`,
  because strict inclusion of the finite sets of greater ids is well-founded), and what the
  page holds replaces what is stored. The writes and removals of others end the claim; a
  reconnect does not, because the sync keeps its shop. While the orders are synced the claim
  keeps the products (`Through`), since an undisturbed upsert of orders touches no other row.
  `ContractKept` maps the look-up of a webhook's shop to `Miss` or to nothing, the 200s to
  `Drop` and `Acknowledge` (`Forget`, when one is lost), the commits of a handler to
  `Record` and `Settle`, and the upsert of a page to `File`; it needs `HookFine` for their
  guards and `OnlyShopifys` (nothing is stored that Shopify never had) for `File`, which may
  add only orders that Shopify has announced.
- **AuthProofs.** The strengthening (`Grounded`) is about requests between two of their
  steps: what a login read of its user and of its brand, and what `Decode` found of the
  token, was right when it was read, so that it is out of date by no more than the request
  has waited. `GraceBounded` and `LeaversBounded` follow where a login issues its token.
  `LockedOutAfterGrace` needs in addition that there is no other way to be served than
  `Admit` (`ServedByAdmission`).
- **MetaConnectionProofs.** `SyncIsComplete` speaks of the moment before the stamp
  only. `Covered` says what holds on the way: the rows up to the cursor are fresh or in
  hand, and what is fresh is in the table; a page without a next link reaches the last
  row. `Exchanging` says what a callback may rely on between its read and its commit: the
  account it found is still there unless somebody overtook it, and never becomes NULL.
  `ContractKept` maps the first commit of `/connect` to `Ask`, a callback to `Return` and
  `Grant` or `Leave`, and everything else to a stutter: of the second commit (`NameUnseen`)
  and the stamp (`StampUnseen`) because they leave flag, state and token alone. `SyncsAdvanceHolds` is the safe half of
  `EverySyncEnds`: twice the rows beyond the cursor, and a few, falls with every step of a
  sync and never rises, for any number of rows and any page size. It needs
  `CursorsInRange`: a page with a next link has rows behind it.
- **TenancyProofs.** `ContextIsOfHolder` is inductive together with `HoldersAreOpen`
  (only an open session holds a connection). `Isolation` needs in addition that a pending
  change is of the session's brand unless a statement of the session strayed
  (`PendingIsOwned`). For one layer, a row of a tenant table that `d2c_app` may see is the
  session's own (`PermittedIsMine`), because the brand on one's connection can only be
  one's own (`ContextIsMine`); for the other, a statement that did not stray was filtered.
  The two are joined row by row, for whatever a statement, a refresh or a flush leaves in
  hand (`Restated`).
- **InstancesProofs.** `TokensReadable` speaks of instances that have the current value,
  and is not inductive: another instance may commit a token a moment later. `IInv` adds
  that every instance that can store tokens writes with a key that the current value
  reads. Adding a key keeps that, because the single key becomes the older of two;
  dropping one keeps it, because `DropKey` waits for every token and every instance. That
  is where each of its conditions is used. What is read is read with the value that the
  deployment supplies (`Supplied`), which is the placeholder where it supplies none.
  `NeverPartlyConfigured` needs what a start has behind it: a fetched secret is no older
  than the start (`Recent`), the engine has what the import gave it (`AsImported`), and a
  URL without PENDING after phase 2 is that of the import (`UrlIsSet`).

Only model-checked: the liveness properties (`HalfOpenResolves`, `Recovers`,
`EveryFetchEnds`, `EverySyncEnds`, `EveryWaitEnds`), because fairness is out of the
prover's reach. Of `EveryFetchEnds` and `EverySyncEnds` the part that does not depend on
fairness is proved, as said: under `WF` of steps that are enabled while there is something
left, a measure that falls with each of them ends the loop. That they are enabled, and the
step from there to `~>`, are TLC's. Every invariant and every action property of the
passing runs, and every refinement, is a theorem.

## 6. What is left out, and the plan

Left out for good:

- Log formatting, the wording of errors, HMAC computation and JSON validation: they
  refuse a request before it changes anything, or change nothing.
- `insights_logic.py`: read-only. `list_products` counts and reads its page in two
  statements, so that the two may disagree; no document promises more.
- `token_lifecycle.py`: its states follow from `token_expires_at`, which no code
  writes. EXPIRING and EXPIRED cannot be reached, and MISSING is what the sync has
  already excluded.
- The figures in an ad spend row: which rows a sync writes is kept, what is in them is
  not.
- A webhook for a shop that two brands claim: the query has no ORDER BY, and nothing
  says which brand should get it.
- The seed script and the infrastructure files, which run once and in sequence.

Order of work, most important behaviour first. All of it is done, with the contracts of
`BreakerContract`, `FetchContract`, `InboxContract` and `OAuthContract`.

1. `CircuitBreaker` with `BreakerContract`, and its proofs.
2. `ShopifyOAuth` and its proofs.
3. `ShopifyIngest` and its proofs.
4. `RetryClient` with `FetchContract`, and its proofs.
5. `Auth` and its proofs.
6. `MetaConnection` and its proofs.
7. `Tenancy`, with the session and the pool, and its proofs.
8. `Instances`: start-up, secrets and the rotation of the encryption key, and its proofs.

What remains worth proving: a contract for `Instances` (a key ring that every stored
token can be read from) and for `Tenancy` (rows that only their owner's statements
change), each with its refinement; and a measure for the recovery of a circuit, like
those of the two loops.
