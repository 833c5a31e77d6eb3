------------------------- MODULE MetaConnectionProofs -------------------------
(***************************************************************************)
(* Proofs about MetaConnection, for any accounts, requests and pages.  The *)
(* properties speak of the row and of syncs that are about to stamp; what  *)
(* makes them inductive is what a request that has read the row or a page  *)
(* may still rely on.                                                      *)
(***************************************************************************)
EXTENDS MetaConnection, TLAPS

(* A request that is past its first commit or read has an account, and a row. *)
Placed(q) ==
    /\ q.pc # "idle" => q.account \in Names /\ row # NoRow
    /\ q.pc \in {"fetching", "upserting", "stamping"} => q.account \in Accounts
    /\ q.pc = "naming" => q.state \in 1 .. issued

(* A callback that read an account finds one, and finds the one that it read
   unless it was overtaken. *)
Exchanging(q) ==
    q.pc = "exchanging" =>
        /\ q.loaded # NoAccount => row.ad_account_id # NoAccount
        /\ ~q.overtaken => row.ad_account_id = q.loaded

(* The rows before the cursor are fresh or in hand, and those that are fresh are
   in the table. *)
Behind(q) == {i \in InsightRows : i <= q.after}

Covered(q) ==
    /\ q.pc \in {"fetching", "upserting", "stamping"} => q.fresh \subseteq spend[q.account]
    /\ q.pc = "fetching" => Behind(q) \subseteq q.fresh
    /\ q.pc = "upserting" =>
          /\ q.after # NULL => Behind(q) \subseteq q.fresh \cup q.page
          /\ ~q.more => q.after # NULL /\ InsightRows \subseteq Behind(q)
    /\ q.pc = "stamping" /\ ~q.cut => InsightRows \subseteq q.fresh

Fine(q) == Placed(q) /\ Exchanging(q) /\ Covered(q)

IInv ==
    /\ TypeOK
    /\ ConnectedIsConfigured
    /\ TokenMatchesAccount
    /\ \A r \in Requests : Fine(request[r])

-----------------------------------------------------------------------------

LEMMA ConstantsTyped ==
    /\ TOTAL_ROWS \in Nat /\ PAGE_SIZE \in Nat \ {0} /\ MAX_CONNECTS \in Nat
    /\ NoRow \notin Connection /\ NoAccount \notin Names
    /\ Empty \notin Accounts /\ Accounts \subseteq Names
    /\ NULL \notin States
BY MetaAssumption DEF MetaAssumption, States, NULL, Names

LEMMA IdleIsFine == Idle \in Request /\ Fine(Idle) /\ Idle.pc = "idle"
BY DEF Idle, Request, Fine, Placed, Exchanging, Covered, NULL

(* A step that puts request r at q and leaves the tables alone. *)
LEMMA GotoKeepsIInv ==
    ASSUME IInv, NEW r \in Requests, NEW q \in Request, Fine(q),
           request' = [request EXCEPT ![r] = q],
           UNCHANGED <<row, spend, issued, answered, crossed>>
    PROVE  IInv'
<1>1. \A s \in Requests : request'[s] = IF s = r THEN q ELSE request[s]
  BY DEF IInv, TypeOK
<1>2. TypeOK'
  BY DEF IInv, TypeOK
<1>3. ConnectedIsConfigured' /\ TokenMatchesAccount'
  BY DEF IInv, ConnectedIsConfigured, TokenMatchesAccount
<1>4. ASSUME NEW s \in Requests
      PROVE  Fine(request[s])'
  <2>1. Fine(request'[s])
    BY <1>1 DEF IInv
  <2> QED BY <2>1 DEF Fine, Placed, Exchanging, Covered
<1> QED BY <1>2, <1>3, <1>4 DEF IInv

(* A step that writes the row, puts request r at q and so overtakes the others. *)
LEMMA WriteKeepsIInv ==
    ASSUME IInv, NEW r \in Requests, NEW q \in Request, Wrote(r, q), UNCHANGED spend,
           row' \in Connection, issued' \in 0 .. MAX_CONNECTS, issued <= issued',
           answered' \subseteq 1 .. issued', crossed' \in BOOLEAN,
           ConnectedIsConfigured', TokenMatchesAccount', Fine(q)',
           row # NoRow /\ row.ad_account_id # NoAccount => row'.ad_account_id # NoAccount
    PROVE  IInv'
<1>1. ASSUME NEW s \in Requests
      PROVE  /\ request'[s] \in Request
             /\ s # r => request'[s].overtaken
             /\ s # r => /\ request'[s].pc = request[s].pc
                         /\ request'[s].account = request[s].account
                         /\ request'[s].state = request[s].state
                         /\ request'[s].loaded = request[s].loaded
                         /\ request'[s].after = request[s].after
                         /\ request'[s].page = request[s].page
                         /\ request'[s].more = request[s].more
                         /\ request'[s].fresh = request[s].fresh
                         /\ request'[s].cut = request[s].cut
  <2>1. request[s] \in Request
    BY DEF IInv, TypeOK
  <2>2. request'[s] = IF s = r THEN q ELSE [request[s] EXCEPT !.overtaken = TRUE]
    BY DEF Wrote
  <2>3. CASE s = r
    BY <2>2, <2>3
  <2>4. CASE s # r
    <3>1. request'[s] = [request[s] EXCEPT !.overtaken = TRUE]
      BY <2>2, <2>4
    <3>2. request'[s] \in Request
      BY <2>1, <3>1 DEF Request
    <3> QED BY <2>1, <2>4, <3>1, <3>2 DEF Request
  <2> QED BY <2>3, <2>4
<1>2. TypeOK'
  BY <1>1 DEF IInv, TypeOK, Wrote
<1>3. row' # NoRow
  BY ConstantsTyped
<1>4. ASSUME NEW s \in Requests
      PROVE  Fine(request[s])'
  <2>1. CASE s = r
    <3>1. request'[r] = q
      BY DEF Wrote
    <3> QED BY <2>1, <3>1 DEF Fine, Placed, Exchanging, Covered
  <2>2. CASE s # r
    <3>1. Fine(request[s])
      BY DEF IInv
    <3>2. Placed(request[s])'
      BY <1>1, <1>3, <2>2, <3>1 DEF Fine, Placed, IInv, TypeOK
    <3>3. Exchanging(request[s])'
      BY <1>1, <2>2, <3>1 DEF Fine, Placed, Exchanging
    <3>4. Covered(request[s])'
      BY <1>1, <2>2, <3>1 DEF Fine, Covered, Behind
    <3> QED BY <3>2, <3>3, <3>4 DEF Fine
  <2> QED BY <2>1, <2>2
<1> QED BY <1>2, <1>4 DEF IInv

-----------------------------------------------------------------------------
(* The actions on the row. *)

LEMMA ConnectInitiateKeepsIInv ==
    ASSUME IInv, NEW r \in Requests, NEW a \in Names, ConnectInitiate(r, a)
    PROVE  IInv'
<1>1. /\ issued < MAX_CONNECTS /\ issued' = issued + 1
      /\ row' = Initiated(row, issued + 1)
      /\ Wrote(r, [Idle EXCEPT !.pc = "naming", !.account = a, !.state = issued + 1])
      /\ UNCHANGED <<spend, answered, crossed>>
  BY DEF ConnectInitiate
<1>2. issued \in 0 .. MAX_CONNECTS /\ issued + 1 \in States /\ issued + 1 # NULL
  BY <1>1, ConstantsTyped DEF IInv, TypeOK, States, NULL
<1>3. PICK q : q = [Idle EXCEPT !.pc = "naming", !.account = a, !.state = issued + 1]
  OBVIOUS
<1>4. q = [pc |-> "naming", account |-> a, state |-> issued + 1, loaded |-> NoAccount,
           after |-> NULL, page |-> {}, more |-> FALSE, overtaken |-> FALSE,
           fresh |-> {}, cut |-> FALSE]
  BY <1>3 DEF Idle
<1>5. q \in Request
  BY <1>2, <1>4 DEF Request, NULL
<1>6. /\ row' \in Connection /\ ~row'.is_connected
      /\ row'.oauth_state = issued + 1
      /\ row # NoRow => row'.ad_account_id = row.ad_account_id
  <2>1. CASE row = NoRow
    BY <1>1, <1>2, <2>1 DEF Initiated, Connection
  <2>2. CASE row # NoRow
    <3>1. row \in Connection
      BY <2>2 DEF IInv, TypeOK
    <3>2. PICK new : new = [row EXCEPT !.oauth_state = issued + 1, !.is_connected = FALSE]
      OBVIOUS
    <3>3. new = [oauth_state |-> issued + 1, ad_account_id |-> row.ad_account_id,
                 is_connected |-> FALSE, access_token |-> row.access_token,
                 last_synced_at |-> row.last_synced_at]
      BY <3>1, <3>2 DEF Connection
    <3>4. row' = new
      BY <1>1, <2>2, <3>2 DEF Initiated
    <3> QED BY <1>2, <3>1, <3>3, <3>4 DEF Connection
  <2> QED BY <2>1, <2>2
<1>7. ConnectedIsConfigured' /\ TokenMatchesAccount'
  BY <1>2, <1>6 DEF ConnectedIsConfigured, TokenMatchesAccount
<1>8. Fine(q)'
  BY <1>1, <1>2, <1>4, <1>6, ConstantsTyped DEF Fine, Placed, Exchanging, Covered
<1>9. issued' \in 0 .. MAX_CONNECTS /\ issued <= issued' /\ answered' \subseteq 1 .. issued'
  BY <1>1, <1>2, ConstantsTyped DEF IInv, TypeOK
<1>10. Wrote(r, q) /\ UNCHANGED spend /\ crossed' \in BOOLEAN
  BY <1>1, <1>3 DEF IInv, TypeOK
<1> QED BY <1>5, <1>6, <1>7, <1>8, <1>9, <1>10, WriteKeepsIInv

LEMMA ConnectNameKeepsIInv ==
    ASSUME IInv, NEW r \in Requests, ConnectName(r)
    PROVE  IInv'
<1> DEFINE q == request[r]
<1>1. /\ q.pc = "naming"
      /\ row' = [row EXCEPT !.ad_account_id = q.account]
      /\ answered' = answered \cup {q.state}
      /\ crossed' = (crossed \/ row.is_connected)
      /\ Wrote(r, Idle)
      /\ UNCHANGED <<spend, issued>>
  BY DEF ConnectName, Named
<1>2. q \in Request /\ q.account \in Names /\ q.state \in 1 .. issued
  BY <1>1 DEF IInv, TypeOK, Fine, Placed
<1>3. row \in Connection /\ row # NoRow
  BY <1>1, ConstantsTyped DEF IInv, TypeOK, Fine, Placed
<1>4. row' = [oauth_state |-> row.oauth_state, ad_account_id |-> q.account,
              is_connected |-> row.is_connected, access_token |-> row.access_token,
              last_synced_at |-> row.last_synced_at]
  BY <1>1, <1>3 DEF Connection
<1>5. row' \in Connection
  BY <1>2, <1>3, <1>4 DEF Connection
<1>6. ConnectedIsConfigured' /\ TokenMatchesAccount'
  BY <1>1, <1>2, <1>3, <1>4, ConstantsTyped
     DEF IInv, ConnectedIsConfigured, TokenMatchesAccount
<1>7. Fine(Idle)'
  BY <1>1 DEF Idle, Fine, Placed, Exchanging, Covered
<1>8. issued' \in 0 .. MAX_CONNECTS /\ issued <= issued' /\ answered' \subseteq 1 .. issued'
  BY <1>1, <1>2, ConstantsTyped DEF IInv, TypeOK
<1>9. crossed' \in BOOLEAN
  BY <1>1, <1>3 DEF Connection, IInv, TypeOK
<1>10. row'.ad_account_id # NoAccount
  BY <1>2, <1>4, ConstantsTyped
<1> HIDE DEF q
<1> QED BY <1>1, <1>5, <1>6, <1>7, <1>8, <1>9, <1>10, IdleIsFine, WriteKeepsIInv

LEMMA CallbackReadKeepsIInv ==
    ASSUME IInv, NEW r \in Requests, NEW a \in Names, NEW n \in answered,
           CallbackRead(r, a, n)
    PROVE  IInv'
<1>1. PICK q : q = [Idle EXCEPT !.pc = "exchanging", !.account = a, !.state = n,
                                !.loaded = row.ad_account_id]
  OBVIOUS
<1>2. /\ request' = [request EXCEPT ![r] = q] /\ row # NoRow
      /\ UNCHANGED <<row, spend, issued, answered, crossed>>
  BY <1>1 DEF CallbackRead, Accepts
<1>3. q = [pc |-> "exchanging", account |-> a, state |-> n, loaded |-> row.ad_account_id,
           after |-> NULL, page |-> {}, more |-> FALSE, overtaken |-> FALSE,
           fresh |-> {}, cut |-> FALSE]
  BY <1>1 DEF Idle
<1>4. row \in Connection /\ n \in States
  BY <1>2, ConstantsTyped DEF IInv, TypeOK, States
<1>5. q \in Request
  BY <1>3, <1>4 DEF Request, Connection, NULL
<1>6. Fine(q)
  BY <1>2, <1>3 DEF Fine, Placed, Exchanging, Covered
<1> QED BY <1>2, <1>5, <1>6, GotoKeepsIInv

LEMMA CallbackCommitKeepsIInv ==
    ASSUME IInv, NEW r \in Requests, CallbackCommit(r)
    PROVE  IInv'
<1> DEFINE q == request[r]
           account == IF q.account = q.loaded THEN row.ad_account_id ELSE q.account
<1>1. /\ q.pc = "exchanging" /\ row' = Completed(row, q)
      /\ crossed' = q.overtaken /\ Wrote(r, Idle)
      /\ UNCHANGED <<spend, issued, answered>>
  BY DEF CallbackCommit
<1>2. /\ q \in Request /\ q.account \in Names
      /\ q.loaded # NoAccount => row.ad_account_id # NoAccount
      /\ ~q.overtaken => row.ad_account_id = q.loaded
  BY <1>1 DEF IInv, TypeOK, Fine, Placed, Exchanging
<1>3. row \in Connection /\ row # NoRow
  BY <1>1, ConstantsTyped DEF IInv, TypeOK, Fine, Placed
<1>4. row' = [oauth_state |-> NULL, ad_account_id |-> account, is_connected |-> TRUE,
              access_token |-> q.account, last_synced_at |-> row.last_synced_at]
  <2>1. PICK new : new = [row EXCEPT !.access_token = q.account, !.ad_account_id = account,
                                     !.is_connected = TRUE, !.oauth_state = NULL]
    OBVIOUS
  <2>2. new = [oauth_state |-> NULL, ad_account_id |-> account, is_connected |-> TRUE,
               access_token |-> q.account, last_synced_at |-> row.last_synced_at]
    BY <1>3, <2>1 DEF Connection
  <2>3. row' = new
    BY <1>1, <2>1 DEF Completed
  <2> QED BY <2>2, <2>3
<1>5. account \in Names
  BY <1>2, <1>3, ConstantsTyped DEF Connection
<1>6. row' \in Connection
  BY <1>2, <1>3, <1>4, <1>5 DEF Connection
<1>7. ~q.overtaken => account = q.account
  BY <1>2
<1>8. ConnectedIsConfigured' /\ TokenMatchesAccount'
  BY <1>1, <1>2, <1>4, <1>5, <1>7, ConstantsTyped
     DEF ConnectedIsConfigured, TokenMatchesAccount
<1>9. Fine(Idle)'
  BY <1>1 DEF Idle, Fine, Placed, Exchanging, Covered
<1>10. issued' \in 0 .. MAX_CONNECTS /\ issued <= issued' /\ answered' \subseteq 1 .. issued'
  BY <1>1, ConstantsTyped DEF IInv, TypeOK
<1>11. crossed' \in BOOLEAN /\ row'.ad_account_id # NoAccount
  BY <1>1, <1>2, <1>4, <1>5, ConstantsTyped DEF Request
<1> HIDE DEF q, account
<1> QED BY <1>1, <1>6, <1>8, <1>9, <1>10, <1>11, IdleIsFine, WriteKeepsIInv

-----------------------------------------------------------------------------
(* The actions of a sync. *)

LEMMA SyncStartKeepsIInv ==
    ASSUME IInv, NEW r \in Requests, SyncStart(r)
    PROVE  IInv'
<1>1. PICK q : q = [Idle EXCEPT !.pc = "fetching", !.account = row.ad_account_id]
  OBVIOUS
<1>2. /\ request' = [request EXCEPT ![r] = q] /\ row # NoRow
      /\ row.ad_account_id \notin {NoAccount, Empty}
      /\ UNCHANGED <<row, spend, issued, answered, crossed>>
  BY <1>1 DEF SyncStart, Configured
<1>3. q = [pc |-> "fetching", account |-> row.ad_account_id, state |-> NULL,
           loaded |-> NoAccount, after |-> NULL, page |-> {}, more |-> FALSE,
           overtaken |-> FALSE, fresh |-> {}, cut |-> FALSE]
  BY <1>1 DEF Idle
<1>4. row.ad_account_id \in Accounts /\ row.ad_account_id \in Names
  BY <1>2, ConstantsTyped DEF IInv, TypeOK, Connection, Names
<1>5. q \in Request
  BY <1>3, <1>4 DEF Request, NULL
<1>6. \A i \in InsightRows : ~(i <= q.after)
  BY <1>3 DEF InsightRows, NULL
<1>7. Fine(q)
  BY <1>2, <1>3, <1>4, <1>6 DEF Fine, Placed, Exchanging, Covered, Behind
<1> QED BY <1>2, <1>5, <1>7, GotoKeepsIInv

LEMMA FetchKeepsIInv ==
    ASSUME IInv, NEW r \in Requests, NEW cursorless \in BOOLEAN, Fetch(r, cursorless)
    PROVE  IInv'
<1> DEFINE p == request[r]
           after == IF cursorless THEN NULL ELSE p.after + PAGE_SIZE
<1>1. PICK q : q = [p EXCEPT !.pc = "upserting", !.page = PageRows(p.after),
                             !.more = HasNext(p.after), !.after = after]
  OBVIOUS
<1>2. p \in Request /\ Fine(p)
  BY DEF IInv, TypeOK
<1>3. q = [pc |-> "upserting", account |-> p.account, state |-> p.state,
           loaded |-> p.loaded, after |-> after, page |-> PageRows(p.after),
           more |-> HasNext(p.after), overtaken |-> p.overtaken,
           fresh |-> p.fresh, cut |-> p.cut]
  BY <1>1, <1>2 DEF Request
<1>4. /\ p.pc = "fetching" /\ (cursorless => HasNext(p.after))
      /\ UNCHANGED <<row, spend, issued, answered, crossed>>
  BY DEF Fetch
<1>5. request' = [request EXCEPT ![r] = q]
  BY <1>1 DEF Fetch
<1>6. p.after \in Nat /\ after \in Nat /\ (~cursorless => after # NULL)
  BY <1>2, ConstantsTyped DEF Request, NULL
<1>7. q \in Request
  BY <1>2, <1>3, <1>6 DEF Request, PageRows, HasNext
<1>8. ASSUME q.after # NULL
      PROVE  Behind(q) \subseteq q.fresh \cup q.page
  <2>1. q.after = p.after + PAGE_SIZE
    BY <1>3, <1>8
  <2>2. \A i \in InsightRows : i <= p.after => i \in p.fresh
    BY <1>2, <1>4 DEF Fine, Covered, Behind
  <2>3. \A i \in InsightRows : i <= p.after + PAGE_SIZE =>
                                   i <= p.after \/ i \in PageRows(p.after)
    BY <1>6, ConstantsTyped DEF PageRows, InsightRows
  <2> QED BY <1>3, <2>1, <2>2, <2>3 DEF Behind
<1>9. ASSUME ~q.more
      PROVE  q.after # NULL /\ InsightRows \subseteq Behind(q)
  <2>1. ~(p.after + PAGE_SIZE < TOTAL_ROWS) /\ ~cursorless
    BY <1>3, <1>4, <1>9 DEF HasNext
  <2>2. q.after = p.after + PAGE_SIZE
    BY <1>3, <2>1
  <2>3. \A i \in InsightRows : i <= p.after + PAGE_SIZE
    BY <1>6, <2>1, ConstantsTyped DEF InsightRows
  <2> QED BY <1>3, <1>6, <2>1, <2>2, <2>3 DEF Behind
<1>10. Fine(q)
  <2>1. Placed(q) /\ Exchanging(q)
    BY <1>2, <1>3, <1>4 DEF Fine, Placed, Exchanging
  <2>2. Covered(q)
    BY <1>2, <1>3, <1>4, <1>8, <1>9 DEF Fine, Covered
  <2> QED BY <2>1, <2>2 DEF Fine
<1> QED BY <1>4, <1>5, <1>7, <1>10, GotoKeepsIInv

(* What request r becomes when its page is written: it goes on or stamps, with
   nothing in hand and the page among its fresh rows. *)
LEMMA AdvancedPage ==
    ASSUME NEW p \in Request, NEW q,
           q = Advance([p EXCEPT !.fresh = @ \cup Written(p)])
    PROVE  /\ q \in Request
           /\ q.pc = IF p.more /\ p.after # NULL THEN "fetching" ELSE "stamping"
           /\ q.account = p.account /\ q.after = p.after
           /\ q.fresh = p.fresh \cup p.page
           /\ q.pc = "stamping" => q.cut = p.more
<1>1. PICK n : n = [p EXCEPT !.fresh = p.fresh \cup p.page]
  OBVIOUS
<1>2. n = [pc |-> p.pc, account |-> p.account, state |-> p.state, loaded |-> p.loaded,
           after |-> p.after, page |-> p.page, more |-> p.more,
           overtaken |-> p.overtaken, fresh |-> p.fresh \cup p.page, cut |-> p.cut]
  BY <1>1 DEF Request
<1>3. n \in Request
  BY <1>2 DEF Request
<1>4. q = Advance(n)
  BY <1>1 DEF Written
<1>5. CASE p.more /\ p.after # NULL
  <2>1. q = [n EXCEPT !.pc = "fetching", !.page = {}]
    BY <1>2, <1>4, <1>5 DEF Advance
  <2>2. PICK m : m = [n EXCEPT !.pc = "fetching", !.page = {}]
    OBVIOUS
  <2>3. m = [pc |-> "fetching", account |-> n.account, state |-> n.state,
             loaded |-> n.loaded, after |-> n.after, page |-> {}, more |-> n.more,
             overtaken |-> n.overtaken, fresh |-> n.fresh, cut |-> n.cut]
    BY <1>3, <2>2 DEF Request
  <2>4. q = m
    BY <2>1, <2>2
  <2>5. q \in Request
    <3>1. /\ n.account \in Names \cup {NoAccount} /\ n.state \in States \cup {NULL}
          /\ n.loaded \in Names \cup {NoAccount} /\ n.after \in Nat
          /\ n.more \in BOOLEAN /\ n.overtaken \in BOOLEAN
          /\ n.fresh \in SUBSET InsightRows /\ n.cut \in BOOLEAN
      BY <1>3 DEF Request
    <3>2. m \in Request
      BY <2>3, <3>1 DEF Request
    <3> QED BY <2>4, <3>2
  <2>6. q.account = p.account /\ q.after = p.after /\ q.fresh = p.fresh \cup p.page
    BY <1>2, <2>3, <2>4
  <2>7. q.pc = "fetching"
    BY <2>3, <2>4
  <2>8. q.pc # "stamping"
    BY <1>2, <2>3, <2>4
  <2> QED BY <1>5, <2>5, <2>6, <2>7, <2>8
<1>6. CASE ~(p.more /\ p.after # NULL)
  <2>1. q = [n EXCEPT !.pc = "stamping", !.page = {}, !.cut = n.more]
    BY <1>2, <1>4, <1>6 DEF Advance
  <2>2. PICK m : m = [n EXCEPT !.pc = "stamping", !.page = {}, !.cut = n.more]
    OBVIOUS
  <2>3. m = [pc |-> "stamping", account |-> n.account, state |-> n.state,
             loaded |-> n.loaded, after |-> n.after, page |-> {}, more |-> n.more,
             overtaken |-> n.overtaken, fresh |-> n.fresh, cut |-> n.more]
    BY <1>3, <2>2 DEF Request
  <2>4. q = m
    BY <2>1, <2>2
  <2>5. q \in Request
    <3>1. /\ n.account \in Names \cup {NoAccount} /\ n.state \in States \cup {NULL}
          /\ n.loaded \in Names \cup {NoAccount} /\ n.after \in Nat
          /\ n.more \in BOOLEAN /\ n.overtaken \in BOOLEAN
          /\ n.fresh \in SUBSET InsightRows /\ n.cut \in BOOLEAN
      BY <1>3 DEF Request
    <3>2. m \in Request
      BY <2>3, <3>1 DEF Request
    <3> QED BY <2>4, <3>2
  <2>6. q.account = p.account /\ q.after = p.after /\ q.fresh = p.fresh \cup p.page
    BY <1>2, <2>3, <2>4
  <2>7. q.pc = "stamping"
    BY <2>3, <2>4
  <2>8. q.cut = p.more
    BY <1>2, <2>3, <2>4
  <2> QED BY <1>6, <2>5, <2>6, <2>7, <2>8
<1> QED BY <1>5, <1>6

LEMMA UpsertAdSpendKeepsIInv ==
    ASSUME IInv, NEW r \in Requests, UpsertAdSpend(r)
    PROVE  IInv'
<1> DEFINE p == request[r]
           a == p.account
<1>1. /\ p.pc = "upserting"
      /\ spend' = [spend EXCEPT ![a] = @ \cup p.page]
      /\ UNCHANGED <<row, issued, answered, crossed>>
  BY DEF UpsertAdSpend, Written
<1>2. p \in Request /\ Fine(p) /\ a \in Accounts /\ row # NoRow
  BY <1>1 DEF IInv, TypeOK, Fine, Placed
<1>3. PICK q : q = Advance([p EXCEPT !.fresh = @ \cup Written(p)])
  OBVIOUS
<1>4. /\ q \in Request
      /\ q.pc = IF p.more /\ p.after # NULL THEN "fetching" ELSE "stamping"
      /\ q.account = a /\ q.after = p.after
      /\ q.fresh = p.fresh \cup p.page
      /\ q.pc = "stamping" => q.cut = p.more
  BY <1>2, <1>3, AdvancedPage
<1>5. \A b \in Accounts : spend'[b] = IF b = a THEN spend[b] \cup p.page ELSE spend[b]
  BY <1>1 DEF IInv, TypeOK
<1>6. request'[r] = q
  BY <1>3 DEF UpsertAdSpend
<1>7. p.page \subseteq InsightRows
  BY <1>2 DEF Request
<1>8. ASSUME NEW s \in Requests, s # r
      PROVE  \E fresh \in SUBSET InsightRows :
               /\ request'[s] = [request[s] EXCEPT !.fresh = fresh]
               /\ request[s].fresh \subseteq fresh
               /\ fresh \subseteq request[s].fresh \cup p.page
               /\ Syncing(s) /\ request[s].account # a => fresh = request[s].fresh
  <2>1. request[s] \in Request
    BY DEF IInv, TypeOK
  <2>2. CASE Syncing(s) /\ request[s].account = a
    <3>1. request'[s] = [request[s] EXCEPT !.fresh = request[s].fresh \cup p.page]
      BY <1>8, <2>2 DEF UpsertAdSpend, Written
    <3>2. request[s].fresh \cup p.page \in SUBSET InsightRows
      BY <1>7, <2>1 DEF Request
    <3> QED BY <2>2, <3>1, <3>2
  <2>3. CASE ~(Syncing(s) /\ request[s].account = a)
    <3>1. request'[s] = request[s]
      BY <1>8, <2>3 DEF UpsertAdSpend
    <3>2. request[s] = [request[s] EXCEPT !.fresh = request[s].fresh]
      BY <2>1 DEF Request
    <3>3. request[s].fresh \in SUBSET InsightRows
      BY <2>1 DEF Request
    <3> QED BY <2>3, <3>1, <3>2, <3>3
  <2> QED BY <2>2, <2>3
<1> HIDE DEF p, a
<1>9. ASSUME NEW s \in Requests, s # r
      PROVE  /\ request'[s] \in Request
             /\ Fine(request[s])'
  <2>1. request[s] \in Request /\ Fine(request[s])
    BY DEF IInv, TypeOK
  <2>2. PICK fresh \in SUBSET InsightRows :
           /\ request'[s] = [request[s] EXCEPT !.fresh = fresh]
           /\ request[s].fresh \subseteq fresh
           /\ fresh \subseteq request[s].fresh \cup p.page
           /\ Syncing(s) /\ request[s].account # a => fresh = request[s].fresh
    BY <1>8, <1>9
  <2>3. PICK n : n = request'[s]
    OBVIOUS
  <2>4. n = [pc |-> request[s].pc, account |-> request[s].account,
             state |-> request[s].state, loaded |-> request[s].loaded,
             after |-> request[s].after, page |-> request[s].page,
             more |-> request[s].more, overtaken |-> request[s].overtaken,
             fresh |-> fresh, cut |-> request[s].cut]
    BY <2>1, <2>2, <2>3 DEF Request
  <2>5. n \in Request
    BY <2>1, <2>4 DEF Request
  <2>6. Placed(n)' /\ Exchanging(n)'
    BY <1>1, <2>1, <2>4 DEF Fine, Placed, Exchanging
  <2>7. n.pc \in {"fetching", "upserting", "stamping"} => n.fresh \subseteq spend'[n.account]
    BY <1>5, <2>1, <2>2, <2>4 DEF Fine, Placed, Covered, Syncing
  <2>8. Behind(n) = Behind(request[s])
    BY <2>4 DEF Behind
  <2>9. Covered(n)'
    <3>1. n.pc = "fetching" => Behind(n) \subseteq n.fresh
      BY <2>1, <2>2, <2>4, <2>8 DEF Fine, Covered
    <3>2. n.pc = "upserting" =>
            /\ n.after # NULL => Behind(n) \subseteq n.fresh \cup n.page
            /\ ~n.more => n.after # NULL /\ InsightRows \subseteq Behind(n)
      BY <2>1, <2>2, <2>4, <2>8 DEF Fine, Covered
    <3>3. n.pc = "stamping" /\ ~n.cut => InsightRows \subseteq n.fresh
      BY <2>1, <2>2, <2>4 DEF Fine, Covered
    <3> QED BY <2>7, <3>1, <3>2, <3>3 DEF Covered, Behind
  <2> QED BY <2>3, <2>5, <2>6, <2>9 DEF Fine, Placed, Exchanging, Covered, Behind
<1>10. Fine(q)'
  <2>1. Placed(q)' /\ Exchanging(q)'
    BY <1>1, <1>2, <1>4, ConstantsTyped DEF Placed, Exchanging
  <2>2. q.fresh \subseteq spend'[q.account]
    BY <1>1, <1>2, <1>4, <1>5 DEF Fine, Covered, a
  <2>3. Behind(q) = Behind(p)
    BY <1>4 DEF Behind
  <2>4. q.pc = "fetching" => Behind(q) \subseteq q.fresh
    BY <1>1, <1>2, <1>4, <2>3 DEF Fine, Covered
  <2>5. q.pc = "stamping" /\ ~q.cut => InsightRows \subseteq q.fresh
    BY <1>1, <1>2, <1>4, <2>3 DEF Fine, Covered
  <2>6. q.pc # "upserting"
    BY <1>4
  <2> QED BY <2>1, <2>2, <2>4, <2>5, <2>6 DEF Fine, Covered, Behind
<1>11. TypeOK'
  <2>1. spend' \in [Accounts -> SUBSET InsightRows]
    BY <1>1, <1>7 DEF IInv, TypeOK
  <2>2. \A s \in Requests : request'[s] \in Request
    BY <1>4, <1>6, <1>9
  <2>3. request' \in [Requests -> Request]
    BY <2>2 DEF UpsertAdSpend
  <2> QED BY <1>1, <2>1, <2>3 DEF IInv, TypeOK
<1>12. ConnectedIsConfigured' /\ TokenMatchesAccount'
  BY <1>1 DEF IInv, ConnectedIsConfigured, TokenMatchesAccount
<1>13. ASSUME NEW s \in Requests
       PROVE  Fine(request[s])'
  <2>1. CASE s = r
    BY <1>6, <1>10, <2>1 DEF Fine, Placed, Exchanging, Covered, Behind
  <2> QED BY <1>9, <2>1
<1> QED BY <1>11, <1>12, <1>13 DEF IInv

LEMMA StampKeepsIInv ==
    ASSUME IInv, NEW r \in Requests, Stamp(r)
    PROVE  IInv'
<1>1. /\ request[r].pc = "stamping"
      /\ row' = [row EXCEPT !.last_synced_at = TRUE]
      /\ request' = [request EXCEPT ![r] = Idle]
      /\ UNCHANGED <<spend, issued, answered, crossed>>
  BY DEF Stamp
<1>2. row \in Connection
  BY <1>1 DEF IInv, TypeOK, Fine, Placed
<1>3. row' = [oauth_state |-> row.oauth_state, ad_account_id |-> row.ad_account_id,
              is_connected |-> row.is_connected, access_token |-> row.access_token,
              last_synced_at |-> TRUE]
  BY <1>1, <1>2 DEF Connection
<1>4. row' \in Connection /\ row' # NoRow /\ row # NoRow
  <2>1. row' \in Connection
    BY <1>2, <1>3 DEF Connection
  <2> QED BY <1>2, <2>1, ConstantsTyped
<1>5. TypeOK'
  BY <1>1, <1>4, IdleIsFine DEF IInv, TypeOK
<1>6. ConnectedIsConfigured' /\ TokenMatchesAccount'
  BY <1>1, <1>3, <1>4 DEF IInv, ConnectedIsConfigured, TokenMatchesAccount
<1>7. ASSUME NEW s \in Requests
      PROVE  Fine(request[s])'
  <2>1. request'[s] = IF s = r THEN Idle ELSE request[s]
    BY <1>1 DEF IInv, TypeOK
  <2>2. Fine(request'[s])
    BY <2>1, IdleIsFine DEF IInv
  <2> QED BY <1>1, <1>3, <1>4, <2>2 DEF Fine, Placed, Exchanging, Covered
<1> QED BY <1>5, <1>6, <1>7 DEF IInv

-----------------------------------------------------------------------------

LEMMA NextKeepsIInv ==
    ASSUME IInv, [Next]_vars
    PROVE  IInv'
<1>1. CASE UNCHANGED vars
  BY <1>1 DEF vars, IInv, TypeOK, ConnectedIsConfigured, TokenMatchesAccount,
              Fine, Placed, Exchanging, Covered
<1>2. CASE \E r \in Requests, a \in Names :
              \/ ConnectInitiate(r, a)
              \/ \E n \in answered : CallbackRead(r, a, n)
  BY <1>2, ConnectInitiateKeepsIInv, CallbackReadKeepsIInv
<1>3. CASE \E r \in Requests : ConnectName(r) \/ CallbackCommit(r)
  BY <1>3, ConnectNameKeepsIInv, CallbackCommitKeepsIInv
<1>4. CASE \E r \in Requests : SyncStart(r) \/ SyncStep(r)
  BY <1>4, SyncStartKeepsIInv, FetchKeepsIInv, UpsertAdSpendKeepsIInv, StampKeepsIInv
     DEF SyncStep
<1>5. CASE \E r \in Requests : Abort(r)
  BY <1>5, IdleIsFine, GotoKeepsIInv DEF Abort
<1>6. CASE \E r \in Requests : Refuse(r)
  BY <1>1, <1>6 DEF Refuse
<1> QED BY <1>1, <1>2, <1>3, <1>4, <1>5, <1>6 DEF Next

LEMMA InitKeepsIInv == Init => IInv
<1> SUFFICES ASSUME Init PROVE IInv
  OBVIOUS
<1>1. TypeOK
  <2>1. request \in [Requests -> Request]
    BY IdleIsFine DEF Init
  <2>2. spend \in [Accounts -> SUBSET InsightRows]
    BY DEF Init
  <2>3. issued \in 0 .. MAX_CONNECTS /\ answered \subseteq 1 .. issued
    BY ConstantsTyped DEF Init
  <2> QED BY <2>1, <2>2, <2>3 DEF Init, TypeOK
<1>2. ConnectedIsConfigured /\ TokenMatchesAccount
  BY Zenon DEF Init, ConnectedIsConfigured, TokenMatchesAccount
<1>3. \A r \in Requests : Fine(request[r])
  BY IdleIsFine DEF Init
<1> QED BY <1>1, <1>2, <1>3 DEF IInv

-----------------------------------------------------------------------------

(* The inductive invariant of the connection and its syncs. *)
THEOREM Invariance == Spec => []IInv
<1>1. IInv /\ [Next]_vars => IInv'
  BY NextKeepsIInv
<1> QED BY <1>1, InitKeepsIInv, PTL DEF Spec

(* The variables keep their types. *)
THEOREM TypeCorrect == Spec => []TypeOK
<1>1. IInv => TypeOK
  BY DEF IInv
<1> QED BY <1>1, Invariance, PTL

(* A connected row has a token and an account that are not NULL, whatever died
   between the two commits of /connect and whatever accounts were named. *)
THEOREM ConnectedIsConfiguredHolds == Spec => []ConnectedIsConfigured
<1>1. IInv => ConnectedIsConfigured
  BY DEF IInv
<1> QED BY <1>1, Invariance, PTL

(* Only requests that cross pair an account with another account's token. *)
THEOREM TokenMatchesAccountHolds == Spec => []TokenMatchesAccount
<1>1. IInv => TokenMatchesAccount
  BY DEF IInv
<1> QED BY <1>1, Invariance, PTL

(* A sync that gets to stamp has written every row, for pages of any size and
   any number of syncs and of rows. *)
THEOREM SyncIsCompleteHolds == Spec => []SyncIsComplete
<1>1. ASSUME IInv, NEW r \in Requests, request[r].pc = "stamping", ~request[r].cut
      PROVE  request[r].fresh = InsightRows /\ spend[request[r].account] = InsightRows
  <2>1. request[r] \in Request /\ request[r].account \in Accounts
    BY <1>1 DEF IInv, TypeOK, Fine, Placed
  <2>2. request[r].fresh \subseteq InsightRows /\ spend[request[r].account] \subseteq InsightRows
    BY <1>1, <2>1 DEF IInv, TypeOK, Request
  <2>3. InsightRows \subseteq request[r].fresh
    BY <1>1 DEF IInv, Fine, Covered
  <2>4. request[r].fresh \subseteq spend[request[r].account]
    BY <1>1 DEF IInv, Fine, Covered
  <2> QED BY <2>2, <2>3, <2>4
<1>2. IInv => SyncIsComplete
  BY <1>1 DEF SyncIsComplete
<1> QED BY <1>2, Invariance, PTL

-----------------------------------------------------------------------------
(* The row implements OAuthContract.  AwaitedOf, OnlineOf, TokenOf and VisitOf are
   the refinement mapping of Implemented. *)

AwaitedIn(b, c) ==
    IF c = NoRow \/ c.oauth_state = NULL THEN {}
    ELSE [brand: {b}, ticket: {c.oauth_state}, account: Names]
OnlineIn(c) == c # NoRow /\ c.is_connected
TokenIn(c) == IF c = NoRow THEN NoAccount ELSE c.access_token
VisitIn(q) ==
    IF q.pc = "exchanging"
    THEN {[brand |-> "brand", ticket |-> q.state, account |-> q.account]}
    ELSE {}

AwaitedOf == [b \in {"brand"} |-> AwaitedIn(b, row)]
OnlineOf == [b \in {"brand"} |-> OnlineIn(row)]
TokenOf == [b \in {"brand"} |-> TokenIn(row)]
VisitOf == [r \in Requests |-> VisitIn(request[r])]

(* The actions of the contract over the mapped state. *)
LEMMA AskMatches ==
    ASSUME NEW ticket \in States \ (1 .. issued), 1 .. issued' = (1 .. issued) \cup {ticket},
           AwaitedOf' = [AwaitedOf EXCEPT !["brand"] =
                           [brand: {"brand"}, ticket: {ticket}, account: Names]],
           OnlineOf' = [OnlineOf EXCEPT !["brand"] = FALSE],
           TokenOf' = TokenOf, VisitOf' = VisitOf
    PROVE  Implemented!Step
<1>1. PICK b \in {"brand"} : b = "brand"
  OBVIOUS
<1>2. Names \in SUBSET Names
  OBVIOUS
<1>3. Implemented!Ask(b)
  BY <1>1, <1>2 DEF Implemented!Ask, AwaitedOf, OnlineOf, TokenOf, VisitOf,
              AwaitedIn, OnlineIn, TokenIn, VisitIn
<1>4. Implemented!Ask(b) => Implemented!Step
  BY DEF Implemented!Step
<1> QED BY <1>3, <1>4

LEMMA ReturnMatches ==
    ASSUME NEW r \in Requests, NEW pass \in AwaitedOf["brand"],
           VisitOf[r] = {}, VisitOf' = [VisitOf EXCEPT ![r] = {pass}],
           UNCHANGED <<row, issued>>
    PROVE  Implemented!Step
<1>1. AwaitedOf' = AwaitedOf /\ OnlineOf' = OnlineOf /\ TokenOf' = TokenOf
  BY DEF AwaitedOf, OnlineOf, TokenOf
<1>2. Implemented!Return(r)
  BY <1>1 DEF Implemented!Return, AwaitedOf, OnlineOf, TokenOf, VisitOf,
              AwaitedIn, OnlineIn, TokenIn, VisitIn
<1>3. Implemented!Return(r) => Implemented!Step
  BY DEF Implemented!Step
<1> QED BY <1>2, <1>3

LEMMA GrantMatches ==
    ASSUME NEW r \in Requests, NEW pass \in VisitOf[r],
           AwaitedOf' = [AwaitedOf EXCEPT ![pass.brand] = {}],
           OnlineOf' = [OnlineOf EXCEPT ![pass.brand] = TRUE],
           TokenOf' = [TokenOf EXCEPT ![pass.brand] = pass.account],
           VisitOf' = [VisitOf EXCEPT ![r] = {}],
           UNCHANGED issued
    PROVE  Implemented!Step
<1>1. Implemented!Grant(r)
  BY DEF Implemented!Grant, AwaitedOf, OnlineOf, TokenOf, VisitOf,
         AwaitedIn, OnlineIn, TokenIn, VisitIn
<1>2. Implemented!Grant(r) => Implemented!Step
  BY DEF Implemented!Step
<1> QED BY <1>1, <1>2

LEMMA LeaveMatches ==
    ASSUME NEW r \in Requests, VisitOf' = [VisitOf EXCEPT ![r] = {}],
           UNCHANGED <<row, issued>>
    PROVE  Implemented!Step
<1>1. AwaitedOf' = AwaitedOf /\ OnlineOf' = OnlineOf /\ TokenOf' = TokenOf
  BY DEF AwaitedOf, OnlineOf, TokenOf
<1>2. Implemented!Leave(r)
  BY <1>1 DEF Implemented!Leave, AwaitedOf, OnlineOf, TokenOf, VisitOf,
              AwaitedIn, OnlineIn, TokenIn, VisitIn
<1>3. Implemented!Leave(r) => Implemented!Step
  BY DEF Implemented!Step
<1> QED BY <1>2, <1>3

LEMMA UnseenMatches ==
    ASSUME AwaitedOf' = AwaitedOf, OnlineOf' = OnlineOf, TokenOf' = TokenOf,
           VisitOf' = VisitOf, UNCHANGED issued
    PROVE  UNCHANGED Implemented!connection
BY DEF Implemented!connection, AwaitedOf, OnlineOf, TokenOf, VisitOf,
       AwaitedIn, OnlineIn, TokenIn, VisitIn

(* What a step makes of the mapped state when it writes the row, or moves one
   request, or none that the contract sees. *)
LEMMA MappedRow ==
    ASSUME NEW new, new = row'
    PROVE  /\ AwaitedOf' = [AwaitedOf EXCEPT !["brand"] = AwaitedIn("brand", new)]
           /\ OnlineOf' = [OnlineOf EXCEPT !["brand"] = OnlineIn(new)]
           /\ TokenOf' = [TokenOf EXCEPT !["brand"] = TokenIn(new)]
<1>1. AwaitedOf' = [AwaitedOf EXCEPT !["brand"] = AwaitedIn("brand", new)]
  BY DEF AwaitedOf, AwaitedIn
<1>2. OnlineOf' = [OnlineOf EXCEPT !["brand"] = OnlineIn(new)]
  BY DEF OnlineOf, OnlineIn
<1>3. TokenOf' = [TokenOf EXCEPT !["brand"] = TokenIn(new)]
  BY DEF TokenOf, TokenIn
<1> QED BY <1>1, <1>2, <1>3

LEMMA VisitMoved ==
    ASSUME NEW r \in Requests, NEW V, VisitIn(request'[r]) = V,
           \A s \in Requests : s # r => VisitIn(request'[s]) = VisitIn(request[s])
    PROVE  VisitOf' = [VisitOf EXCEPT ![r] = V]
<1>1. /\ \A s \in Requests : VisitOf'[s] = IF s = r THEN V ELSE VisitOf[s]
      /\ VisitOf = [s \in Requests |-> VisitOf[s]]
      /\ VisitOf' = [s \in Requests |-> VisitOf'[s]]
  BY DEF VisitOf, VisitIn
<1> QED BY <1>1

LEMMA VisitsUnmoved ==
    ASSUME \A s \in Requests : VisitIn(request'[s]) = VisitIn(request[s])
    PROVE  VisitOf' = VisitOf
BY DEF VisitOf, VisitIn

LEMMA WroteVisits ==
    ASSUME IInv, NEW r \in Requests, NEW q, Wrote(r, q), NEW s \in Requests, s # r
    PROVE  VisitIn(request'[s]) = VisitIn(request[s])
<1>1. PICK p \in Request : p = request[s]
  BY DEF IInv, TypeOK
<1>2. request'[s] = [p EXCEPT !.overtaken = TRUE]
  BY <1>1 DEF Wrote
<1> QED BY <1>1, <1>2 DEF VisitIn, Request

LEMMA GotoVisits ==
    ASSUME IInv, NEW r \in Requests, NEW q, request' = [request EXCEPT ![r] = q]
    PROVE  VisitOf' = [VisitOf EXCEPT ![r] = VisitIn(q)]
<1>1. \A s \in Requests : request'[s] = IF s = r THEN q ELSE request[s]
  BY DEF IInv, TypeOK
<1> QED BY <1>1, VisitMoved

(* A step that writes nothing and moves a request from and to where it visits
   nobody. *)
LEMMA GotoUnseen ==
    ASSUME IInv, NEW r \in Requests, NEW q, request' = [request EXCEPT ![r] = q],
           request[r].pc # "exchanging", q.pc # "exchanging", UNCHANGED <<row, issued>>
    PROVE  UNCHANGED Implemented!connection
<1>1. \A s \in Requests : request'[s] = IF s = r THEN q ELSE request[s]
  BY DEF IInv, TypeOK
<1>2. VisitIn(q) = {} /\ VisitIn(request[r]) = {}
  BY DEF VisitIn
<1>3. VisitOf' = VisitOf
  BY <1>1, <1>2, VisitsUnmoved
<1>4. AwaitedOf' = AwaitedOf /\ OnlineOf' = OnlineOf /\ TokenOf' = TokenOf
  BY DEF AwaitedOf, OnlineOf, TokenOf
<1> QED BY <1>3, <1>4, UnseenMatches

(* A write that leaves what the contract sees of the row alone. *)
LEMMA RowUnseen ==
    ASSUME NEW new, new = row', AwaitedIn("brand", new) = AwaitedIn("brand", row),
           OnlineIn(new) = OnlineIn(row), TokenIn(new) = TokenIn(row),
           VisitOf' = VisitOf, UNCHANGED issued
    PROVE  UNCHANGED Implemented!connection
<1>1. AwaitedOf' = AwaitedOf
  BY DEF AwaitedOf, AwaitedIn
<1>2. OnlineOf' = OnlineOf
  BY DEF OnlineOf, OnlineIn
<1>3. TokenOf' = TokenOf
  BY DEF TokenOf, TokenIn
<1> QED BY <1>1, <1>2, <1>3, UnseenMatches

LEMMA ConnectAsks ==
    ASSUME IInv, NEW r \in Requests, NEW a \in Names, ConnectInitiate(r, a)
    PROVE  Implemented!Step
<1>1. /\ row' = Initiated(row, issued + 1) /\ issued' = issued + 1
      /\ issued < MAX_CONNECTS /\ request[r].pc = "idle"
  BY DEF ConnectInitiate
<1>2. issued \in Nat
  BY ConstantsTyped DEF IInv, TypeOK
<1>3. PICK ticket \in States \ (1 .. issued) : ticket = issued + 1
  BY <1>1, <1>2, ConstantsTyped DEF States
<1>4. PICK new : new = row'
  OBVIOUS
<1>5. /\ new # NoRow /\ new.oauth_state = ticket /\ ~new.is_connected
      /\ new.access_token = TokenIn(row)
  <2>1. CASE row = NoRow
    <3>1. new = [oauth_state |-> ticket, ad_account_id |-> NoAccount,
                 is_connected |-> FALSE, access_token |-> NoAccount,
                 last_synced_at |-> FALSE]
      BY <1>1, <1>3, <1>4, <2>1 DEF Initiated
    <3>2. new \in Connection
      BY <3>1 DEF Connection
    <3> QED BY <2>1, <3>1, <3>2, ConstantsTyped DEF TokenIn
  <2>2. CASE row # NoRow
    <3>1. row \in Connection
      BY <2>2 DEF IInv, TypeOK
    <3>2. new = [row EXCEPT !.oauth_state = ticket, !.is_connected = FALSE]
      BY <1>1, <1>3, <1>4, <2>2 DEF Initiated
    <3>3. new = [oauth_state |-> ticket, ad_account_id |-> row.ad_account_id,
                 is_connected |-> FALSE, access_token |-> row.access_token,
                 last_synced_at |-> row.last_synced_at]
      BY <3>1, <3>2 DEF Connection
    <3>4. /\ row.ad_account_id \in Names \cup {NoAccount}
          /\ row.access_token \in Names \cup {NoAccount}
          /\ row.last_synced_at \in BOOLEAN
      BY <3>1 DEF Connection
    <3>5. new \in Connection
      BY <3>3, <3>4 DEF Connection
    <3> QED BY <2>2, <3>3, <3>5, ConstantsTyped DEF TokenIn
  <2> QED BY <2>1, <2>2
<1>6. ticket # NULL
  BY ConstantsTyped
<1>7. /\ AwaitedOf' = [AwaitedOf EXCEPT !["brand"] =
                         [brand: {"brand"}, ticket: {ticket}, account: Names]]
      /\ OnlineOf' = [OnlineOf EXCEPT !["brand"] = FALSE]
  <2>1. /\ AwaitedIn("brand", new) = [brand: {"brand"}, ticket: {ticket}, account: Names]
        /\ OnlineIn(new) = FALSE
    BY <1>5, <1>6 DEF AwaitedIn, OnlineIn
  <2>2. /\ AwaitedOf' = [AwaitedOf EXCEPT !["brand"] = AwaitedIn("brand", new)]
        /\ OnlineOf' = [OnlineOf EXCEPT !["brand"] = OnlineIn(new)]
    BY <1>4, MappedRow
  <2> QED BY <2>1, <2>2
<1>8. TokenOf' = TokenOf
  BY <1>4, <1>5 DEF TokenOf, TokenIn
<1>9. VisitOf' = VisitOf
  <2>1. PICK q : q = [Idle EXCEPT !.pc = "naming", !.account = a, !.state = issued + 1]
    OBVIOUS
  <2>2. Wrote(r, q) /\ q.pc = "naming"
    BY <2>1 DEF ConnectInitiate, Idle
  <2>3. request'[r] = q
    BY <2>2 DEF Wrote
  <2>4. VisitIn(request'[r]) = {} /\ VisitIn(request[r]) = {}
    BY <1>1, <2>2, <2>3 DEF VisitIn
  <2>5. \A s \in Requests : s # r => VisitIn(request'[s]) = VisitIn(request[s])
    BY <2>2, WroteVisits
  <2> QED BY <2>4, <2>5, VisitsUnmoved
<1>10. 1 .. issued' = (1 .. issued) \cup {ticket}
  BY <1>1, <1>2, <1>3
<1> QED BY <1>7, <1>8, <1>9, <1>10, AskMatches

(* A callback is let in with the state that the row awaits. *)
LEMMA CallbackReturns ==
    ASSUME IInv, NEW r \in Requests, NEW a \in Names, NEW n \in answered,
           CallbackRead(r, a, n)
    PROVE  Implemented!Step
<1>1. PICK q : q = [Idle EXCEPT !.pc = "exchanging", !.account = a, !.state = n,
                                !.loaded = row.ad_account_id]
  OBVIOUS
<1>2. /\ request' = [request EXCEPT ![r] = q] /\ request[r].pc = "idle"
      /\ row # NoRow /\ row.oauth_state = n /\ UNCHANGED <<row, issued>>
  BY <1>1 DEF CallbackRead, Accepts
<1>3. q.pc = "exchanging" /\ q.state = n /\ q.account = a
  BY <1>1 DEF Idle
<1>4. n # NULL
  BY ConstantsTyped DEF IInv, TypeOK, NULL
<1>5. PICK pass : pass = [brand |-> "brand", ticket |-> n, account |-> a]
  OBVIOUS
<1>6. pass \in AwaitedOf["brand"]
  BY <1>2, <1>4, <1>5 DEF AwaitedOf, AwaitedIn
<1>7. VisitOf' = [VisitOf EXCEPT ![r] = {pass}]
  <2>1. VisitIn(q) = {pass}
    BY <1>3, <1>5 DEF VisitIn
  <2>2. VisitOf' = [VisitOf EXCEPT ![r] = VisitIn(q)]
    BY <1>2, GotoVisits
  <2> QED BY <2>1, <2>2
<1>8. VisitOf[r] = {}
  BY <1>2 DEF VisitOf, VisitIn
<1> QED BY <1>2, <1>6, <1>7, <1>8, ReturnMatches

LEMMA CallbackGrants ==
    ASSUME IInv, NEW r \in Requests, CallbackCommit(r)
    PROVE  Implemented!Step
<1>1. PICK q \in Request : q = request[r]
  BY DEF IInv, TypeOK
<1>2. /\ row' = Completed(row, q) /\ issued' = issued /\ Wrote(r, Idle)
      /\ q.pc = "exchanging" /\ q.account \in Names /\ row # NoRow /\ row \in Connection
  BY <1>1 DEF CallbackCommit, IInv, TypeOK, Fine, Placed
<1>3. PICK a \in Names : a = q.account
  BY <1>2
<1>4. PICK new : new = row'
  OBVIOUS
<1>5. /\ new # NoRow /\ new.is_connected = TRUE /\ new.access_token = a
      /\ new.oauth_state = NULL
  <2>1. PICK account : account = IF q.account = q.loaded THEN row.ad_account_id ELSE a
    OBVIOUS
  <2>2. new = [row EXCEPT !.access_token = a, !.ad_account_id = account,
                          !.is_connected = TRUE, !.oauth_state = NULL]
    BY <1>2, <1>3, <1>4, <2>1 DEF Completed
  <2>3. new = [oauth_state |-> NULL, ad_account_id |-> account, is_connected |-> TRUE,
               access_token |-> a, last_synced_at |-> row.last_synced_at]
    BY <1>2, <2>2 DEF Connection
  <2>4. account \in Names \cup {NoAccount} /\ row.last_synced_at \in BOOLEAN
    BY <1>2, <2>1 DEF Connection
  <2>5. new \in Connection
    BY <2>3, <2>4 DEF Connection
  <2> QED BY <2>3, <2>5, ConstantsTyped
<1>6. /\ AwaitedOf' = [AwaitedOf EXCEPT !["brand"] = {}]
      /\ OnlineOf' = [OnlineOf EXCEPT !["brand"] = TRUE]
      /\ TokenOf' = [TokenOf EXCEPT !["brand"] = a]
  <2>1. AwaitedIn("brand", new) = {} /\ OnlineIn(new) = TRUE /\ TokenIn(new) = a
    BY <1>5 DEF AwaitedIn, OnlineIn, TokenIn
  <2>2. /\ AwaitedOf' = [AwaitedOf EXCEPT !["brand"] = AwaitedIn("brand", new)]
        /\ OnlineOf' = [OnlineOf EXCEPT !["brand"] = OnlineIn(new)]
        /\ TokenOf' = [TokenOf EXCEPT !["brand"] = TokenIn(new)]
    BY <1>4, MappedRow
  <2> QED BY <2>1, <2>2
<1>7. VisitOf' = [VisitOf EXCEPT ![r] = {}]
  <2>1. request'[r] = Idle
    BY <1>2 DEF Wrote
  <2>2. VisitIn(request'[r]) = {}
    BY <2>1 DEF VisitIn, Idle
  <2>3. \A s \in Requests : s # r => VisitIn(request'[s]) = VisitIn(request[s])
    BY <1>2, WroteVisits
  <2> QED BY <2>2, <2>3, VisitMoved
<1>8. PICK pass : pass = [brand |-> "brand", ticket |-> q.state, account |-> a]
  OBVIOUS
<1>9. pass \in VisitOf[r] /\ pass.brand = "brand" /\ pass.account = a
  BY <1>1, <1>2, <1>3, <1>8 DEF VisitOf, VisitIn
<1> QED BY <1>2, <1>6, <1>7, <1>9, GrantMatches

(* The second commit of a /connect, and a sync, are no steps of the contract. *)
LEMMA NameUnseen ==
    ASSUME IInv, NEW r \in Requests, ConnectName(r)
    PROVE  UNCHANGED Implemented!connection
<1>1. PICK q \in Request : q = request[r]
  BY DEF IInv, TypeOK
<1>2. /\ row \in Connection /\ row # NoRow /\ q.account \in Names
      /\ issued' = issued /\ Wrote(r, Idle) /\ q.pc = "naming"
  BY <1>1 DEF ConnectName, IInv, TypeOK, Fine, Placed
<1>3. PICK new : new = row'
  OBVIOUS
<1>4. new = [oauth_state |-> row.oauth_state, ad_account_id |-> q.account,
             is_connected |-> row.is_connected, access_token |-> row.access_token,
             last_synced_at |-> row.last_synced_at]
  BY <1>1, <1>2, <1>3 DEF ConnectName, Named, Connection
<1>5. new # NoRow
  <2>1. new \in Connection
    BY <1>2, <1>4 DEF Connection
  <2> QED BY <2>1, ConstantsTyped
<1>6. VisitOf' = VisitOf
  <2>1. request'[r] = Idle
    BY <1>2 DEF Wrote
  <2>2. VisitIn(request'[r]) = {} /\ VisitIn(request[r]) = {}
    BY <1>1, <1>2, <2>1 DEF VisitIn, Idle
  <2>3. \A s \in Requests : s # r => VisitIn(request'[s]) = VisitIn(request[s])
    BY <1>2, WroteVisits
  <2> QED BY <2>2, <2>3, VisitsUnmoved
<1>7. AwaitedIn("brand", new) = AwaitedIn("brand", row)
  BY <1>2, <1>4, <1>5 DEF AwaitedIn
<1>8. OnlineIn(new) = OnlineIn(row) /\ TokenIn(new) = TokenIn(row)
  BY <1>2, <1>4, <1>5 DEF OnlineIn, TokenIn
<1> QED BY <1>2, <1>3, <1>6, <1>7, <1>8, RowUnseen

LEMMA StampUnseen ==
    ASSUME IInv, NEW r \in Requests, Stamp(r)
    PROVE  UNCHANGED Implemented!connection
<1>1. /\ row \in Connection /\ row # NoRow /\ issued' = issued
      /\ request[r].pc = "stamping" /\ request' = [request EXCEPT ![r] = Idle]
  BY DEF Stamp, IInv, TypeOK, Fine, Placed
<1>2. PICK new : new = row'
  OBVIOUS
<1>3. new = [oauth_state |-> row.oauth_state, ad_account_id |-> row.ad_account_id,
             is_connected |-> row.is_connected, access_token |-> row.access_token,
             last_synced_at |-> TRUE]
  BY <1>1, <1>2 DEF Stamp, Connection
<1>4. new # NoRow
  <2>1. new \in Connection
    BY <1>1, <1>3 DEF Connection
  <2> QED BY <2>1, ConstantsTyped
<1>5. VisitOf' = VisitOf
  <2>1. \A s \in Requests : request'[s] = IF s = r THEN Idle ELSE request[s]
    BY <1>1 DEF IInv, TypeOK
  <2>2. VisitIn(Idle) = {} /\ VisitIn(request[r]) = {}
    BY <1>1 DEF VisitIn, Idle
  <2> QED BY <2>1, <2>2, VisitsUnmoved
<1>6. AwaitedIn("brand", new) = AwaitedIn("brand", row)
  BY <1>1, <1>3, <1>4 DEF AwaitedIn
<1>7. OnlineIn(new) = OnlineIn(row) /\ TokenIn(new) = TokenIn(row)
  BY <1>1, <1>3, <1>4 DEF OnlineIn, TokenIn
<1> QED BY <1>1, <1>2, <1>5, <1>6, <1>7, RowUnseen

LEMMA SyncUnseen ==
    ASSUME IInv, NEW r \in Requests,
           SyncStart(r) \/ (\E cursorless \in BOOLEAN : Fetch(r, cursorless))
    PROVE  UNCHANGED Implemented!connection
<1>1. CASE SyncStart(r)
  <2>1. PICK q : q = [Idle EXCEPT !.pc = "fetching", !.account = row.ad_account_id]
    OBVIOUS
  <2>2. /\ request' = [request EXCEPT ![r] = q] /\ request[r].pc = "idle"
        /\ UNCHANGED <<row, issued>>
    BY <1>1, <2>1 DEF SyncStart
  <2>3. q.pc = "fetching"
    BY <2>1 DEF Idle
  <2> QED BY <2>2, <2>3, GotoUnseen
<1>2. ASSUME NEW cursorless \in BOOLEAN, Fetch(r, cursorless)
      PROVE  UNCHANGED Implemented!connection
  <2>1. PICK p \in Request : p = request[r]
    BY DEF IInv, TypeOK
  <2>2. PICK q : q = [p EXCEPT !.pc = "upserting", !.page = PageRows(p.after),
                               !.more = HasNext(p.after),
                               !.after = IF cursorless THEN NULL ELSE @ + PAGE_SIZE]
    OBVIOUS
  <2>3. /\ request' = [request EXCEPT ![r] = q] /\ p.pc = "fetching"
        /\ UNCHANGED <<row, issued>>
    BY <1>2, <2>1, <2>2 DEF Fetch
  <2>4. q.pc = "upserting"
    BY <2>2 DEF Request
  <2> QED BY <2>1, <2>3, <2>4, GotoUnseen
<1> QED BY <1>1, <1>2

LEMMA UpsertUnseen ==
    ASSUME IInv, NEW r \in Requests, UpsertAdSpend(r)
    PROVE  UNCHANGED Implemented!connection
<1>1. UNCHANGED <<row, issued>> /\ request[r].pc = "upserting"
  BY DEF UpsertAdSpend
<1>2. VisitIn(request'[r]) = VisitIn(request[r])
  <2>1. PICK p \in Request : p = request[r]
    BY DEF IInv, TypeOK
  <2>2. PICK q : q = Advance([p EXCEPT !.fresh = @ \cup Written(p)])
    OBVIOUS
  <2>3. request'[r] = q
    BY <2>1, <2>2 DEF UpsertAdSpend
  <2>4. q.pc # "exchanging"
    BY <2>2, AdvancedPage
  <2> QED BY <1>1, <2>3, <2>4 DEF VisitIn
<1>3. ASSUME NEW s \in Requests, s # r
      PROVE  VisitIn(request'[s]) = VisitIn(request[s])
  <2>1. PICK p \in Request : p = request[s]
    BY DEF IInv, TypeOK
  <2>2. PICK fresh : fresh = p.fresh \cup Written(request[r])
    OBVIOUS
  <2>3. request'[s] = p \/ request'[s] = [p EXCEPT !.fresh = fresh]
    BY <1>3, <2>1, <2>2 DEF UpsertAdSpend
  <2> QED BY <2>1, <2>3 DEF VisitIn, Request
<1>4. VisitOf' = VisitOf
  BY <1>2, <1>3, VisitsUnmoved
<1>5. AwaitedOf' = AwaitedOf /\ OnlineOf' = OnlineOf /\ TokenOf' = TokenOf
  BY <1>1 DEF AwaitedOf, OnlineOf, TokenOf
<1> QED BY <1>1, <1>4, <1>5, UnseenMatches

LEMMA AbortLeaves ==
    ASSUME IInv, NEW r \in Requests, Abort(r)
    PROVE  Implemented!Step
<1>1. VisitIn(Idle) = {}
  BY DEF VisitIn, Idle
<1>2. VisitOf' = [VisitOf EXCEPT ![r] = VisitIn(Idle)]
  BY GotoVisits DEF Abort
<1>3. VisitOf' = [VisitOf EXCEPT ![r] = {}]
  BY <1>1, <1>2
<1> QED BY <1>3, LeaveMatches DEF Abort

LEMMA NextRefines ==
    ASSUME IInv, [Next]_vars
    PROVE  [Implemented!Step]_(Implemented!connection)
<1>1. CASE UNCHANGED vars
  BY <1>1 DEF vars, Implemented!connection
<1>2. ASSUME NEW r \in Requests, Refuse(r)
      PROVE  UNCHANGED Implemented!connection
  BY <1>1, <1>2 DEF Refuse, vars, Implemented!connection
<1> QED BY <1>1, <1>2, ConnectAsks, CallbackReturns, CallbackGrants, NameUnseen,
        StampUnseen, SyncUnseen, UpsertUnseen, AbortLeaves DEF Next, SyncStep

(* The row keeps OAuthContract, for any accounts and requests: only the first commit
   of a /connect closes the connection, with a state of its own, and only a callback
   let in with the awaited state opens it or changes the token, to the account it
   brought. *)
THEOREM ContractKept == Spec => KeepsContract
<1>1. Init => Implemented!Unconnected
  <2>1. SUFFICES ASSUME Init PROVE Implemented!Unconnected
    OBVIOUS
  <2>2. 1 .. issued = {}
    BY <2>1 DEF Init
  <2>3. [r \in Requests |->
           IF request[r].pc = "exchanging"
           THEN {[brand |-> "brand", ticket |-> request[r].state,
                  account |-> request[r].account]}
           ELSE {}] = [v \in Requests |-> {}]
    BY <2>1 DEF Init, Idle
  <2> QED BY <2>1, <2>2, <2>3 DEF Init, Implemented!Unconnected
<1> QED BY <1>1, Invariance, NextRefines, PTL
        DEF Spec, KeepsContract, Implemented!Contract

-----------------------------------------------------------------------------
(* Why a sync ends: the steps that it may still take. *)

GoesOn(q) == q.more /\ q.after # NULL

Left(q) ==
    CASE q.pc = "fetching" -> 3 + 2 * (TOTAL_ROWS - q.after)
      [] q.pc = "upserting" /\ GoesOn(q) -> 4 + 2 * (TOTAL_ROWS - q.after)
      [] q.pc = "upserting" /\ ~GoesOn(q) -> 2
      [] q.pc = "stamping" -> 1
      [] OTHER -> 0

(* Whatever else happens to the row, the tables and other syncs, no step gives a
   sync more to do, and each step of its own leaves it less: it takes at most
   3 + 2 * TOTAL_ROWS of them, since the cursors advance (service.py:141-170).
   Under the fairness of FairSpec that is why EverySyncEnds holds. *)
SyncsAdvance ==
    [][\A r \in Requests : Syncing(r) =>
          /\ Left(request'[r]) \in Nat
          /\ Left(request'[r]) <= Left(request[r])
          /\ SyncStep(r) => Left(request'[r]) < Left(request[r])]_vars

(* A sync goes on only from a cursor that has rows behind it. *)
InRange(q) ==
    /\ q.pc = "fetching" => q.after <= TOTAL_ROWS
    /\ q.pc = "upserting" /\ GoesOn(q) => q.after < TOTAL_ROWS

CursorsInRange == \A r \in Requests : InRange(request[r])

LEMMA LeftIsNatural ==
    ASSUME NEW q \in Request, InRange(q)
    PROVE  Left(q) \in Nat
<1>1. q.after \in Nat
  BY DEF Request
<1> QED BY <1>1, ConstantsTyped DEF Left, InRange

(* What each step does to the fields that count. *)
LEMMA FetchMoves ==
    ASSUME IInv, NEW r \in Requests, NEW cursorless \in BOOLEAN, Fetch(r, cursorless)
    PROVE  /\ request[r].pc = "fetching" /\ request'[r].pc = "upserting"
           /\ GoesOn(request'[r]) =>
                 /\ request'[r].after = request[r].after + PAGE_SIZE
                 /\ request'[r].after < TOTAL_ROWS
<1> DEFINE p == request[r]
           after == IF cursorless THEN NULL ELSE p.after + PAGE_SIZE
<1>1. PICK q : q = [p EXCEPT !.pc = "upserting", !.page = PageRows(p.after),
                             !.more = HasNext(p.after), !.after = after]
  OBVIOUS
<1>2. p \in Request
  BY DEF IInv, TypeOK
<1>3. q.pc = "upserting" /\ q.more = HasNext(p.after) /\ q.after = after
  BY <1>1, <1>2 DEF Request
<1>4. request'[r] = q /\ p.pc = "fetching"
  BY <1>1 DEF Fetch, IInv, TypeOK
<1> QED BY <1>3, <1>4 DEF GoesOn, HasNext

LEMMA UpsertMoves ==
    ASSUME IInv, NEW r \in Requests, UpsertAdSpend(r)
    PROVE  /\ request[r].pc = "upserting"
           /\ request'[r].pc = IF GoesOn(request[r]) THEN "fetching" ELSE "stamping"
           /\ request'[r].after = request[r].after
<1>1. PICK p \in Request : p = request[r]
  BY DEF IInv, TypeOK
<1>2. PICK q : q = Advance([p EXCEPT !.fresh = @ \cup Written(p)])
  OBVIOUS
<1>3. request'[r] = q
  BY <1>1, <1>2 DEF UpsertAdSpend
<1>4. q.pc = (IF p.more /\ p.after # NULL THEN "fetching" ELSE "stamping") /\ q.after = p.after
  BY <1>2, AdvancedPage
<1> QED BY <1>1, <1>3, <1>4 DEF UpsertAdSpend, GoesOn

(* A step that is not r's leaves what counts of r alone. *)
Same(q, p) == q.pc = p.pc /\ q.after = p.after /\ q.more = p.more

LEMMA SameCounts ==
    ASSUME NEW q, NEW p, Same(q, p)
    PROVE  Left(q) = Left(p) /\ (InRange(p) => InRange(q))
BY DEF Same, Left, InRange, GoesOn

LEMMA WroteSame ==
    ASSUME IInv, NEW r \in Requests, NEW q, Wrote(r, q), NEW s \in Requests, s # r
    PROVE  Same(request'[s], request[s])
<1>1. PICK p \in Request : p = request[s]
  BY DEF IInv, TypeOK
<1>2. request'[s] = [p EXCEPT !.overtaken = TRUE]
  BY <1>1 DEF Wrote
<1> QED BY <1>1, <1>2 DEF Same, Request

LEMMA UpsertSame ==
    ASSUME IInv, NEW r \in Requests, UpsertAdSpend(r), NEW s \in Requests, s # r
    PROVE  Same(request'[s], request[s])
<1>1. PICK p \in Request : p = request[s]
  BY DEF IInv, TypeOK
<1>2. PICK fresh : fresh = p.fresh \cup Written(request[r])
  OBVIOUS
<1>3. request'[s] = p \/ request'[s] = [p EXCEPT !.fresh = fresh]
  BY <1>1, <1>2 DEF UpsertAdSpend
<1> QED BY <1>1, <1>3 DEF Same, Request

LEMMA GotoSame ==
    ASSUME IInv, NEW r \in Requests, NEW q, request' = [request EXCEPT ![r] = q],
           NEW s \in Requests, s # r
    PROVE  Same(request'[s], request[s])
BY DEF IInv, TypeOK, Same

(* Whose step it is: r's own, as a sync or to end; or one that leaves r where it
   is; or one of a request that is not syncing. *)
LEMMA WhoseStep ==
    ASSUME IInv, [Next]_vars, NEW r \in Requests
    PROVE  \/ Same(request'[r], request[r])
           \/ SyncStep(r)
           \/ request'[r] = Idle
           \/ /\ request[r].pc = "idle"
              /\ request'[r].pc \in {"naming", "exchanging"}
           \/ /\ request[r].pc = "idle"
              /\ request'[r].pc = "fetching" /\ request'[r].after = NULL
<1>1. CASE UNCHANGED vars
  BY <1>1 DEF vars, Same
<1>2. ASSUME NEW s \in Requests, NEW a \in Names, ConnectInitiate(s, a)
      PROVE  \/ Same(request'[r], request[r])
             \/ request[r].pc = "idle" /\ request'[r].pc = "naming"
  <2>1. PICK q : q = [Idle EXCEPT !.pc = "naming", !.account = a, !.state = issued + 1]
    OBVIOUS
  <2>2. Wrote(s, q) /\ q.pc = "naming" /\ request[s].pc = "idle"
    BY <1>2, <2>1 DEF ConnectInitiate, Idle
  <2>3. CASE r = s
    BY <2>2, <2>3 DEF Wrote
  <2>4. CASE r # s
    BY <2>2, <2>4, WroteSame
  <2> QED BY <2>3, <2>4
<1>3. ASSUME NEW s \in Requests, NEW a \in Names, NEW n \in answered, CallbackRead(s, a, n)
      PROVE  \/ Same(request'[r], request[r])
             \/ request[r].pc = "idle" /\ request'[r].pc = "exchanging"
  <2>1. PICK q : q = [Idle EXCEPT !.pc = "exchanging", !.account = a, !.state = n,
                                  !.loaded = row.ad_account_id]
    OBVIOUS
  <2>2. /\ request' = [request EXCEPT ![s] = q] /\ q.pc = "exchanging"
        /\ request[s].pc = "idle"
    BY <1>3, <2>1 DEF CallbackRead, Idle
  <2>3. CASE r = s
    BY <2>2, <2>3 DEF IInv, TypeOK
  <2>4. CASE r # s
    BY <2>2, <2>4, GotoSame
  <2> QED BY <2>3, <2>4
<1>4. ASSUME NEW s \in Requests, ConnectName(s) \/ CallbackCommit(s)
      PROVE  Same(request'[r], request[r]) \/ request'[r] = Idle
  <2>1. Wrote(s, Idle)
    BY <1>4 DEF ConnectName, CallbackCommit
  <2>2. CASE r = s
    BY <2>1, <2>2 DEF Wrote
  <2>3. CASE r # s
    BY <2>1, <2>3, WroteSame
  <2> QED BY <2>2, <2>3
<1>5. ASSUME NEW s \in Requests, SyncStart(s)
      PROVE  \/ Same(request'[r], request[r])
             \/ /\ request[r].pc = "idle"
                /\ request'[r].pc = "fetching" /\ request'[r].after = NULL
  <2>1. PICK q : q = [Idle EXCEPT !.pc = "fetching", !.account = row.ad_account_id]
    OBVIOUS
  <2>2. /\ request' = [request EXCEPT ![s] = q] /\ q.pc = "fetching" /\ q.after = NULL
        /\ request[s].pc = "idle"
    BY <1>5, <2>1 DEF SyncStart, Idle
  <2>3. CASE r = s
    BY <2>2, <2>3 DEF IInv, TypeOK
  <2>4. CASE r # s
    BY <2>2, <2>4, GotoSame
  <2> QED BY <2>3, <2>4
<1>6. ASSUME NEW s \in Requests, s # r, SyncStep(s)
      PROVE  Same(request'[r], request[r])
  <2>1. CASE UpsertAdSpend(s)
    BY <1>6, <2>1, UpsertSame
  <2>2. CASE Stamp(s)
    BY <1>6, <2>2, GotoSame DEF Stamp
  <2>3. ASSUME NEW cursorless \in BOOLEAN, Fetch(s, cursorless)
        PROVE  Same(request'[r], request[r])
    <3>1. PICK q : request' = [request EXCEPT ![s] = q]
      BY <2>3 DEF Fetch
    <3> QED BY <1>6, <3>1, GotoSame
  <2> QED BY <1>6, <2>1, <2>2, <2>3 DEF SyncStep
<1>7. ASSUME NEW s \in Requests, Abort(s)
      PROVE  Same(request'[r], request[r]) \/ request'[r] = Idle
  <2>1. request' = [request EXCEPT ![s] = Idle]
    BY <1>7 DEF Abort
  <2>2. CASE r = s
    BY <2>1, <2>2 DEF IInv, TypeOK
  <2>3. CASE r # s
    BY <2>1, <2>3, GotoSame
  <2> QED BY <2>2, <2>3
<1> QED BY <1>1, <1>2, <1>3, <1>4, <1>5, <1>6, <1>7 DEF Next, Refuse

LEMMA CursorsStayInRange == Spec => []CursorsInRange
<1>1. Init => CursorsInRange
  BY DEF Init, CursorsInRange, InRange, Idle
<1>2. ASSUME IInv, CursorsInRange, [Next]_vars, NEW r \in Requests
      PROVE  InRange(request'[r])
  <2>1. InRange(request[r])
    BY <1>2 DEF CursorsInRange
  <2>2. CASE Same(request'[r], request[r])
    BY <2>1, <2>2, SameCounts
  <2>3. CASE UpsertAdSpend(r)
    BY <1>2, <2>1, <2>3, UpsertMoves, ConstantsTyped DEF InRange, IInv, TypeOK, Request
  <2>4. CASE \E cursorless \in BOOLEAN : Fetch(r, cursorless)
    BY <1>2, <2>4, FetchMoves DEF InRange
  <2>5. CASE Stamp(r) \/ request'[r] = Idle
    <3>1. request'[r] = Idle
      BY <1>2, <2>5 DEF Stamp, IInv, TypeOK
    <3> QED BY <3>1 DEF InRange, Idle
  <2>6. CASE request'[r].pc \in {"naming", "exchanging"}
    BY <2>6 DEF InRange
  <2>7. CASE request'[r].pc = "fetching" /\ request'[r].after = NULL
    BY <2>7, ConstantsTyped DEF InRange, NULL
  <2> QED BY <1>2, <2>2, <2>3, <2>4, <2>5, <2>6, <2>7, WhoseStep DEF SyncStep
<1>3. IInv /\ CursorsInRange /\ [Next]_vars => CursorsInRange'
  BY <1>2 DEF CursorsInRange
<1> QED BY <1>1, <1>3, Invariance, PTL DEF Spec

(* Every step of a sync brings its end nearer, and no step of anyone moves it
   away, for any number of rows and any page size. *)
THEOREM SyncsAdvanceHolds == Spec => SyncsAdvance
<1> DEFINE Advances(r) ==
      Syncing(r) =>
          /\ Left(request'[r]) \in Nat
          /\ Left(request'[r]) <= Left(request[r])
          /\ SyncStep(r) => Left(request'[r]) < Left(request[r])
<1>1. ASSUME IInv, IInv', CursorsInRange, CursorsInRange', [Next]_vars,
             NEW r \in Requests, Syncing(r)
      PROVE  Advances(r)
  <2>1. PICK p \in Request : p = request[r]
    BY <1>1 DEF IInv, TypeOK
  <2>2. PICK q \in Request : q = request'[r]
    BY <1>1 DEF IInv, TypeOK
  <2>3. /\ InRange(p) /\ InRange(q) /\ Left(p) \in Nat /\ Left(q) \in Nat
        /\ p.after \in Nat /\ q.after \in Nat
        /\ p.pc \in {"fetching", "upserting", "stamping"}
    BY <1>1, <2>1, <2>2, LeftIsNatural DEF CursorsInRange, Syncing, Request
  <2>4. ASSUME NEW cursorless \in BOOLEAN, Fetch(r, cursorless)
        PROVE  Left(q) < Left(p)
    <3>1. /\ p.pc = "fetching" /\ q.pc = "upserting"
          /\ GoesOn(q) => q.after = p.after + PAGE_SIZE
      BY <1>1, <2>1, <2>2, <2>4, FetchMoves
    <3>2. p.after <= TOTAL_ROWS
      BY <2>3, <3>1 DEF InRange
    <3> QED BY <2>3, <3>1, <3>2, ConstantsTyped DEF Left
  <2>5. ASSUME UpsertAdSpend(r)
        PROVE  Left(q) < Left(p)
    <3>1. /\ p.pc = "upserting" /\ q.after = p.after
          /\ q.pc = IF GoesOn(p) THEN "fetching" ELSE "stamping"
      BY <1>1, <2>1, <2>2, <2>5, UpsertMoves
    <3> QED BY <2>3, <3>1, ConstantsTyped DEF Left
  <2>6. Idle.pc = "idle" /\ Left(Idle) = 0
    BY DEF Left, Idle
  <2>7. ASSUME Stamp(r)
        PROVE  Left(q) < Left(p)
    <3>1. p.pc = "stamping" /\ q = Idle
      BY <1>1, <2>1, <2>2, <2>7 DEF Stamp, IInv, TypeOK
    <3> QED BY <2>6, <3>1 DEF Left
  <2>8. SyncStep(r) => Left(q) < Left(p)
    BY <2>4, <2>5, <2>7 DEF SyncStep
  <2>9. Left(q) <= Left(p)
    <3>1. CASE Same(q, p)
      BY <2>3, <3>1, SameCounts
    <3>2. CASE q = Idle
      BY <2>3, <2>6, <3>2
    <3>3. CASE SyncStep(r)
      BY <2>3, <2>8, <3>3
    <3> QED BY <1>1, <2>1, <2>2, <2>3, <3>1, <3>2, <3>3, WhoseStep
  <2> QED BY <2>1, <2>2, <2>3, <2>8, <2>9
<1>2. IInv /\ IInv' /\ CursorsInRange /\ CursorsInRange' /\ [Next]_vars
        => [\A r \in Requests : Advances(r)]_vars
  BY <1>1
<1> QED BY <1>2, Invariance, CursorsStayInRange, PTL DEF Spec, SyncsAdvance
=============================================================================
