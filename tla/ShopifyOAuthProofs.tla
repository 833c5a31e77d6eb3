------------------------- MODULE ShopifyOAuthProofs -------------------------
(***************************************************************************)
(* The invariants of ShopifyOAuth for any number of brands, shops and      *)
(* requests.  They are inductive together with RequestsIssued: a request   *)
(* past its first read belongs to a brand that has a row, and a callback   *)
(* past its checks carries a state issued for its brand and shop.          *)
(***************************************************************************)
EXTENDS ShopifyOAuth, SequenceTheorems, TLAPS

RequestsIssued ==
    \A r \in Requests : Busy(r) =>
        /\ row[request[r].brand] # NoRow
        /\ request[r].pc = "exchanging" =>
              /\ request[r].state \in DOMAIN issued
              /\ issued[request[r].state] =
                    [brand |-> request[r].brand, shop |-> request[r].shop]

IInv ==
    /\ TypeOK
    /\ RequestsIssued
    /\ PendingIffDisconnected
    /\ LatestConnectStands
    /\ TokenWasGranted
    /\ TokenMatchesShop

(* The state of the latest /connect is awaited until a callback took it away. *)
Answered(b) ==
    \/ row[b].oauth_state = latest[b]
    \/ /\ row[b].oauth_state = NULL
       /\ consumed[latest[b]] > 0 \/ overtaken[b]

(* The invariant brand by brand. *)
BrandInv(b) ==
    row[b] # NoRow =>
        /\ row[b].oauth_state = NULL <=> row[b].is_connected
        /\ latest[b] # 0
        /\ issued[latest[b]] = [brand |-> b, shop |-> row[b].shop_domain]
        /\ Answered(b)
        /\ row[b].access_token # NoShop =>
              \E n \in DOMAIN issued :
                  /\ issued[n] = [brand |-> b, shop |-> row[b].access_token]
                  /\ consumed[n] > 0
        /\ row[b].is_connected /\ ~overtaken[b]
              => row[b].access_token = row[b].shop_domain

LEMMA ByBrand ==
    IInv <=> TypeOK /\ RequestsIssued /\ \A b \in Brands : BrandInv(b)
BY DEF IInv, BrandInv, Answered, PendingIffDisconnected, LatestConnectStands, TokenWasGranted,
       TokenMatchesShop

LEMMA InitIInv == Init => IInv
<1>. SUFFICES ASSUME Init PROVE IInv
  OBVIOUS
<1>1. TypeOK
  <2>1. issued \in Seq([brand: Brands, shop: Shops]) /\ Len(issued) = 0
    BY DEF Init
  <2>2. request \in [Requests -> Request]
    BY DEF Init, Request
  <2>. QED BY <2>1, <2>2, OAuthAssumption DEF Init, TypeOK
<1>2. RequestsIssued
  BY DEF Init, RequestsIssued, Busy
<1>3. \A b \in Brands : BrandInv(b)
  BY DEF Init, BrandInv
<1>. QED BY <1>1, <1>2, <1>3, ByBrand

(* A reconnect replaces shop and state together and closes the connection. *)
LEMMA ConnectIInv ==
    ASSUME IInv, NEW b \in Brands, NEW shop \in Shops, Connect(b, shop)
    PROVE  IInv'
<1>. DEFINE n == Len(issued) + 1
            new == Pending(row[b], shop, n)
<1>1. /\ TypeOK /\ RequestsIssued /\ \A c \in Brands : BrandInv(c)
  BY ByBrand
<1>2. /\ n \in States
      /\ issued' = Append(issued, [brand |-> b, shop |-> shop])
      /\ issued' \in Seq([brand: Brands, shop: Shops])
      /\ Len(issued') = n
      /\ issued'[n] = [brand |-> b, shop |-> shop]
      /\ \A m \in DOMAIN issued : m \in DOMAIN issued' /\ issued'[m] = issued[m]
  BY <1>1, OAuthAssumption DEF Connect, TypeOK, States
<1>3. /\ row' = [row EXCEPT ![b] = new]
      /\ latest' = [latest EXCEPT ![b] = n]
      /\ overtaken' = [overtaken EXCEPT ![b] = FALSE]
      /\ request' = request /\ consumed' = consumed
  BY DEF Connect
<1>4. /\ new \in Connection
      /\ new.shop_domain = shop /\ new.oauth_state = n /\ new.is_connected = FALSE
      /\ new.access_token = IF row[b] = NoRow THEN NoShop ELSE row[b].access_token
  <2>1. CASE row[b] = NoRow
    BY <1>2, <2>1 DEF Pending, Connection
  <2>2. CASE row[b] # NoRow
    <3>1. row[b] \in Connection
      BY <1>1, <2>2 DEF TypeOK
    <3>2. new = [shop_domain |-> shop, oauth_state |-> n, is_connected |-> FALSE,
                 access_token |-> row[b].access_token,
                 last_synced |-> row[b].last_synced]
      BY <2>2, <3>1 DEF Pending, Connection
    <3>3. /\ row[b].access_token \in Shops \cup {NoShop}
          /\ row[b].last_synced \in Shops \cup {NoShop}
      BY <3>1 DEF Connection
    <3>4. [shop_domain |-> shop, oauth_state |-> n, is_connected |-> FALSE,
           access_token |-> row[b].access_token,
           last_synced |-> row[b].last_synced] \in Connection
      BY <1>2, <3>3 DEF Connection
    <3>. HIDE DEF new
    <3>. QED BY <2>2, <3>2, <3>4
  <2>. QED BY <2>1, <2>2
<1>5. new # NoRow
  BY <1>4, OAuthAssumption
<1>6. TypeOK'
  <2>1. latest' \in [Brands -> 0 .. Len(issued')]
    BY <1>1, <1>2, <1>3 DEF TypeOK, States
  <2>. QED BY <1>1, <1>2, <1>3, <1>4, <2>1 DEF TypeOK, States
<1>7. RequestsIssued'
  BY <1>1, <1>2, <1>3, <1>5 DEF TypeOK, RequestsIssued, Busy
<1>8. ASSUME NEW c \in Brands PROVE BrandInv(c)'
  <2>1. CASE c # b
    <3>1. /\ row'[c] = row[c] /\ latest'[c] = latest[c]
          /\ overtaken'[c] = overtaken[c]
      BY <1>1, <1>3, <2>1 DEF TypeOK
    <3>2. SUFFICES ASSUME row[c] # NoRow PROVE BrandInv(c)'
      BY <3>1 DEF BrandInv
    <3>3. BrandInv(c)
      BY <1>1
    <3>4. latest[c] \in DOMAIN issued
      BY <1>1, <3>2, <3>3 DEF TypeOK, BrandInv
    <3>5. issued'[latest'[c]] = [brand |-> c, shop |-> row'[c].shop_domain]
      BY <1>2, <3>1, <3>2, <3>3, <3>4 DEF BrandInv
    <3>6. row'[c].access_token # NoShop =>
            \E m \in DOMAIN issued' :
               /\ issued'[m] = [brand |-> c, shop |-> row'[c].access_token]
               /\ consumed'[m] > 0
      <4>1. SUFFICES ASSUME row'[c].access_token # NoShop
                     PROVE  \E m \in DOMAIN issued' :
                               /\ issued'[m] = [brand |-> c, shop |-> row'[c].access_token]
                               /\ consumed'[m] > 0
        OBVIOUS
      <4>2. PICK m \in DOMAIN issued :
               /\ issued[m] = [brand |-> c, shop |-> row[c].access_token]
               /\ consumed[m] > 0
        BY <3>1, <3>2, <3>3, <4>1 DEF BrandInv
      <4>3. m \in DOMAIN issued' /\ issued'[m] = issued[m]
        BY <1>2
      <4>. QED BY <1>3, <3>1, <4>2, <4>3
    <3>7. Answered(c)'
      BY <1>3, <3>1, <3>2, <3>3 DEF BrandInv, Answered
    <3>. QED BY <3>1, <3>2, <3>3, <3>5, <3>6, <3>7 DEF BrandInv
  <2>2. CASE c = b
    <3>1. row'[b] = new /\ latest'[b] = n /\ n # 0 /\ n # NULL
      BY <1>1, <1>2, <1>3 DEF TypeOK, States, NULL
    <3>2. new.access_token # NoShop =>
            \E m \in DOMAIN issued :
               /\ issued[m] = [brand |-> b, shop |-> new.access_token]
               /\ consumed[m] > 0
      BY <1>1, <1>4 DEF BrandInv
    <3>3. Answered(b)'
      BY <1>4, <3>1 DEF Answered
    <3>. QED BY <1>2, <1>3, <1>4, <2>2, <3>1, <3>2, <3>3 DEF BrandInv
  <2>. QED BY <2>1, <2>2
<1>. QED BY <1>6, <1>7, <1>8, ByBrand DEF IInv, BrandInv, Answered, PendingIffDisconnected,
         LatestConnectStands, TokenWasGranted, TokenMatchesShop

(* Looking up, aborting and refusing touch the request only. *)
LEMMA RequestOnlyIInv ==
    ASSUME IInv, NEW r \in Requests, NEW q \in Request,
           request' = [request EXCEPT ![r] = q],
           UNCHANGED <<row, issued, latest, consumed, overtaken>>,
           q.pc \in {"exchanging", "syncing"} => row[q.brand] # NoRow,
           q.pc = "exchanging" =>
              /\ q.state \in DOMAIN issued
              /\ issued[q.state] = [brand |-> q.brand, shop |-> q.shop]
    PROVE  IInv'
<1>1. TypeOK'
  BY DEF IInv, TypeOK
<1>2. RequestsIssued'
  BY DEF IInv, TypeOK, RequestsIssued, Busy
<1>. QED BY <1>1, <1>2 DEF IInv, PendingIffDisconnected, LatestConnectStands,
         TokenWasGranted, TokenMatchesShop

(* A callback that passes its checks carries the state of its brand's latest
   /connect, which was for this shop: LatestConnectStands says so of the row. *)
LEMMA CallbackReadIInv ==
    ASSUME IInv, NEW r \in Requests, NEW b \in Brands, NEW shop \in Shops,
           NEW n \in DOMAIN issued, CallbackRead(r, b, shop, n)
    PROVE  IInv'
<1>1. n \in States
  BY OAuthAssumption DEF IInv, TypeOK, States
<1>2. CASE Verdict(b, shop, n) = "exchanging"
  <2>1. PICK q : q = [pc |-> "exchanging", brand |-> b, shop |-> shop, state |-> n]
    OBVIOUS
  <2>2. q \in Request
    BY <1>1, <2>1 DEF Request
  <2>3. row[b] # NoRow /\ row[b].shop_domain = shop /\ row[b].oauth_state = n
    BY <1>2 DEF Verdict
  <2>4. issued[n] = [brand |-> b, shop |-> shop]
    <3>1. n # NULL
      BY <1>1, OAuthAssumption DEF States, NULL
    <3>2. n = latest[b] /\ issued[latest[b]] = [brand |-> b, shop |-> row[b].shop_domain]
      BY <2>3, <3>1 DEF IInv, LatestConnectStands
    <3>. QED BY <2>3, <3>2
  <2>. QED BY <1>2, <2>1, <2>2, <2>3, <2>4, RequestOnlyIInv DEF CallbackRead
<1>3. CASE Verdict(b, shop, n) # "exchanging"
  <2>1. PICK q : q = [request[r] EXCEPT !.pc = Verdict(b, shop, n)]
    OBVIOUS
  <2>2. Verdict(b, shop, n) \in {"not_found", "mismatch"}
    BY <1>3 DEF Verdict
  <2>3. PICK old \in Request : old = request[r]
    BY DEF IInv, TypeOK
  <2>4. q \in Request /\ q.pc = Verdict(b, shop, n)
    BY <2>1, <2>2, <2>3 DEF Request
  <2>. QED BY <1>3, <2>1, <2>2, <2>4, RequestOnlyIInv DEF CallbackRead
<1>. QED BY <1>2, <1>3

LEMMA SyncStartIInv ==
    ASSUME IInv, NEW r \in Requests, NEW b \in Brands, SyncStart(r, b)
    PROVE  IInv'
<1>1. CASE row[b] # NoRow /\ row[b].is_connected
  <2>. DEFINE q == [pc |-> "syncing", brand |-> b,
                    shop |-> row[b].shop_domain, state |-> NULL]
  <2>1. q \in Request
    BY <1>1 DEF IInv, TypeOK, Connection, Request
  <2>. QED BY <1>1, <2>1, RequestOnlyIInv DEF SyncStart
<1>2. CASE ~(row[b] # NoRow /\ row[b].is_connected)
  <2>1. PICK q : q = [request[r] EXCEPT !.pc = "refused"]
    OBVIOUS
  <2>2. q \in Request /\ q.pc = "refused"
    BY <2>1 DEF IInv, TypeOK, Request
  <2>. QED BY <1>2, <2>1, <2>2, RequestOnlyIInv DEF SyncStart
<1>. QED BY <1>1, <1>2

LEMMA AbortIInv ==
    ASSUME IInv, NEW r \in Requests, Abort(r)
    PROVE  IInv'
<1>1. [request[r] EXCEPT !.pc = "aborted"] \in Request
  BY DEF IInv, TypeOK, Request
<1>. QED BY <1>1, RequestOnlyIInv DEF Abort, IInv, TypeOK, Request

(* The columns a callback writes agree with one another; the shop it does not
   write is its own unless the callback was overtaken. *)
LEMMA CallbackCommitIInv ==
    ASSUME IInv, NEW r \in Requests, CallbackCommit(r)
    PROVE  IInv'
<1>1. PICK q \in Request : q = request[r]
  BY DEF IInv, TypeOK
<1>2. /\ TypeOK /\ RequestsIssued /\ \A c \in Brands : BrandInv(c)
  BY ByBrand
<1>3. /\ q.brand \in Brands /\ q.shop \in Shops
      /\ q.pc = "exchanging"
      /\ row[q.brand] # NoRow /\ row[q.brand] \in Connection
      /\ q.state \in DOMAIN issued /\ q.state \in States
      /\ issued[q.state] = [brand |-> q.brand, shop |-> q.shop]
  BY <1>1, <1>2, OAuthAssumption
     DEF CallbackCommit, RequestsIssued, Busy, TypeOK, Request, States
<1>4. PICK new : new = Completed(row[q.brand], q)
  OBVIOUS
<1>5. new = [shop_domain |-> row[q.brand].shop_domain, oauth_state |-> NULL,
             is_connected |-> TRUE, access_token |-> q.shop,
             last_synced |-> row[q.brand].last_synced]
  BY <1>3, <1>4 DEF Completed, Connection
<1>6. new \in Connection /\ new # NoRow
  <2>1. /\ row[q.brand].shop_domain \in Shops
        /\ row[q.brand].last_synced \in Shops \cup {NoShop}
    BY <1>3 DEF Connection
  <2>2. new \in Connection
    BY <1>3, <1>5, <2>1 DEF Connection
  <2>. QED BY <2>2, OAuthAssumption
<1>7. /\ row' = [row EXCEPT ![q.brand] = new]
      /\ consumed' = [consumed EXCEPT ![q.state] = @ + 1]
      /\ overtaken' = [overtaken EXCEPT ![q.brand] = @ \/ latest[q.brand] # q.state]
      /\ request' = [request EXCEPT ![r].pc = "done"]
      /\ issued' = issued /\ latest' = latest
  BY <1>1, <1>4 DEF CallbackCommit
<1>8. consumed' \in [States -> Nat] /\ \A m \in States : consumed'[m] >= consumed[m]
  BY <1>2, <1>3, <1>7 DEF TypeOK
<1>9. TypeOK'
  <2>1. request' \in [Requests -> Request]
    BY <1>2, <1>7 DEF TypeOK, Request
  <2>2. row' \in [Brands -> Connection \cup {NoRow}]
    BY <1>2, <1>3, <1>6, <1>7 DEF TypeOK
  <2>3. overtaken' \in [Brands -> BOOLEAN]
    BY <1>2, <1>3, <1>7 DEF TypeOK
  <2>. QED BY <1>2, <1>7, <1>8, <2>1, <2>2, <2>3 DEF TypeOK
<1>10. RequestsIssued'
  BY <1>2, <1>3, <1>6, <1>7 DEF TypeOK, RequestsIssued, Busy, Request
<1>11. ASSUME NEW c \in Brands PROVE BrandInv(c)'
  <2>1. CASE c # q.brand
    <3>1. /\ row'[c] = row[c] /\ latest'[c] = latest[c]
          /\ overtaken'[c] = overtaken[c]
      BY <1>2, <1>7, <2>1 DEF TypeOK
    <3>2. \A m \in DOMAIN issued : consumed[m] > 0 => consumed'[m] > 0
      BY <1>2, <1>8, OAuthAssumption DEF TypeOK, States
    <3>3. SUFFICES ASSUME row[c] # NoRow PROVE BrandInv(c)'
      BY <3>1 DEF BrandInv
    <3>4. BrandInv(c) /\ latest[c] \in DOMAIN issued
      BY <1>2, <3>3 DEF TypeOK, BrandInv
    <3>5. Answered(c)'
      BY <3>1, <3>2, <3>3, <3>4 DEF BrandInv, Answered
    <3>6. row[c].access_token # NoShop =>
             \E m \in DOMAIN issued :
                /\ issued[m] = [brand |-> c, shop |-> row[c].access_token]
                /\ consumed'[m] > 0
      BY <3>2, <3>3, <3>4 DEF BrandInv
    <3>. QED BY <1>7, <3>1, <3>3, <3>4, <3>5, <3>6 DEF BrandInv
  <2>2. CASE c = q.brand
    <3>1. row'[c] = new /\ latest'[c] = latest[c]
      BY <1>2, <1>7, <2>2 DEF TypeOK
    <3>2. consumed'[q.state] > 0
      BY <1>2, <1>3, <1>7 DEF TypeOK
    <3>3. ~overtaken'[c] => latest[c] = q.state
      BY <1>2, <1>7, <2>2 DEF TypeOK
    <3>4. /\ latest[c] # 0
          /\ issued[latest[c]] = [brand |-> c, shop |-> row[c].shop_domain]
      BY <1>2, <1>3, <2>2 DEF BrandInv
    <3>5. ~overtaken'[c] => q.shop = row[c].shop_domain
      BY <1>3, <3>3, <3>4
    <3>6. Answered(c)'
      BY <1>5, <3>1, <3>2, <3>3 DEF Answered
    <3>. QED BY <1>3, <1>5, <1>7, <2>2, <3>1, <3>2, <3>4, <3>5, <3>6 DEF BrandInv
  <2>. QED BY <2>1, <2>2
<1>12. (\A c \in Brands : BrandInv(c))'
  BY <1>11
<1>. QED BY <1>9, <1>10, <1>12 DEF IInv, BrandInv, Answered, PendingIffDisconnected,
         LatestConnectStands, TokenWasGranted, TokenMatchesShop

(* The stamp of a sync leaves every other column as it finds it. *)
LEMMA SyncStampIInv ==
    ASSUME IInv, NEW r \in Requests, NEW last \in BOOLEAN, SyncStamp(r, last)
    PROVE  IInv'
<1>1. PICK q \in Request : q = request[r]
  BY DEF IInv, TypeOK
<1>2. /\ TypeOK /\ RequestsIssued /\ \A c \in Brands : BrandInv(c)
  BY ByBrand
<1>3. /\ q.brand \in Brands /\ q.shop \in Shops /\ q.pc = "syncing"
      /\ row[q.brand] # NoRow /\ row[q.brand] \in Connection
  BY <1>1, <1>2 DEF SyncStamp, RequestsIssued, Busy, TypeOK, Request
<1>4. PICK new : new = Stamped(row[q.brand], q)
  OBVIOUS
<1>5. /\ new \in Connection
      /\ new.shop_domain = row[q.brand].shop_domain
      /\ new.oauth_state = row[q.brand].oauth_state
      /\ new.is_connected = row[q.brand].is_connected
      /\ new.access_token = row[q.brand].access_token
  BY <1>3, <1>4 DEF Stamped, Connection
<1>6. new # NoRow
  BY <1>5, OAuthAssumption
<1>7. /\ row' = [row EXCEPT ![q.brand] = new]
      /\ request' = [request EXCEPT ![r].pc = IF last THEN "done" ELSE @]
      /\ UNCHANGED <<issued, latest, consumed, overtaken>>
  BY <1>1, <1>4 DEF SyncStamp
<1>8. TypeOK'
  BY <1>2, <1>3, <1>5, <1>7 DEF TypeOK, Request
<1>9. RequestsIssued'
  BY <1>2, <1>3, <1>6, <1>7 DEF TypeOK, RequestsIssued, Busy, Request
<1>10. ASSUME NEW c \in Brands PROVE BrandInv(c)'
  <2>1. CASE c # q.brand
    BY <1>2, <1>7, <2>1 DEF TypeOK, BrandInv, Answered
  <2>2. CASE c = q.brand
    <3>1. row'[c] = new
      BY <1>2, <1>7, <2>2 DEF TypeOK
    <3>. QED BY <1>2, <1>3, <1>5, <1>7, <2>2, <3>1 DEF BrandInv, Answered
  <2>. QED BY <2>1, <2>2
<1>11. (\A c \in Brands : BrandInv(c))'
  BY <1>10
<1>. QED BY <1>8, <1>9, <1>11 DEF IInv, BrandInv, Answered, PendingIffDisconnected,
         LatestConnectStands, TokenWasGranted, TokenMatchesShop

LEMMA NextIInv == IInv /\ [Next]_vars => IInv'
<1>. SUFFICES ASSUME IInv, [Next]_vars PROVE IInv'
  OBVIOUS
<1>1. CASE UNCHANGED vars
  BY <1>1 DEF vars, IInv, TypeOK, RequestsIssued, Busy, PendingIffDisconnected,
     LatestConnectStands, TokenWasGranted, TokenMatchesShop
<1>. QED BY <1>1, ConnectIInv, CallbackReadIInv, SyncStartIInv, SyncStampIInv,
         CallbackCommitIInv, AbortIInv DEF Next

LEMMA Invariant == Spec => []IInv
BY InitIInv, NextIInv, PTL DEF Spec

(* Every reachable state of the connections is well typed. *)
THEOREM TypeCorrect == Spec => []TypeOK
BY Invariant, PTL DEF IInv

(* A row is waiting for its callback or connected, never both, never neither. *)
THEOREM PendingIffDisconnectedHolds == Spec => []PendingIffDisconnected
BY Invariant, PTL DEF IInv

(* What the latest /connect wrote stands until its own callback, or one that had
   passed its checks before it, completes the row. *)
THEOREM LatestConnectStandsHolds == Spec => []LatestConnectStands
BY Invariant, PTL DEF IInv

(* A stored token was granted to this brand for the shop it is for. *)
THEOREM TokenWasGrantedHolds == Spec => []TokenWasGranted
BY Invariant, PTL DEF IInv

(* Only a callback overtaken by a newer /connect can pair the row's shop with
   the token of another shop. *)
THEOREM TokenMatchesShopHolds == Spec => []TokenMatchesShop
BY Invariant, PTL DEF IInv

-----------------------------------------------------------------------------
(* The connections implement OAuthContract.  AwaitedOf, OnlineOf, TokenOf and
   VisitOf are the refinement mapping of Implemented. *)

AwaitedIn(b, c) ==
    IF c = NoRow \/ c.oauth_state = NULL THEN {}
    ELSE [brand: {b}, ticket: {c.oauth_state}, account: {c.shop_domain}]
OnlineIn(c) == c # NoRow /\ c.is_connected
TokenIn(c) == IF c = NoRow THEN NoShop ELSE c.access_token
VisitIn(q) ==
    IF q.pc = "exchanging"
    THEN {[brand |-> q.brand, ticket |-> q.state, account |-> q.shop]}
    ELSE {}

AwaitedOf == [b \in Brands |-> AwaitedIn(b, row[b])]
OnlineOf == [b \in Brands |-> OnlineIn(row[b])]
TokenOf == [b \in Brands |-> TokenIn(row[b])]
VisitOf == [r \in Requests |-> VisitIn(request[r])]

LEMMA MappingMatches ==
    /\ Implemented!Unconnected <=>
          /\ DOMAIN issued = {}
          /\ AwaitedOf = [b \in Brands |-> {}]
          /\ OnlineOf = [b \in Brands |-> FALSE]
          /\ TokenOf = [b \in Brands |-> NoShop]
          /\ VisitOf = [r \in Requests |-> {}]
    /\ Implemented!connection = <<DOMAIN issued, AwaitedOf, OnlineOf, TokenOf, VisitOf>>
BY DEF Implemented!Unconnected, Implemented!connection, AwaitedOf, OnlineOf, TokenOf,
       VisitOf, AwaitedIn, OnlineIn, TokenIn, VisitIn

(* The actions of the contract over the mapped state. *)
LEMMA AskMatches ==
    ASSUME NEW b \in Brands, NEW ticket \in States \ DOMAIN issued, NEW shop \in Shops,
           DOMAIN issued' = DOMAIN issued \cup {ticket},
           AwaitedOf' = [AwaitedOf EXCEPT ![b] =
                           [brand: {b}, ticket: {ticket}, account: {shop}]],
           OnlineOf' = [OnlineOf EXCEPT ![b] = FALSE],
           TokenOf' = TokenOf, VisitOf' = VisitOf
    PROVE  Implemented!Step
<1>1. {shop} \in SUBSET Shops
  OBVIOUS
<1>2. Implemented!Ask(b)
  BY <1>1 DEF Implemented!Ask, AwaitedOf, OnlineOf, TokenOf, VisitOf,
              AwaitedIn, OnlineIn, TokenIn, VisitIn
<1>3. Implemented!Ask(b) => Implemented!Step
  BY DEF Implemented!Step
<1> QED BY <1>2, <1>3

LEMMA ReturnMatches ==
    ASSUME NEW r \in Requests, NEW b \in Brands, NEW pass \in AwaitedOf[b],
           VisitOf[r] = {}, VisitOf' = [VisitOf EXCEPT ![r] = {pass}],
           UNCHANGED <<row, issued>>
    PROVE  Implemented!Step
<1>1. AwaitedOf' = AwaitedOf /\ OnlineOf' = OnlineOf /\ TokenOf' = TokenOf
  BY DEF AwaitedOf, OnlineOf, TokenOf
<1>2. Implemented!Return(r)
  BY <1>1 DEF Implemented!Return, AwaitedOf, OnlineOf, TokenOf, VisitOf,
              AwaitedIn, OnlineIn, TokenIn, VisitIn
<1>3. Implemented!Return(r) => Implemented!Step
  BY DEF Implemented!Step
<1> QED BY <1>2, <1>3

LEMMA GrantMatches ==
    ASSUME NEW r \in Requests, NEW pass \in VisitOf[r],
           AwaitedOf' = [AwaitedOf EXCEPT ![pass.brand] = {}],
           OnlineOf' = [OnlineOf EXCEPT ![pass.brand] = TRUE],
           TokenOf' = [TokenOf EXCEPT ![pass.brand] = pass.account],
           VisitOf' = [VisitOf EXCEPT ![r] = {}],
           UNCHANGED issued
    PROVE  Implemented!Step
<1>1. Implemented!Grant(r)
  BY DEF Implemented!Grant, AwaitedOf, OnlineOf, TokenOf, VisitOf,
         AwaitedIn, OnlineIn, TokenIn, VisitIn
<1>2. Implemented!Grant(r) => Implemented!Step
  BY DEF Implemented!Step
<1> QED BY <1>1, <1>2

LEMMA LeaveMatches ==
    ASSUME NEW r \in Requests, VisitOf' = [VisitOf EXCEPT ![r] = {}],
           UNCHANGED <<row, issued>>
    PROVE  Implemented!Step
<1>1. AwaitedOf' = AwaitedOf /\ OnlineOf' = OnlineOf /\ TokenOf' = TokenOf
  BY DEF AwaitedOf, OnlineOf, TokenOf
<1>2. Implemented!Leave(r)
  BY <1>1 DEF Implemented!Leave, AwaitedOf, OnlineOf, TokenOf, VisitOf,
              AwaitedIn, OnlineIn, TokenIn, VisitIn
<1>3. Implemented!Leave(r) => Implemented!Step
  BY DEF Implemented!Step
<1> QED BY <1>2, <1>3

LEMMA UnseenMatches ==
    ASSUME AwaitedOf' = AwaitedOf, OnlineOf' = OnlineOf, TokenOf' = TokenOf,
           VisitOf' = VisitOf, UNCHANGED issued
    PROVE  UNCHANGED Implemented!connection
BY DEF Implemented!connection, AwaitedOf, OnlineOf, TokenOf, VisitOf,
       AwaitedIn, OnlineIn, TokenIn, VisitIn

(* A step that writes one brand's row moves the mapped state of that brand only, and
   one that moves one request the visit of that request only. *)
LEMMA MappedRow ==
    ASSUME TypeOK, NEW b \in Brands, NEW new, row' = [row EXCEPT ![b] = new]
    PROVE  /\ AwaitedOf' = [AwaitedOf EXCEPT ![b] = AwaitedIn(b, new)]
           /\ OnlineOf' = [OnlineOf EXCEPT ![b] = OnlineIn(new)]
           /\ TokenOf' = [TokenOf EXCEPT ![b] = TokenIn(new)]
<1>1. \A c \in Brands : row'[c] = IF c = b THEN new ELSE row[c]
  BY DEF TypeOK
<1>2. AwaitedOf' = [AwaitedOf EXCEPT ![b] = AwaitedIn(b, new)]
  <2>1. /\ \A c \in Brands : AwaitedOf'[c] = IF c = b THEN AwaitedIn(b, new) ELSE AwaitedOf[c]
        /\ AwaitedOf = [c \in Brands |-> AwaitedOf[c]] /\ AwaitedOf' = [c \in Brands |-> AwaitedOf'[c]]
    BY <1>1 DEF AwaitedOf, AwaitedIn
  <2> QED BY <2>1
<1>3. OnlineOf' = [OnlineOf EXCEPT ![b] = OnlineIn(new)]
  <2>1. /\ \A c \in Brands : OnlineOf'[c] = IF c = b THEN OnlineIn(new) ELSE OnlineOf[c]
        /\ OnlineOf = [c \in Brands |-> OnlineOf[c]] /\ OnlineOf' = [c \in Brands |-> OnlineOf'[c]]
    BY <1>1 DEF OnlineOf, OnlineIn
  <2> QED BY <2>1
<1>4. TokenOf' = [TokenOf EXCEPT ![b] = TokenIn(new)]
  <2>1. /\ \A c \in Brands : TokenOf'[c] = IF c = b THEN TokenIn(new) ELSE TokenOf[c]
        /\ TokenOf = [c \in Brands |-> TokenOf[c]] /\ TokenOf' = [c \in Brands |-> TokenOf'[c]]
    BY <1>1 DEF TokenOf, TokenIn
  <2> QED BY <2>1
<1> QED BY <1>2, <1>3, <1>4

LEMMA MappedRequest ==
    ASSUME TypeOK, NEW r \in Requests, NEW q, request' = [request EXCEPT ![r] = q]
    PROVE  VisitOf' = [VisitOf EXCEPT ![r] = VisitIn(q)]
<1>1. \A s \in Requests : request'[s] = IF s = r THEN q ELSE request[s]
  BY DEF TypeOK
<1>2. /\ \A s \in Requests : VisitOf'[s] = IF s = r THEN VisitIn(q) ELSE VisitOf[s]
      /\ VisitOf = [s \in Requests |-> VisitOf[s]]
      /\ VisitOf' = [s \in Requests |-> VisitOf'[s]]
  BY <1>1 DEF VisitOf, VisitIn
<1> QED BY <1>2

LEMMA SameVisit ==
    ASSUME NEW r \in Requests, NEW V, V = VisitOf[r]
    PROVE  [VisitOf EXCEPT ![r] = V] = VisitOf
BY DEF VisitOf

LEMMA ConnectAsks ==
    ASSUME IInv, NEW b \in Brands, NEW shop \in Shops, Connect(b, shop)
    PROVE  Implemented!Step
<1>1. PICK new : new = Pending(row[b], shop, Len(issued) + 1)
  OBVIOUS
<1>2. /\ row' = [row EXCEPT ![b] = new] /\ request' = request
      /\ issued' = Append(issued, [brand |-> b, shop |-> shop])
  BY <1>1 DEF Connect
<1>3. issued \in Seq([brand: Brands, shop: Shops]) /\ TypeOK
  BY DEF IInv, TypeOK
<1>4. PICK ticket \in States \ DOMAIN issued : ticket = Len(issued) + 1
  BY <1>3, OAuthAssumption DEF Connect, States
<1>5. /\ new.shop_domain = shop /\ new.oauth_state = ticket /\ ~new.is_connected
      /\ new.access_token = TokenIn(row[b]) /\ new \in Connection
  <2>1. CASE row[b] = NoRow
    BY <1>1, <1>4, <2>1 DEF Pending, TokenIn, Connection
  <2>2. CASE row[b] # NoRow
    <3>1. PICK old \in Connection : old = row[b]
      BY <1>3, <2>2 DEF TypeOK
    <3>2. new = [old EXCEPT !.shop_domain = shop, !.oauth_state = ticket,
                            !.is_connected = FALSE]
      BY <1>1, <1>4, <2>2, <3>1 DEF Pending
    <3>3. /\ new.shop_domain = shop /\ new.oauth_state = ticket /\ ~new.is_connected
          /\ new.access_token = old.access_token
          /\ new = [shop_domain |-> shop, oauth_state |-> ticket, is_connected |-> FALSE,
                    access_token |-> old.access_token, last_synced |-> old.last_synced]
      BY <3>2 DEF Connection
    <3>4. new \in Connection
      <4>1. /\ old.access_token \in Shops \cup {NoShop}
            /\ old.last_synced \in Shops \cup {NoShop}
        BY DEF Connection
      <4> QED BY <3>3, <4>1 DEF Connection
    <3> QED BY <2>2, <3>1, <3>3, <3>4 DEF TokenIn
  <2> QED BY <2>1, <2>2
<1>6. new # NoRow /\ ticket # NULL
  BY <1>5, OAuthAssumption DEF States, NULL
<1>7. DOMAIN issued' = DOMAIN issued \cup {ticket}
  BY <1>2, <1>3, <1>4
<1>8. /\ AwaitedOf' = [AwaitedOf EXCEPT ![b] =
                         [brand: {b}, ticket: {ticket}, account: {shop}]]
      /\ OnlineOf' = [OnlineOf EXCEPT ![b] = FALSE]
  <2>1. /\ AwaitedIn(b, new) = [brand: {b}, ticket: {ticket}, account: {shop}]
        /\ OnlineIn(new) = FALSE
    BY <1>5, <1>6 DEF AwaitedIn, OnlineIn
  <2>2. /\ AwaitedOf' = [AwaitedOf EXCEPT ![b] = AwaitedIn(b, new)]
        /\ OnlineOf' = [OnlineOf EXCEPT ![b] = OnlineIn(new)]
    BY <1>2, <1>3, MappedRow
  <2> QED BY <2>1, <2>2
<1>9. TokenOf' = TokenOf
  <2>1. TokenOf' = [TokenOf EXCEPT ![b] = TokenIn(new)]
    BY <1>2, <1>3, MappedRow
  <2>2. TokenIn(new) = TokenOf[b] /\ TokenOf = [c \in Brands |-> TokenOf[c]]
    BY <1>5, <1>6 DEF TokenOf, TokenIn
  <2> QED BY <2>1, <2>2
<1>10. VisitOf' = VisitOf
  BY <1>2 DEF VisitOf
<1> QED BY <1>7, <1>8, <1>9, <1>10, AskMatches

(* A callback is let in with the state and the shop that the row awaits, or it is no
   step of the contract. *)
LEMMA CallbackReturns ==
    ASSUME IInv, NEW r \in Requests, NEW b \in Brands, NEW shop \in Shops,
           NEW n \in DOMAIN issued, CallbackRead(r, b, shop, n)
    PROVE  Implemented!Step \/ UNCHANGED Implemented!connection
<1>1. TypeOK /\ UNCHANGED <<row, issued>> /\ VisitOf[r] = {}
  BY DEF CallbackRead, IInv, Busy, VisitOf, VisitIn
<1>2. CASE Verdict(b, shop, n) = "exchanging"
  <2>1. PICK q : q = [pc |-> "exchanging", brand |-> b, shop |-> shop, state |-> n]
    OBVIOUS
  <2>2. request' = [request EXCEPT ![r] = q]
    BY <1>2, <2>1 DEF CallbackRead
  <2>3. PICK pass : pass = [brand |-> b, ticket |-> n, account |-> shop]
    OBVIOUS
  <2>4. row[b] # NoRow /\ row[b].shop_domain = shop /\ row[b].oauth_state = n /\ n # NULL
    <3>1. n \in States
      BY OAuthAssumption DEF IInv, TypeOK, States
    <3> QED BY <1>2, <3>1, OAuthAssumption DEF Verdict, States, NULL
  <2>5. pass \in AwaitedOf[b]
    BY <2>3, <2>4 DEF AwaitedOf, AwaitedIn
  <2>6. VisitIn(q) = {pass}
    BY <2>1, <2>3 DEF VisitIn
  <2>7. VisitOf' = [VisitOf EXCEPT ![r] = {pass}]
    BY <1>1, <2>2, <2>6, MappedRequest
  <2> QED BY <1>1, <2>5, <2>7, ReturnMatches
<1>3. CASE Verdict(b, shop, n) # "exchanging"
  <2>1. PICK old \in Request : old = request[r]
    BY <1>1 DEF TypeOK
  <2>2. PICK q : q = [old EXCEPT !.pc = Verdict(b, shop, n)]
    OBVIOUS
  <2>3. request' = [request EXCEPT ![r] = q] /\ VisitIn(q) = {}
    BY <1>3, <2>1, <2>2 DEF CallbackRead, VisitIn, Request
  <2>4. VisitOf' = VisitOf
    <3>1. VisitOf' = [VisitOf EXCEPT ![r] = VisitIn(q)]
      BY <1>1, <2>3, MappedRequest
    <3> QED BY <1>1, <2>3, <3>1, SameVisit
  <2>5. AwaitedOf' = AwaitedOf /\ OnlineOf' = OnlineOf /\ TokenOf' = TokenOf
    BY <1>1 DEF AwaitedOf, OnlineOf, TokenOf
  <2> QED BY <1>1, <2>4, <2>5, UnseenMatches
<1> QED BY <1>2, <1>3

LEMMA CallbackGrants ==
    ASSUME IInv, NEW r \in Requests, CallbackCommit(r)
    PROVE  Implemented!Step
<1>1. PICK q \in Request : q = request[r]
  BY DEF IInv, TypeOK
<1>2. PICK b \in Brands, shop \in Shops : b = q.brand /\ shop = q.shop
  BY DEF Request
<1>3. row[b] # NoRow /\ row[b] \in Connection /\ TypeOK /\ q.pc = "exchanging"
  BY <1>1, <1>2 DEF CallbackCommit, IInv, RequestsIssued, Busy, TypeOK
<1>4. PICK new : new = Completed(row[b], q)
  OBVIOUS
<1>5. PICK done : done = [q EXCEPT !.pc = "done"]
  OBVIOUS
<1>6. /\ row' = [row EXCEPT ![b] = new] /\ issued' = issued
      /\ request' = [request EXCEPT ![r] = done]
  BY <1>1, <1>2, <1>4, <1>5 DEF CallbackCommit
<1>7. /\ new = [shop_domain |-> row[b].shop_domain, oauth_state |-> NULL,
                is_connected |-> TRUE, access_token |-> shop,
                last_synced |-> row[b].last_synced]
  BY <1>2, <1>3, <1>4 DEF Completed, Connection
<1>8. new # NoRow
  <2>1. /\ row[b].shop_domain \in Shops
        /\ row[b].last_synced \in Shops \cup {NoShop}
    BY <1>3 DEF Connection
  <2>2. new \in Connection
    BY <1>7, <2>1 DEF Connection
  <2> QED BY <2>2, OAuthAssumption
<1>9. /\ AwaitedOf' = [AwaitedOf EXCEPT ![b] = {}]
      /\ OnlineOf' = [OnlineOf EXCEPT ![b] = TRUE]
      /\ TokenOf' = [TokenOf EXCEPT ![b] = shop]
  <2>1. AwaitedIn(b, new) = {} /\ OnlineIn(new) = TRUE /\ TokenIn(new) = shop
    BY <1>7, <1>8 DEF AwaitedIn, OnlineIn, TokenIn
  <2>2. /\ AwaitedOf' = [AwaitedOf EXCEPT ![b] = AwaitedIn(b, new)]
        /\ OnlineOf' = [OnlineOf EXCEPT ![b] = OnlineIn(new)]
        /\ TokenOf' = [TokenOf EXCEPT ![b] = TokenIn(new)]
    BY <1>3, <1>6, MappedRow
  <2> QED BY <2>1, <2>2
<1>10. VisitOf' = [VisitOf EXCEPT ![r] = {}]
  <2>1. VisitIn(done) = {}
    BY <1>1, <1>5 DEF VisitIn, Request
  <2> QED BY <1>3, <1>6, <2>1, MappedRequest
<1>11. PICK pass : pass = [brand |-> b, ticket |-> q.state, account |-> shop]
  OBVIOUS
<1>12. pass \in VisitOf[r] /\ pass.brand = b /\ pass.account = shop
  BY <1>1, <1>2, <1>3, <1>11 DEF VisitOf, VisitIn
<1> QED BY <1>6, <1>9, <1>10, <1>12, GrantMatches

(* The start and the stamp of a sync are no steps of the contract. *)
LEMMA SyncStartUnseen ==
    ASSUME IInv, NEW r \in Requests, NEW b \in Brands, SyncStart(r, b)
    PROVE  UNCHANGED Implemented!connection
<1>1. TypeOK /\ UNCHANGED <<row, issued>> /\ VisitOf[r] = {}
  BY DEF SyncStart, IInv, Busy, VisitOf, VisitIn
<1>2. PICK old \in Request : old = request[r]
  BY <1>1 DEF TypeOK
<1>3. PICK q : /\ q = IF row[b] # NoRow /\ row[b].is_connected
                     THEN [pc |-> "syncing", brand |-> b,
                           shop |-> row[b].shop_domain, state |-> NULL]
                     ELSE [old EXCEPT !.pc = "refused"]
  OBVIOUS
<1>4. request' = [request EXCEPT ![r] = q] /\ VisitIn(q) = {}
  BY <1>2, <1>3 DEF SyncStart, VisitIn, Request
<1>5. VisitOf' = VisitOf
  <2>1. VisitOf' = [VisitOf EXCEPT ![r] = VisitIn(q)]
    BY <1>1, <1>4, MappedRequest
  <2> QED BY <1>1, <1>4, <2>1, SameVisit
<1>6. AwaitedOf' = AwaitedOf /\ OnlineOf' = OnlineOf /\ TokenOf' = TokenOf
  BY <1>1 DEF AwaitedOf, OnlineOf, TokenOf
<1> QED BY <1>1, <1>5, <1>6, UnseenMatches

LEMMA StampUnseen ==
    ASSUME IInv, NEW r \in Requests, NEW last \in BOOLEAN, SyncStamp(r, last)
    PROVE  UNCHANGED Implemented!connection
<1>1. PICK q \in Request : q = request[r]
  BY DEF IInv, TypeOK
<1>2. PICK b \in Brands : b = q.brand
  BY DEF Request
<1>3. row[b] # NoRow /\ row[b] \in Connection /\ TypeOK /\ q.pc = "syncing"
  BY <1>1, <1>2 DEF SyncStamp, IInv, RequestsIssued, Busy, TypeOK
<1>4. PICK new : new = Stamped(row[b], q)
  OBVIOUS
<1>5. PICK then : then = [q EXCEPT !.pc = IF last THEN "done" ELSE @]
  OBVIOUS
<1>6. /\ row' = [row EXCEPT ![b] = new] /\ issued' = issued
      /\ request' = [request EXCEPT ![r] = then]
  BY <1>1, <1>2, <1>4, <1>5 DEF SyncStamp
<1>7. /\ new = [shop_domain |-> row[b].shop_domain, oauth_state |-> row[b].oauth_state,
                is_connected |-> row[b].is_connected,
                access_token |-> row[b].access_token, last_synced |-> q.shop]
  BY <1>3, <1>4 DEF Stamped, Connection
<1>8. new # NoRow
  <2>1. /\ row[b].shop_domain \in Shops /\ row[b].is_connected \in BOOLEAN
        /\ row[b].oauth_state \in States \cup {NULL}
        /\ row[b].access_token \in Shops \cup {NoShop} /\ q.shop \in Shops
    BY <1>3 DEF Connection, Request
  <2>2. new \in Connection
    BY <1>7, <2>1 DEF Connection
  <2> QED BY <2>2, OAuthAssumption
<1>9. AwaitedOf' = AwaitedOf /\ OnlineOf' = OnlineOf /\ TokenOf' = TokenOf
  <2>1. /\ AwaitedOf' = [AwaitedOf EXCEPT ![b] = AwaitedIn(b, new)]
        /\ OnlineOf' = [OnlineOf EXCEPT ![b] = OnlineIn(new)]
        /\ TokenOf' = [TokenOf EXCEPT ![b] = TokenIn(new)]
    BY <1>3, <1>6, MappedRow
  <2>2. AwaitedIn(b, new) = AwaitedOf[b]
    BY <1>3, <1>7, <1>8 DEF AwaitedOf, AwaitedIn
  <2>3. OnlineIn(new) = OnlineOf[b]
    BY <1>3, <1>7, <1>8 DEF OnlineOf, OnlineIn
  <2>4. TokenIn(new) = TokenOf[b]
    BY <1>3, <1>7, <1>8 DEF TokenOf, TokenIn
  <2>5. AwaitedOf' = AwaitedOf
    BY <2>1, <2>2 DEF AwaitedOf
  <2>6. OnlineOf' = OnlineOf
    BY <2>1, <2>3 DEF OnlineOf
  <2>7. TokenOf' = TokenOf
    BY <2>1, <2>4 DEF TokenOf
  <2> QED BY <2>5, <2>6, <2>7
<1>10. VisitOf' = VisitOf
  <2>1. VisitIn(then) = {} /\ VisitOf[r] = {}
    BY <1>1, <1>3, <1>5 DEF VisitOf, VisitIn, Request
  <2>2. VisitOf' = [VisitOf EXCEPT ![r] = VisitIn(then)]
    BY <1>3, <1>6, MappedRequest
  <2> QED BY <2>1, <2>2, SameVisit
<1> QED BY <1>6, <1>9, <1>10, UnseenMatches

LEMMA AbortLeaves ==
    ASSUME IInv, NEW r \in Requests, Abort(r)
    PROVE  Implemented!Step
<1>1. PICK old \in Request : old = request[r]
  BY DEF IInv, TypeOK
<1>2. PICK q : q = [old EXCEPT !.pc = "aborted"]
  OBVIOUS
<1>3. request' = [request EXCEPT ![r] = q] /\ VisitIn(q) = {}
  BY <1>1, <1>2 DEF Abort, VisitIn, Request
<1>4. VisitOf' = [VisitOf EXCEPT ![r] = {}]
  BY <1>3, MappedRequest DEF IInv
<1> QED BY <1>4, LeaveMatches DEF Abort

LEMMA NextRefines ==
    ASSUME IInv, [Next]_vars
    PROVE  [Implemented!Step]_(Implemented!connection)
<1>1. CASE UNCHANGED vars
  BY <1>1 DEF vars, Implemented!connection
<1> QED BY <1>1, ConnectAsks, CallbackReturns, SyncStartUnseen, StampUnseen,
        CallbackGrants, AbortLeaves DEF Next

(* The row keeps OAuthContract, for any brands, shops and requests: only a /connect
   closes a connection, with a state of its own; only a callback let in with the
   awaited state and shop opens one or changes a token, and for that shop; and no
   step concerns two brands. *)
THEOREM ContractKept == Spec => KeepsContract
<1>1. Init => Implemented!Unconnected
  <2>1. SUFFICES ASSUME Init PROVE Implemented!Unconnected
    OBVIOUS
  <2>2. DOMAIN issued = {}
    BY <2>1 DEF Init
  <2>3. /\ AwaitedOf = [b \in Brands |-> {}]
        /\ OnlineOf = [b \in Brands |-> FALSE]
        /\ TokenOf = [b \in Brands |-> NoShop]
    BY <2>1 DEF Init, AwaitedOf, OnlineOf, TokenOf, AwaitedIn, OnlineIn, TokenIn
  <2>4. VisitOf = [r \in Requests |-> {}]
    BY <2>1 DEF Init, VisitOf, VisitIn
  <2> QED BY <2>2, <2>3, <2>4, MappingMatches
<1> QED BY <1>1, Invariant, NextRefines, PTL
        DEF Spec, KeepsContract, Implemented!Contract
=============================================================================
