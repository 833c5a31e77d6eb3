----------------------------- MODULE AuthProofs ------------------------------
(***************************************************************************)
(* Proofs about Auth, for any users, brands, requests and token lifetime.  *)
(* GraceBounded and LeaversBounded speak of tokens only; what makes them   *)
(* inductive is what a request still holds of an earlier statement: the    *)
(* row a login read and the brand it checked, and the token a protected    *)
(* request decoded, none of them older than the request has waited.        *)
(***************************************************************************)
EXTENDS Auth, TLAPS

(* What a request acts on was right when it read it. *)
Grounded(q) ==
    /\ q.pc \in {"found", "checked", "decoded"} => q.user \in Users /\ q.brand \in Brands
    /\ q.pc \in {"found", "checked"} /\ ~IsMember(q.user, q.brand) =>
          away[q.user][q.brand] <= q.waited
    /\ q.pc = "checked" /\ ~IsActive(q.brand) => suspended[q.brand] <= q.waited
    /\ q.pc = "decoded" /\ ~IsActive(q.brand) => suspended[q.brand] <= GRACE + q.waited

RequestsAreGrounded == \A r \in Requests : Grounded(request[r])

IInv == TypeOK /\ GraceBounded /\ LeaversBounded /\ RequestsAreGrounded

LEMMA ConstantsAreNatural ==
    /\ GRACE \in Nat /\ EXPIRE_TICKS \in Nat /\ MAX_WAIT \in Nat /\ LONG \in Nat
    /\ GRACE = EXPIRE_TICKS + MAX_WAIT /\ LONG = GRACE + MAX_WAIT + 1
BY AuthAssumption DEF AuthAssumption, GRACE, LONG

LEMMA IdleTyped == IdleRequest \in Request /\ IdleRequest.pc = "idle"
BY ConstantsAreNatural DEF IdleRequest, Request

(* The two clocks, read one at a time. *)
LEMMA ClockTypes ==
    ASSUME TypeOK, NEW u \in Users, NEW b \in Brands
    PROVE  away[u][b] \in ACTIVE .. LONG /\ suspended[b] \in ACTIVE .. LONG
BY DEF TypeOK

LEMMA LaterIsLater ==
    ASSUME NEW n \in ACTIVE .. LONG
    PROVE  /\ Later(n) \in ACTIVE .. LONG
           /\ Later(n) = ACTIVE <=> n = ACTIVE
           /\ Later(n) <= n + 1
BY ConstantsAreNatural DEF Later, ACTIVE

(* A step that only puts request r at q. *)
LEMMA GotoKeepsIInv ==
    ASSUME IInv, NEW r \in Requests, NEW q \in Request, Goto(r, q),
           UNCHANGED <<user, away, suspended, tokens>>, Grounded(q)
    PROVE  IInv'
<1>1. TypeOK'
  BY DEF IInv, TypeOK, Goto
<1>2. GraceBounded' /\ LeaversBounded'
  BY DEF IInv, GraceBounded, LeaversBounded, IsActive, IsMember
<1>3. ASSUME NEW s \in Requests
      PROVE  request'[s] = IF s = r THEN q ELSE request[s]
  BY DEF IInv, TypeOK, Goto
<1>4. RequestsAreGrounded'
  BY <1>3 DEF IInv, RequestsAreGrounded, Grounded, IsActive, IsMember
<1> QED BY <1>1, <1>2, <1>4 DEF IInv

LEMMA IdleGrounded == Grounded(IdleRequest)
BY IdleTyped DEF Grounded

(* An operator's step on a user: an absence that goes on keeps its clock, and one
   that begins starts at 0. *)
LEMMA AdministerKeepsIInv ==
    ASSUME IInv, NEW u \in Users, Administer(u)
    PROVE  IInv'
<1> USE ConstantsAreNatural
<1>1. PICK row \in UserRow :
         /\ user' = [user EXCEPT ![u] = row]
         /\ away' = [away EXCEPT ![u] =
                [b \in Brands |-> IF row.is_active /\ row.brand = b THEN ACTIVE
                                  ELSE IF IsMember(u, b) THEN 0 ELSE away[u][b]]]
  BY DEF Administer
<1>2. UNCHANGED <<suspended, tokens, request>>
  BY DEF Administer
<1>3. \A b \in Brands : (IF row.is_active /\ row.brand = b THEN ACTIVE
                         ELSE IF IsMember(u, b) THEN 0 ELSE away[u][b]) \in ACTIVE .. LONG
  BY ClockTypes DEF IInv, ACTIVE
<1>4. TypeOK'
  BY <1>1, <1>2, <1>3 DEF IInv, TypeOK
<1>5. ASSUME NEW v \in Users, NEW b \in Brands, ~IsMember(v, b)'
      PROVE  away'[v][b] = 0 \/ (~IsMember(v, b) /\ away'[v][b] = away[v][b])
  <2>1. CASE v = u
    <3>1. user'[u] = row
      BY <1>1 DEF IInv, TypeOK
    <3>2. ~(row.is_active /\ row.brand = b)
      BY <1>5, <2>1, <3>1 DEF IsMember
    <3>3. away'[u][b] = IF IsMember(u, b) THEN 0 ELSE away[u][b]
      BY <1>1, <3>2 DEF IInv, TypeOK
    <3> QED BY <2>1, <3>3
  <2>2. CASE v # u
    <3>1. user'[v] = user[v] /\ away'[v] = away[v]
      BY <1>1, <2>2 DEF IInv, TypeOK
    <3> QED BY <1>5, <3>1 DEF IsMember
  <2> QED BY <2>1, <2>2
<1>6. GraceBounded'
  BY <1>2 DEF IInv, GraceBounded, IsActive
<1>7. LeaversBounded'
  <2>1. ASSUME NEW t \in tokens, ~IsMember(t.user, t.brand)'
        PROVE  t.left + away'[t.user][t.brand] <= GRACE
    <3>1. t.user \in Users /\ t.brand \in Brands /\ t.left \in Nat /\ t.left <= GRACE
      BY DEF IInv, TypeOK, Token
    <3>2. CASE away'[t.user][t.brand] = 0
      BY <3>1, <3>2
    <3>3. CASE ~IsMember(t.user, t.brand) /\ away'[t.user][t.brand] = away[t.user][t.brand]
      BY <3>3 DEF IInv, LeaversBounded
    <3> QED BY <1>5, <2>1, <3>1, <3>2, <3>3
  <2> QED BY <1>2, <2>1 DEF LeaversBounded
<1>8. RequestsAreGrounded'
  <2>1. ASSUME NEW r \in Requests, request[r].pc \in {"found", "checked"},
               ~IsMember(request[r].user, request[r].brand)'
        PROVE  away'[request[r].user][request[r].brand] <= request[r].waited
    <3>1. request[r].user \in Users /\ request[r].brand \in Brands
      BY <2>1 DEF IInv, RequestsAreGrounded, Grounded
    <3>2. request[r].waited \in Nat
      BY DEF IInv, TypeOK, Request
    <3>3. CASE away'[request[r].user][request[r].brand] = 0
      BY <3>2, <3>3
    <3>4. CASE /\ ~IsMember(request[r].user, request[r].brand)
               /\ away'[request[r].user][request[r].brand]
                    = away[request[r].user][request[r].brand]
      BY <2>1, <3>4 DEF IInv, RequestsAreGrounded, Grounded
    <3> QED BY <1>2, <1>5, <2>1, <3>1, <3>3, <3>4
  <2>2. ASSUME NEW r \in Requests
        PROVE  Grounded(request[r])'
    BY <1>2, <2>1 DEF IInv, RequestsAreGrounded, Grounded, IsActive
  <2> QED BY <2>2 DEF RequestsAreGrounded
<1> QED BY <1>4, <1>6, <1>7, <1>8 DEF IInv

LEMMA SuspensionKeepsIInv ==
    ASSUME IInv, NEW b \in Brands, Suspend(b) \/ Reinstate(b)
    PROVE  IInv'
<1> USE ConstantsAreNatural
<1>1. PICK n \in {0, ACTIVE} : suspended' = [suspended EXCEPT ![b] = n]
  BY DEF Suspend, Reinstate
<1>2. UNCHANGED <<user, away, tokens, request>>
  BY DEF Suspend, Reinstate
<1>3. \A d \in Brands : suspended'[d] = IF d = b THEN n ELSE suspended[d]
  BY <1>1 DEF IInv, TypeOK
<1>4. n \in ACTIVE .. LONG /\ n <= 0
  BY DEF ACTIVE
<1>5. TypeOK'
  BY <1>1, <1>2, <1>4 DEF IInv, TypeOK
<1>6. GraceBounded'
  <2>1. ASSUME NEW t \in tokens, suspended'[t.brand] # ACTIVE
        PROVE  t.left + suspended'[t.brand] <= GRACE
    <3>1. t.brand \in Brands /\ t.left \in Nat /\ t.left <= GRACE
      BY DEF IInv, TypeOK, Token
    <3>2. CASE t.brand = b
      BY <1>3, <2>1, <3>1, <3>2
    <3>3. CASE t.brand # b
      BY <1>3, <2>1, <3>1, <3>3 DEF IInv, GraceBounded, IsActive
    <3> QED BY <3>2, <3>3
  <2> QED BY <1>2, <2>1 DEF GraceBounded, IsActive
<1>7. LeaversBounded'
  BY <1>2 DEF IInv, LeaversBounded, IsMember
<1>8. RequestsAreGrounded'
  <2>1. ASSUME NEW r \in Requests, request[r].pc \in {"checked", "decoded"},
               suspended'[request[r].brand] # ACTIVE
        PROVE  /\ request[r].pc = "checked" =>
                     suspended'[request[r].brand] <= request[r].waited
               /\ request[r].pc = "decoded" =>
                     suspended'[request[r].brand] <= GRACE + request[r].waited
    <3>1. request[r].brand \in Brands
      BY <2>1 DEF IInv, RequestsAreGrounded, Grounded
    <3>2. request[r].waited \in Nat
      BY DEF IInv, TypeOK, Request
    <3>3. CASE request[r].brand = b
      BY <1>3, <1>4, <2>1, <3>1, <3>2, <3>3
    <3>4. CASE request[r].brand # b
      <4>1. suspended'[request[r].brand] = suspended[request[r].brand]
        BY <1>3, <3>1, <3>4
      <4> QED BY <2>1, <4>1 DEF IInv, RequestsAreGrounded, Grounded, IsActive
    <3> QED BY <3>3, <3>4
  <2>2. ASSUME NEW r \in Requests
        PROVE  Grounded(request[r])'
    BY <1>2, <2>1 DEF IInv, RequestsAreGrounded, Grounded, IsActive, IsMember
  <2> QED BY <2>2 DEF RequestsAreGrounded
<1> QED BY <1>5, <1>6, <1>7, <1>8 DEF IInv

LEMMA TickKeepsIInv ==
    ASSUME IInv, Tick
    PROVE  IInv'
<1> USE ConstantsAreNatural
<1>1. ASSUME NEW b \in Brands
      PROVE  /\ suspended'[b] \in ACTIVE .. LONG
             /\ IsActive(b)' <=> IsActive(b)
             /\ suspended'[b] <= suspended[b] + 1
  <2>1. suspended'[b] = Later(suspended[b])
    BY DEF Tick
  <2>2. suspended[b] \in ACTIVE .. LONG
    BY DEF IInv, TypeOK
  <2> QED BY <2>1, <2>2, LaterIsLater DEF IsActive
<1>2. ASSUME NEW u \in Users, NEW b \in Brands
      PROVE  /\ away'[u][b] \in ACTIVE .. LONG
             /\ IsMember(u, b)' <=> IsMember(u, b)
             /\ away'[u][b] <= away[u][b] + 1
  <2>1. away'[u][b] = Later(away[u][b])
    BY DEF Tick
  <2>2. away[u][b] \in ACTIVE .. LONG
    BY DEF IInv, TypeOK
  <2>3. IsMember(u, b)' <=> IsMember(u, b)
    BY DEF Tick, IsMember
  <2> QED BY <2>1, <2>2, <2>3, LaterIsLater
<1>3. ASSUME NEW t \in tokens'
      PROVE  /\ t \in Token
             /\ \E v \in tokens : /\ v.user = t.user /\ v.brand = t.brand
                                  /\ v.left > 0 /\ t.left = v.left - 1
  <2>1. PICK v \in tokens : v.left > 0 /\ t = [v EXCEPT !.left = @ - 1]
    BY DEF Tick, Aged
  <2>2. v \in Token
    BY DEF IInv, TypeOK
  <2>3. t = [user |-> v.user, brand |-> v.brand, left |-> v.left - 1]
    BY <2>1, <2>2 DEF Token
  <2>4. v.left - 1 \in 0 .. EXPIRE_TICKS
    BY <2>1, <2>2 DEF Token
  <2>5. t \in Token
    BY <2>2, <2>3, <2>4 DEF Token
  <2> QED BY <2>1, <2>3, <2>5
<1>4. ASSUME NEW r \in Requests
      PROVE  /\ request'[r] \in Request
             /\ request'[r].pc = request[r].pc
             /\ request'[r].user = request[r].user
             /\ request'[r].brand = request[r].brand
             /\ Waiting(r) => request'[r].waited = request[r].waited + 1
  <2>1. PICK q \in Request : q = request[r]
    BY DEF IInv, TypeOK
  <2>2. CASE Waiting(r)
    <3>1. q.waited + 1 \in 0 .. MAX_WAIT
      BY <2>1, <2>2 DEF Tick, Request
    <3>2. request'[r] = [q EXCEPT !.waited = @ + 1]
      BY <2>1, <2>2 DEF Tick
    <3>3. request'[r] = [pc |-> q.pc, user |-> q.user, brand |-> q.brand,
                         waited |-> q.waited + 1, lapsed |-> q.lapsed]
      BY <3>2 DEF Request
    <3>4. request'[r] \in Request
      BY <3>1, <3>3 DEF Request
    <3> QED BY <2>1, <3>3, <3>4
  <2>3. CASE ~Waiting(r)
    BY <2>1, <2>3 DEF Tick
  <2> QED BY <2>2, <2>3
<1>5. TypeOK'
  <2>1. suspended' \in [Brands -> ACTIVE .. LONG]
    BY <1>1 DEF Tick
  <2>2. away' \in [Users -> [Brands -> ACTIVE .. LONG]]
    <3>1. away' = [u \in Users |-> [b \in Brands |-> Later(away[u][b])]]
      BY DEF Tick
    <3>2. \A u \in Users : \A b \in Brands : Later(away[u][b]) \in ACTIVE .. LONG
      BY <1>2, <3>1
    <3> QED BY <3>1, <3>2
  <2>3. request' \in [Requests -> Request]
    BY <1>4 DEF Tick
  <2> QED BY <1>3, <2>1, <2>2, <2>3 DEF IInv, TypeOK, Tick
<1>6. ASSUME NEW t \in tokens'
      PROVE  /\ ~IsActive(t.brand)' => t.left + suspended'[t.brand] <= GRACE
             /\ ~IsMember(t.user, t.brand)' => t.left + away'[t.user][t.brand] <= GRACE
  <2>1. PICK v \in tokens : /\ v.user = t.user /\ v.brand = t.brand
                            /\ v.left > 0 /\ t.left = v.left - 1
    BY <1>3, <1>6
  <2>2. v.user \in Users /\ v.brand \in Brands /\ v.left \in Nat
    BY DEF IInv, TypeOK, Token
  <2>3. ASSUME ~IsActive(t.brand)'
        PROVE  t.left + suspended'[t.brand] <= GRACE
    <3>1. ~IsActive(v.brand) /\ suspended'[v.brand] <= suspended[v.brand] + 1
      BY <1>1, <2>1, <2>2, <2>3 DEF IsActive
    <3>2. v.left + suspended[v.brand] <= GRACE
      BY <3>1 DEF IInv, GraceBounded
    <3>3. suspended[v.brand] \in Int /\ suspended'[v.brand] \in Int
      BY <1>1, <2>2, ClockTypes DEF IInv, TypeOK, ACTIVE
    <3> QED BY <2>1, <2>2, <3>1, <3>2, <3>3
  <2>4. ASSUME ~IsMember(t.user, t.brand)'
        PROVE  t.left + away'[t.user][t.brand] <= GRACE
    <3>1. ~IsMember(v.user, v.brand)
      BY <1>2, <2>1, <2>2, <2>4 DEF IsMember
    <3>2. v.left + away[v.user][v.brand] <= GRACE
      BY <3>1 DEF IInv, LeaversBounded
    <3>3. away'[v.user][v.brand] <= away[v.user][v.brand] + 1
      BY <1>2, <2>2
    <3>4. away[v.user][v.brand] \in Int /\ away'[v.user][v.brand] \in Int
      BY <1>2, <2>2 DEF IInv, TypeOK, ACTIVE
    <3> QED BY <2>1, <2>2, <3>2, <3>3, <3>4
  <2> QED BY <2>3, <2>4
<1>7. GraceBounded' /\ LeaversBounded'
  BY <1>6 DEF GraceBounded, LeaversBounded, IsActive, IsMember
<1>8. ASSUME NEW r \in Requests
      PROVE  Grounded(request[r])'
  <2>1. PICK q \in Request : q = request[r] /\ Grounded(q)
    BY DEF IInv, TypeOK, RequestsAreGrounded
  <2>2. /\ request'[r].pc = q.pc /\ request'[r].user = q.user /\ request'[r].brand = q.brand
        /\ q.pc \in {"found", "checked", "decoded"} => request'[r].waited = q.waited + 1
    BY <1>4, <2>1 DEF Waiting
  <2>3. q.waited \in Nat
    BY DEF Request
  <2>4. ASSUME q.pc \in {"found", "checked", "decoded"}
        PROVE  q.user \in Users /\ q.brand \in Brands
    BY <2>1, <2>4 DEF Grounded
  <2>5. ASSUME q.pc \in {"found", "checked"}, ~IsMember(q.user, q.brand)'
        PROVE  away'[q.user][q.brand] <= q.waited + 1
    <3>1. q.user \in Users /\ q.brand \in Brands
      BY <2>4, <2>5
    <3>2. ~IsMember(q.user, q.brand) /\ away'[q.user][q.brand] <= away[q.user][q.brand] + 1
      BY <1>2, <2>5, <3>1
    <3>3. away[q.user][q.brand] <= q.waited
      BY <2>1, <2>5, <3>2 DEF Grounded
    <3>4. away[q.user][q.brand] \in Int /\ away'[q.user][q.brand] \in Int
      BY <1>2, <3>1 DEF IInv, TypeOK, ACTIVE
    <3> QED BY <2>3, <3>2, <3>3, <3>4
  <2>6. ASSUME q.pc \in {"checked", "decoded"}, ~IsActive(q.brand)'
        PROVE  suspended'[q.brand] <= (IF q.pc = "checked" THEN 0 ELSE GRACE) + q.waited + 1
    <3>1. q.brand \in Brands
      BY <2>4, <2>6
    <3>2. ~IsActive(q.brand) /\ suspended'[q.brand] <= suspended[q.brand] + 1
      BY <1>1, <2>6, <3>1
    <3>3. suspended[q.brand] <= (IF q.pc = "checked" THEN 0 ELSE GRACE) + q.waited
      BY <2>1, <2>3, <2>6, <3>2 DEF Grounded
    <3>4. suspended[q.brand] \in Int /\ suspended'[q.brand] \in Int
      BY <1>1, <3>1 DEF IInv, TypeOK, ACTIVE
    <3> QED BY <2>3, <3>2, <3>3, <3>4
  <2>7. /\ q.pc = "checked" /\ ~IsActive(q.brand)' => suspended'[q.brand] <= q.waited + 1
        /\ q.pc = "decoded" /\ ~IsActive(q.brand)' =>
              suspended'[q.brand] <= GRACE + (q.waited + 1)
    BY <2>3, <2>6
  <2> QED BY <2>2, <2>4, <2>5, <2>7 DEF Grounded, IsActive, IsMember
<1>9. RequestsAreGrounded'
  BY <1>8 DEF RequestsAreGrounded
<1> QED BY <1>5, <1>7, <1>9 DEF IInv

LEMMA FindUserKeepsIInv ==
    ASSUME IInv, NEW r \in Requests, NEW u \in Users, FindUser(r, u)
    PROVE  IInv'
<1>1. PICK q : q = [IdleRequest EXCEPT !.pc = "found", !.user = u, !.brand = user[u].brand]
  OBVIOUS
<1>2. q = [pc |-> "found", user |-> u, brand |-> user[u].brand, waited |-> 0, lapsed |-> FALSE]
  BY <1>1, IdleTyped DEF IdleRequest
<1>3. user[u].brand \in Brands
  BY DEF IInv, TypeOK, UserRow
<1>4. q \in Request
  BY <1>2, <1>3, ConstantsAreNatural DEF Request
<1>5. IsMember(u, user[u].brand)
  BY DEF FindUser, IsMember
<1>6. Grounded(q)
  BY <1>2, <1>3, <1>5 DEF Grounded
<1> QED BY <1>1, <1>4, <1>6, GotoKeepsIInv DEF FindUser

LEMMA CheckBrandKeepsIInv ==
    ASSUME IInv, NEW r \in Requests, CheckBrand(r)
    PROVE  IInv'
<1>1. PICK p \in Request : p = request[r]
  BY DEF IInv, TypeOK
<1>2. PICK q : q = [p EXCEPT !.pc = "checked"]
  OBVIOUS
<1>3. /\ q \in Request /\ q.pc = "checked"
      /\ q.user = p.user /\ q.brand = p.brand /\ q.waited = p.waited
  BY <1>1, <1>2 DEF Request
<1>4. Grounded(p) /\ p.pc = "found" /\ IsActive(p.brand)
  BY <1>1 DEF CheckBrand, IInv, RequestsAreGrounded
<1>5. Grounded(q)
  BY <1>3, <1>4 DEF Grounded
<1> QED BY <1>1, <1>2, <1>3, <1>5, GotoKeepsIInv DEF CheckBrand

LEMMA IssueTokenKeepsIInv ==
    ASSUME IInv, NEW r \in Requests, IssueToken(r)
    PROVE  IInv'
<1> USE ConstantsAreNatural
<1>1. PICK q \in Request : q = request[r]
  BY DEF IInv, TypeOK
<1>2. PICK t : t = [user |-> q.user, brand |-> q.brand, left |-> EXPIRE_TICKS]
  OBVIOUS
<1>3. q.pc = "checked" /\ Grounded(q)
  BY <1>1 DEF IssueToken, IInv, RequestsAreGrounded
<1>4. q.user \in Users /\ q.brand \in Brands
  BY <1>3 DEF Grounded
<1>5. t \in Token /\ t.user = q.user /\ t.brand = q.brand /\ t.left = EXPIRE_TICKS
  BY <1>2, <1>4 DEF Token
<1>6. tokens' = tokens \cup {t}
  BY <1>1, <1>2 DEF IssueToken, Issued
<1>7. ASSUME NEW s \in Requests
      PROVE  request'[s] = IF s = r THEN IdleRequest ELSE request[s]
  BY DEF IInv, TypeOK, IssueToken, Goto
<1>8. TypeOK'
  BY <1>5, <1>6, IdleTyped DEF IInv, TypeOK, IssueToken, Goto
<1>9. q.waited <= MAX_WAIT /\ q.waited \in Nat
  BY DEF Request
<1>10. ~IsActive(t.brand) => t.left + suspended[t.brand] <= GRACE
  <2>1. suspended[q.brand] \in Int
    BY <1>4 DEF IInv, TypeOK, ACTIVE
  <2>2. ~IsActive(q.brand) => suspended[q.brand] <= q.waited
    BY <1>3 DEF Grounded
  <2> QED BY <1>5, <1>9, <2>1, <2>2
<1>11. ~IsMember(t.user, t.brand) => t.left + away[t.user][t.brand] <= GRACE
  <2>1. away[q.user][q.brand] \in Int
    BY <1>4 DEF IInv, TypeOK, ACTIVE
  <2>2. ~IsMember(q.user, q.brand) => away[q.user][q.brand] <= q.waited
    BY <1>3 DEF Grounded
  <2> QED BY <1>5, <1>9, <2>1, <2>2
<1>12. GraceBounded' /\ LeaversBounded'
  BY <1>6, <1>10, <1>11
     DEF IInv, GraceBounded, LeaversBounded, IsActive, IsMember, IssueToken
<1>13. RequestsAreGrounded'
  BY <1>7, IdleTyped DEF IInv, RequestsAreGrounded, Grounded, IsActive, IsMember, IssueToken
<1> QED BY <1>8, <1>12, <1>13 DEF IInv

LEMMA DecodeKeepsIInv ==
    ASSUME IInv, NEW r \in Requests, NEW t \in tokens, Decode(r, t)
    PROVE  IInv'
<1> USE ConstantsAreNatural
<1>1. PICK q : q = [IdleRequest EXCEPT !.pc = "decoded", !.user = t.user, !.brand = t.brand]
  OBVIOUS
<1>2. q = [pc |-> "decoded", user |-> t.user, brand |-> t.brand, waited |-> 0,
           lapsed |-> FALSE]
  BY <1>1, IdleTyped DEF IdleRequest
<1>3. t.user \in Users /\ t.brand \in Brands /\ t.left \in Nat
  BY DEF IInv, TypeOK, Token
<1>4. q \in Request
  BY <1>2, <1>3 DEF Request
<1>5. ~IsActive(t.brand) => suspended[t.brand] <= GRACE
  <2>1. suspended[t.brand] \in Int
    BY <1>3 DEF IInv, TypeOK, ACTIVE
  <2>2. ~IsActive(t.brand) => t.left + suspended[t.brand] <= GRACE
    BY DEF IInv, GraceBounded
  <2> QED BY <1>3, <2>1, <2>2
<1>6. Grounded(q)
  BY <1>2, <1>3, <1>5 DEF Grounded
<1> QED BY <1>1, <1>4, <1>6, GotoKeepsIInv DEF Decode

LEMMA AdmitKeepsIInv ==
    ASSUME IInv, NEW r \in Requests, Admit(r)
    PROVE  IInv'
<1>1. PICK p \in Request : p = request[r] /\ Grounded(p) /\ p.pc = "decoded"
  BY DEF IInv, TypeOK, RequestsAreGrounded, Admit
<1>2. PICK q : q = [pc |-> "serving", user |-> p.user, brand |-> p.brand, waited |-> 0,
                    lapsed |-> ~IsActive(p.brand)]
  OBVIOUS
<1>3. p.user \in Users /\ p.brand \in Brands
  BY <1>1 DEF Grounded
<1>4. q \in Request /\ q.pc = "serving"
  BY <1>2, <1>3, ConstantsAreNatural DEF Request
<1>5. Grounded(q)
  BY <1>4 DEF Grounded
<1> QED BY <1>1, <1>2, <1>4, <1>5, GotoKeepsIInv DEF Admit

-----------------------------------------------------------------------------

LEMMA InitInv == Init => IInv
<1> SUFFICES ASSUME Init PROVE IInv
  OBVIOUS
<1>1. TypeOK
  <2>1. user \in [Users -> UserRow]
    <3>1. [brand: Brands, is_active: {TRUE}] \subseteq UserRow
      BY DEF UserRow
    <3> QED BY <3>1 DEF Init
  <2>2. ACTIVE \in ACTIVE .. LONG /\ LONG \in ACTIVE .. LONG
    BY ConstantsAreNatural DEF ACTIVE
  <2> QED BY <2>1, <2>2, IdleTyped DEF Init, TypeOK
<1>2. GraceBounded /\ LeaversBounded /\ RequestsAreGrounded
  BY IdleGrounded DEF Init, GraceBounded, LeaversBounded, RequestsAreGrounded
<1> QED BY <1>1, <1>2 DEF IInv

LEMMA NextInv ==
    ASSUME IInv, [Next]_vars
    PROVE  IInv'
<1>1. CASE Tick
  BY <1>1, TickKeepsIInv
<1>2. ASSUME NEW u \in Users, Administer(u) PROVE IInv'
  BY <1>2, AdministerKeepsIInv
<1>3. ASSUME NEW b \in Brands, Suspend(b) \/ Reinstate(b) PROVE IInv'
  BY <1>3, SuspensionKeepsIInv
<1>4. ASSUME NEW r \in Requests, NEW u \in Users, FindUser(r, u) PROVE IInv'
  BY <1>4, FindUserKeepsIInv
<1>5. ASSUME NEW r \in Requests, CheckBrand(r) \/ IssueToken(r) PROVE IInv'
  BY <1>5, CheckBrandKeepsIInv, IssueTokenKeepsIInv
<1>6. ASSUME NEW r \in Requests, Forbid(r) \/ Reject(r) \/ Respond(r) PROVE IInv'
  BY <1>6, IdleTyped, IdleGrounded, GotoKeepsIInv DEF Forbid, Reject, Respond
<1>7. ASSUME NEW r \in Requests, NEW t \in tokens, Decode(r, t) PROVE IInv'
  BY <1>7, DecodeKeepsIInv
<1>8. ASSUME NEW r \in Requests, Admit(r) PROVE IInv'
  BY <1>8, AdmitKeepsIInv
<1>9. CASE UNCHANGED vars
  BY <1>9 DEF vars, IInv, TypeOK, GraceBounded, LeaversBounded, RequestsAreGrounded,
              Grounded, IsActive, IsMember
<1> QED BY <1>1, <1>2, <1>3, <1>4, <1>5, <1>6, <1>7, <1>8, <1>9 DEF Next

LEMMA Invariance == Spec => []IInv
BY InitInv, NextInv, PTL DEF Spec

(* Users, tokens and requests keep their types: no token outlives EXPIRE_TICKS. *)
THEOREM TypeCorrect == Spec => []TypeOK
<1>1. IInv => TypeOK
  BY DEF IInv
<1> QED BY <1>1, Invariance, PTL

(* A suspended brand's tokens run out within EXPIRE_TICKS + MAX_WAIT ticks,
   however logins and operators interleave. *)
THEOREM GraceBoundedHolds == Spec => []GraceBounded
<1>1. IInv => GraceBounded
  BY DEF IInv
<1> QED BY <1>1, Invariance, PTL

(* So do the tokens of a user for a brand they were moved away from, or in which
   they were deactivated, those included that a login under way at that moment
   issues afterwards. *)
THEOREM LeaversBoundedHolds == Spec => []LeaversBounded
<1>1. IInv => LeaversBounded
  BY DEF IInv
<1> QED BY <1>1, Invariance, PTL

(* A request begins to be served by being admitted, and in no other way. *)
LEMMA ServedByAdmission ==
    ASSUME IInv, [Next]_vars, NEW r \in Requests,
           request[r].pc # "serving", request'[r].pc = "serving"
    PROVE  Admit(r)
<1> DEFINE Served == request'[r].pc = "serving"
<1>1. CASE Tick
  <2>1. request'[r].pc = request[r].pc
    BY <1>1 DEF Tick, IInv, TypeOK, Request
  <2> QED BY <2>1
<1>2. CASE request' = request
  BY <1>2
<1>3. ASSUME NEW s \in Requests, NEW q \in Request, Goto(s, q), q.pc # "serving"
      PROVE  ~Served
  BY <1>3 DEF Goto, IInv, TypeOK
<1>4. ASSUME NEW s \in Requests, Admit(s)
      PROVE  s = r
  BY <1>4 DEF Admit, Goto, IInv, TypeOK
<1>5. ASSUME NEW s \in Requests,
             (\E u \in Users : FindUser(s, u)) \/ CheckBrand(s) \/ (\E t \in tokens : Decode(s, t))
      PROVE  ~Served
  <2>1. CASE \E u \in Users : FindUser(s, u)
    <3>1. request'[s].pc = "found" /\ (r # s => request'[r] = request[r])
      BY <2>1, IdleTyped DEF FindUser, Goto, IInv, TypeOK, Request
    <3> QED BY <3>1
  <2>2. CASE CheckBrand(s)
    <3>1. request'[s].pc = "checked" /\ (r # s => request'[r] = request[r])
      BY <2>2 DEF CheckBrand, Goto, IInv, TypeOK, Request
    <3> QED BY <3>1
  <2>3. CASE \E t \in tokens : Decode(s, t)
    <3>1. request'[s].pc = "decoded" /\ (r # s => request'[r] = request[r])
      BY <2>3, IdleTyped DEF Decode, Goto, IInv, TypeOK, Request
    <3> QED BY <3>1
  <2> QED BY <1>5, <2>1, <2>2, <2>3
<1>6. ASSUME NEW s \in Requests, Forbid(s) \/ Reject(s) \/ Respond(s) \/ IssueToken(s)
      PROVE  ~Served
  BY <1>3, <1>6, IdleTyped DEF Forbid, Reject, Respond, IssueToken
<1>7. ASSUME \/ \E u \in Users : Administer(u)
             \/ \E b \in Brands : Suspend(b) \/ Reinstate(b)
      PROVE  request' = request
  BY <1>7 DEF Administer, Suspend, Reinstate
<1> HIDE DEF Served
<1> QED BY <1>1, <1>2, <1>4, <1>5, <1>6, <1>7 DEF Next, vars, Served

(* Nobody is served for a brand that has been suspended for longer than the grace
   time and the wait between a token's expiry check and the membership query,
   whatever tokens, logins and requests were under way when it was suspended. *)
THEOREM LockedOutAfterGraceHolds == Spec => LockedOutAfterGrace
<1> DEFINE InTime(r) ==
      request[r].pc # "serving" /\ request'[r].pc = "serving" =>
          suspended[request'[r].brand] <= GRACE + MAX_WAIT
<1>1. ASSUME IInv, [Next]_vars, NEW r \in Requests,
             request[r].pc # "serving", request'[r].pc = "serving"
      PROVE  InTime(r)
  <2>1. Admit(r)
    BY <1>1, ServedByAdmission
  <2>2. PICK q \in Request : q = request[r] /\ Grounded(q) /\ q.pc = "decoded"
    BY <1>1, <2>1 DEF IInv, TypeOK, RequestsAreGrounded, Admit
  <2>3. q.brand \in Brands /\ q.waited \in Nat /\ q.waited <= MAX_WAIT
    BY <2>2, ConstantsAreNatural DEF Grounded, Request
  <2>4. suspended[q.brand] \in ACTIVE .. LONG
    BY <1>1, <2>3 DEF IInv, TypeOK
  <2>5. suspended[q.brand] <= GRACE + MAX_WAIT
    <3>1. CASE IsActive(q.brand)
      BY <3>1, ConstantsAreNatural DEF IsActive, ACTIVE
    <3>2. CASE ~IsActive(q.brand)
      BY <2>2, <2>3, <2>4, <3>2, ConstantsAreNatural DEF Grounded, ACTIVE
    <3> QED BY <3>1, <3>2
  <2>6. request'[r].brand = q.brand
    BY <1>1, <2>1, <2>2 DEF Admit, Goto, IInv, TypeOK
  <2> QED BY <2>5, <2>6
<1>2. IInv /\ [Next]_vars => [\A r \in Requests : InTime(r)]_vars
  BY <1>1
<1> QED BY <1>2, Invariance, PTL DEF Spec, LockedOutAfterGrace
=============================================================================
