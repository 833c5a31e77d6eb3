-------------------------------- MODULE Auth ---------------------------------
(***************************************************************************)
(* Who is served: POST /auth/login (auth_logic.py), which issues a JWT for *)
(* an active user of an active brand, and get_current_user                 *)
(* (middleware/auth.py), which admits every protected request.  No code    *)
(* deactivates a user, suspends a brand or moves a user: operators do that *)
(* in the database, at any time, between any two statements of a request.  *)
(* Every statement is awaited: what a request does next may come any number *)
(* of ticks later, up to MAX_WAIT from the first thing it read.            *)
(*                                                                         *)
(* A definition marked "slip" is a faulty variant that no action uses.      *)
(* A refused request leaves no trace and is no action.  A token is what    *)
(* its claims say and the ticks it has left: the JWT is valid up to and    *)
(* including the second of its exp.                                        *)
(***************************************************************************)
EXTENDS Integers

CONSTANTS
    Users, Brands,
    Requests,       \* requests in progress at a time
    EXPIRE_TICKS,   \* JWT_ACCESS_TOKEN_EXPIRE_MINUTES
    MAX_WAIT,       \* bound on the ticks from a request's first read (the user of a
                    \* login, the expiry of a token) to what it does with it
    NoUser, NoBrand

GRACE == EXPIRE_TICKS + MAX_WAIT    \* the longest a token may outlive its grounds
LONG == GRACE + MAX_WAIT + 1        \* cap on the two clocks below

ASSUME AuthAssumption ==
    /\ EXPIRE_TICKS \in Nat /\ MAX_WAIT \in Nat
    /\ NoUser \notin Users /\ NoBrand \notin Brands

VARIABLES
    user,       \* users: the brand_id and is_active of each
    away,       \* history: for how many ticks a user has been no active member
                \* of a brand
    suspended,  \* brands: for how many ticks each has been inactive
    tokens,     \* the JWTs in the hands of clients that have not expired
    request     \* the requests in progress

vars == <<user, away, suspended, tokens, request>>

ACTIVE == -1    \* in place of a number of ticks: the brand, or the member, is active

UserRow == [brand: Brands, is_active: BOOLEAN]
Token == [user: Users, brand: Brands, left: 0 .. EXPIRE_TICKS]
Request ==
    [pc: {"idle", "found", "checked", "decoded", "serving"},
     user: Users \cup {NoUser},
     brand: Brands \cup {NoBrand},  \* as the login read it in the user's row, or
                                    \* as the token says
     waited: 0 .. MAX_WAIT,         \* history: ticks since then
     lapsed: BOOLEAN]               \* history: admitted although its brand was
                                    \* suspended

TypeOK ==
    /\ user \in [Users -> UserRow]
    /\ away \in [Users -> [Brands -> ACTIVE .. LONG]]
    /\ suspended \in [Brands -> ACTIVE .. LONG]
    /\ tokens \subseteq Token
    /\ request \in [Requests -> Request]

IdleRequest == [pc |-> "idle", user |-> NoUser, brand |-> NoBrand,
                waited |-> 0, lapsed |-> FALSE]

IsActive(b) == suspended[b] = ACTIVE

(* The condition of get_current_user's statement. *)
IsMember(u, b) == user[u].is_active /\ user[u].brand = b

Init ==
    /\ user \in [Users -> [brand: Brands, is_active: {TRUE}]]
    /\ away = [u \in Users |-> [b \in Brands |-> IF IsMember(u, b) THEN ACTIVE ELSE LONG]]
    /\ suspended = [b \in Brands |-> ACTIVE]
    /\ tokens = {}
    /\ request = [r \in Requests |-> IdleRequest]

Goto(r, q) == request' = [request EXCEPT ![r] = q]

-----------------------------------------------------------------------------
(* The operators and the clock. *)

Administer(u) ==
    /\ \E row \in UserRow :
          /\ user' = [user EXCEPT ![u] = row]
          /\ away' = [away EXCEPT ![u] =
                 [b \in Brands |-> IF row.is_active /\ row.brand = b THEN ACTIVE
                                   ELSE IF IsMember(u, b) THEN 0 ELSE away[u][b]]]
    /\ UNCHANGED <<suspended, tokens, request>>

Suspend(b) ==
    /\ IsActive(b)
    /\ suspended' = [suspended EXCEPT ![b] = 0]
    /\ UNCHANGED <<user, away, tokens, request>>

Reinstate(b) ==
    /\ ~IsActive(b)
    /\ suspended' = [suspended EXCEPT ![b] = ACTIVE]
    /\ UNCHANGED <<user, away, tokens, request>>

Aged == {[t EXCEPT !.left = @ - 1] : t \in {u \in tokens : u.left > 0}}

Waiting(r) == request[r].pc \in {"found", "checked", "decoded"}

Later(n) == IF n = ACTIVE \/ n = LONG THEN n ELSE n + 1

Tick ==
    /\ \A r \in Requests : Waiting(r) => request[r].waited < MAX_WAIT
    /\ tokens' = Aged
    /\ suspended' = [b \in Brands |-> Later(suspended[b])]
    /\ away' = [u \in Users |-> [b \in Brands |-> Later(away[u][b])]]
    /\ request' = [r \in Requests |-> IF Waiting(r)
                                      THEN [request[r] EXCEPT !.waited = @ + 1]
                                      ELSE request[r]]
    /\ UNCHANGED user

-----------------------------------------------------------------------------
(* POST /auth/login. *)

\* slip: a deactivated user may log in
FindUserInactive(r, u) ==
    /\ request[r].pc = "idle"
    /\ Goto(r, [IdleRequest EXCEPT !.pc = "found", !.user = u, !.brand = user[u].brand])
    /\ UNCHANGED <<user, away, suspended, tokens>>

(* The first statement: an active user with this email.  The brand's domain
   is compared with the one given: a login with the wrong one ends here. *)
FindUser(r, u) ==
    /\ request[r].pc = "idle"
    /\ user[u].is_active
    /\ Goto(r, [IdleRequest EXCEPT !.pc = "found", !.user = u, !.brand = user[u].brand])
    /\ UNCHANGED <<user, away, suspended, tokens>>

\* slip: no check for a suspended brand
CheckBrandSkipped(r) ==
    /\ request[r].pc = "found"
    /\ Goto(r, [request[r] EXCEPT !.pc = "checked"])
    /\ UNCHANGED <<user, away, suspended, tokens>>

(* selectinload's second statement reads the brand. *)
CheckBrand(r) ==
    /\ request[r].pc = "found"
    /\ IsActive(request[r].brand)
    /\ Goto(r, [request[r] EXCEPT !.pc = "checked"])
    /\ UNCHANGED <<user, away, suspended, tokens>>

Forbid(r) ==
    /\ request[r].pc = "found"
    /\ ~IsActive(request[r].brand)
    /\ Goto(r, IdleRequest)
    /\ UNCHANGED <<user, away, suspended, tokens>>

\* slip: exp is a tick too late
IssuedTooLong(q) == {[user |-> q.user, brand |-> q.brand, left |-> EXPIRE_TICKS + 1]}

(* create_access_token, from the row read before the commit. *)
Issued(q) == {[user |-> q.user, brand |-> q.brand, left |-> EXPIRE_TICKS]}

(* last_login_at is committed and the token goes to the client. *)
IssueToken(r) ==
    /\ request[r].pc = "checked"
    /\ tokens' = tokens \cup Issued(request[r])
    /\ Goto(r, IdleRequest)
    /\ UNCHANGED <<user, away, suspended>>

-----------------------------------------------------------------------------
(* Every protected route. *)

(* decode_access_token: the token has not expired at this moment.  The session
   then waits for a connection and for the database. *)
Decode(r, t) ==
    /\ request[r].pc = "idle"
    /\ Goto(r, [IdleRequest EXCEPT !.pc = "decoded", !.user = t.user, !.brand = t.brand])
    /\ UNCHANGED <<user, away, suspended, tokens>>

\* slip: takes the brand from the user's row instead of comparing it with the token's
AdmitByRow(r) ==
    /\ request[r].pc = "decoded"
    /\ user[request[r].user].is_active
    /\ LET b == user[request[r].user].brand IN
       Goto(r, [pc |-> "serving", user |-> request[r].user, brand |-> b,
                waited |-> 0, lapsed |-> ~IsActive(b)])
    /\ UNCHANGED <<user, away, suspended, tokens>>

(* The statement finds the member; brands.is_active is not asked. *)
Admit(r) ==
    /\ request[r].pc = "decoded"
    /\ IsMember(request[r].user, request[r].brand)
    /\ Goto(r, [pc |-> "serving", user |-> request[r].user, brand |-> request[r].brand,
                waited |-> 0, lapsed |-> ~IsActive(request[r].brand)])
    /\ UNCHANGED <<user, away, suspended, tokens>>

(* It finds nobody: 401. *)
Reject(r) ==
    /\ request[r].pc = "decoded"
    /\ ~IsMember(request[r].user, request[r].brand)
    /\ Goto(r, IdleRequest)
    /\ UNCHANGED <<user, away, suspended, tokens>>

(* The handler answers; everything it did was scoped to its brand. *)
Respond(r) ==
    /\ request[r].pc = "serving"
    /\ Goto(r, IdleRequest)
    /\ UNCHANGED <<user, away, suspended, tokens>>

Next ==
    \/ Tick
    \/ \E u \in Users : Administer(u)
    \/ \E b \in Brands : Suspend(b) \/ Reinstate(b)
    \/ \E r \in Requests :
          \/ \E u \in Users : FindUser(r, u)
          \/ CheckBrand(r) \/ Forbid(r) \/ IssueToken(r)
          \/ \E t \in tokens : Decode(r, t)
          \/ Admit(r) \/ Reject(r) \/ Respond(r)

Spec == Init /\ [][Next]_vars

-----------------------------------------------------------------------------

(* A suspension takes effect in the end (auth.py:21-26, and "~60 minutes until
   it expires", :37): a brand suspended for d ticks has no token with more than
   EXPIRE_TICKS - d ticks left, but for the time a login that passed the check
   before the suspension took to issue its token. *)
GraceBounded ==
    \A t \in tokens :
        ~IsActive(t.brand) => t.left + suspended[t.brand] <= GRACE

(* The same for a user who is moved to another brand or deactivated: no token for
   a brand outlives by more than GRACE the moment they left it, although a login
   issues its token from the row it read two awaited statements before
   (auth_logic.py:61-104).  get_current_user compares with the row as it is, so a
   user who is moved back is served again with any token they still hold: after an
   absence of more than GRACE there is none. *)
LeaversBounded ==
    \A t \in tokens :
        ~IsMember(t.user, t.brand) => t.left + away[t.user][t.brand] <= GRACE

(* What a suspension comes to for a request (auth.py:37): once a brand has been
   suspended for more than GRACE + MAX_WAIT ticks nobody is served for it, neither
   with a token of that brand, which the request may have decoded just before it
   expired and then waited for the database (auth.py:83-96), nor, since the
   statement compares the brand, with one that a user who was moved there holds
   for another brand. *)
LockedOutAfterGrace ==
    [][\A r \in Requests :
          request[r].pc # "serving" /\ request'[r].pc = "serving" =>
              suspended[request'[r].brand] <= GRACE + MAX_WAIT]_vars

(* auth.py:21-26: "A JWT can still be valid after: [...] The brand is suspended
   [...] The DB check catches these cases." *)
SuspendedBrandLockedOut == \A r \in Requests : ~request[r].lapsed
=============================================================================
