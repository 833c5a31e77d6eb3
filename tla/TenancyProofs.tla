---------------------------- MODULE TenancyProofs ----------------------------
(***************************************************************************)
(* Proofs about Tenancy, for any brands, sessions and pool.  Isolation     *)
(* rests on two facts it does not state: the brand on a connection is its  *)
(* holder's (ContextIsOfHolder, which is inductive), and what a session    *)
(* has pending is of its own brand unless one of its statements strayed.   *)
(***************************************************************************)
EXTENDS Tenancy, TLAPS

PendingIsOwned ==
    \A s \in Sessions : \A ch \in session[s].pending :
        Alien(session[s], ch.row) => session[s].strayed

(* Only an open session holds a connection. *)
HoldersAreOpen ==
    \A s \in Sessions : session[s].connection # NoConnection => session[s].pc = "open"

IInv == TypeOK /\ ContextIsOfHolder /\ HoldersAreOpen /\ PendingIsOwned /\ Isolation

-----------------------------------------------------------------------------

(* What a session must be, wherever a step puts it. *)
SoundSession(q) ==
    /\ q.connection # NoConnection => q.pc = "open"
    /\ \A ch \in q.pending : Alien(q, ch.row) => q.strayed
    /\ \A r \in q.touched : Alien(q, r) => role = "superuser" /\ q.strayed

LEMMA ConstantsTyped ==
    NoBrand \notin Brands /\ NoConnection \notin Connections
BY TenancyAssumption DEF TenancyAssumption

(* A step that puts session s at q and leaves its connection and context alone. *)
LEMMA StepInTransaction ==
    ASSUME IInv, NEW s \in Sessions, NEW q \in Session,
           session' = [session EXCEPT ![s] = q], UNCHANGED <<role, setting>>,
           q.connection = session[s].connection, q.active = session[s].active,
           q.active => q.brand = session[s].brand /\ q.pc = session[s].pc,
           SoundSession(q)
    PROVE  IInv'
<1>1. \A t \in Sessions : session'[t] = IF t = s THEN q ELSE session[t]
  BY DEF IInv, TypeOK
<1>2. TypeOK'
  BY DEF IInv, TypeOK
<1>3. ASSUME NEW t \in Sessions
      PROVE  /\ session'[t].connection = session[t].connection
             /\ session'[t].active = session[t].active
             /\ session[t].active => /\ session'[t].brand = session[t].brand
                                     /\ session'[t].pc = session[t].pc
  BY <1>1
<1>4. ContextIsOfHolder'
  <2>1. \A t \in Sessions : \A c : Holds(t, c)' <=> Holds(t, c)
    BY <1>3 DEF Holds
  <2>2. \A t, u \in Sessions :
           t # u /\ session'[u].connection = session'[t].connection =>
              session'[t].connection = NoConnection
    BY <1>3 DEF IInv, ContextIsOfHolder, Holds
  <2>3. \A t \in Sessions : session'[t].active => InTransaction(t)'
    BY <1>3 DEF IInv, ContextIsOfHolder, InTransaction
  <2>4. \A c \in Connections, b \in Brands :
           setting'[c] = b <=> \E t \in Sessions :
              Holds(t, c)' /\ session'[t].active /\ session'[t].brand = b
    BY <1>3, <2>1 DEF IInv, ContextIsOfHolder
  <2> QED BY <2>2, <2>3, <2>4 DEF ContextIsOfHolder, Holds
<1>5. HoldersAreOpen' /\ PendingIsOwned' /\ Isolation'
  BY <1>1 DEF IInv, HoldersAreOpen, PendingIsOwned, Isolation, SoundSession
<1> QED BY <1>2, <1>4, <1>5 DEF IInv

(* A session of no transaction: Released, and what Open makes. *)
Outside(q) ==
    /\ q \in Session
    /\ q.connection = NoConnection /\ ~q.active
    /\ q.pending = {} /\ q.touched = {}

LEMMA OutsideIsSound == ASSUME NEW q, Outside(q) PROVE SoundSession(q)
BY DEF Outside, SoundSession

LEMMA SessionIsSound ==
    ASSUME IInv, NEW s \in Sessions
    PROVE  session[s] \in Session /\ SoundSession(session[s])
BY DEF IInv, TypeOK, HoldersAreOpen, PendingIsOwned, Isolation, SoundSession

LEMMA ReleasedIsOutside ==
    ASSUME IInv, NEW s \in Sessions, NEW pc \in {"closed", "open"}
    PROVE  Outside(Released(s, pc))
<1>1. PICK q : q = Released(s, pc)
  OBVIOUS
<1>2. session[s] \in Session
  BY SessionIsSound
<1>3. q = [pc |-> pc, brand |-> session[s].brand, connection |-> NoConnection,
           pending |-> {}, touched |-> {}, strayed |-> session[s].strayed /\ pc # "closed",
           active |-> FALSE]
  BY <1>1, <1>2 DEF Released, Session
<1>4. Outside(q)
  BY <1>2, <1>3 DEF Outside, Session
<1> QED BY <1>1, <1>4

LEMMA OpenKeepsIInv ==
    ASSUME IInv, NEW s \in Sessions, NEW b \in Brands, Open(s, b)
    PROVE  IInv'
<1>1. PICK q : q = [pc |-> "waiting", brand |-> b, connection |-> NoConnection,
                    pending |-> {}, touched |-> {}, strayed |-> FALSE, active |-> FALSE]
  OBVIOUS
<1>2. Outside(q)
  BY <1>1 DEF Outside, Session
<1>3. /\ session[s].pc = "closed" /\ session' = [session EXCEPT ![s] = q]
      /\ UNCHANGED <<role, setting>>
  BY <1>1 DEF Open
<1>4. session[s].connection = NoConnection /\ ~session[s].active
  BY <1>3 DEF IInv, HoldersAreOpen, ContextIsOfHolder, InTransaction
<1>5. session[s].active \in BOOLEAN /\ q.active = FALSE
  BY <1>1, SessionIsSound DEF Session
<1> QED BY <1>2, <1>3, <1>4, <1>5, OutsideIsSound, StepInTransaction DEF Outside

(* Want and PoolTimeout move a session that is in no transaction. *)
LEMMA MovedKeepsIInv ==
    ASSUME IInv, NEW s \in Sessions, NEW pc \in {"closed", "waiting"},
           session[s].connection = NoConnection,
           session' = [session EXCEPT ![s].pc = pc], UNCHANGED <<role, setting>>
    PROVE  IInv'
<1>1. PICK q : q = [session[s] EXCEPT !.pc = pc]
  OBVIOUS
<1>2. session[s] \in Session /\ SoundSession(session[s])
  BY SessionIsSound
<1>3. q = [pc |-> pc, brand |-> session[s].brand, connection |-> session[s].connection,
           pending |-> session[s].pending, touched |-> session[s].touched,
           strayed |-> session[s].strayed, active |-> session[s].active]
  BY <1>1, <1>2 DEF Session
<1>4. q \in Session /\ SoundSession(q)
  BY <1>2, <1>3 DEF Session, SoundSession, Alien
<1>5. session' = [session EXCEPT ![s] = q]
  BY <1>1
<1>6. ~session[s].active
  BY DEF IInv, ContextIsOfHolder, InTransaction
<1> QED BY <1>3, <1>4, <1>5, <1>6, StepInTransaction

LEMMA CloseKeepsIInv ==
    ASSUME IInv, NEW s \in Sessions, Close(s)
    PROVE  IInv'
<1>1. PICK q : q = Released(s, "closed")
  OBVIOUS
<1>2. Outside(q)
  BY <1>1, ReleasedIsOutside
<1>3. /\ session' = [session EXCEPT ![s] = q]
      /\ UNCHANGED <<role, setting>>
      /\ session[s].connection = NoConnection
  BY <1>1 DEF Close, InTransaction
<1>4. ~session[s].active
  BY <1>3 DEF IInv, ContextIsOfHolder, InTransaction
<1>5. session[s].active \in BOOLEAN /\ q.active \in BOOLEAN
  BY <1>2, SessionIsSound DEF Outside, Session
<1> QED BY <1>2, <1>3, <1>4, <1>5, OutsideIsSound, StepInTransaction DEF Outside

(* No statement of one session changes what another session is, and a
   connection that changes hands has no brand. *)
LEMMA CheckoutKeepsIInv ==
    ASSUME IInv, NEW s \in Sessions, Checkout(s)
    PROVE  IInv'
<1>1. PICK c \in Connections :
         /\ \A t \in Sessions : ~Holds(t, c)
         /\ session' = [session EXCEPT ![s].pc = "open", ![s].connection = c]
  BY DEF Checkout
<1>2. session[s].pc = "waiting" /\ UNCHANGED <<role, setting>>
  BY DEF Checkout
<1>3. PICK q : q = [session[s] EXCEPT !.pc = "open", !.connection = c]
  OBVIOUS
<1>4. session[s] \in Session /\ SoundSession(session[s])
  BY SessionIsSound
<1>5. q = [pc |-> "open", brand |-> session[s].brand, connection |-> c,
           pending |-> session[s].pending, touched |-> session[s].touched,
           strayed |-> session[s].strayed, active |-> session[s].active]
  BY <1>3, <1>4 DEF Session
<1>6. q \in Session /\ SoundSession(q)
  BY <1>4, <1>5 DEF Session, SoundSession, Alien
<1>7. session' = [session EXCEPT ![s] = q]
  BY <1>1, <1>3, <1>4, <1>5 DEF IInv, TypeOK
<1>8. \A t \in Sessions : session'[t] = IF t = s THEN q ELSE session[t]
  BY <1>7 DEF IInv, TypeOK
<1>9. ~session[s].active /\ ~q.active
  BY <1>2, <1>5 DEF IInv, ContextIsOfHolder, InTransaction
<1>10. TypeOK'
  BY <1>2, <1>6, <1>7 DEF IInv, TypeOK
<1>11. ContextIsOfHolder'
  <2>1. \A t, u \in Sessions :
           t # u /\ session'[u].connection = session'[t].connection =>
              session'[t].connection = NoConnection
    <3>1. \A t \in Sessions : session[t].connection # c
      BY <1>1 DEF Holds
    <3>2. q.connection = c
      BY <1>5
    <3> QED BY <1>8, <3>1, <3>2 DEF IInv, ContextIsOfHolder, Holds
  <2>2. \A t \in Sessions : session'[t].active => InTransaction(t)'
    BY <1>8, <1>9 DEF IInv, ContextIsOfHolder, InTransaction
  <2>3. \A d \in Connections, b \in Brands :
           setting'[d] = b <=> \E t \in Sessions :
              Holds(t, d)' /\ session'[t].active /\ session'[t].brand = b
    BY <1>2, <1>8, <1>9 DEF IInv, ContextIsOfHolder, Holds
  <2> QED BY <2>1, <2>2, <2>3 DEF ContextIsOfHolder, Holds
<1>12. HoldersAreOpen' /\ PendingIsOwned' /\ Isolation'
  BY <1>2, <1>6, <1>8 DEF IInv, HoldersAreOpen, PendingIsOwned, Isolation, SoundSession
<1> QED BY <1>10, <1>11, <1>12 DEF IInv

(* The end of a transaction: Commit and Rollback. *)
LEMMA EndKeepsIInv ==
    ASSUME IInv, NEW s \in Sessions, NEW pc \in {"closed", "open"}, InTransaction(s),
           setting' = AfterTransaction(session[s].connection),
           session' = [session EXCEPT ![s] = Released(s, pc)], UNCHANGED role
    PROVE  IInv'
<1>1. PICK q : q = Released(s, pc)
  OBVIOUS
<1>2. Outside(q) /\ SoundSession(q)
  BY <1>1, ReleasedIsOutside, OutsideIsSound
<1>3. \A t \in Sessions : session'[t] = IF t = s THEN q ELSE session[t]
  BY <1>1 DEF IInv, TypeOK
<1> DEFINE c == session[s].connection
<1>4. c \in Connections
  BY SessionIsSound DEF InTransaction, Session
<1>5. \A d \in Connections : setting'[d] = IF d = c THEN NoBrand ELSE setting[d]
  BY DEF AfterTransaction, IInv, TypeOK
<1>6. TypeOK'
  <2>1. setting' \in [Connections -> Brands \cup {NoBrand}]
    BY DEF AfterTransaction, IInv, TypeOK
  <2>2. session' \in [Sessions -> Session]
    BY <1>1, <1>2 DEF Outside, IInv, TypeOK
  <2> QED BY <2>1, <2>2 DEF IInv, TypeOK
<1> HIDE DEF c
<1>7. ContextIsOfHolder'
  <2>1. \A t, u \in Sessions :
           t # u /\ session'[u].connection = session'[t].connection =>
              session'[t].connection = NoConnection
    BY <1>2, <1>3 DEF Outside, IInv, ContextIsOfHolder, Holds
  <2>2. \A t \in Sessions : session'[t].active => InTransaction(t)'
    BY <1>2, <1>3 DEF Outside, IInv, ContextIsOfHolder, InTransaction
  <2>3. ASSUME NEW d \in Connections, NEW b \in Brands
        PROVE  setting'[d] = b <=> \E t \in Sessions :
                  Holds(t, d)' /\ session'[t].active /\ session'[t].brand = b
    <3>1. CASE d = c
      <4>1. \A t \in Sessions : session'[t].connection # c
        BY <1>2, <1>3, <1>4, ConstantsTyped
           DEF Outside, IInv, ContextIsOfHolder, Holds, c
      <4> QED BY <1>5, <3>1, <4>1, ConstantsTyped DEF Holds
    <3>2. CASE d # c
      <4>1. \A t \in Sessions :
               session'[t].connection = d /\ session'[t].active /\ session'[t].brand = b <=>
               session[t].connection = d /\ session[t].active /\ session[t].brand = b
        BY <1>2, <1>3, <3>2 DEF Outside, c
      <4> QED BY <1>5, <3>2, <4>1 DEF IInv, ContextIsOfHolder, Holds
    <3> QED BY <3>1, <3>2
  <2> QED BY <2>1, <2>2, <2>3 DEF ContextIsOfHolder, Holds
<1>8. HoldersAreOpen' /\ PendingIsOwned' /\ Isolation'
  BY <1>2, <1>3 DEF IInv, HoldersAreOpen, PendingIsOwned, Isolation, SoundSession
<1> QED BY <1>6, <1>7, <1>8 DEF IInv

(* The brand set on the connection of a session is its own: nobody else holds it. *)
LEMMA ContextIsMine ==
    ASSUME IInv, NEW s \in Sessions, InTransaction(s), NEW b \in Brands,
           setting[session[s].connection] = b
    PROVE  b = session[s].brand
<1>1. session[s].connection \in Connections
  BY SessionIsSound DEF InTransaction, Session
<1>2. PICK t \in Sessions : Holds(t, session[s].connection) /\ session[t].brand = b
  BY <1>1 DEF IInv, ContextIsOfHolder
<1>3. t = s
  BY <1>1, <1>2, ConstantsTyped DEF IInv, ContextIsOfHolder, Holds
<1> QED BY <1>2, <1>3

LEMMA ActivateKeepsIInv ==
    ASSUME IInv, NEW s \in Sessions, Activate(s)
    PROVE  IInv'
<1>1. /\ InTransaction(s) /\ UNCHANGED role
      /\ setting' = [setting EXCEPT ![session[s].connection] = session[s].brand]
  BY DEF Activate
<1>2. PICK q : q = [session[s] EXCEPT !.active = TRUE]
  OBVIOUS
<1>3. session[s] \in Session /\ SoundSession(session[s])
  BY SessionIsSound
<1>4. q = [pc |-> session[s].pc, brand |-> session[s].brand,
           connection |-> session[s].connection, pending |-> session[s].pending,
           touched |-> session[s].touched, strayed |-> session[s].strayed, active |-> TRUE]
  BY <1>2, <1>3 DEF Session
<1>5. q \in Session /\ SoundSession(q)
  BY <1>3, <1>4 DEF Session, SoundSession, Alien
<1>6. session' = [session EXCEPT ![s] = q]
  BY <1>2 DEF Activate
<1>7. \A t \in Sessions : session'[t] = IF t = s THEN q ELSE session[t]
  BY <1>6 DEF IInv, TypeOK
<1> DEFINE c == session[s].connection
<1>8. c \in Connections /\ session[s].brand \in Brands
  BY <1>1, <1>3 DEF InTransaction, Session
<1>9. \A d \in Connections : setting'[d] = IF d = c THEN session[s].brand ELSE setting[d]
  BY <1>1 DEF IInv, TypeOK
<1>10. TypeOK'
  BY <1>1, <1>5, <1>6, <1>8 DEF IInv, TypeOK
<1>11. ContextIsOfHolder'
  <2>1. \A t \in Sessions : /\ session'[t].connection = session[t].connection
                            /\ session'[t].brand = session[t].brand
                            /\ session'[t].pc = session[t].pc
    BY <1>4, <1>7
  <2>2. \A t, u \in Sessions :
           t # u /\ session'[u].connection = session'[t].connection =>
              session'[t].connection = NoConnection
    BY <2>1 DEF IInv, ContextIsOfHolder, Holds
  <2>3. \A t \in Sessions : session'[t].active => InTransaction(t)'
    BY <1>1, <1>7, <2>1 DEF IInv, ContextIsOfHolder, InTransaction
  <2>4. ASSUME NEW d \in Connections, NEW b \in Brands
        PROVE  setting'[d] = b <=> \E t \in Sessions :
                  session'[t].connection = d /\ session'[t].active /\ session'[t].brand = b
    <3>1. CASE d = c
      <4>1. \A t \in Sessions : session[t].connection = c => t = s
        BY <1>8, ConstantsTyped DEF IInv, ContextIsOfHolder, Holds
      <4>2. session'[s].active /\ session'[s].connection = c
        BY <1>4, <1>7
      <4> QED BY <1>9, <2>1, <3>1, <4>1, <4>2
    <3>2. CASE d # c
      <4>1. \A t \in Sessions : session[t].connection = d => session'[t] = session[t]
        BY <1>7, <3>2
      <4>2. setting'[d] = setting[d]
        BY <1>9, <3>2
      <4> QED BY <2>1, <4>1, <4>2 DEF IInv, ContextIsOfHolder, Holds
    <3> QED BY <3>1, <3>2
  <2> QED BY <2>2, <2>3, <2>4 DEF ContextIsOfHolder, Holds
<1>12. HoldersAreOpen' /\ PendingIsOwned' /\ Isolation'
  BY <1>1, <1>5, <1>7 DEF IInv, HoldersAreOpen, PendingIsOwned, Isolation, SoundSession
<1> QED BY <1>10, <1>11, <1>12 DEF IInv

(* What a statement, a change put aside or a flush leaves of a session, and what
   Isolation asks of the rest. *)
Restated(s, q) ==
    /\ q.pc = session[s].pc /\ q.brand = session[s].brand
    /\ q.connection = session[s].connection /\ q.active = session[s].active
    /\ \A ch \in q.pending : Alien(session[s], ch.row) => q.strayed
    /\ \A r \in q.touched : Alien(session[s], r) => role = "superuser" /\ q.strayed

LEMMA StatementKeepsIInv ==
    ASSUME IInv, NEW s \in Sessions, InTransaction(s), NEW q \in Session,
           UNCHANGED <<role, setting>>, session' = [session EXCEPT ![s] = q],
           Restated(s, q)
    PROVE  IInv'
<1>1. \A r : Alien(q, r) <=> Alien(session[s], r)
  BY DEF Alien, Restated
<1>2. SoundSession(q)
  BY <1>1 DEF SoundSession, Restated, InTransaction
<1> QED BY <1>2, StepInTransaction DEF Restated

(* Row-level security: without exemption a row of a tenant table that a statement
   may reach is the session's own. *)
LEMMA PermittedIsMine ==
    ASSUME IInv, NEW s \in Sessions, InTransaction(s), NEW r \in Rows, NEW command,
           r.brand \in Permitted(session[s].connection, command, r.table),
           role # "superuser"
    PROVE  ~Alien(session[s], r)
<1>1. CASE r.table \in TenantTables
  <2>1. r.brand \in Brands /\ r.brand = setting[session[s].connection]
    BY <1>1 DEF Permitted, Exempt, Rows
  <2> QED BY <2>1, ContextIsMine DEF Alien
<1> QED BY <1>1 DEF Alien

LEMMA ExecuteKeepsIInv ==
    ASSUME IInv, NEW s \in Sessions, NEW command \in Commands, NEW table \in Tables,
           NEW model, NEW own \in BOOLEAN, Execute(s, command, table, model, own)
    PROVE  IInv'
<1> DEFINE strayed == session[s].strayed \/ (table \in TenantTables /\ ~own)
<1>1. PICK rows \in {{}} \cup {{r} : r \in Reach(s, command, table, model, own)} :
         session' = [session EXCEPT ![s].touched = rows, ![s].strayed = strayed]
  BY DEF Execute
<1>2. /\ InTransaction(s) /\ UNCHANGED <<role, setting>> /\ (own => table = model)
      /\ session[s] \in Session /\ SoundSession(session[s])
  BY SessionIsSound DEF Execute
<1>3. session[s].pending \in SUBSET Change /\ strayed \in BOOLEAN
  BY <1>2 DEF Session
<1>4. ASSUME NEW r \in rows
      PROVE  r \in Rows /\ (Alien(session[s], r) => role = "superuser" /\ strayed)
  <2>1. /\ r.table = table /\ r.brand \in Scope(s, model, own)
        /\ r.brand \in Permitted(session[s].connection, command, r.table)
        /\ r \in [table: {table},
                  brand: Scope(s, model, own) \cap
                         Permitted(session[s].connection, command, table)]
    BY <1>1, <1>4 DEF Reach
  <2>2. r \in Rows
    BY <1>2, <2>1 DEF Rows, Scope, Session
  <2>3. role # "superuser" => ~Alien(session[s], r)
    BY <1>2, <2>1, <2>2, PermittedIsMine
  <2>4. ASSUME Alien(session[s], r) PROVE strayed
    <3>1. table \in TenantTables /\ r.brand # session[s].brand
      BY <2>1, <2>4 DEF Alien
    <3>2. ~own
      BY <1>2, <2>1, <3>1 DEF Scope, HasBrandId
    <3> QED BY <3>1, <3>2
  <2> QED BY <2>2, <2>3, <2>4
<1>5. rows \in SUBSET Rows
  BY <1>4
<1>6. PICK q : q = [session[s] EXCEPT !.touched = rows, !.strayed = strayed]
  OBVIOUS
<1>7. q = [pc |-> session[s].pc, brand |-> session[s].brand,
           connection |-> session[s].connection, pending |-> session[s].pending,
           touched |-> rows, strayed |-> strayed, active |-> session[s].active]
  BY <1>2, <1>6 DEF Session
<1>8. session' = [session EXCEPT ![s] = q]
  BY <1>1, <1>2, <1>6 DEF Session
<1>9. q \in Session
  BY <1>2, <1>3, <1>5, <1>7 DEF Session
<1>10. Restated(s, q)
  BY <1>2, <1>4, <1>7 DEF SoundSession, Restated
<1> QED BY <1>2, <1>8, <1>9, <1>10, StatementKeepsIInv

(* What was read already is read again. *)
LEMMA RefreshKeepsIInv ==
    ASSUME IInv, NEW s \in Sessions, NEW r \in Rows, Refresh(s, r)
    PROVE  IInv'
<1>1. /\ InTransaction(s) /\ UNCHANGED <<role, setting>> /\ r \in session[s].touched
      /\ session[s] \in Session /\ SoundSession(session[s])
  BY SessionIsSound DEF Refresh
<1>2. PICK q : q = [session[s] EXCEPT !.touched = {r}]
  OBVIOUS
<1>3. q = [pc |-> session[s].pc, brand |-> session[s].brand,
           connection |-> session[s].connection, pending |-> session[s].pending,
           touched |-> {r}, strayed |-> session[s].strayed, active |-> session[s].active]
  BY <1>1, <1>2 DEF Session
<1>4. session' = [session EXCEPT ![s] = q]
  BY <1>2 DEF Refresh
<1>5. q \in Session
  BY <1>1, <1>3 DEF Session
<1>6. Restated(s, q)
  BY <1>1, <1>3 DEF SoundSession, Restated
<1> QED BY <1>1, <1>4, <1>5, <1>6, StatementKeepsIInv

LEMMA PutKeepsIInv ==
    ASSUME IInv, NEW s \in Sessions, NEW command \in {"INSERT", "UPDATE", "DELETE"},
           NEW r \in Rows, NEW direct \in BOOLEAN, Put(s, command, r, direct),
           Alien(session[s], r) => session[s].strayed \/ direct
    PROVE  IInv'
<1> DEFINE pending == {[command |-> command, row |-> r]}
           strayed == session[s].strayed \/ direct
<1>1. /\ InTransaction(s) /\ UNCHANGED <<role, setting>>
      /\ session[s] \in Session /\ SoundSession(session[s])
  BY SessionIsSound DEF Put
<1>2. pending \in SUBSET Change /\ strayed \in BOOLEAN
  BY <1>1 DEF Session, Change
<1>3. \A ch \in pending : ch.row = r
  OBVIOUS
<1>4. Alien(session[s], r) => strayed
  OBVIOUS
<1>5. PICK q : q = [session[s] EXCEPT !.pending = pending, !.strayed = strayed]
  OBVIOUS
<1>6. session' = [session EXCEPT ![s] = q]
  BY <1>1, <1>5 DEF Put, Session
<1>7. session[s].strayed => strayed
  OBVIOUS
<1> HIDE DEF pending, strayed
<1>8. q = [pc |-> session[s].pc, brand |-> session[s].brand,
           connection |-> session[s].connection, pending |-> pending,
           touched |-> session[s].touched, strayed |-> strayed, active |-> session[s].active]
  BY <1>1, <1>5 DEF Session
<1>9. q \in Session
  BY <1>1, <1>2, <1>8 DEF Session
<1>10. Restated(s, q)
  BY <1>1, <1>3, <1>4, <1>7, <1>8 DEF SoundSession, Restated
<1> QED BY <1>1, <1>6, <1>9, <1>10, StatementKeepsIInv

(* An object that add or delete let pass is the session's own; one that was read
   and altered was read within the bounds of Isolation. *)
LEMMA PutsKeepIInv ==
    ASSUME IInv, NEW s \in Sessions, NEW r \in Rows,
           \/ Alter(s, r)
           \/ \E command \in {"INSERT", "DELETE"} :
                 Register(s, command, r) \/ RegisterUnderneath(s, command, r)
    PROVE  IInv'
<1>1. CASE Alter(s, r)
  <2>1. Alien(session[s], r) => session[s].strayed
    BY <1>1 DEF Alter, IInv, Isolation
  <2> QED BY <1>1, <2>1, PutKeepsIInv DEF Alter
<1>2. ASSUME NEW command \in {"INSERT", "DELETE"}, Register(s, command, r)
      PROVE  IInv'
  BY <1>2, PutKeepsIInv DEF Register
<1>3. ASSUME NEW command \in {"INSERT", "DELETE"}, RegisterUnderneath(s, command, r)
      PROVE  IInv'
  BY <1>3, PutKeepsIInv DEF RegisterUnderneath
<1> QED BY <1>1, <1>2, <1>3

LEMMA FlushKeepsIInv ==
    ASSUME IInv, NEW s \in Sessions, Flush(s)
    PROVE  IInv'
<1> DEFINE c == session[s].connection
           touched == UNION {Effect(c, ch) : ch \in session[s].pending}
<1>1. /\ InTransaction(s) /\ UNCHANGED <<role, setting>>
      /\ \A ch \in session[s].pending : Accepted(c, ch)
      /\ session[s] \in Session /\ SoundSession(session[s])
  BY SessionIsSound DEF Flush
<1>2. ASSUME NEW r \in touched
      PROVE  /\ r \in Rows
             /\ Alien(session[s], r) => role = "superuser" /\ session[s].strayed
  <2>1. PICK ch \in session[s].pending : r \in Effect(c, ch)
    OBVIOUS
  <2>2. ch \in Change /\ r = ch.row /\ r \in Rows
    BY <1>1, <2>1 DEF Session, Change, Effect
  <2>3. Alien(session[s], r) => session[s].strayed
    BY <1>1, <2>2 DEF SoundSession
  <2>4. ASSUME role # "superuser" PROVE ~Alien(session[s], r)
    <3>1. CASE ch.command \in {"UPDATE", "DELETE"}
      <4>1. r.brand \in Permitted(c, ch.command, r.table)
        BY <1>1, <2>1, <2>2, <3>1 DEF Accepted, Effect
      <4> QED BY <1>1, <2>2, <2>4, <4>1, PermittedIsMine
    <3>2. CASE ch.command = "INSERT" /\ r.table \in TenantTables
      <4>1. r.brand \in Brands /\ r.brand = setting[c]
        BY <1>1, <2>2, <2>4, <3>2 DEF Accepted, MayInsert, Exempt, Rows
      <4> QED BY <1>1, <4>1, ContextIsMine DEF Alien
    <3>3. ch.command \in {"INSERT", "UPDATE", "DELETE"}
      BY <2>2 DEF Change
    <3> QED BY <3>1, <3>2, <3>3 DEF Alien
  <2> QED BY <2>2, <2>3, <2>4
<1>3. touched \in SUBSET Rows
  BY <1>2
<1>4. PICK q : q = [session[s] EXCEPT !.pending = {}, !.touched = touched]
  OBVIOUS
<1>5. session' = [session EXCEPT ![s] = q]
  BY <1>1, <1>4 DEF Flush, Session
<1> HIDE DEF touched
<1>6. q = [pc |-> session[s].pc, brand |-> session[s].brand,
           connection |-> session[s].connection, pending |-> {},
           touched |-> touched, strayed |-> session[s].strayed, active |-> session[s].active]
  BY <1>1, <1>4 DEF Session
<1>7. q \in Session
  BY <1>1, <1>3, <1>6 DEF Session
<1>8. Restated(s, q)
  BY <1>2, <1>6 DEF Restated
<1> QED BY <1>1, <1>5, <1>7, <1>8, StatementKeepsIInv

-----------------------------------------------------------------------------

LEMMA NextKeepsIInv ==
    ASSUME IInv, [Next]_vars
    PROVE  IInv'
<1>1. CASE UNCHANGED vars
  BY <1>1 DEF vars, IInv, TypeOK, ContextIsOfHolder, HoldersAreOpen, PendingIsOwned,
              Isolation, Holds, InTransaction
<1>2. ASSUME NEW s \in Sessions, \E b \in Brands : Open(s, b)
      PROVE  IInv'
  BY <1>2, OpenKeepsIInv
<1>3. ASSUME NEW s \in Sessions, Want(s)
      PROVE  IInv'
  BY <1>3, MovedKeepsIInv DEF Want, InTransaction
<1>4. ASSUME NEW s \in Sessions, PoolTimeout(s)
      PROVE  IInv'
  <2>1. session[s].connection = NoConnection
    BY <1>4 DEF PoolTimeout, IInv, HoldersAreOpen
  <2> QED BY <1>4, <2>1, MovedKeepsIInv DEF PoolTimeout
<1>5. ASSUME NEW s \in Sessions, Checkout(s)
      PROVE  IInv'
  BY <1>5, CheckoutKeepsIInv
<1>6. ASSUME NEW s \in Sessions, NEW pc \in {"closed", "open"}, Commit(s, pc)
      PROVE  IInv'
  BY <1>6, EndKeepsIInv DEF Commit
<1>7. ASSUME NEW s \in Sessions, Rollback(s)
      PROVE  IInv'
  BY <1>7, EndKeepsIInv DEF Rollback
<1>8. ASSUME NEW s \in Sessions, Statement(s)
      PROVE  IInv'
  <2>1. ASSUME NEW table \in Tables, NEW model \in Tables, NEW own \in BOOLEAN,
               \/ Query(s, table, model, own)
               \/ \E command \in Commands : ScopedExecute(s, command, table, model, own)
        PROVE  IInv'
    BY <2>1, ExecuteKeepsIInv DEF Query, ScopedExecute, Commands
  <2>2. ASSUME NEW command \in Commands, NEW table \in Tables, Underneath(s, command, table)
        PROVE  IInv'
    BY <2>2, ExecuteKeepsIInv DEF Underneath
  <2> QED BY <1>8, <2>1, <2>2, ActivateKeepsIInv, FlushKeepsIInv, RefreshKeepsIInv,
             PutsKeepIInv DEF Statement
<1> QED BY <1>1, <1>2, <1>3, <1>4, <1>5, <1>6, <1>7, <1>8, CloseKeepsIInv DEF Next, Finish

LEMMA InitKeepsIInv == Init => IInv
<1> SUFFICES ASSUME Init PROVE IInv
  OBVIOUS
<1>1. \A s \in Sessions :
         session[s] \in
            [pc: {"closed"}, brand: Brands, connection: {NoConnection},
             pending: {{}}, touched: {{}}, strayed: {FALSE}, active: {FALSE}]
  BY DEF Init
<1>2. \A s \in Sessions :
         /\ session[s].pc = "closed" /\ session[s].connection = NoConnection
         /\ session[s].pending = {} /\ session[s].touched = {}
         /\ session[s].active = FALSE /\ session[s] \in Session
  BY <1>1 DEF Session
<1>3. TypeOK
  BY <1>2 DEF Init, TypeOK
<1>4. ContextIsOfHolder
  BY <1>2, ConstantsTyped DEF Init, ContextIsOfHolder, Holds
<1>5. HoldersAreOpen /\ PendingIsOwned /\ Isolation
  BY <1>2 DEF HoldersAreOpen, PendingIsOwned, Isolation
<1> QED BY <1>3, <1>4, <1>5 DEF IInv

-----------------------------------------------------------------------------

(* The inductive invariant of sessions, connections and their contexts. *)
THEOREM Invariance == Spec => []IInv
<1>1. IInv /\ [Next]_vars => IInv'
  BY NextKeepsIInv
<1> QED BY <1>1, InitKeepsIInv, PTL DEF Spec

(* The variables keep their types. *)
THEOREM TypeCorrect == Spec => []TypeOK
<1>1. IInv => TypeOK
  BY DEF IInv
<1> QED BY <1>1, Invariance, PTL

(* tenant.py:92-93: the brand on a pooled connection is that of the session that
   activated it in its present transaction, for a pool of any size. *)
THEOREM ContextIsOfHolderHolds == Spec => []ContextIsOfHolder
<1>1. IInv => ContextIsOfHolder
  BY DEF IInv
<1> QED BY <1>1, Invariance, PTL

(* tenant.py:15-54: whatever is joined, read, refreshed, altered, flushed and
   committed in whatever order, another brand's row of a tenant table takes both an
   exempt role and a statement that named such a table without its model's filter. *)
THEOREM IsolationHolds == Spec => []Isolation
<1>1. IInv => Isolation
  BY DEF IInv
<1> QED BY <1>1, Invariance, PTL
=============================================================================
