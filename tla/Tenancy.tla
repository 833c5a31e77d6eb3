------------------------------ MODULE Tenancy ------------------------------
(***************************************************************************)
(* Tenant isolation: TenantSession (db/tenant.py) over the request's       *)
(* database session and the connection pool (db/session.py), and the       *)
(* row-level security policies of migration 0002.                          *)
(*                                                                         *)
(* The clients of the class are left open: a session that was given a      *)
(* brand may call its methods in any order, and may also use the session   *)
(* underneath directly (a "raw" statement), which is what the second layer *)
(* of isolation exists for.  A row is abstracted to its table and its      *)
(* brand, and a statement, which may name several tables, to one place     *)
(* where it names one and one row that it reaches there: its other rows    *)
(* are other behaviours.  No statement gives an existing row another       *)
(* brand_id.                                                               *)
(***************************************************************************)
EXTENDS Naturals

CONSTANTS
    Brands,
    Sessions,       \* requests with a session at a time
    Connections,    \* what the pool may open: pool_size + max_overflow
    NoBrand,        \* app.current_brand_id is not set
    NoConnection    \* the session holds no connection

ASSUME TenancyAssumption ==
    /\ NoBrand \notin Brands
    /\ NoConnection \notin Connections
    /\ Connections # {}

(* The application's database role: the superuser of docker-compose, exempt
   from row-level security even where it is forced, or the role d2c_app of
   Cloud Run. *)
Roles == {"superuser", "d2c_app"}

(* "products" stands for the six tables that share its two policies.  A brand's row
   in "brands" has no brand_id; those tables that have one are the protected ones. *)
TenantTables == {"users", "products"}
Tables == TenantTables \cup {"brands"}
Rows == [table: Tables, brand: Brands]

(* The model class a statement is scoped by; none when it goes to the session
   underneath. *)
NoModel == "none"
HasBrandId(model) == model \in TenantTables

Commands == {"SELECT", "UPDATE", "DELETE"}

VARIABLES
    role,       \* of every connection of this deployment
    setting,    \* app.current_brand_id in the transaction of each connection
    session     \* the sessions

vars == <<role, setting, session>>

(* An object the unit of work holds until it is flushed. *)
Change == [command: {"INSERT", "UPDATE", "DELETE"}, row: Rows]

Session ==
    [pc: {"closed", "waiting", "open"},     \* waiting: for a connection
     brand: Brands,                 \* of the authenticated user
     connection: Connections \cup {NoConnection},
     pending: SUBSET Change,
     touched: SUBSET Rows,          \* a row that the last statement reached, if any
     strayed: BOOLEAN,              \* history: in some place a statement of it named a
                                    \* tenant table without a filter
     active: BOOLEAN]               \* history: activated in this transaction

TypeOK ==
    /\ role \in Roles
    /\ setting \in [Connections -> Brands \cup {NoBrand}]
    /\ session \in [Sessions -> Session]

-----------------------------------------------------------------------------

Init ==
    /\ role \in Roles
    /\ setting = [c \in Connections |-> NoBrand]
    /\ session \in [Sessions ->
         [pc: {"closed"}, brand: Brands, connection: {NoConnection},
          pending: {{}}, touched: {{}}, strayed: {FALSE}, active: {FALSE}]]

Holds(s, c) == session[s].connection = c
InTransaction(s) == session[s].pc = "open" /\ session[s].connection # NoConnection

-----------------------------------------------------------------------------
(* PostgreSQL. *)

Policy(command, using, check) == [command |-> command, using |-> using, check |-> check]

(* Where a policy has a USING or a WITH CHECK clause, it asks for rows whose
   brand_id is app.current_brand_id. *)
Policies(table) ==
    IF table = "users"
    THEN {Policy("SELECT", TRUE, FALSE), Policy("INSERT", FALSE, TRUE),
          Policy("UPDATE", TRUE, TRUE), Policy("DELETE", TRUE, FALSE)}
    ELSE {Policy("SELECT", TRUE, FALSE), Policy("ALL", FALSE, TRUE)}

Applies(policy, command) == policy.command \in {command, "ALL"}

(* d2c_app may only read brands; any other command on it is refused (Rollback). *)
Granted(command, table) ==
    role = "superuser" \/ table \in TenantTables \/ command = "SELECT"

(* Whom row-level security does not concern: no row of brands is hidden. *)
Exempt(table) == role = "superuser" \/ table \notin TenantTables

(* Faulty variants, one plausible slip each, used by no action: they show that
   the properties below can fail. *)

\* slip: without a brand in the setting the policy lets everything through
PermittedUnset(c, command, table) ==
    IF Exempt(table) \/ setting[c] = NoBrand THEN Brands
    ELSE {b \in Brands :
            /\ b = setting[c]
            /\ \E p \in Policies(table) : Applies(p, command) /\ p.using}

(* The brands whose rows a statement on connection c may see.  A command that no
   policy with a USING clause applies to sees no row: UPDATE and DELETE on every
   table but users. *)
Permitted(c, command, table) ==
    IF Exempt(table) THEN Brands
    ELSE {b \in Brands :
            /\ b = setting[c]
            /\ \E p \in Policies(table) : Applies(p, command) /\ p.using}

MayInsert(c, table, b) ==
    \/ Exempt(table)
    \/ b = setting[c] /\ \E p \in Policies(table) : Applies(p, "INSERT") /\ p.check

\* slip: SET without LOCAL survives its transaction
AfterTransactionSticky(c) == setting

(* SET LOCAL lasts until the transaction ends. *)
AfterTransaction(c) == [setting EXCEPT ![c] = NoBrand]

-----------------------------------------------------------------------------
(* The session: get_db and the pool. *)

Open(s, b) ==
    /\ session[s].pc = "closed"
    /\ session' = [session EXCEPT ![s] =
                     [pc |-> "waiting", brand |-> b, connection |-> NoConnection,
                      pending |-> {}, touched |-> {}, strayed |-> FALSE, active |-> FALSE]]
    /\ UNCHANGED <<role, setting>>

(* The first statement of a transaction takes a connection from the pool and
   waits for one while all are out. *)
Want(s) ==
    /\ session[s].pc = "open" /\ ~InTransaction(s)
    /\ session' = [session EXCEPT ![s].pc = "waiting"]
    /\ UNCHANGED <<role, setting>>

Checkout(s) ==
    /\ session[s].pc = "waiting"
    /\ \E c \in Connections :
          /\ \A t \in Sessions : ~Holds(t, c)
          /\ session' = [session EXCEPT ![s].pc = "open", ![s].connection = c]
    /\ UNCHANGED <<role, setting>>

(* QueuePool gives up after its timeout: the request fails. *)
PoolTimeout(s) ==
    /\ session[s].pc = "waiting"
    /\ session' = [session EXCEPT ![s].pc = "closed"]
    /\ UNCHANGED <<role, setting>>

\* slip: the session of no transaction has no brand either
ReleasedNobody(s, pc) ==
    [session[s] EXCEPT !.pc = pc, !.connection = NoConnection, !.pending = {},
                       !.touched = {}, !.strayed = @ /\ pc # "closed", !.active = FALSE,
                       !.brand = NoBrand]

(* The session's place after its transaction ended and the connection went back. *)
Released(s, pc) ==
    [session[s] EXCEPT !.pc = pc, !.connection = NoConnection, !.pending = {},
                       !.touched = {}, !.strayed = @ /\ pc # "closed", !.active = FALSE]

(* Commit flushes first (Flush); the session may go on with a new transaction,
   or end as get_db ends it. *)
Commit(s, pc) ==
    /\ InTransaction(s)
    /\ session[s].pending = {}
    /\ setting' = AfterTransaction(session[s].connection)
    /\ session' = [session EXCEPT ![s] = Released(s, pc)]
    /\ UNCHANGED role

\* slip: the error path forgets to close the session
RollbackLeaking(s) ==
    /\ InTransaction(s)
    /\ setting' = AfterTransaction(session[s].connection)
    /\ session' = [session EXCEPT ![s].pc = "closed", ![s].pending = {},
                                  ![s].active = FALSE]
    /\ UNCHANGED role

(* Any exception that leaves the handler: a TenantScopeError, a statement that
   the server refuses, an upstream error.  get_db rolls back and closes. *)
Rollback(s) ==
    /\ InTransaction(s)
    /\ setting' = AfterTransaction(session[s].connection)
    /\ session' = [session EXCEPT ![s] = Released(s, "closed")]
    /\ UNCHANGED role

(* Nothing is left to flush and no transaction is open. *)
Close(s) ==
    /\ session[s].pc = "open" /\ ~InTransaction(s)
    /\ session' = [session EXCEPT ![s] = Released(s, "closed")]
    /\ UNCHANGED <<role, setting>>

-----------------------------------------------------------------------------
(* TenantSession. *)

(* SET LOCAL app.current_brand_id.  In this build the statement carries a bind
   parameter, which SET does not take: activate raises, which is Rollback.  Both
   outcomes are checked. *)
Activate(s) ==
    /\ InTransaction(s)
    /\ setting' = [setting EXCEPT ![session[s].connection] = session[s].brand]
    /\ session' = [session EXCEPT ![s].active = TRUE]
    /\ UNCHANGED role

\* slip: the filter is left out
ScopeForgotten(s, model, own) == Brands

(* WHERE brand_id = ... on the model's own table, and on no other that the statement
   joins, nor on the same again under an alias; a model without brand_id passes
   through, and the session underneath adds nothing. *)
Scope(s, model, own) ==
    IF own /\ HasBrandId(model) THEN {session[s].brand} ELSE Brands

(* The rows reached where a statement names a table: own says that this is where the
   statement is about its model. *)
Reach(s, command, table, model, own) ==
    [table: {table},
     brand: Scope(s, model, own) \cap Permitted(session[s].connection, command, table)]

Execute(s, command, table, model, own) ==
    /\ InTransaction(s)
    /\ Granted(command, table)
    /\ own => table = model
    /\ \E rows \in {{}} \cup {{r} : r \in Reach(s, command, table, model, own)} :
          session' = [session EXCEPT
                        ![s].touched = rows,
                        ![s].strayed = @ \/ (table \in TenantTables /\ ~own)]
    /\ UNCHANGED <<role, setting>>

(* all, first, get_by_id. *)
Query(s, table, model, own) == Execute(s, "SELECT", table, model, own)

(* scoped_execute and count, which raise for a model without brand_id. *)
ScopedExecute(s, command, table, model, own) ==
    /\ HasBrandId(model)
    /\ Execute(s, command, table, model, own)

Underneath(s, command, table) == Execute(s, command, table, NoModel, FALSE)

(* An object is read again by its key alone; one that is no longer visible raises
   (Rollback). *)
Refresh(s, r) ==
    /\ InTransaction(s)
    /\ r \in session[s].touched
    /\ r.brand \in Permitted(session[s].connection, "SELECT", r.table)
    /\ session' = [session EXCEPT ![s].touched = {r}]
    /\ UNCHANGED <<role, setting>>

(* add, delete and an altered object reach the database when the session is
   flushed; nobody sees the object before, so one that is put aside outside a
   transaction may as well be put aside when the flush has begun one. *)
Put(s, command, r, direct) ==
    /\ InTransaction(s)
    /\ session[s].pending = {}      \* bound: one object at a time
    /\ session' = [session EXCEPT ![s].pending = {[command |-> command, row |-> r]},
                                  ![s].strayed = @ \/ direct]
    /\ UNCHANGED <<role, setting>>

(* A row of another brand than this session's. *)
Alien(q, r) == r.table \in TenantTables /\ r.brand # q.brand

(* add completes an object without a brand and refuses one of another brand; delete
   refuses one of another brand.  A refusal raises: Rollback. *)
Register(s, command, r) == ~Alien(session[s], r) /\ Put(s, command, r, FALSE)

(* Nothing checks whose an object is that was read and is then altered. *)
Alter(s, r) == r \in session[s].touched /\ Put(s, "UPDATE", r, FALSE)

RegisterUnderneath(s, command, r) == Put(s, command, r, TRUE)

(* An INSERT that no policy allows is an error, and so is an UPDATE that finds its
   row no more (Rollback); a DELETE of a row that no policy shows deletes nothing. *)
Accepted(c, change) ==
    LET t == change.row.table IN
    /\ Granted(change.command, t)
    /\ change.command = "INSERT" => MayInsert(c, t, change.row.brand)
    /\ change.command = "UPDATE" => change.row.brand \in Permitted(c, "UPDATE", t)

Effect(c, change) ==
    {r \in {change.row} :
        change.command = "DELETE" => r.brand \in Permitted(c, "DELETE", r.table)}

Flush(s) ==
    LET c == session[s].connection
        changes == session[s].pending IN
    /\ InTransaction(s)
    /\ changes # {}
    /\ \A ch \in changes : Accepted(c, ch)
    /\ session' = [session EXCEPT ![s].pending = {},
                                  ![s].touched = UNION {Effect(c, ch) : ch \in changes}]
    /\ UNCHANGED <<role, setting>>

-----------------------------------------------------------------------------

Statement(s) ==
    \/ Activate(s) \/ Flush(s)
    \/ \E table, model \in Tables, own \in BOOLEAN :
          \/ Query(s, table, model, own)
          \/ \E command \in Commands : ScopedExecute(s, command, table, model, own)
    \/ \E command \in Commands, table \in Tables : Underneath(s, command, table)
    \/ \E r \in Rows :
          \/ Refresh(s, r) \/ Alter(s, r)
          \/ \E command \in {"INSERT", "DELETE"} :
                Register(s, command, r) \/ RegisterUnderneath(s, command, r)

Finish(s) == Commit(s, "closed") \/ Rollback(s) \/ Close(s)

Next ==
    \E s \in Sessions :
       \/ \E b \in Brands : Open(s, b)
       \/ Want(s) \/ Checkout(s) \/ PoolTimeout(s)
       \/ Commit(s, "open")
       \/ Statement(s)
       \/ Finish(s)

Spec == Init /\ [][Next]_vars

(* The pool queues its waiters, so nobody is passed over for ever; a handler
   ends, because what it awaits ends (EveryFetchEnds of RetryClient). *)
FairSpec ==
    /\ Spec
    /\ \A s \in Sessions : SF_vars(Checkout(s)) /\ WF_vars(Finish(s))

-----------------------------------------------------------------------------

(* tenant.py:15-54: a session reaches, alters or adds rows of another brand in a
   tenant table only if the role is exempt from row-level security and, besides, a
   statement of this session named a tenant table without its model's filter: by
   the session underneath, by a join, an alias or a model without brand_id.  Objects
   that were read before do not carry such a row past either layer: neither the
   unscoped refresh, nor a later flush, nor a commit that drops the context.  The
   rows of brands are open to every statement, as 0002_rls.py:147-150 says. *)
Isolation ==
    \A s \in Sessions : \A r \in session[s].touched :
        Alien(session[s], r) => role = "superuser" /\ session[s].strayed

(* tenant.py:92-93, "pooled connections cannot carry stale context": a
   connection has the brand of the session that holds it and activated it in
   this transaction, and no brand otherwise; no two sessions share one. *)
ContextIsOfHolder ==
    /\ \A s, t \in Sessions :
          s # t /\ Holds(s, session[t].connection) => session[s].connection = NoConnection
    /\ \A s \in Sessions : session[s].active => InTransaction(s)
    /\ \A c \in Connections, b \in Brands :
          setting[c] = b <=> \E s \in Sessions :
                                Holds(s, c) /\ session[s].active /\ session[s].brand = b

(* session.py:63-73: every session gives its connection back whichever way its
   request ends, so no request waits for one for ever: it gets one or gives up. *)
EveryWaitEnds ==
    \A s \in Sessions : (session[s].pc = "waiting") ~> (session[s].pc # "waiting")
=============================================================================
