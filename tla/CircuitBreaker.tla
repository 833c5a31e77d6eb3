--------------------------- MODULE CircuitBreaker ---------------------------
(***************************************************************************)
(* The circuit breaker of app/integrations/circuit_breaker.py: one        *)
(* CircuitBreakerState per key (provider, scope), shared by the tasks of a *)
(* single process.  call_with_circuit_breaker takes _lock twice, once to   *)
(* admit the call and once to record its outcome; no statement under _lock *)
(* awaits, so each critical section is one atomic action, and the upstream *)
(* request runs between the two with the lock released.                    *)
(*                                                                         *)
(* Time is kept as the ticks elapsed since last_failure_time, because      *)
(* now - last_failure_time compared with RESET_TIMEOUT_SECONDS is all the  *)
(* code reads of it: Tick stops counting at RESET_TIMEOUT_SECONDS.         *)
(***************************************************************************)
EXTENDS Integers, FiniteSets

CONSTANTS
    Keys,                   \* circuit keys, "provider:scope"
    Calls,                  \* tasks that make upstream calls, one call at a time
    Cancellable,            \* the tasks whose caller may cancel them mid-call
    FAILURE_THRESHOLD,
    RESET_TIMEOUT_SECONDS,
    HALF_OPEN_MAX_CALLS,
    COUNT_CAP               \* failure_count stops counting here

ASSUME BreakerAssumption ==
    /\ Cancellable \subseteq Calls
    /\ FAILURE_THRESHOLD \in Nat \ {0}
    /\ RESET_TIMEOUT_SECONDS \in Nat \ {0}
    /\ HALF_OPEN_MAX_CALLS \in Nat \ {0}
    /\ COUNT_CAP \in Nat /\ COUNT_CAP >= FAILURE_THRESHOLD

VARIABLES
    circuit,    \* _circuits: the CircuitBreakerState of every key
    call,       \* where each task is in call_with_circuit_breaker
    probes      \* history: the calls in flight that the present half-open
                \* episode of a key admitted

vars == <<circuit, call, probes>>

CLOSED == "closed"
OPEN == "open"
HALF_OPEN == "half_open"

CircuitBreakerState ==
    [state: {CLOSED, OPEN, HALF_OPEN},
     failure_count: 0 .. COUNT_CAP,
     elapsed: 0 .. RESET_TIMEOUT_SECONDS,
     half_open_calls: 0 .. HALF_OPEN_MAX_CALLS]

Outcomes == {"ok", "failed", "cancelled", "rejected"}

CallState == [pc: Outcomes \cup {"new", "awaiting"}, key: Keys]

TypeOK ==
    /\ circuit \in [Keys -> CircuitBreakerState]
    /\ call \in [Calls -> CallState]
    /\ probes \in [Keys -> SUBSET Calls]

-----------------------------------------------------------------------------
(* Faulty variants of the operators below, one plausible slip each; no action
   uses them.  They show that the properties can fail. *)

\* forgets to give the new episode a fresh half_open_calls
AfterTimeoutNoReset(cb) ==
    IF cb.state = OPEN /\ cb.elapsed >= RESET_TIMEOUT_SECONDS
    THEN [cb EXCEPT !.state = HALF_OPEN]
    ELSE cb

\* starts a new episode whenever the timeout has run out, HALF_OPEN or not
AfterTimeoutAnyState(cb) ==
    IF cb.state # CLOSED /\ cb.elapsed >= RESET_TIMEOUT_SECONDS
    THEN [cb EXCEPT !.state = HALF_OPEN, !.half_open_calls = 0]
    ELSE cb

\* compares with > where the code has >=
RefusesOneLate(cb) ==
    \/ cb.state = OPEN
    \/ cb.state = HALF_OPEN /\ cb.half_open_calls > HALF_OPEN_MAX_CALLS

\* leaves failure_count behind when it closes the circuit
RecordSuccessKeepsCount(cb) ==
    IF cb.state \in {HALF_OPEN, CLOSED} THEN [cb EXCEPT !.state = CLOSED] ELSE cb

\* closes the circuit whatever its state
RecordSuccessAnyState(cb) == [cb EXCEPT !.state = CLOSED, !.failure_count = 0]

\* only knows the CLOSED state
RecordSuccessClosedOnly(cb) ==
    IF cb.state = CLOSED THEN [cb EXCEPT !.failure_count = 0] ELSE cb

-----------------------------------------------------------------------------
(* What each critical section does to the one circuit it looks up. *)

(* The circuit as the admission test sees it: an OPEN circuit whose timeout
   has run out turns HALF_OPEN before anything else is decided. *)
AfterTimeout(cb) ==
    IF cb.state = OPEN /\ cb.elapsed >= RESET_TIMEOUT_SECONDS
    THEN [cb EXCEPT !.state = HALF_OPEN, !.half_open_calls = 0]
    ELSE cb

(* The two raises of CircuitBreakerOpen. *)
Refuses(cb) ==
    \/ cb.state = OPEN
    \/ cb.state = HALF_OPEN /\ cb.half_open_calls >= HALF_OPEN_MAX_CALLS

CountProbe(cb) ==
    IF cb.state = HALF_OPEN THEN [cb EXCEPT !.half_open_calls = @ + 1] ELSE cb

RecordSuccess(cb) ==
    IF cb.state \in {HALF_OPEN, CLOSED}
    THEN [cb EXCEPT !.state = CLOSED, !.failure_count = 0]
    ELSE cb

CountFailure(n) == IF n < COUNT_CAP THEN n + 1 ELSE n

RecordFailure(cb) ==
    LET n == CountFailure(cb.failure_count) IN
    [cb EXCEPT !.failure_count = n,
               !.elapsed = 0,
               !.state = IF @ = HALF_OPEN \/ n >= FAILURE_THRESHOLD
                         THEN OPEN ELSE @]

-----------------------------------------------------------------------------

Init ==
    /\ circuit = [k \in Keys |->
                    [state |-> CLOSED, failure_count |-> 0,
                     elapsed |-> RESET_TIMEOUT_SECONDS, half_open_calls |-> 0]]
    /\ call \in [Calls -> [pc: {"new"}, key: Keys]]
    /\ probes = [k \in Keys |-> {}]

Awaiting(c) == call[c].pc = "awaiting"

(* A task calls call_with_circuit_breaker on key k and is refused. *)
Reject(c, k) ==
    /\ ~Awaiting(c)
    /\ Refuses(AfterTimeout(circuit[k]))
    /\ circuit' = [circuit EXCEPT ![k] = AfterTimeout(@)]
    /\ call' = [call EXCEPT ![c] = [pc |-> "rejected", key |-> k]]
    /\ UNCHANGED probes

(* A task calls call_with_circuit_breaker on key k and goes on to its await. *)
Admit(c, k) ==
    /\ ~Awaiting(c)
    /\ ~Refuses(AfterTimeout(circuit[k]))
    /\ circuit' = [circuit EXCEPT ![k] = CountProbe(AfterTimeout(@))]
    /\ call' = [call EXCEPT ![c] = [pc |-> "awaiting", key |-> k]]
    /\ probes' = [probes EXCEPT ![k] =
                    IF circuit'[k].state = HALF_OPEN THEN @ \cup {c} ELSE @]

(* Both ends of a call that the breaker learns about: the outcome is recorded
   in the circuit, and a circuit that is no longer HALF_OPEN has no probes. *)
Record(c, outcome, cb) ==
    LET k == call[c].key IN
    /\ Awaiting(c)
    /\ circuit' = [circuit EXCEPT ![k] = cb]
    /\ call' = [call EXCEPT ![c].pc = outcome]
    /\ probes' = [probes EXCEPT ![k] =
                    IF cb.state = HALF_OPEN THEN @ \ {c} ELSE {}]

Succeed(c) == Record(c, "ok", RecordSuccess(circuit[call[c].key]))

Fail(c) == Record(c, "failed", RecordFailure(circuit[call[c].key]))

(* CancelledError is a BaseException: `except Exception` lets it through and
   the circuit learns nothing. *)
Cancel(c) == c \in Cancellable /\ Record(c, "cancelled", circuit[call[c].key])

Tick ==
    /\ \E k \in Keys : circuit[k].elapsed < RESET_TIMEOUT_SECONDS
    /\ circuit' = [k \in Keys |->
                    [circuit[k] EXCEPT !.elapsed =
                        IF @ < RESET_TIMEOUT_SECONDS THEN @ + 1 ELSE @]]
    /\ UNCHANGED <<call, probes>>

Next ==
    \/ Tick
    \/ \E c \in Calls : Succeed(c) \/ Fail(c) \/ Cancel(c)
    \/ \E c \in Calls, k \in Keys : Reject(c, k) \/ Admit(c, k)

Spec == Init /\ [][Next]_vars

(* Time passes, the HTTP client's timeout ends every request one way or the
   other, and the brands keep asking for syncs: a key whose calls are time and
   again admissible is called in the end.  That one is strong fairness because
   a task of Calls busy on another key is a limit of the model, not of the
   process.  Nothing obliges a caller to cancel. *)
Fairness ==
    /\ WF_vars(Tick)
    /\ \A c \in Calls : WF_vars(Succeed(c) \/ Fail(c))
    /\ \A k \in Keys : SF_vars(\E c \in Calls : Admit(c, k))

FairSpec == Spec /\ Fairness

-----------------------------------------------------------------------------

(* One test request at a time (circuit_breaker.py:16, :35): while a circuit is
   HALF_OPEN, the calls of this episode in flight are within the calls it
   counted, which are within HALF_OPEN_MAX_CALLS, whatever older calls do. *)
ProbeBudget ==
    \A k \in Keys :
        IF circuit[k].state = HALF_OPEN
        THEN /\ circuit[k].half_open_calls \in 1 .. HALF_OPEN_MAX_CALLS
             /\ Cardinality(probes[k]) <= circuit[k].half_open_calls
             /\ \A c \in probes[k] : Awaiting(c) /\ call[c].key = k
        ELSE probes[k] = {}

(* The threshold means what it says (circuit_breaker.py:33): a CLOSED circuit
   has counted fewer than FAILURE_THRESHOLD failures since its last success,
   and a circuit that is not CLOSED has counted at least one. *)
CountMatchesState ==
    \A k \in Keys :
        IF circuit[k].state = CLOSED
        THEN circuit[k].failure_count < FAILURE_THRESHOLD
        ELSE circuit[k].failure_count > 0

(* What the callers of a circuit may rely on (circuit_breaker.py:13-36): the
   breaker implements BreakerContract.  Among other things no circuit goes
   from OPEN to CLOSED without a test, none is tested before a full quiet
   timeout, no step refills the permits of an episode, and no call changes the
   circuit of another key. *)
Implemented == INSTANCE BreakerContract WITH
    QUIET <- RESET_TIMEOUT_SECONDS,
    PROBES <- HALF_OPEN_MAX_CALLS,
    phase <- [k \in Keys |-> circuit[k].state],
    quiet <- [k \in Keys |-> IF circuit[k].state = OPEN
                              THEN circuit[k].elapsed ELSE 0],
    permits <- [k \in Keys |->
                  IF circuit[k].state = HALF_OPEN
                  THEN HALF_OPEN_MAX_CALLS - circuit[k].half_open_calls ELSE 0]

KeepsContract == Implemented!Contract

(* A test request decides the episode (circuit_breaker.py:16-18): HALF_OPEN
   does not last. *)
HalfOpenAlwaysResolves ==
    \A k \in Keys : circuit[k].state = HALF_OPEN ~> circuit[k].state # HALF_OPEN

NeverCancelled == [](\A c \in Calls : call[c].pc # "cancelled")

(* The same, for as long as no caller cancels a call in flight. *)
HalfOpenResolves == NeverCancelled => HalfOpenAlwaysResolves

(* The upstream recovers (circuit_breaker.py:20): if no call is cancelled and,
   from some moment on, none fails, then every circuit is CLOSED for good from
   some later moment on. *)
Recovers ==
    NeverCancelled /\ <>[][\A c \in Calls : ~Fail(c)]_vars
        => \A k \in Keys : <>[](circuit[k].state = CLOSED)

=============================================================================
