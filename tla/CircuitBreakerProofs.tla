------------------------ MODULE CircuitBreakerProofs ------------------------
(***************************************************************************)
(* What holds of CircuitBreaker for every set of keys and tasks and every  *)
(* value of the thresholds.  The inductive invariant is IInv: the three    *)
(* invariants together, and the finiteness of each set of probes, without  *)
(* which Cardinality says nothing.                                         *)
(***************************************************************************)
EXTENDS CircuitBreaker, FiniteSetTheorems, TLAPS

ProbesFinite == \A k \in Keys : IsFiniteSet(probes[k])

IInv == TypeOK /\ ProbesFinite /\ ProbeBudget /\ CountMatchesState

-----------------------------------------------------------------------------
(* The operators on one circuit. *)

(* Writing one field of a circuit with a value of its type keeps the type. *)
LEMMA FieldUpdate ==
    ASSUME NEW cb \in CircuitBreakerState,
           NEW s \in {CLOSED, OPEN, HALF_OPEN}, NEW n \in 0 .. COUNT_CAP,
           NEW e \in 0 .. RESET_TIMEOUT_SECONDS,
           NEW h \in 0 .. HALF_OPEN_MAX_CALLS
    PROVE  /\ [cb EXCEPT !.state = s] \in CircuitBreakerState
           /\ [cb EXCEPT !.failure_count = n] \in CircuitBreakerState
           /\ [cb EXCEPT !.elapsed = e] \in CircuitBreakerState
           /\ [cb EXCEPT !.half_open_calls = h] \in CircuitBreakerState
BY DEF CircuitBreakerState

(* The admission test keeps a circuit well typed and either leaves it as it
   was or turns an OPEN circuit whose timeout has run out HALF_OPEN, with no
   test call counted yet. *)
LEMMA AfterTimeoutFacts ==
    ASSUME NEW cb \in CircuitBreakerState
    PROVE  /\ AfterTimeout(cb) \in CircuitBreakerState
           /\ AfterTimeout(cb).failure_count = cb.failure_count
           /\ \/ AfterTimeout(cb) = cb
              \/ /\ cb.state = OPEN
                 /\ cb.elapsed = RESET_TIMEOUT_SECONDS
                 /\ AfterTimeout(cb).state = HALF_OPEN
                 /\ AfterTimeout(cb).half_open_calls = 0
<1>. DEFINE mid == [cb EXCEPT !.state = HALF_OPEN]
            new == [mid EXCEPT !.half_open_calls = 0]
<1>1. CASE cb.state = OPEN /\ cb.elapsed >= RESET_TIMEOUT_SECONDS
  <2>1. cb.elapsed = RESET_TIMEOUT_SECONDS
    BY <1>1, BreakerAssumption DEF CircuitBreakerState
  <2>2. mid \in CircuitBreakerState
    BY FieldUpdate, BreakerAssumption DEF CircuitBreakerState
  <2>3. mid.state = HALF_OPEN /\ mid.failure_count = cb.failure_count
    BY DEF CircuitBreakerState
  <2>4. /\ new \in CircuitBreakerState
        /\ new.state = HALF_OPEN
        /\ new.half_open_calls = 0
        /\ new.failure_count = cb.failure_count
    <3>. HIDE DEF mid
    <3>. QED BY <2>2, <2>3, BreakerAssumption DEF CircuitBreakerState
  <2>5. AfterTimeout(cb) = new
    BY <1>1 DEF AfterTimeout
  <2>. QED BY <1>1, <2>1, <2>4, <2>5
<1>2. CASE ~(cb.state = OPEN /\ cb.elapsed >= RESET_TIMEOUT_SECONDS)
  BY <1>2 DEF AfterTimeout
<1>. QED BY <1>1, <1>2

(* A call that is not refused finds the circuit CLOSED and leaves it so, or
   HALF_OPEN with a test call to spare, which it takes. *)
LEMMA AdmittedFacts ==
    ASSUME NEW cb \in CircuitBreakerState, ~Refuses(AfterTimeout(cb))
    PROVE  /\ CountProbe(AfterTimeout(cb)) \in CircuitBreakerState
           /\ CountProbe(AfterTimeout(cb)).failure_count = cb.failure_count
           /\ \/ cb.state = CLOSED /\ CountProbe(AfterTimeout(cb)) = cb
              \/ /\ cb.state = OPEN
                 /\ cb.elapsed = RESET_TIMEOUT_SECONDS
                 /\ CountProbe(AfterTimeout(cb)).state = HALF_OPEN
                 /\ CountProbe(AfterTimeout(cb)).half_open_calls = 1
              \/ /\ cb.state = HALF_OPEN
                 /\ CountProbe(AfterTimeout(cb)).state = HALF_OPEN
                 /\ CountProbe(AfterTimeout(cb)).half_open_calls
                      = cb.half_open_calls + 1
<1>1. PICK mid : mid = AfterTimeout(cb)
  OBVIOUS
<1>2. PICK new : new = CountProbe(mid)
  OBVIOUS
<1>3. /\ mid \in CircuitBreakerState
      /\ mid.failure_count = cb.failure_count
      /\ \/ mid = cb
         \/ /\ cb.state = OPEN /\ cb.elapsed = RESET_TIMEOUT_SECONDS
            /\ mid.state = HALF_OPEN /\ mid.half_open_calls = 0
  BY <1>1, AfterTimeoutFacts
<1>4. mid.state \in {CLOSED, HALF_OPEN}
  BY <1>1, <1>3 DEF Refuses, CircuitBreakerState
<1>5. CASE mid.state = CLOSED
  BY <1>1, <1>2, <1>3, <1>5 DEF CountProbe, CLOSED, HALF_OPEN
<1>6. CASE mid.state = HALF_OPEN
  <2>1. /\ mid.half_open_calls < HALF_OPEN_MAX_CALLS
        /\ mid.half_open_calls \in Nat
    BY <1>1, <1>3, <1>6, BreakerAssumption DEF Refuses, CircuitBreakerState
  <2>2. new = [mid EXCEPT !.half_open_calls = @ + 1]
    BY <1>2, <1>6 DEF CountProbe
  <2>3. /\ new \in CircuitBreakerState
        /\ new.failure_count = mid.failure_count
        /\ new.state = HALF_OPEN
        /\ new.half_open_calls = mid.half_open_calls + 1
    BY <1>3, <1>6, <2>1, <2>2, BreakerAssumption DEF CircuitBreakerState
  <2>. QED BY <1>1, <1>2, <1>3, <1>6, <2>3
<1>. QED BY <1>4, <1>5, <1>6

(* A refused call leaves the circuit exactly as it was. *)
LEMMA RefusedFacts ==
    ASSUME NEW cb \in CircuitBreakerState, Refuses(AfterTimeout(cb))
    PROVE  AfterTimeout(cb) = cb
<1>1. CASE AfterTimeout(cb) # cb
  BY <1>1, AfterTimeoutFacts, BreakerAssumption DEF Refuses, OPEN, HALF_OPEN
<1>. QED BY <1>1

(* Recording a success closes a circuit that is not OPEN and clears its
   failure_count; an OPEN circuit is left alone. *)
LEMMA SuccessFacts ==
    ASSUME NEW cb \in CircuitBreakerState
    PROVE  /\ RecordSuccess(cb) \in CircuitBreakerState
           /\ \/ cb.state = OPEN /\ RecordSuccess(cb) = cb
              \/ /\ cb.state # OPEN
                 /\ RecordSuccess(cb).state = CLOSED
                 /\ RecordSuccess(cb).failure_count = 0
<1>. DEFINE mid == [cb EXCEPT !.state = CLOSED]
            new == [mid EXCEPT !.failure_count = 0]
<1>1. CASE cb.state = OPEN
  BY <1>1 DEF RecordSuccess, OPEN, HALF_OPEN, CLOSED
<1>2. CASE cb.state # OPEN
  <2>1. mid \in CircuitBreakerState /\ mid.state = CLOSED
    BY DEF CircuitBreakerState
  <2>2. new \in CircuitBreakerState /\ new.state = CLOSED /\ new.failure_count = 0
    <3>. HIDE DEF mid
    <3>. QED BY <2>1, BreakerAssumption DEF CircuitBreakerState
  <2>3. RecordSuccess(cb) = new
    BY <1>2 DEF RecordSuccess, CircuitBreakerState
  <2>. QED BY <1>2, <2>2, <2>3
<1>. QED BY <1>1, <1>2

(* Recording a failure counts it, restarts the timeout, and leaves the circuit
   CLOSED only if it was and the threshold is not reached; otherwise OPEN. *)
LEMMA FailureFacts ==
    ASSUME NEW cb \in CircuitBreakerState
    PROVE  /\ RecordFailure(cb) \in CircuitBreakerState
           /\ RecordFailure(cb).failure_count > 0
           /\ RecordFailure(cb).elapsed = 0
           /\ \/ RecordFailure(cb).state = OPEN
              \/ /\ cb.state = CLOSED
                 /\ RecordFailure(cb).state = CLOSED
                 /\ RecordFailure(cb).failure_count < FAILURE_THRESHOLD
<1>1. PICK n : n = CountFailure(cb.failure_count)
  OBVIOUS
<1>2. n \in 0 .. COUNT_CAP /\ n > 0
  BY <1>1, BreakerAssumption DEF CountFailure, CircuitBreakerState
<1>3. PICK st : st = IF cb.state = HALF_OPEN \/ n >= FAILURE_THRESHOLD
                     THEN OPEN ELSE cb.state
  OBVIOUS
<1>4. /\ st \in {CLOSED, OPEN, HALF_OPEN}
      /\ st = OPEN \/ (cb.state = CLOSED /\ st = CLOSED /\ n < FAILURE_THRESHOLD)
  BY <1>2, <1>3, BreakerAssumption DEF CircuitBreakerState
<1>. DEFINE one == [cb EXCEPT !.failure_count = n]
            two == [one EXCEPT !.elapsed = 0]
            new == [two EXCEPT !.state = st]
<1>5. one \in CircuitBreakerState /\ one.failure_count = n
  BY <1>2 DEF CircuitBreakerState
<1>6. two \in CircuitBreakerState /\ two.failure_count = n /\ two.elapsed = 0
  <2>. HIDE DEF one
  <2>. QED BY <1>5, BreakerAssumption DEF CircuitBreakerState
<1>7. /\ new \in CircuitBreakerState
      /\ new.failure_count = n /\ new.elapsed = 0 /\ new.state = st
  <2>. HIDE DEF two
  <2>. QED BY <1>4, <1>6 DEF CircuitBreakerState
<1>8. RecordFailure(cb) = new
  BY <1>1, <1>3 DEF RecordFailure, CircuitBreakerState
<1>. QED BY <1>2, <1>4, <1>7, <1>8

-----------------------------------------------------------------------------
(* The inductive invariant. *)

LEMMA InitIInv == Init => IInv
<1>. SUFFICES ASSUME Init PROVE IInv
  OBVIOUS
<1>1. TypeOK
  BY BreakerAssumption DEF Init, TypeOK, CircuitBreakerState, CallState
<1>2. ProbesFinite
  BY FS_EmptySet DEF Init, ProbesFinite
<1>3. ProbeBudget
  BY DEF Init, ProbeBudget, CLOSED, HALF_OPEN
<1>4. CountMatchesState
  BY BreakerAssumption DEF Init, CountMatchesState
<1>. QED BY <1>1, <1>2, <1>3, <1>4 DEF IInv

(* A refused call changes nothing but its own program counter, and it was in
   no set of probes. *)
LEMMA RejectIInv ==
    ASSUME IInv, NEW c \in Calls, NEW k \in Keys, Reject(c, k)
    PROVE  IInv'
<1>1. circuit[k] \in CircuitBreakerState
  BY DEF IInv, TypeOK
<1>2. circuit' = circuit /\ probes' = probes
  BY <1>1, RefusedFacts DEF Reject, IInv, TypeOK
<1>3. call' = [call EXCEPT ![c] = [pc |-> "rejected", key |-> k]]
  BY DEF Reject
<1>4. TypeOK'
  BY <1>2, <1>3 DEF IInv, TypeOK, CallState, Outcomes
<1>5. ProbeBudget'
  BY <1>2, <1>3 DEF IInv, TypeOK, ProbeBudget, Reject, Awaiting
<1>. QED BY <1>2, <1>4, <1>5 DEF IInv, ProbesFinite, CountMatchesState

(* An admitted call joins the probes of its key in the step that counts it. *)
LEMMA AdmitIInv ==
    ASSUME IInv, NEW c \in Calls, NEW k \in Keys, Admit(c, k)
    PROVE  IInv'
<1>1. PICK cb \in CircuitBreakerState : cb = circuit[k]
  BY DEF IInv, TypeOK
<1>2. PICK new : new = CountProbe(AfterTimeout(cb))
  OBVIOUS
<1>3. /\ new \in CircuitBreakerState
      /\ new.failure_count = cb.failure_count
      /\ \/ cb.state = CLOSED /\ new = cb
         \/ /\ cb.state = OPEN /\ new.state = HALF_OPEN
            /\ new.half_open_calls = 1
         \/ /\ cb.state = HALF_OPEN /\ new.state = HALF_OPEN
            /\ new.half_open_calls = cb.half_open_calls + 1
  BY <1>1, <1>2, AdmittedFacts DEF Admit
<1>4. /\ circuit' = [circuit EXCEPT ![k] = new]
      /\ call' = [call EXCEPT ![c] = [pc |-> "awaiting", key |-> k]]
      /\ probes' = [probes EXCEPT ![k] =
                      IF new.state = HALF_OPEN THEN @ \cup {c} ELSE @]
      /\ ~Awaiting(c)
  BY <1>1, <1>2 DEF Admit, IInv, TypeOK
<1>5. TypeOK'
  BY <1>3, <1>4 DEF IInv, TypeOK, CallState
<1>6. ProbesFinite'
  BY <1>4, FS_AddElement DEF IInv, TypeOK, ProbesFinite
<1>7. CountMatchesState'
  BY <1>1, <1>3, <1>4 DEF IInv, TypeOK, CountMatchesState, CLOSED, OPEN, HALF_OPEN
<1>8. ProbeBudget'
  <2>. SUFFICES ASSUME NEW j \in Keys
                PROVE  IF circuit'[j].state = HALF_OPEN
                       THEN /\ circuit'[j].half_open_calls \in 1 .. HALF_OPEN_MAX_CALLS
                            /\ Cardinality(probes'[j]) <= circuit'[j].half_open_calls
                            /\ \A d \in probes'[j] : Awaiting(d)' /\ call'[d].key = j
                       ELSE probes'[j] = {}
    BY DEF ProbeBudget
  <2>1. CASE j # k
    <3>1. circuit'[j] = circuit[j] /\ probes'[j] = probes[j]
      BY <1>4, <2>1 DEF IInv, TypeOK
    <3>2. c \notin probes[j]
      BY <1>4 DEF IInv, ProbeBudget
    <3>. QED BY <3>1, <3>2, <1>4 DEF IInv, TypeOK, ProbeBudget, Awaiting
  <2>2. CASE j = k /\ new.state = HALF_OPEN
    <3>1. circuit'[k] = new /\ probes'[k] = probes[k] \cup {c}
      BY <1>4, <2>2 DEF IInv, TypeOK
    <3>2. c \notin probes[k]
      BY <1>4 DEF IInv, ProbeBudget
    <3>3. Cardinality(probes'[k]) = Cardinality(probes[k]) + 1
      BY <3>1, <3>2, FS_AddElement DEF IInv, ProbesFinite
    <3>4. Cardinality(probes[k]) \in Nat
      BY FS_CardinalityType DEF IInv, ProbesFinite
    <3>5. Cardinality(probes[k]) <= new.half_open_calls - 1
      BY <1>1, <1>3, <2>2, FS_EmptySet DEF IInv, ProbeBudget, CircuitBreakerState,
         CLOSED, OPEN, HALF_OPEN
    <3>6. new.half_open_calls \in 1 .. HALF_OPEN_MAX_CALLS
      BY <1>1, <1>3, <2>2, BreakerAssumption DEF CircuitBreakerState, CLOSED, HALF_OPEN
    <3>7. \A d \in probes'[k] : Awaiting(d)' /\ call'[d].key = k
      BY <1>4, <3>1, <3>2, FS_EmptySet DEF IInv, TypeOK, ProbeBudget, Awaiting
    <3>. QED BY <2>2, <3>1, <3>3, <3>4, <3>5, <3>6, <3>7, BreakerAssumption
  <2>3. CASE j = k /\ new.state # HALF_OPEN
    <3>1. circuit'[k] = new /\ probes'[k] = probes[k] /\ cb.state # HALF_OPEN
      BY <1>3, <1>4, <2>3 DEF IInv, TypeOK
    <3>. QED BY <1>1, <2>3, <3>1 DEF IInv, ProbeBudget
  <2>. QED BY <2>1, <2>2, <2>3
<1>. QED BY <1>5, <1>6, <1>7, <1>8 DEF IInv

(* Recording an outcome keeps the invariant when the new circuit is well typed,
   its count matches its state, and it is HALF_OPEN only if nothing changed. *)
LEMMA RecordIInv ==
    ASSUME IInv, NEW c \in Calls, NEW outcome \in Outcomes,
           NEW cb \in CircuitBreakerState, Record(c, outcome, cb),
           cb.state = HALF_OPEN => cb = circuit[call[c].key],
           IF cb.state = CLOSED THEN cb.failure_count < FAILURE_THRESHOLD
                                ELSE cb.failure_count > 0
    PROVE  IInv'
<1>1. PICK k \in Keys : k = call[c].key
  BY DEF IInv, TypeOK, CallState
<1>2. /\ Awaiting(c)
      /\ circuit' = [circuit EXCEPT ![k] = cb]
      /\ call' = [call EXCEPT ![c].pc = outcome]
      /\ probes' = [probes EXCEPT ![k] =
                      IF cb.state = HALF_OPEN THEN @ \ {c} ELSE {}]
  BY <1>1 DEF Record
<1>3. TypeOK'
  BY <1>2 DEF IInv, TypeOK, CallState
<1>4. ProbesFinite'
  BY <1>2, FS_EmptySet, FS_RemoveElement DEF IInv, TypeOK, ProbesFinite
<1>5. CountMatchesState'
  BY <1>2 DEF IInv, TypeOK, CountMatchesState
<1>6. ProbeBudget'
  <2>. SUFFICES ASSUME NEW j \in Keys
                PROVE  IF circuit'[j].state = HALF_OPEN
                       THEN /\ circuit'[j].half_open_calls \in 1 .. HALF_OPEN_MAX_CALLS
                            /\ Cardinality(probes'[j]) <= circuit'[j].half_open_calls
                            /\ \A d \in probes'[j] : Awaiting(d)' /\ call'[d].key = j
                       ELSE probes'[j] = {}
    BY DEF ProbeBudget
  <2>1. CASE j # k
    <3>1. circuit'[j] = circuit[j] /\ probes'[j] = probes[j]
      BY <1>2, <2>1 DEF IInv, TypeOK
    <3>2. c \notin probes[j]
      BY <1>1, <2>1 DEF IInv, ProbeBudget
    <3>. QED BY <3>1, <3>2, <1>2 DEF IInv, TypeOK, ProbeBudget, Awaiting
  <2>2. CASE j = k /\ cb.state = HALF_OPEN
    <3>1. /\ circuit'[k] = cb /\ cb = circuit[k]
          /\ probes'[k] = probes[k] \ {c}
      BY <1>1, <1>2, <2>2 DEF IInv, TypeOK
    <3>2. Cardinality(probes'[k]) <= Cardinality(probes[k])
      <4>1. IsFiniteSet(probes[k])
        BY DEF IInv, ProbesFinite
      <4>2. Cardinality(probes[k]) \in Nat
        BY <4>1, FS_CardinalityType
      <4>3. Cardinality(probes[k] \ {c}) =
              IF c \in probes[k] THEN Cardinality(probes[k]) - 1
                                 ELSE Cardinality(probes[k])
        BY <4>1, FS_RemoveElement
      <4>. QED BY <3>1, <4>2, <4>3
    <3>3. /\ Cardinality(probes[k]) \in Nat
          /\ Cardinality(probes'[k]) \in Nat
      BY <1>4, FS_CardinalityType DEF IInv, ProbesFinite
    <3>4. \A d \in probes'[k] : Awaiting(d)' /\ call'[d].key = k
      BY <1>2, <2>2, <3>1 DEF IInv, TypeOK, ProbeBudget, Awaiting
    <3>5. /\ cb.half_open_calls \in 1 .. HALF_OPEN_MAX_CALLS
          /\ Cardinality(probes[k]) <= cb.half_open_calls
      BY <2>2, <3>1 DEF IInv, ProbeBudget
    <3>. QED BY <2>2, <3>1, <3>2, <3>3, <3>4, <3>5, BreakerAssumption
  <2>3. CASE j = k /\ cb.state # HALF_OPEN
    BY <1>2, <2>3 DEF IInv, TypeOK
  <2>. QED BY <2>1, <2>2, <2>3
<1>. QED BY <1>3, <1>4, <1>5, <1>6 DEF IInv

LEMMA SucceedIInv ==
    ASSUME IInv, NEW c \in Calls, Succeed(c)
    PROVE  IInv'
<1>1. PICK cb \in CircuitBreakerState : cb = circuit[call[c].key]
  BY DEF IInv, TypeOK, CallState
<1>2. cb.state # CLOSED => cb.failure_count > 0
  BY <1>1 DEF IInv, TypeOK, CallState, CountMatchesState
<1>3. Record(c, "ok", RecordSuccess(cb))
  BY <1>1 DEF Succeed
<1>. QED BY <1>1, <1>2, <1>3, SuccessFacts, RecordIInv, BreakerAssumption
         DEF Outcomes, CLOSED, OPEN, HALF_OPEN

LEMMA FailIInv ==
    ASSUME IInv, NEW c \in Calls, Fail(c)
    PROVE  IInv'
<1>1. PICK cb \in CircuitBreakerState : cb = circuit[call[c].key]
  BY DEF IInv, TypeOK, CallState
<1>2. Record(c, "failed", RecordFailure(cb))
  BY <1>1 DEF Fail
<1>. QED BY <1>2, FailureFacts, RecordIInv DEF Outcomes, CLOSED, OPEN, HALF_OPEN

LEMMA CancelIInv ==
    ASSUME IInv, NEW c \in Calls, Cancel(c)
    PROVE  IInv'
<1>1. PICK cb \in CircuitBreakerState : cb = circuit[call[c].key]
  BY DEF IInv, TypeOK, CallState
<1>2. IF cb.state = CLOSED THEN cb.failure_count < FAILURE_THRESHOLD
                           ELSE cb.failure_count > 0
  BY <1>1 DEF IInv, TypeOK, CallState, CountMatchesState
<1>3. Record(c, "cancelled", cb)
  BY <1>1 DEF Cancel
<1>. QED BY <1>1, <1>2, <1>3, RecordIInv DEF Outcomes

LEMMA TickIInv ==
    ASSUME IInv, Tick
    PROVE  IInv'
<1>1. /\ call' = call /\ probes' = probes
      /\ circuit' = [k \in Keys |->
                       [circuit[k] EXCEPT !.elapsed =
                         IF circuit[k].elapsed < RESET_TIMEOUT_SECONDS
                         THEN circuit[k].elapsed + 1 ELSE circuit[k].elapsed]]
  BY DEF Tick
<1>2. \A k \in Keys :
        /\ circuit'[k] \in CircuitBreakerState
        /\ circuit'[k].state = circuit[k].state
        /\ circuit'[k].failure_count = circuit[k].failure_count
        /\ circuit'[k].half_open_calls = circuit[k].half_open_calls
  BY <1>1, BreakerAssumption DEF IInv, TypeOK, CircuitBreakerState
<1>3. TypeOK'
  BY <1>1, <1>2 DEF IInv, TypeOK
<1>. QED BY <1>1, <1>2, <1>3
         DEF IInv, ProbesFinite, ProbeBudget, CountMatchesState, Awaiting

LEMMA NextIInv == IInv /\ [Next]_vars => IInv'
<1>. SUFFICES ASSUME IInv, [Next]_vars PROVE IInv'
  OBVIOUS
<1>1. CASE Tick
  BY <1>1, TickIInv
<1>2. ASSUME NEW c \in Calls, Succeed(c) \/ Fail(c) \/ Cancel(c) PROVE IInv'
  BY <1>2, SucceedIInv, FailIInv, CancelIInv
<1>3. ASSUME NEW c \in Calls, NEW k \in Keys, Reject(c, k) \/ Admit(c, k) PROVE IInv'
  BY <1>3, RejectIInv, AdmitIInv
<1>4. CASE UNCHANGED vars
  BY <1>4 DEF vars, IInv, TypeOK, ProbesFinite, ProbeBudget, CountMatchesState, Awaiting
<1>. QED BY <1>1, <1>2, <1>3, <1>4 DEF Next

LEMMA Invariant == Spec => []IInv
BY InitIInv, NextIInv, PTL DEF Spec

(* Every reachable state of the breaker is well typed. *)
THEOREM TypeCorrect == Spec => []TypeOK
BY Invariant, PTL DEF IInv

(* However calls interleave, fail, are cancelled or straggle in from an earlier
   episode, a HALF_OPEN circuit has at most HALF_OPEN_MAX_CALLS test calls of
   its own in flight, all of them still running and all on its key. *)
THEOREM ProbeBudgetHolds == Spec => []ProbeBudget
BY Invariant, PTL DEF IInv

(* A CLOSED circuit is below FAILURE_THRESHOLD and any other has a failure. *)
THEOREM CountMatchesStateHolds == Spec => []CountMatchesState
BY Invariant, PTL DEF IInv

-----------------------------------------------------------------------------
(* The breaker implements BreakerContract.  phaseOf, quietOf and permitsOf are
   the refinement mapping of Implemented. *)

phaseOf == [k \in Keys |-> circuit[k].state]
quietOf == [k \in Keys |-> IF circuit[k].state = OPEN THEN circuit[k].elapsed ELSE 0]
permitsOf == [k \in Keys |->
                IF circuit[k].state = HALF_OPEN
                THEN HALF_OPEN_MAX_CALLS - circuit[k].half_open_calls ELSE 0]

(* A step that replaces the circuit of one key moves the mapped state of that
   key only. *)
LEMMA MappedStep ==
    ASSUME TypeOK, NEW k \in Keys, NEW cb \in CircuitBreakerState,
           circuit' = [circuit EXCEPT ![k] = cb]
    PROVE  /\ phaseOf' = [phaseOf EXCEPT ![k] = cb.state]
           /\ quietOf' = [quietOf EXCEPT ![k] =
                            IF cb.state = OPEN THEN cb.elapsed ELSE 0]
           /\ permitsOf' = [permitsOf EXCEPT ![k] =
                              IF cb.state = HALF_OPEN
                              THEN HALF_OPEN_MAX_CALLS - cb.half_open_calls ELSE 0]
BY DEF TypeOK, phaseOf, quietOf, permitsOf

(* An outcome trips a circuit, restarts the quiet period of an OPEN one, closes
   a HALF_OPEN one, or leaves the mapped state alone. *)
LEMMA RecordRefines ==
    ASSUME TypeOK, NEW k \in Keys, NEW cb \in CircuitBreakerState,
           circuit' = [circuit EXCEPT ![k] = cb],
           \/ cb = circuit[k]
           \/ cb.state = OPEN /\ cb.elapsed = 0
           \/ cb.state = CLOSED /\ circuit[k].state # OPEN
    PROVE  [Implemented!ContractNext]_(Implemented!contractVars)
<1>1. /\ phaseOf' = [phaseOf EXCEPT ![k] = cb.state]
      /\ quietOf' = [quietOf EXCEPT ![k] =
                       IF cb.state = OPEN THEN cb.elapsed ELSE 0]
      /\ permitsOf' = [permitsOf EXCEPT ![k] =
                         IF cb.state = HALF_OPEN
                         THEN HALF_OPEN_MAX_CALLS - cb.half_open_calls ELSE 0]
  BY MappedStep
<1>2. circuit[k] \in CircuitBreakerState /\ phaseOf[k] = circuit[k].state
  BY DEF TypeOK, phaseOf
<1>3. CASE cb = circuit[k]
  <2>1. circuit' = circuit
    BY <1>3 DEF TypeOK
  <2>. QED BY <2>1 DEF Implemented!contractVars
<1>4. CASE cb.state = OPEN /\ cb.elapsed = 0
  <2>1. Implemented!Goto(k, "open", 0)
    BY <1>1, <1>4 DEF Implemented!Goto, phaseOf, quietOf, permitsOf, OPEN, HALF_OPEN
  <2>2. Implemented!Trip(k) \/ Implemented!Disturb(k)
    BY <1>2, <2>1 DEF Implemented!Trip, Implemented!Disturb, phaseOf
  <2>. QED BY <2>2 DEF Implemented!ContractNext
<1>5. CASE cb.state = CLOSED /\ circuit[k].state = HALF_OPEN
  <2>1. Implemented!Goto(k, "closed", 0)
    BY <1>1, <1>5 DEF Implemented!Goto, phaseOf, quietOf, permitsOf,
       CLOSED, OPEN, HALF_OPEN
  <2>2. Implemented!Close(k)
    BY <1>2, <1>5, <2>1 DEF Implemented!Close, phaseOf, HALF_OPEN
  <2>. QED BY <2>2 DEF Implemented!ContractNext
<1>6. CASE cb.state = CLOSED /\ circuit[k].state = CLOSED
  <2>1. phaseOf' = phaseOf /\ quietOf' = quietOf /\ permitsOf' = permitsOf
    BY <1>1, <1>6 DEF phaseOf, quietOf, permitsOf, CLOSED, OPEN, HALF_OPEN
  <2>. QED BY <2>1 DEF Implemented!contractVars, phaseOf, quietOf, permitsOf
<1>. QED BY <1>2, <1>3, <1>4, <1>5, <1>6 DEF CircuitBreakerState

(* An admission to a CLOSED circuit is invisible; to any other it is a test of
   the upstream. *)
LEMMA AdmitRefines ==
    ASSUME IInv, NEW c \in Calls, NEW k \in Keys, Admit(c, k)
    PROVE  [Implemented!ContractNext]_(Implemented!contractVars)
<1>1. PICK cb \in CircuitBreakerState : cb = circuit[k]
  BY DEF IInv, TypeOK
<1>2. PICK new : new = CountProbe(AfterTimeout(cb))
  OBVIOUS
<1>3. /\ new \in CircuitBreakerState
      /\ \/ cb.state = CLOSED /\ new = cb
         \/ /\ cb.state = OPEN /\ cb.elapsed = RESET_TIMEOUT_SECONDS
            /\ new.state = HALF_OPEN /\ new.half_open_calls = 1
         \/ /\ cb.state = HALF_OPEN /\ new.state = HALF_OPEN
            /\ new.half_open_calls = cb.half_open_calls + 1
  BY <1>1, <1>2, AdmittedFacts DEF Admit
<1>4. circuit' = [circuit EXCEPT ![k] = new]
  BY <1>1, <1>2 DEF Admit, IInv, TypeOK
<1>5. /\ phaseOf' = [phaseOf EXCEPT ![k] = new.state]
      /\ quietOf' = [quietOf EXCEPT ![k] =
                       IF new.state = OPEN THEN new.elapsed ELSE 0]
      /\ permitsOf' = [permitsOf EXCEPT ![k] =
                         IF new.state = HALF_OPEN
                         THEN HALF_OPEN_MAX_CALLS - new.half_open_calls ELSE 0]
  BY <1>3, <1>4, MappedStep DEF IInv
<1>6. CASE cb.state = CLOSED /\ new = cb
  <2>1. circuit' = circuit
    BY <1>1, <1>4, <1>6 DEF IInv, TypeOK
  <2>. QED BY <2>1 DEF Implemented!contractVars
<1>7. CASE /\ cb.state = OPEN /\ cb.elapsed = RESET_TIMEOUT_SECONDS
           /\ new.state = HALF_OPEN /\ new.half_open_calls = 1
  <2>1. Implemented!Goto(k, "half_open", HALF_OPEN_MAX_CALLS - 1)
    BY <1>5, <1>7 DEF Implemented!Goto, phaseOf, quietOf, permitsOf, OPEN, HALF_OPEN
  <2>2. Implemented!Probe(k)
    BY <1>1, <1>7, <2>1 DEF Implemented!Probe, phaseOf, quietOf, OPEN
  <2>. QED BY <2>2 DEF Implemented!ContractNext
<1>8. CASE /\ cb.state = HALF_OPEN /\ new.state = HALF_OPEN
           /\ new.half_open_calls = cb.half_open_calls + 1
  <2>1. /\ HALF_OPEN_MAX_CALLS - cb.half_open_calls > 0
        /\ HALF_OPEN_MAX_CALLS - new.half_open_calls
             = (HALF_OPEN_MAX_CALLS - cb.half_open_calls) - 1
    BY <1>3, <1>8, BreakerAssumption DEF CircuitBreakerState
  <2>2. permitsOf[k] = HALF_OPEN_MAX_CALLS - cb.half_open_calls
    BY <1>1, <1>8 DEF permitsOf
  <2>3. Implemented!Goto(k, "half_open", permitsOf[k] - 1)
    BY <1>5, <1>8, <2>1, <2>2
       DEF Implemented!Goto, phaseOf, quietOf, permitsOf, OPEN, HALF_OPEN
  <2>4. Implemented!ProbeAgain(k)
    BY <1>1, <1>8, <2>1, <2>2, <2>3
       DEF Implemented!ProbeAgain, phaseOf, permitsOf, HALF_OPEN
  <2>. QED BY <2>4 DEF Implemented!ContractNext
<1>. QED BY <1>3, <1>6, <1>7, <1>8

LEMMA TickRefines ==
    ASSUME IInv, Tick
    PROVE  [Implemented!ContractNext]_(Implemented!contractVars)
<1>1. \A k \in Keys :
        /\ circuit'[k].state = circuit[k].state
        /\ circuit'[k].half_open_calls = circuit[k].half_open_calls
        /\ circuit'[k].elapsed = IF circuit[k].elapsed < RESET_TIMEOUT_SECONDS
                                 THEN circuit[k].elapsed + 1
                                 ELSE circuit[k].elapsed
  BY BreakerAssumption DEF Tick, IInv, TypeOK, CircuitBreakerState
<1>2. phaseOf' = phaseOf /\ permitsOf' = permitsOf
  BY <1>1 DEF phaseOf, permitsOf
<1>3. quietOf' = [k \in Keys |->
                    IF phaseOf[k] = "open" /\ quietOf[k] < RESET_TIMEOUT_SECONDS
                    THEN quietOf[k] + 1 ELSE quietOf[k]]
  BY <1>1 DEF phaseOf, quietOf, OPEN
<1>4. Implemented!Wait
  BY <1>2, <1>3 DEF Implemented!Wait, phaseOf, quietOf, permitsOf
<1>. QED BY <1>4 DEF Implemented!ContractNext

LEMMA NextRefines ==
    IInv /\ [Next]_vars => [Implemented!ContractNext]_(Implemented!contractVars)
<1>. SUFFICES ASSUME IInv, [Next]_vars
              PROVE  [Implemented!ContractNext]_(Implemented!contractVars)
  OBVIOUS
<1>1. CASE Tick
  BY <1>1, TickRefines
<1>2. ASSUME NEW c \in Calls, Succeed(c) \/ Fail(c) \/ Cancel(c)
      PROVE  [Implemented!ContractNext]_(Implemented!contractVars)
  <2>1. PICK k \in Keys : k = call[c].key
    BY DEF IInv, TypeOK, CallState
  <2>2. PICK cb \in CircuitBreakerState : cb = circuit[k]
    BY DEF IInv, TypeOK
  <2>3. CASE Succeed(c)
    BY <2>1, <2>2, <2>3, SuccessFacts, RecordRefines DEF Succeed, Record, IInv
  <2>4. CASE Fail(c)
    <3>1. circuit' = [circuit EXCEPT ![k] = RecordFailure(cb)]
      BY <2>1, <2>2, <2>4 DEF Fail, Record
    <3>. QED BY <2>2, <3>1, FailureFacts, RecordRefines DEF IInv, CLOSED, OPEN
  <2>5. CASE Cancel(c)
    BY <2>1, <2>2, <2>5, RecordRefines DEF Cancel, Record, IInv
  <2>. QED BY <1>2, <2>3, <2>4, <2>5
<1>3. ASSUME NEW c \in Calls, NEW k \in Keys, Reject(c, k)
      PROVE  [Implemented!ContractNext]_(Implemented!contractVars)
  <2>1. circuit' = circuit
    BY <1>3, RefusedFacts DEF Reject, IInv, TypeOK
  <2>. QED BY <2>1 DEF Implemented!contractVars
<1>4. ASSUME NEW c \in Calls, NEW k \in Keys, Admit(c, k)
      PROVE  [Implemented!ContractNext]_(Implemented!contractVars)
  BY <1>4, AdmitRefines
<1>5. CASE UNCHANGED vars
  BY <1>5 DEF vars, Implemented!contractVars
<1>. QED BY <1>1, <1>2, <1>3, <1>4, <1>5 DEF Next

(* The breaker keeps its contract: a tripped circuit stays shut to callers
   until the timeout has passed with no further failure, then lets through at
   most HALF_OPEN_MAX_CALLS test calls before it closes or trips again, and no
   step touches the circuits of two keys. *)
THEOREM ContractKept == Spec => KeepsContract
<1>1. Init => Implemented!ContractInit
  BY DEF Init, Implemented!ContractInit, CLOSED, OPEN, HALF_OPEN
<1>. QED BY <1>1, Invariant, NextRefines, PTL
         DEF Spec, KeepsContract, Implemented!Contract
=============================================================================
