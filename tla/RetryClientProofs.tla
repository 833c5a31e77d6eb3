-------------------------- MODULE RetryClientProofs --------------------------
(***************************************************************************)
(* Proofs about RetryClient, for any callers, limits and Retry-After       *)
(* values.  IInv is inductive; every action but Change replaces the frame  *)
(* of one caller, so each action lemma shows that the new frame is a       *)
(* Request and Fine, and FrameKeepsIInv does the rest.                     *)
(***************************************************************************)
EXTENDS RetryClient, TLAPS

(* One caller's part of the inductive invariant, in a state where the resource
   is at version v: what each property below says of the caller, and
     - the call began no later than now,
     - the answer in hand is no older than the call and no younger than now,
     - the sleep in progress is at least what upstream named, at most a capped
       backoff more,
     - only a final answer is in hand when a fetch returns. *)
Fine(r, v) ==
    /\ r.asked <= v
    /\ r.answer.status = "ok" => r.asked <= r.answer.body /\ r.answer.body <= v
    /\ r.pc = "returned" => r.answer.status = "ok"
    /\ r.named <= r.slept
    /\ r.slept <= r.named + Naps(r) * BACKOFF_CAP
    /\ r.pc = "sleeping" => Named(r) <= r.wait /\ r.wait <= Named(r) + BACKOFF_CAP
    /\ r.pc = "raised" => r.answer.status = "refused" \/ r.attempt = MAX_RETRIES

IInv == TypeOK /\ \A c \in Callers : Fine(request[c], resource)

LEMMA ConstantsAreNaturals ==
    /\ MAX_RETRIES \in Nat /\ BACKOFF_BASE \in Nat
    /\ BACKOFF_CAP \in Nat /\ LONGEST_WAIT \in Nat /\ MAX_CHANGES \in Nat
BY RetryAssumption DEF RetryAssumption, MAX_RETRIES, BACKOFF_BASE, Or

LEMMA CapMultiples ==
    ASSUME NEW n \in Nat
    PROVE  n * BACKOFF_CAP \in Nat /\ (n + 1) * BACKOFF_CAP = n * BACKOFF_CAP + BACKOFF_CAP
BY ConstantsAreNaturals

(* No wait the client chooses exceeds LONGEST_WAIT; a backoff is capped. *)
LEMMA WaitsBounded ==
    ASSUME NEW r \in Request
    PROVE  /\ Backoff(r.attempt) \subseteq 0 .. BACKOFF_CAP
           /\ Backoff(r.attempt) \subseteq 0 .. LONGEST_WAIT
           /\ RateLimitWait(r) \subseteq 0 .. LONGEST_WAIT
<1>1. Backoff(r.attempt) \subseteq 0 .. BACKOFF_CAP
  BY DEF Backoff
<1>2. 0 .. BACKOFF_CAP \subseteq 0 .. LONGEST_WAIT
  BY RetryAssumption DEF RetryAssumption
<1>3. r.answer.retry_after \in 0 .. LONGEST_WAIT
  BY DEF Request, Answer
<1> QED BY <1>1, <1>2, <1>3 DEF RateLimitWait

LEMMA InvImplies == IInv => PatienceBounded /\ RaisesLast
BY DEF IInv, Fine, PatienceBounded, RaisesLast

(* An action that gives caller c the frame r. *)
LEMMA FrameKeepsIInv ==
    ASSUME IInv, NEW c \in Callers, NEW r, r \in Request, Fine(r, resource), Frame(c, r)
    PROVE  IInv'
<1>1. /\ resource' = resource
      /\ request' = [request EXCEPT ![c] = r]
  BY DEF Frame
<1>2. TypeOK'
  BY <1>1 DEF IInv, TypeOK
<1>3. \A d \in Callers : Fine(request'[d], resource)
  BY <1>1 DEF IInv, TypeOK
<1> QED BY <1>1, <1>2, <1>3 DEF IInv

LEMMA ChangeKeepsIInv ==
    ASSUME IInv, Change
    PROVE  IInv'
<1> USE ConstantsAreNaturals
<1>1. TypeOK'
  BY DEF IInv, TypeOK, Change
<1>2. ASSUME NEW c \in Callers
      PROVE  Fine(request[c], resource + 1)
  <2>1. request[c] \in Request /\ resource \in Nat
    BY DEF IInv, TypeOK
  <2>2. request[c].asked \in Nat /\ request[c].answer.body \in Nat
    BY <2>1 DEF Request, Answer
  <2> QED BY <2>1, <2>2 DEF IInv, Fine
<1> QED BY <1>1, <1>2 DEF IInv, Change

-----------------------------------------------------------------------------
(* The frames the actions leave. *)

LEMMA FrameFields ==
    ASSUME NEW r \in Request
    PROVE  /\ r.pc \in {"idle", "sleeping"} \cup InFlight \cup Ended
           /\ r.attempt \in 0 .. MAX_RETRIES /\ r.answer \in Answer
           /\ r.wait \in 0 .. LONGEST_WAIT /\ r.asked \in 0 .. MAX_CHANGES
           /\ r.slept \in Nat /\ r.named \in Nat
           /\ r.answer.status \in Statuses \cup {"none"}
           /\ r.answer.body \in 0 .. MAX_CHANGES
           /\ r.answer.retry_after \in 0 .. LONGEST_WAIT
BY DEF Request, Answer

LEMMA NoAnswerTyped == NoAnswer \in Answer
BY ConstantsAreNaturals DEF NoAnswer, Answer, Statuses

LEMMA IdleTyped == IdleRequest \in Request
BY ConstantsAreNaturals, NoAnswerTyped DEF IdleRequest, Request

LEMMA CallKeepsIInv ==
    ASSUME IInv, NEW c \in Callers, Call(c)
    PROVE  IInv'
<1>0. resource \in 0 .. MAX_CHANGES
  BY DEF IInv, TypeOK
<1>1. PICK idle \in Request : idle = IdleRequest
  BY IdleTyped
<1>2. PICK r : r = [idle EXCEPT !.pc = "sending", !.asked = resource]
  OBVIOUS
<1>3. r = [pc |-> "sending", attempt |-> idle.attempt, answer |-> idle.answer,
           wait |-> idle.wait, asked |-> resource,
           slept |-> idle.slept, named |-> idle.named]
  BY <1>1, <1>2 DEF Request
<1>4. r \in Request
  BY <1>0, <1>1, <1>3, FrameFields DEF Request, InFlight
<1>5. idle.attempt = 0 /\ idle.answer.status = "none" /\ idle.slept = 0 /\ idle.named = 0
  BY <1>1 DEF IdleRequest, NoAnswer
<1>6. Fine(r, resource)
  BY <1>0, <1>3, <1>5, ConstantsAreNaturals DEF Fine, Naps
<1>7. Frame(c, r)
  BY <1>1, <1>2 DEF Call
<1> QED BY <1>4, <1>6, <1>7, FrameKeepsIInv

LEMMA ServeKeepsIInv ==
    ASSUME IInv, NEW c \in Callers, Serve(c)
    PROVE  IInv'
<1> DEFINE r == request[c]
<1>0. /\ r \in Request /\ Fine(r, resource) /\ r.pc = "sending"
      /\ resource \in 0 .. MAX_CHANGES
  BY DEF IInv, TypeOK, Serve
<1>1. PICK status \in Statuses, h \in RetryAfters \cup {0} :
         Frame(c, [r EXCEPT !.pc = "answered",
                            !.answer = [status |-> status,
                                        body |-> IF status = "ok" THEN resource ELSE 0,
                                        retry_after |-> h]])
  BY DEF Serve
<1>2. PICK a : a = [status |-> status, body |-> IF status = "ok" THEN resource ELSE 0,
                    retry_after |-> h]
  OBVIOUS
<1>3. a \in Answer
  BY <1>0, <1>2, ConstantsAreNaturals, RetryAssumption DEF Answer, RetryAssumption
<1>4. /\ a.status \in Statuses
      /\ a.status = "ok" => a.body = resource
  BY <1>2
<1>5. PICK new : new = [r EXCEPT !.pc = "answered", !.answer = a]
  OBVIOUS
<1>6. new = [pc |-> "answered", attempt |-> r.attempt, answer |-> a, wait |-> r.wait,
             asked |-> r.asked, slept |-> r.slept, named |-> r.named]
  BY <1>0, <1>5 DEF Request
<1>7. new \in Request
  BY <1>0, <1>3, <1>6, FrameFields DEF Request, InFlight
<1>8. Fine(new, resource)
  BY <1>0, <1>4, <1>6, FrameFields, ConstantsAreNaturals DEF Fine, Naps
<1>9. Frame(c, new)
  BY <1>1, <1>2, <1>5
<1> QED BY <1>7, <1>8, <1>9, FrameKeepsIInv

(* A sleep after an answer, of a length the client may choose. *)
LEMMA SleepKeepsIInv ==
    ASSUME IInv, NEW c \in Callers, NEW w \in 0 .. LONGEST_WAIT, Sleep(c, w),
           request[c].pc = "answered",
           request[c].answer.status \in {"rate_limited", "retryable"},
           Named(request[c]) <= w, w <= Named(request[c]) + BACKOFF_CAP
    PROVE  IInv'
<1> DEFINE r == request[c]
<1>0. /\ r \in Request /\ Fine(r, resource) /\ resource \in 0 .. MAX_CHANGES
  BY DEF IInv, TypeOK
<1>1. PICK new : new = [r EXCEPT !.pc = "sleeping", !.wait = w]
  OBVIOUS
<1>2. new = [pc |-> "sleeping", attempt |-> r.attempt, answer |-> r.answer, wait |-> w,
             asked |-> r.asked, slept |-> r.slept, named |-> r.named]
  BY <1>0, <1>1 DEF Request
<1>3. new \in Request
  BY <1>0, <1>2, FrameFields DEF Request
<1>4. Fine(new, resource)
  BY <1>0, <1>2 DEF Fine, Naps, Named
<1>5. Frame(c, new)
  BY <1>1 DEF Sleep
<1> QED BY <1>3, <1>4, <1>5, FrameKeepsIInv

LEMMA RateLimitedKeepsIInv ==
    ASSUME IInv, NEW c \in Callers, RateLimited(c)
    PROVE  IInv'
<1>1. PICK w \in RateLimitWait(request[c]) : Sleep(c, w)
  BY DEF RateLimited
<1>2. request[c] \in Request
  BY DEF IInv, TypeOK
<1>3. w \in 0 .. LONGEST_WAIT
  BY <1>1, <1>2, WaitsBounded
<1>4. Named(request[c]) <= w /\ w <= Named(request[c]) + BACKOFF_CAP
  <2>1. Named(request[c]) = request[c].answer.retry_after
    BY DEF RateLimited, Named
  <2>2. \/ request[c].answer.retry_after = 0 /\ w \in 0 .. BACKOFF_CAP
        \/ w = request[c].answer.retry_after
    BY <1>1, <1>2, WaitsBounded DEF RateLimitWait
  <2> QED BY <1>3, <2>1, <2>2, ConstantsAreNaturals
<1> QED BY <1>1, <1>3, <1>4, SleepKeepsIInv DEF RateLimited

LEMMA RetryableErrorKeepsIInv ==
    ASSUME IInv, NEW c \in Callers, RetryableError(c)
    PROVE  IInv'
<1>1. PICK w \in Backoff(request[c].attempt) : Sleep(c, w)
  BY DEF RetryableError
<1>2. w \in 0 .. LONGEST_WAIT /\ w \in 0 .. BACKOFF_CAP
  BY <1>1, WaitsBounded DEF IInv, TypeOK
<1>3. Named(request[c]) = 0
  BY DEF RetryableError, Named
<1>4. Named(request[c]) <= w /\ w <= Named(request[c]) + BACKOFF_CAP
  BY <1>2, <1>3, ConstantsAreNaturals
<1> QED BY <1>1, <1>2, <1>4, SleepKeepsIInv DEF RetryableError

(* The frames that only move the program counter to an end. *)
LEMMA EndKeepsIInv ==
    ASSUME IInv, NEW c \in Callers, NEW end \in Ended,
           Frame(c, [request[c] EXCEPT !.pc = end]),
           request[c].pc # "raised",
           end = "returned" => request[c].answer.status = "ok",
           end = "raised" => \/ request[c].answer.status = "refused"
                             \/ request[c].attempt = MAX_RETRIES
    PROVE  IInv'
<1>0. request[c] \in Request /\ Fine(request[c], resource)
  BY DEF IInv, TypeOK
<1>1. PICK new : new = [request[c] EXCEPT !.pc = end]
  OBVIOUS
<1>2. new \in Request
  BY <1>0, <1>1 DEF Request
<1>3. /\ new.pc = end /\ new.attempt = request[c].attempt
      /\ new.answer = request[c].answer /\ new.asked = request[c].asked
      /\ new.slept = request[c].slept /\ new.named = request[c].named
  BY <1>0, <1>1 DEF Request
<1>4. new.slept <= new.named + Naps(new) * BACKOFF_CAP
  <2>1. /\ new.attempt \in Nat /\ new.slept \in Nat /\ new.named \in Nat
    BY <1>2, FrameFields, ConstantsAreNaturals
  <2>2. request[c].slept <= request[c].named + Naps(request[c]) * BACKOFF_CAP
    BY <1>0 DEF Fine
  <2>3. new.slept <= new.named + new.attempt * BACKOFF_CAP
    BY <1>3, <2>2 DEF Naps
  <2>4. new.slept <= new.named + (new.attempt + 1) * BACKOFF_CAP
    BY <2>1, <2>3, CapMultiples, ConstantsAreNaturals
  <2> QED BY <2>3, <2>4 DEF Naps
<1>5. Fine(new, resource)
  BY <1>0, <1>3, <1>4 DEF Fine, Ended
<1> QED BY <1>1, <1>2, <1>5, FrameKeepsIInv

LEMMA LastAttempt ==
    ASSUME NEW r \in Request, ~HasRetries(r)
    PROVE  r.attempt = MAX_RETRIES
BY FrameFields, ConstantsAreNaturals DEF HasRetries

LEMMA TransportErrorKeepsIInv ==
    ASSUME IInv, NEW c \in Callers, TransportError(c)
    PROVE  IInv'
<1> DEFINE r == request[c]
<1>0. /\ r \in Request /\ Fine(r, resource) /\ resource \in 0 .. MAX_CHANGES
      /\ r.pc \in InFlight
  BY DEF IInv, TypeOK, TransportError
<1>1. CASE HasRetries(r)
  <2>1. PICK w \in Backoff(r.attempt) :
           Frame(c, [r EXCEPT !.pc = "sleeping", !.wait = w,
                              !.answer = NoAnswer])
    BY <1>1 DEF TransportError
  <2>2. w \in 0 .. LONGEST_WAIT /\ w \in 0 .. BACKOFF_CAP
    BY <1>0, <2>1, WaitsBounded
  <2>3. PICK new : new = [r EXCEPT !.pc = "sleeping", !.wait = w,
                                   !.answer = NoAnswer]
    OBVIOUS
  <2>4. new = [pc |-> "sleeping", attempt |-> r.attempt, answer |-> NoAnswer, wait |-> w,
               asked |-> r.asked, slept |-> r.slept, named |-> r.named]
    BY <1>0, <2>3 DEF Request
  <2>5. new \in Request
    BY <1>0, <2>2, <2>4, FrameFields, NoAnswerTyped DEF Request
  <2>6. Fine(new, resource)
    <3>1. /\ new.pc = "sleeping" /\ new.attempt = r.attempt /\ new.wait = w
          /\ new.asked = r.asked /\ new.slept = r.slept /\ new.named = r.named
          /\ new.answer.status = "none"
      BY <2>4 DEF NoAnswer
    <3>2. Named(new) = 0
      BY <3>1 DEF Named
    <3>3. Naps(new) = Naps(r)
      BY <1>0, <3>1 DEF Naps, InFlight
    <3>4. Named(new) <= new.wait /\ new.wait <= Named(new) + BACKOFF_CAP
      BY <2>2, <3>1, <3>2, ConstantsAreNaturals
    <3> QED BY <1>0, <3>1, <3>3, <3>4 DEF Fine
  <2> QED BY <2>1, <2>3, <2>5, <2>6, FrameKeepsIInv
<1>2. CASE ~HasRetries(r)
  BY <1>0, <1>2, LastAttempt, EndKeepsIInv DEF TransportError, Ended, InFlight
<1> QED BY <1>1, <1>2

(* The frame after the sleep, with the seconds of it accounted for. *)
LEMMA RestedFrame ==
    ASSUME NEW r \in Request
    PROVE  Rested(r) = [pc |-> r.pc, attempt |-> r.attempt, answer |-> r.answer,
                        wait |-> 0, asked |-> r.asked,
                        slept |-> r.slept + r.wait, named |-> r.named + Named(r)]
<1>1. PICK s, n : s = r.slept + r.wait /\ n = r.named + Named(r)
  OBVIOUS
<1>2. PICK rested : rested = [r EXCEPT !.slept = s, !.named = n, !.wait = 0]
  OBVIOUS
<1>3. rested = [pc |-> r.pc, attempt |-> r.attempt, answer |-> r.answer, wait |-> 0,
                asked |-> r.asked, slept |-> s, named |-> n]
  BY <1>2 DEF Request
<1> QED BY <1>1, <1>2, <1>3 DEF Rested

LEMMA RestedAccounts ==
    ASSUME NEW r \in Request, NEW v, Fine(r, v), r.pc = "sleeping"
    PROVE  /\ r.slept + r.wait \in Nat /\ r.named + Named(r) \in Nat
           /\ r.named + Named(r) <= r.slept + r.wait
           /\ r.slept + r.wait <= r.named + Named(r) + (r.attempt + 1) * BACKOFF_CAP
<1>1. /\ r.slept \in Nat /\ r.wait \in Nat /\ r.attempt \in Nat /\ r.named \in Nat
      /\ Named(r) \in Nat
  BY FrameFields, ConstantsAreNaturals DEF Named
<1>2. /\ r.attempt * BACKOFF_CAP \in Nat
      /\ (r.attempt + 1) * BACKOFF_CAP = r.attempt * BACKOFF_CAP + BACKOFF_CAP
  BY <1>1, CapMultiples
<1>3. r.named <= r.slept /\ r.slept <= r.named + r.attempt * BACKOFF_CAP
  BY DEF Fine, Naps
<1>4. Named(r) <= r.wait /\ r.wait <= Named(r) + BACKOFF_CAP
  BY DEF Fine
<1>5. BACKOFF_CAP \in Nat
  BY ConstantsAreNaturals
<1>6. PICK m \in Nat : m = r.attempt * BACKOFF_CAP
  BY <1>2
<1> QED BY <1>1, <1>2, <1>3, <1>4, <1>5, <1>6

LEMMA WakeKeepsIInv ==
    ASSUME IInv, NEW c \in Callers, Wake(c)
    PROVE  IInv'
<1> DEFINE r == request[c]
<1>0. /\ r \in Request /\ Fine(r, resource) /\ r.pc = "sleeping"
      /\ resource \in 0 .. MAX_CHANGES
  BY DEF IInv, TypeOK, Wake
<1>1. CASE HasRetries(r)
  <2>1. PICK new : new = [Rested(r) EXCEPT !.pc = "sending", !.attempt = @ + 1,
                                           !.answer = NoAnswer]
    OBVIOUS
  <2>2. new = [pc |-> "sending", attempt |-> r.attempt + 1, answer |-> NoAnswer,
               wait |-> 0, asked |-> r.asked,
               slept |-> r.slept + r.wait, named |-> r.named + Named(r)]
    <3>1. PICK rested : rested = Rested(r)
      OBVIOUS
    <3>2. rested = [pc |-> r.pc, attempt |-> r.attempt, answer |-> r.answer, wait |-> 0,
                    asked |-> r.asked, slept |-> r.slept + r.wait,
                    named |-> r.named + Named(r)]
      BY <1>0, <3>1, RestedFrame
    <3>3. new = [rested EXCEPT !.pc = "sending", !.attempt = rested.attempt + 1,
                               !.answer = NoAnswer]
      BY <2>1, <3>1
    <3> QED BY <3>2, <3>3
  <2>3. r.attempt + 1 \in 0 .. MAX_RETRIES
    BY <1>0, <1>1, FrameFields, ConstantsAreNaturals DEF HasRetries
  <2>4. new \in Request
    BY <1>0, <2>2, <2>3, RestedAccounts, FrameFields, NoAnswerTyped, ConstantsAreNaturals
    DEF Request, InFlight
  <2>5. Naps(new) = r.attempt + 1
    BY <2>2 DEF Naps
  <2>6. Fine(new, resource)
    BY <1>0, <2>2, <2>5, RestedAccounts DEF Fine, NoAnswer
  <2>7. Frame(c, new)
    BY <1>1, <2>1 DEF Wake
  <2> QED BY <2>4, <2>6, <2>7, FrameKeepsIInv
<1>2. CASE ~HasRetries(r)
  <2>1. PICK new : new = [Rested(r) EXCEPT !.pc = "raised"]
    OBVIOUS
  <2>2. new = [pc |-> "raised", attempt |-> r.attempt, answer |-> r.answer,
               wait |-> 0, asked |-> r.asked,
               slept |-> r.slept + r.wait, named |-> r.named + Named(r)]
    BY <1>0, <2>1, RestedFrame
  <2>3. new \in Request
    BY <1>0, <2>2, RestedAccounts, FrameFields, ConstantsAreNaturals
    DEF Request, Ended
  <2>4. Naps(new) = r.attempt + 1 /\ new.attempt = MAX_RETRIES
    BY <1>0, <1>2, <2>2, LastAttempt DEF Naps
  <2>5. Fine(new, resource)
    BY <1>0, <2>2, <2>4, RestedAccounts DEF Fine
  <2>6. Frame(c, new)
    BY <1>2, <2>1 DEF Wake, GiveUp
  <2> QED BY <2>3, <2>5, <2>6, FrameKeepsIInv
<1> QED BY <1>1, <1>2

-----------------------------------------------------------------------------

LEMMA InitInv == Init => IInv
<1> SUFFICES ASSUME Init PROVE IInv
  OBVIOUS
<1>1. PICK idle \in Request : idle = IdleRequest
  BY IdleTyped
<1>2. Fine(idle, 0)
  BY <1>1, ConstantsAreNaturals DEF Fine, IdleRequest, NoAnswer, Naps
<1> QED BY <1>1, <1>2, ConstantsAreNaturals DEF Init, IInv, TypeOK

LEMMA NextInv ==
    ASSUME IInv, [Next]_vars
    PROVE  IInv'
<1>1. CASE Change
  BY <1>1, ChangeKeepsIInv
<1>2. ASSUME NEW c \in Callers, Call(c) \/ Serve(c) \/ Client(c)
      PROVE  IInv'
  <2>1. CASE RaiseForStatus(c)
    BY <2>1, EndKeepsIInv DEF RaiseForStatus, Ended
  <2>2. CASE Return(c)
    BY <2>2, EndKeepsIInv DEF Return, Ended
  <2> QED BY <1>2, <2>1, <2>2, CallKeepsIInv, ServeKeepsIInv, RateLimitedKeepsIInv,
             RetryableErrorKeepsIInv, TransportErrorKeepsIInv, WakeKeepsIInv DEF Client
<1>3. CASE UNCHANGED vars
  BY <1>3 DEF vars, IInv, TypeOK, Fine
<1> QED BY <1>1, <1>2, <1>3 DEF Next

(* The inductive invariant holds in every behaviour of the retry loop. *)
THEOREM Invariance == Spec => []IInv
BY InitInv, NextInv, PTL DEF Spec

(* Every frame of the retry loop keeps its type: in particular the attempts of
   a fetch never exceed MAX_RETRIES + 1 and no wait exceeds LONGEST_WAIT. *)
THEOREM TypeCorrect == Spec => []TypeOK
<1>1. IInv => TypeOK
  BY DEF IInv
<1> QED BY <1>1, Invariance, PTL

(* A fetch sleeps at least what upstream named and, beyond that, at most one
   capped backoff per attempt, the sleep before it gives up included. *)
THEOREM PatienceBoundedHolds == Spec => []PatienceBounded
BY InvImplies, Invariance, PTL

(* A fetch raises only when refused or out of attempts. *)
THEOREM RaisesLastHolds == Spec => []RaisesLast
BY InvImplies, Invariance, PTL

-----------------------------------------------------------------------------
(* The retry loop implements FetchContract. *)

LEMMA FrameShows ==
    ASSUME NEW c \in Callers, NEW r, Frame(c, r), TypeOK
    PROVE  resource' = resource /\ shown' = [shown EXCEPT ![c] = Shown(r)]
<1>1. resource' = resource /\ request' = [request EXCEPT ![c] = r]
  BY DEF Frame
<1>2. shown' = [d \in Callers |-> IF d = c THEN Shown(r) ELSE Shown(request[d])]
  BY <1>1 DEF TypeOK, shown
<1>3. [shown EXCEPT ![c] = Shown(r)]
        = [d \in Callers |-> IF d = c THEN Shown(r) ELSE Shown(request[d])]
  BY DEF shown
<1> QED BY <1>1, <1>2, <1>3

(* An action inside a fetch shows nothing. *)
LEMMA InsideStutters ==
    ASSUME NEW c \in Callers, NEW r, Frame(c, r), TypeOK,
           r.asked = request[c].asked,
           {r.pc, request[c].pc} \subseteq InFlight \cup {"sleeping"}
    PROVE  UNCHANGED <<resource, shown>>
<1>1. Shown(r) = Shown(request[c])
  BY DEF Shown, InFlight, Ended
<1>2. shown[c] = Shown(request[c])
  BY DEF shown
<1>3. [shown EXCEPT ![c] = shown[c]] = shown
  BY DEF shown
<1> QED BY <1>1, <1>2, <1>3, FrameShows

LEMMA CallAsks ==
    ASSUME IInv, NEW c \in Callers, Call(c)
    PROVE  Implemented!Ask(c)
<1>1. PICK idle \in Request : idle = IdleRequest
  BY IdleTyped
<1>2. PICK r : r = [idle EXCEPT !.pc = "sending", !.asked = resource]
  OBVIOUS
<1>3. r.pc = "sending" /\ r.asked = resource
  BY <1>1, <1>2 DEF Request
<1>4. Shown(r) = [phase |-> "asked", floor |-> resource, body |-> 0]
  BY <1>3 DEF Shown, Ended
<1>5. Frame(c, r)
  BY <1>1, <1>2 DEF Call
<1>6. resource' = resource /\ shown' = [shown EXCEPT ![c] = Shown(r)]
  BY <1>5, FrameShows DEF IInv
<1>7. shown[c].phase \in {"idle", "returned", "raised"}
  BY DEF Call, shown, Shown, Ended
<1> QED BY <1>4, <1>6, <1>7 DEF Implemented!Ask, Implemented!Quiet

LEMMA EndShows ==
    ASSUME IInv, NEW c \in Callers, NEW end \in Ended, NEW new, Frame(c, new),
           new.pc = end, new.asked = request[c].asked, new.answer = request[c].answer,
           request[c].pc \in InFlight \cup {"sleeping"},
           end = "returned" => request[c].answer.status = "ok"
    PROVE  Implemented!Return(c) \/ Implemented!Raise(c)
<1>0. request[c] \in Request /\ Fine(request[c], resource)
  BY DEF IInv, TypeOK
<1>2. new.pc = end /\ new.asked = request[c].asked /\ new.answer = request[c].answer
  OBVIOUS
<1>3. resource' = resource /\ shown' = [shown EXCEPT ![c] = Shown(new)]
  BY FrameShows DEF IInv
<1>4. shown[c] = [phase |-> "asked", floor |-> request[c].asked, body |-> 0]
  BY DEF shown, Shown, InFlight, Ended
<1>5. CASE end = "returned"
  <2>1. PICK v : v = request[c].answer.body
    OBVIOUS
  <2>2. v \in request[c].asked .. resource
    BY <1>0, <1>5, <2>1, FrameFields, ConstantsAreNaturals DEF Fine, IInv, TypeOK
  <2>3. Shown(new) = [phase |-> "returned", floor |-> request[c].asked, body |-> v]
    BY <1>2, <1>5, <2>1 DEF Shown, Ended
  <2>4. shown[c].phase = "asked" /\ shown[c].floor = request[c].asked
    BY <1>4
  <2>5. shown' = [shown EXCEPT ![c] = [phase |-> "returned", floor |-> @.floor,
                                       body |-> v]]
    BY <1>3, <2>3, <2>4
  <2>6. \E u \in shown[c].floor .. resource :
           shown' = [shown EXCEPT ![c] = [phase |-> "returned", floor |-> @.floor,
                                          body |-> u]]
    BY <2>2, <2>4, <2>5
  <2> QED BY <1>3, <2>4, <2>6 DEF Implemented!Return
<1>6. CASE end = "raised"
  <2>1. Shown(new) = [shown[c] EXCEPT !.phase = "raised"]
    BY <1>2, <1>4, <1>6 DEF Shown, Ended
  <2> QED BY <1>3, <1>4, <2>1 DEF Implemented!Raise
<1> QED BY <1>5, <1>6 DEF Ended

(* The frames that only move the program counter to an end. *)
LEMMA MoveShows ==
    ASSUME IInv, NEW c \in Callers, NEW end \in Ended,
           Frame(c, [request[c] EXCEPT !.pc = end]),
           request[c].pc \in InFlight \cup {"sleeping"},
           end = "returned" => request[c].answer.status = "ok"
    PROVE  Implemented!Return(c) \/ Implemented!Raise(c)
<1>1. request[c] \in Request
  BY DEF IInv, TypeOK
<1>2. PICK new : new = [request[c] EXCEPT !.pc = end]
  OBVIOUS
<1>3. new.pc = end /\ new.asked = request[c].asked /\ new.answer = request[c].answer
  BY <1>1, <1>2 DEF Request
<1> QED BY <1>2, <1>3, EndShows

LEMMA ServeInside ==
    ASSUME IInv, NEW c \in Callers, Serve(c)
    PROVE  UNCHANGED <<resource, shown>>
<1> DEFINE r == request[c]
<1>0. r \in Request /\ r.pc = "sending"
  BY DEF IInv, TypeOK, Serve
<1>1. PICK a : Frame(c, [r EXCEPT !.pc = "answered", !.answer = a])
  BY DEF Serve
<1>2. PICK new : new = [r EXCEPT !.pc = "answered", !.answer = a]
  OBVIOUS
<1>3. new.pc = "answered" /\ new.asked = r.asked
  BY <1>0, <1>2 DEF Request
<1> QED BY <1>0, <1>1, <1>2, <1>3, InsideStutters DEF IInv, InFlight

LEMMA SleepInside ==
    ASSUME IInv, NEW c \in Callers, NEW w, Sleep(c, w), request[c].pc = "answered"
    PROVE  UNCHANGED <<resource, shown>>
<1>0. request[c] \in Request
  BY DEF IInv, TypeOK
<1>1. PICK new : new = [request[c] EXCEPT !.pc = "sleeping", !.wait = w]
  OBVIOUS
<1>2. new.pc = "sleeping" /\ new.asked = request[c].asked
  BY <1>0, <1>1 DEF Request
<1> QED BY <1>1, <1>2, InsideStutters DEF IInv, InFlight, Sleep

LEMMA TransportErrorShows ==
    ASSUME IInv, NEW c \in Callers, TransportError(c)
    PROVE  UNCHANGED <<resource, shown>> \/ Implemented!Return(c) \/ Implemented!Raise(c)
<1> DEFINE r == request[c]
<1>0. r \in Request /\ r.pc \in InFlight
  BY DEF IInv, TypeOK, TransportError
<1>1. CASE HasRetries(r)
  <2>1. PICK w : Frame(c, [r EXCEPT !.pc = "sleeping", !.wait = w,
                                    !.answer = NoAnswer])
    BY <1>1 DEF TransportError
  <2>2. PICK new : new = [r EXCEPT !.pc = "sleeping", !.wait = w,
                                   !.answer = NoAnswer]
    OBVIOUS
  <2>3. new.pc = "sleeping" /\ new.asked = r.asked
    BY <1>0, <2>2 DEF Request
  <2> QED BY <1>0, <2>1, <2>2, <2>3, InsideStutters DEF IInv
<1>2. CASE ~HasRetries(r)
  BY <1>0, <1>2, MoveShows DEF TransportError, Ended
<1> QED BY <1>1, <1>2

LEMMA WakeShows ==
    ASSUME IInv, NEW c \in Callers, Wake(c)
    PROVE  UNCHANGED <<resource, shown>> \/ Implemented!Return(c) \/ Implemented!Raise(c)
<1> DEFINE r == request[c]
<1>0. r \in Request /\ r.pc = "sleeping"
  BY DEF IInv, TypeOK, Wake
<1>1. CASE HasRetries(r)
  <2>1. PICK new : new = [Rested(r) EXCEPT !.pc = "sending", !.attempt = @ + 1,
                                           !.answer = NoAnswer]
    OBVIOUS
  <2>2. new.pc = "sending" /\ new.asked = r.asked
    BY <1>0, <2>1, RestedFrame
  <2> QED BY <1>0, <1>1, <2>1, <2>2, InsideStutters DEF IInv, Wake, InFlight
<1>2. CASE ~HasRetries(r)
  <2>1. PICK new : new = [Rested(r) EXCEPT !.pc = "raised"]
    OBVIOUS
  <2>2. new.pc = "raised" /\ new.asked = r.asked /\ new.answer = r.answer
    BY <1>0, <2>1, RestedFrame
  <2>3. Frame(c, new)
    BY <1>2, <2>1 DEF Wake, GiveUp
  <2> QED BY <1>0, <2>2, <2>3, EndShows DEF Ended
<1> QED BY <1>1, <1>2

LEMMA NextRefines ==
    ASSUME IInv, [Next]_vars
    PROVE  [Implemented!Step]_<<resource, shown>>
<1>1. CASE Change
  <2>1. resource' > resource
    BY <1>1, ConstantsAreNaturals DEF Change, IInv, TypeOK
  <2>2. shown' = shown
    BY <1>1 DEF Change, shown
  <2> QED BY <2>1, <2>2 DEF Implemented!Step, Implemented!Change
<1>2. ASSUME NEW c \in Callers, Call(c) \/ Serve(c) \/ Client(c)
      PROVE  [Implemented!Step]_<<resource, shown>>
  <2>1. CASE RaiseForStatus(c)
    BY <2>1, MoveShows DEF RaiseForStatus, Ended, InFlight, Implemented!Step
  <2>2. CASE Return(c)
    BY <2>2, MoveShows DEF Return, Ended, InFlight, Implemented!Step
  <2>3. CASE RateLimited(c) \/ RetryableError(c)
    BY <2>3, SleepInside DEF RateLimited, RetryableError
  <2>4. CASE TransportError(c) \/ Wake(c)
    BY <2>4, TransportErrorShows, WakeShows DEF Implemented!Step
  <2>5. CASE Serve(c)
    BY <2>5, ServeInside
  <2>6. CASE Call(c)
    BY <2>6, CallAsks DEF Implemented!Step
  <2> QED BY <1>2, <2>1, <2>2, <2>3, <2>4, <2>5, <2>6 DEF Client
<1>3. CASE UNCHANGED vars
  BY <1>3 DEF vars, shown
<1> QED BY <1>1, <1>2, <1>3 DEF Next

(* Every fetch ends by raising, or by returning one answer of upstream's, given
   while the fetch was in progress: the client implements FetchContract. *)
THEOREM ContractKept == Spec => KeepsContract
<1>1. Init => Implemented!Start
  BY DEF Init, Implemented!Start, IdleRequest, shown, Shown
<1> QED BY <1>1, Invariance, NextRefines, PTL
        DEF Spec, KeepsContract, Implemented!Contract

-----------------------------------------------------------------------------
(* Why a fetch ends: the steps that its client may still take. *)

InProgress(r) == r.pc \in InFlight \cup {"sleeping"}

Left(r) ==
    IF InProgress(r)
    THEN 2 * (MAX_RETRIES - r.attempt) + (IF r.pc = "sleeping" THEN 1 ELSE 2)
    ELSE 0

(* Whatever upstream answers or loses and however long it asks to wait, no step
   gives a fetch in progress more to do, and each step of its client leaves it less:
   a fetch takes at most 2 * (MAX_RETRIES + 1) of them (base_client.py:119-163).
   Under the fairness of FairSpec that is why EveryFetchEnds holds. *)
FetchesAdvance ==
    [][\A c \in Callers : InProgress(request[c]) =>
          /\ Left(request'[c]) \in Nat
          /\ Left(request'[c]) <= Left(request[c])
          /\ Client(c) => Left(request'[c]) < Left(request[c])]_vars

LEMMA LeftIsBounded ==
    ASSUME NEW r \in Request
    PROVE  Left(r) \in 0 .. 2 * (MAX_RETRIES + 1)
<1>1. r.attempt \in Nat /\ r.attempt <= MAX_RETRIES
  BY FrameFields, ConstantsAreNaturals
<1> QED BY <1>1, ConstantsAreNaturals DEF Left

LEMMA FrameOnly ==
    ASSUME TypeOK, NEW c \in Callers, NEW r, Frame(c, r), NEW d \in Callers
    PROVE  request'[d] = IF d = c THEN r ELSE request[d]
BY DEF TypeOK, Frame

(* The frame a step of the client leaves: asleep in the same attempt, in the next
   attempt, or at the end. *)
LEMMA ClientMoves ==
    ASSUME TypeOK, NEW c \in Callers, Client(c)
    PROVE  \E new :
              /\ Frame(c, new)
              /\ \/ /\ request[c].pc \in InFlight /\ new.pc = "sleeping"
                    /\ new.attempt = request[c].attempt
                 \/ /\ request[c].pc = "sleeping" /\ new.pc = "sending"
                    /\ HasRetries(request[c])
                    /\ new.attempt = request[c].attempt + 1
                 \/ /\ InProgress(request[c]) /\ new.pc \in Ended
<1> DEFINE r == request[c]
<1>0. r \in Request
  BY DEF TypeOK
<1>1. ASSUME NEW w, r.pc \in InFlight, Sleep(c, w)
      PROVE  \E new : /\ Frame(c, new) /\ new.pc = "sleeping"
                      /\ new.attempt = r.attempt
  <2>1. PICK new : new = [r EXCEPT !.pc = "sleeping", !.wait = w]
    OBVIOUS
  <2>2. new.pc = "sleeping" /\ new.attempt = r.attempt
    BY <1>0, <2>1 DEF Request
  <2>3. Frame(c, new)
    BY <1>1, <2>1 DEF Sleep
  <2> QED BY <2>2, <2>3
<1>2. CASE RateLimited(c) \/ RetryableError(c)
  <2>1. r.pc \in InFlight /\ \E w : Sleep(c, w)
    BY <1>2 DEF RateLimited, RetryableError, InFlight
  <2> QED BY <1>1, <2>1
<1>3. CASE RaiseForStatus(c) \/ Return(c)
  <2>1. PICK end \in Ended : Frame(c, [r EXCEPT !.pc = end])
    BY <1>3 DEF RaiseForStatus, Return, Ended
  <2>2. PICK new : new = [r EXCEPT !.pc = end]
    OBVIOUS
  <2>3. new.pc = end /\ InProgress(r)
    BY <1>0, <1>3, <2>2 DEF Request, InProgress, InFlight, RaiseForStatus, Return
  <2> QED BY <2>1, <2>2, <2>3
<1>4. CASE TransportError(c)
  <2>1. CASE HasRetries(r)
    <3>1. PICK w : Frame(c, [r EXCEPT !.pc = "sleeping", !.wait = w, !.answer = NoAnswer])
      BY <1>4, <2>1 DEF TransportError
    <3>2. PICK new : new = [r EXCEPT !.pc = "sleeping", !.wait = w, !.answer = NoAnswer]
      OBVIOUS
    <3>3. new.pc = "sleeping" /\ new.attempt = r.attempt
      BY <1>0, <3>2 DEF Request
    <3> QED BY <1>4, <3>1, <3>2, <3>3 DEF TransportError
  <2>2. CASE ~HasRetries(r)
    <3>1. PICK new : new = [r EXCEPT !.pc = "raised"]
      OBVIOUS
    <3>2. new.pc \in Ended /\ InProgress(r)
      BY <1>0, <1>4, <3>1 DEF Request, Ended, InProgress, TransportError
    <3> QED BY <1>4, <2>2, <3>1, <3>2 DEF TransportError
  <2> QED BY <2>1, <2>2
<1>5. CASE Wake(c)
  <2>1. PICK rested : rested = Rested(r)
    OBVIOUS
  <2>2. rested = [pc |-> r.pc, attempt |-> r.attempt, answer |-> r.answer, wait |-> 0,
                  asked |-> r.asked, slept |-> r.slept + r.wait,
                  named |-> r.named + Named(r)]
    BY <1>0, <2>1, RestedFrame
  <2>3. CASE HasRetries(r)
    <3>1. PICK new : new = [rested EXCEPT !.pc = "sending", !.attempt = rested.attempt + 1,
                                          !.answer = NoAnswer]
      OBVIOUS
    <3>2. new.pc = "sending" /\ new.attempt = r.attempt + 1
      BY <2>2, <3>1
    <3>3. Frame(c, new) /\ r.pc = "sleeping"
      BY <1>5, <2>1, <2>3, <3>1 DEF Wake
    <3> QED BY <2>3, <3>2, <3>3
  <2>4. CASE ~HasRetries(r)
    <3>1. PICK new : new = [rested EXCEPT !.pc = "raised"]
      OBVIOUS
    <3>2. new.pc \in Ended /\ InProgress(r)
      BY <1>5, <2>2, <3>1 DEF Ended, InProgress, Wake
    <3>3. Frame(c, new)
      BY <1>5, <2>1, <2>4, <3>1 DEF Wake, GiveUp
    <3> QED BY <3>2, <3>3
  <2> QED BY <2>3, <2>4
<1> QED BY <1>2, <1>3, <1>4, <1>5 DEF Client

LEMMA ClientAdvances ==
    ASSUME TypeOK, NEW c \in Callers, Client(c), NEW d \in Callers
    PROVE  /\ d # c => request'[d] = request[d]
           /\ d = c => Left(request'[d]) < Left(request[d])
<1>1. PICK r \in Request : r = request[c]
  BY DEF TypeOK
<1>2. PICK new : /\ Frame(c, new)
                 /\ \/ /\ r.pc \in InFlight /\ new.pc = "sleeping"
                       /\ new.attempt = r.attempt
                    \/ /\ r.pc = "sleeping" /\ new.pc = "sending"
                       /\ HasRetries(r)
                       /\ new.attempt = r.attempt + 1
                    \/ /\ InProgress(r) /\ new.pc \in Ended
  BY <1>1, ClientMoves
<1>3. r.attempt \in Nat /\ r.attempt <= MAX_RETRIES
  BY FrameFields, ConstantsAreNaturals
<1>4. Left(new) < Left(r)
  <2>1. CASE r.pc \in InFlight /\ new.pc = "sleeping" /\ new.attempt = r.attempt
    BY <1>3, <2>1, ConstantsAreNaturals DEF Left, InProgress, InFlight
  <2>2. CASE /\ r.pc = "sleeping" /\ new.pc = "sending"
             /\ HasRetries(r) /\ new.attempt = r.attempt + 1
    BY <1>3, <2>2, ConstantsAreNaturals DEF Left, InProgress, InFlight, HasRetries
  <2>3. CASE InProgress(r) /\ new.pc \in Ended
    BY <1>3, <2>3, ConstantsAreNaturals DEF Left, InProgress, InFlight, Ended
  <2> QED BY <1>2, <2>1, <2>2, <2>3
<1> QED BY <1>1, <1>2, <1>4, FrameOnly

(* Every step of a fetch's client brings its end nearer, and no step of anyone
   moves it away. *)
THEOREM FetchesAdvanceHolds == Spec => FetchesAdvance
<1> DEFINE Advances(c) ==
      InProgress(request[c]) =>
          /\ Left(request'[c]) \in Nat
          /\ Left(request'[c]) <= Left(request[c])
          /\ Client(c) => Left(request'[c]) < Left(request[c])
<1>1. ASSUME TypeOK, TypeOK', [Next]_vars, NEW c \in Callers, InProgress(request[c])
      PROVE  Advances(c)
  <2>1. /\ Left(request[c]) \in 0 .. 2 * (MAX_RETRIES + 1)
        /\ Left(request'[c]) \in 0 .. 2 * (MAX_RETRIES + 1)
    BY <1>1, LeftIsBounded DEF TypeOK
  <2>2. Client(c) => Left(request'[c]) < Left(request[c])
    BY <1>1, ClientAdvances
  <2>3. Left(request'[c]) <= Left(request[c])
    <3>1. CASE request'[c] = request[c]
      BY <2>1, <3>1
    <3>2. CASE Client(c)
      BY <2>1, <2>2, <3>2, ConstantsAreNaturals
    <3>3. CASE Serve(c)
      <4>1. request[c] \in Request /\ request[c].pc = "sending"
        BY <1>1, <3>3 DEF TypeOK, Serve
      <4>2. request'[c].pc = "answered" /\ request'[c].attempt = request[c].attempt
        BY <1>1, <3>3, <4>1 DEF Serve, Frame, TypeOK, Request
      <4>3. Left(request'[c]) = Left(request[c])
        BY <4>1, <4>2 DEF Left, InProgress, InFlight
      <4> QED BY <2>1, <4>3
    <3>4. ASSUME NEW d \in Callers, d # c, Client(d)
          PROVE  request'[c] = request[c]
      BY <1>1, <3>4, ClientAdvances
    <3>5. ASSUME NEW d \in Callers, d # c, Call(d) \/ Serve(d)
          PROVE  request'[c] = request[c]
      BY <1>1, <3>5, FrameOnly DEF Call, Serve
    <3>6. ~Call(c)
      BY <1>1 DEF Call, InProgress, InFlight, Ended
    <3>7. Change \/ UNCHANGED vars => request'[c] = request[c]
      BY DEF Change, vars
    <3> QED BY <1>1, <3>1, <3>2, <3>3, <3>4, <3>5, <3>6, <3>7 DEF Next
  <2> QED BY <2>1, <2>2, <2>3
<1>2. TypeOK /\ TypeOK' /\ [Next]_vars => [\A c \in Callers : Advances(c)]_vars
  BY <1>1
<1> QED BY <1>2, TypeCorrect, PTL DEF Spec, FetchesAdvance
=============================================================================
