----------------------------- MODULE RetryClient -----------------------------
(***************************************************************************)
(* IntegrationHTTPClient of app/integrations/base_client.py: the retry     *)
(* loop that get_with_headers and _request share, run by any number of     *)
(* callers against one upstream resource that changes meanwhile.           *)
(*                                                                         *)
(* The awaits are the request and the sleep.  The request is split where   *)
(* upstream computes its answer, because the connection may fail before or *)
(* after that.  Only GETs are made through the client, so serving a        *)
(* request changes nothing upstream.  Waits are whole seconds.             *)
(***************************************************************************)
EXTENDS Integers

CONSTANTS
    Callers,        \* coroutines that fetch, one request at a time
    max_retries, backoff_base,      \* the constructor's arguments, 0 if omitted
    SYNC_MAX_RETRIES, SYNC_RETRY_BACKOFF_BASE,  \* the settings behind them
    BACKOFF_CAP,
    RetryAfters,    \* the Retry-After values upstream sends, in seconds
    LONGEST_WAIT,   \* no wait is longer
    MAX_CHANGES     \* bound on the changes of the resource

ASSUME RetryAssumption ==
    /\ max_retries \in Nat /\ backoff_base \in Nat
    /\ SYNC_MAX_RETRIES \in Nat /\ SYNC_RETRY_BACKOFF_BASE \in Nat
    /\ BACKOFF_CAP \in Nat /\ LONGEST_WAIT \in Nat
    /\ BACKOFF_CAP <= LONGEST_WAIT
    /\ RetryAfters \subseteq 0 .. LONGEST_WAIT
    /\ MAX_CHANGES \in Nat

(* `argument or setting`: an argument of 0 is not told from none. *)
Or(argument, setting) == IF argument = 0 THEN setting ELSE argument

MAX_RETRIES == Or(max_retries, SYNC_MAX_RETRIES)
BACKOFF_BASE == Or(backoff_base, SYNC_RETRY_BACKOFF_BASE)

VARIABLES
    resource,   \* the version of the resource at upstream
    request     \* the frame of each caller's get_with_headers

vars == <<resource, request>>

(* Status codes as the loop tells them apart: 2xx, 429, the other
   RETRYABLE_STATUS_CODES, and what raise_for_status (or json) raises on. *)
Statuses == {"ok", "rate_limited", "retryable", "refused"}

Answer == [status: Statuses \cup {"none"},
           body: 0 .. MAX_CHANGES,
           retry_after: 0 .. LONGEST_WAIT]      \* 0: absent, unparsable or 0

NoAnswer == [status |-> "none", body |-> 0, retry_after |-> 0]

Ended == {"returned", "raised"}
InFlight == {"sending", "answered"}

Request ==
    [pc: {"idle", "sleeping"} \cup InFlight \cup Ended,
     attempt: 0 .. MAX_RETRIES,
     answer: Answer,            \* the answer to the present attempt
     wait: 0 .. LONGEST_WAIT,   \* the sleep in progress
     asked: 0 .. MAX_CHANGES,   \* history: the resource when the call began
     slept: Nat,                \* history: seconds slept by the finished sleeps
     named: Nat]                \* history: those of them that upstream named

TypeOK ==
    /\ resource \in 0 .. MAX_CHANGES
    /\ request \in [Callers -> Request]

IdleRequest == [pc |-> "idle", attempt |-> 0, answer |-> NoAnswer, wait |-> 0,
                asked |-> 0, slept |-> 0, named |-> 0]

Init ==
    /\ resource = 0
    /\ request = [c \in Callers |-> IdleRequest]

Frame(c, r) == request' = [request EXCEPT ![c] = r] /\ UNCHANGED resource

-----------------------------------------------------------------------------
(* The waits, and when the loop goes round.  The definitions marked "slip" are
   faulty variants that no action uses: they show that the properties can fail. *)

(* _backoff: full jitter, below a ceiling that doubles. *)
Backoff(attempt) == {w \in 0 .. BACKOFF_CAP : w <= BACKOFF_BASE * 2 ^ attempt}

\* slip: backs off even when upstream said how long to wait
RateLimitWaitBackoff(r) == Backoff(r.attempt)

(* `_parse_retry_after(response) or _backoff(attempt)`. *)
RateLimitWait(r) ==
    IF r.answer.retry_after = 0 THEN Backoff(r.attempt) ELSE {r.answer.retry_after}

\* slip: `range(max_retries + 2)`
HasRetriesExtra(r) == r.attempt <= MAX_RETRIES

\* slip: `range(max_retries)`
HasRetriesShort(r) == r.attempt + 1 < MAX_RETRIES

HasRetries(r) == r.attempt < MAX_RETRIES

-----------------------------------------------------------------------------
(* Upstream. *)

Change ==
    /\ resource < MAX_CHANGES
    /\ resource' = resource + 1
    /\ UNCHANGED request

Serve(c) ==
    /\ request[c].pc = "sending"
    /\ \E status \in Statuses, h \in RetryAfters \cup {0} :
          Frame(c, [request[c] EXCEPT
                      !.pc = "answered",
                      !.answer = [status |-> status,
                                  body |-> IF status = "ok" THEN resource ELSE 0,
                                  retry_after |-> h]])

-----------------------------------------------------------------------------
(* The client. *)

Call(c) ==
    /\ request[c].pc \in {"idle"} \cup Ended
    /\ Frame(c, [IdleRequest EXCEPT !.pc = "sending", !.asked = resource])

Sleep(c, w) == Frame(c, [request[c] EXCEPT !.pc = "sleeping", !.wait = w])

RateLimited(c) ==
    /\ request[c].pc = "answered"
    /\ request[c].answer.status = "rate_limited"
    /\ \E w \in RateLimitWait(request[c]) : Sleep(c, w)

RetryableError(c) ==
    /\ request[c].pc = "answered"
    /\ request[c].answer.status = "retryable"
    /\ \E w \in Backoff(request[c].attempt) : Sleep(c, w)

(* raise_for_status raises. *)
RaiseForStatus(c) ==
    /\ request[c].pc = "answered"
    /\ request[c].answer.status = "refused"
    /\ Frame(c, [request[c] EXCEPT !.pc = "raised"])

Return(c) ==
    /\ request[c].pc = "answered"
    /\ request[c].answer.status = "ok"
    /\ Frame(c, [request[c] EXCEPT !.pc = "returned"])

\* slip: retries a transport error without looking at the attempt
TransportErrorForever(c) ==
    /\ request[c].pc \in InFlight
    /\ Frame(c, [request[c] EXCEPT !.pc = "sending", !.answer = NoAnswer])

(* httpx.TransportError, a timeout included: the answer, if there was one, is
   lost.  The last attempt raises without sleeping. *)
TransportError(c) ==
    LET r == request[c] IN
    /\ r.pc \in InFlight
    /\ IF HasRetries(r)
       THEN \E w \in Backoff(r.attempt) :
               Frame(c, [r EXCEPT !.pc = "sleeping", !.wait = w,
                                  !.answer = NoAnswer])
       ELSE Frame(c, [r EXCEPT !.pc = "raised"])

\* slip: leaves the loop with the last body instead of raising
GiveUpReturning(c, r) == Frame(c, [r EXCEPT !.pc = "returned"])

(* After the loop: the RuntimeError. *)
GiveUp(c, r) == Frame(c, [r EXCEPT !.pc = "raised"])

(* The seconds of the present sleep that upstream named. *)
Named(r) == IF r.answer.status = "rate_limited" THEN r.answer.retry_after ELSE 0

Rested(r) == [r EXCEPT !.slept = @ + r.wait, !.named = @ + Named(r), !.wait = 0]

(* asyncio.sleep is over; the last attempt too has slept before GiveUp. *)
Wake(c) ==
    LET r == request[c] IN
    /\ r.pc = "sleeping"
    /\ IF HasRetries(r)
       THEN Frame(c, [Rested(r) EXCEPT !.pc = "sending", !.attempt = @ + 1,
                                       !.answer = NoAnswer])
       ELSE GiveUp(c, Rested(r))

Client(c) ==
    \/ RateLimited(c) \/ RetryableError(c) \/ RaiseForStatus(c) \/ Return(c)
    \/ TransportError(c) \/ Wake(c)

Next ==
    \/ Change
    \/ \E c \in Callers : Call(c) \/ Serve(c) \/ Client(c)

Spec == Init /\ [][Next]_vars

(* The httpx timeouts (connect 5 s, read 30 s) end every attempt, sleeps end
   and the event loop runs what is ready. *)
FairSpec == Spec /\ \A c \in Callers : WF_vars(Client(c))

-----------------------------------------------------------------------------

(* How long a fetch may keep its caller asleep (base_client.py:109, :159, :218):
   at least for the waits that upstream named, and beyond them at most one
   capped backoff per attempt, the sleep before the RuntimeError included. *)
Naps(r) == IF r.pc = "raised" THEN r.attempt + 1 ELSE r.attempt

PatienceBounded ==
    \A c \in Callers :
        LET r == request[c] IN
        /\ r.named <= r.slept
        /\ r.slept <= r.named + Naps(r) * BACKOFF_CAP

(* What the sync loops rely on (service.py:209-236): a page comes from one
   answer, given while the call was in progress, or the fetch raises. *)
Shown(r) ==
    [phase |-> IF r.pc \in {"idle"} \cup Ended THEN r.pc ELSE "asked",
     floor |-> r.asked,
     body |-> IF r.pc = "returned" THEN r.answer.body ELSE 0]

shown == [c \in Callers |-> Shown(request[c])]

Implemented == INSTANCE FetchContract WITH fetch <- shown

KeepsContract == Implemented!Contract

(* A fetch raises for a reason: upstream refused it, or MAX_RETRIES + 1
   attempts failed. *)
RaisesLast ==
    \A c \in Callers :
        request[c].pc = "raised" =>
            \/ request[c].answer.status = "refused"
            \/ request[c].attempt = MAX_RETRIES

(* Retrying ends: a fetch returns or raises. *)
EveryFetchEnds ==
    \A c \in Callers : request[c].pc \in InFlight \cup {"sleeping"} ~>
        request[c].pc \in Ended
=============================================================================
