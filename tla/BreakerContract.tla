-------------------------- MODULE BreakerContract --------------------------
(***************************************************************************)
(* What app/integrations/circuit_breaker.py:13-36 promises of a circuit,  *)
(* without saying how failures are counted or which task reports what:     *)
(* traffic is cut off at once, it stays cut off until QUIET ticks have     *)
(* passed with no further failure, then at most PROBES calls may test the  *)
(* upstream before the circuit either closes or is cut off again.          *)
(***************************************************************************)
EXTENDS Integers

CONSTANTS Keys, QUIET, PROBES

VARIABLES
    phase,      \* phase[k]: "closed", "open" or "half_open"
    quiet,      \* quiet[k]: ticks without failure while "open"
    permits     \* permits[k]: calls still allowed while "half_open"

contractVars == <<phase, quiet, permits>>

ContractInit ==
    /\ phase = [k \in Keys |-> "closed"]
    /\ quiet = [k \in Keys |-> 0]
    /\ permits = [k \in Keys |-> 0]

Goto(k, p, n) ==
    /\ phase' = [phase EXCEPT ![k] = p]
    /\ quiet' = [quiet EXCEPT ![k] = 0]
    /\ permits' = [permits EXCEPT ![k] = n]

Trip(k) == phase[k] # "open" /\ Goto(k, "open", 0)

Disturb(k) == phase[k] = "open" /\ Goto(k, "open", 0)

Close(k) == phase[k] = "half_open" /\ Goto(k, "closed", 0)

Probe(k) ==
    /\ phase[k] = "open"
    /\ quiet[k] = QUIET
    /\ Goto(k, "half_open", PROBES - 1)

ProbeAgain(k) ==
    /\ phase[k] = "half_open"
    /\ permits[k] > 0
    /\ Goto(k, "half_open", permits[k] - 1)

Wait ==
    /\ quiet' = [k \in Keys |-> IF phase[k] = "open" /\ quiet[k] < QUIET
                                THEN quiet[k] + 1 ELSE quiet[k]]
    /\ UNCHANGED <<phase, permits>>

ContractNext ==
    \/ Wait
    \/ \E k \in Keys :
          Trip(k) \/ Disturb(k) \/ Close(k) \/ Probe(k) \/ ProbeAgain(k)

Contract == ContractInit /\ [][ContractNext]_contractVars
=============================================================================
