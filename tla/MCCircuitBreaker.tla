-------------------------- MODULE MCCircuitBreaker --------------------------
(* The instances of CircuitBreaker that TLC checks: two keys and three tasks of
   which one may be cancelled; for the counterexample, one key and two tasks. *)
EXTENDS CircuitBreaker

CONSTANTS k1, k2, c1, c2, c3

MCKeys == {k1, k2}
MCCalls == {c1, c2, c3}
MCCancellable == {c1}

MCOneKey == {k1}
MCTwoCalls == {c1, c2}
=============================================================================
