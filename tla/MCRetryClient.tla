---------------------------- MODULE MCRetryClient ----------------------------
(* One caller with three attempts, ceilings of 1, 2 and 3 seconds (the cap) and
   Retry-After values on both sides of the cap. *)
EXTENDS RetryClient

CONSTANT c1

MCCallers == {c1}
=============================================================================
