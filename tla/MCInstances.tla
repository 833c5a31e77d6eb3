----------------------------- MODULE MCInstances -----------------------------
(* Two instances, so that one can be a rotation behind the other. *)
EXTENDS Instances, TLC

CONSTANTS i1, i2, t1

MCInstanceSet == {i1, i2}
MCTokens == {t1}
=============================================================================
