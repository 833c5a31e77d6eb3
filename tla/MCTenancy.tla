------------------------------ MODULE MCTenancy ------------------------------
(* Two brands, and two requests that compete for one connection. *)
EXTENDS Tenancy, TLC

CONSTANTS b1, b2, s1, s2, c1

MCBrands == {b1, b2}
MCSessions == {s1, s2}
MCConnections == {c1}
=============================================================================
