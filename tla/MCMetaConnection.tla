--------------------------- MODULE MCMetaConnection ---------------------------
(* Three rows on pages of two: a full page and a last, shorter one. *)
EXTENDS MetaConnection, TLC

CONSTANTS a1, a2, r1, r2

MCAccounts == {a1, a2}
MCRequests == {r1, r2}
=============================================================================
