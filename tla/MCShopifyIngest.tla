--------------------------- MODULE MCShopifyIngest ---------------------------
(* One product and two orders of one shop, pages of one item: every sync turns
   pages, and a webhook can fall between two of them.  The other shop has no items:
   connecting it takes the first off line and leaves its rows in the tables.  The
   counterexample needs one delivery only. *)
EXTENDS ShopifyIngest, TLC

CONSTANTS w1, w2, s1, north, south

MCProducts == {1}
MCOrders == {2, 3}
MCShops == {north, south}
MCShopOf == [i \in MCProducts \cup MCOrders |-> north]
MCHooks == {w1, w2}
MCOneHook == {w1}
MCSyncs == {s1}

HookSymmetry == Permutations(MCHooks)
=============================================================================
