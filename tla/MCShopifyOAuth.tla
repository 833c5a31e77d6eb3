--------------------------- MODULE MCShopifyOAuth ---------------------------
EXTENDS ShopifyOAuth, TLC
Symmetry == Permutations(Brands) \cup Permutations(Shops) \cup Permutations(Requests)
=============================================================================
