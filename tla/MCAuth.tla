------------------------------- MODULE MCAuth --------------------------------
(* One user, who is moved between two brands and may hold tokens for both, and
   two requests: a login races an operator, another login or a protected route. *)
EXTENDS Auth, TLC

Symmetry == Permutations(Users) \cup Permutations(Brands) \cup Permutations(Requests)
=============================================================================
