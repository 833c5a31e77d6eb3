---------------------------- MODULE FetchContract ----------------------------
(***************************************************************************)
(* What a caller of IntegrationHTTPClient may rely on, without attempts,   *)
(* waits or status codes: a fetch either raises or returns the resource as *)
(* upstream had it at some moment between the call and the return.  That   *)
(* is the Fetch step of module ShopifyIngest, which reads a page once.     *)
(***************************************************************************)
EXTENDS Integers

CONSTANT Callers

VARIABLES
    resource,   \* the version of the resource at upstream
    fetch       \* per caller: [phase, floor, body], floor the version when called

Quiet == {"idle", "returned", "raised"}

Start ==
    /\ resource = 0
    /\ \A c \in Callers : fetch[c].phase = "idle"

Change == resource' > resource /\ UNCHANGED fetch

Ask(c) ==
    /\ fetch[c].phase \in Quiet
    /\ fetch' = [fetch EXCEPT ![c] = [phase |-> "asked", floor |-> resource, body |-> 0]]
    /\ UNCHANGED resource

Return(c) ==
    /\ fetch[c].phase = "asked"
    /\ \E v \in fetch[c].floor .. resource :
          fetch' = [fetch EXCEPT ![c] = [phase |-> "returned", floor |-> @.floor,
                                         body |-> v]]
    /\ UNCHANGED resource

Raise(c) ==
    /\ fetch[c].phase = "asked"
    /\ fetch' = [fetch EXCEPT ![c].phase = "raised"]
    /\ UNCHANGED resource

Step == Change \/ \E c \in Callers : Ask(c) \/ Return(c) \/ Raise(c)

Contract == Start /\ [][Step]_<<resource, fetch>>
=============================================================================
