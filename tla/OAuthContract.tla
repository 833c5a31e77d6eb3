---------------------------- MODULE OAuthContract ----------------------------
(***************************************************************************)
(* What the endpoints of a brand rely on in its connection row, Shopify's  *)
(* or Meta's, without rows, columns or commits.  A /connect hands out a    *)
(* fresh ticket and takes the brand off line; a visitor with an awaited    *)
(* ticket is let in, and leaves with the brand on line and a token for the *)
(* account it came with, or with nothing.  Nothing else opens or closes a  *)
(* connection, moves a token, or awaits or forgets a ticket.               *)
(*                                                                         *)
(* What it does not promise is as telling: two visitors may be let in on   *)
(* one ticket, and one let in before a later /connect still completes.     *)
(***************************************************************************)
CONSTANTS Brands, Tickets, Accounts, Visitors, None

VARIABLES
    issued,     \* the tickets handed out
    awaited,    \* per brand: the passes (brand, ticket, account) it is let in with
    online,     \* per brand: it is connected
    token,      \* per brand: the account its token is for, or None
    visit       \* per visitor: the pass it was let in with, none or one

connection == <<issued, awaited, online, token, visit>>

Unconnected ==
    /\ issued = {}
    /\ awaited = [b \in Brands |-> {}]
    /\ online = [b \in Brands |-> FALSE]
    /\ token = [b \in Brands |-> None]
    /\ visit = [v \in Visitors |-> {}]

(* The ticket is good for some accounts of the brand, the tickets before it for
   none.  The token of the last connection stays. *)
Ask(b) ==
    \E ticket \in Tickets \ issued, accounts \in SUBSET Accounts :
        /\ issued' = issued \cup {ticket}
        /\ awaited' = [awaited EXCEPT ![b] =
                         [brand: {b}, ticket: {ticket}, account: accounts]]
        /\ online' = [online EXCEPT ![b] = FALSE]
        /\ UNCHANGED <<token, visit>>

Return(v) ==
    /\ visit[v] = {}
    /\ \E b \in Brands : \E pass \in awaited[b] :
          visit' = [visit EXCEPT ![v] = {pass}]
    /\ UNCHANGED <<issued, awaited, online, token>>

(* Whatever ticket the brand awaits by now is forgotten with the visitor's own. *)
Grant(v) ==
    /\ \E pass \in visit[v] :
          /\ awaited' = [awaited EXCEPT ![pass.brand] = {}]
          /\ online' = [online EXCEPT ![pass.brand] = TRUE]
          /\ token' = [token EXCEPT ![pass.brand] = pass.account]
    /\ visit' = [visit EXCEPT ![v] = {}]
    /\ UNCHANGED issued

Leave(v) ==
    /\ visit' = [visit EXCEPT ![v] = {}]
    /\ UNCHANGED <<issued, awaited, online, token>>

Step ==
    \/ \E b \in Brands : Ask(b)
    \/ \E v \in Visitors : Return(v) \/ Grant(v) \/ Leave(v)

Contract == Unconnected /\ [][Step]_connection
=============================================================================
