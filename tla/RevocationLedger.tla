-------------------------- MODULE RevocationLedger --------------------------
(***************************************************************************)
(* What revocation promises a federation of DUADP nodes, said without      *)
(* messages, tables or handlers: an operator revokes an identifier (GAID)  *)
(* at some node, that node blocks it from then on, and another node may    *)
(* start to block it only once some operator has revoked it.  A client     *)
(* without any right can make a single node block an identifier, by        *)
(* posting to it, but not the others.  Nothing is ever unblocked.          *)
(* RevocationGossip is shown to implement this module.                     *)
(***************************************************************************)
CONSTANTS Node,      \* the nodes of the federation
          Gaid       \* the identifiers a resource can be revoked under

VARIABLES blocked,   \* blocked[n]: the identifiers node n refuses
          issued,    \* issued[n]: the identifiers revoked by a DELETE at n
          posted     \* posted[n]: those a client made n refuse

ledgerVars == <<blocked, issued, posted>>

LedgerTypeOK ==
    /\ blocked \in [Node -> SUBSET Gaid]
    /\ issued  \in [Node -> SUBSET Gaid]
    /\ posted  \in [Node -> SUBSET Gaid]

LedgerInit ==
    /\ blocked = [n \in Node |-> {}]
    /\ issued  = [n \in Node |-> {}]
    /\ posted  = [n \in Node |-> {}]

(* A DELETE at n: n blocks the identifier in the very step that issues it. *)
Revoke(n, g) ==
    /\ blocked' = [blocked EXCEPT ![n] = @ \cup {g}]
    /\ issued'  = [issued  EXCEPT ![n] = @ \cup {g}]
    /\ UNCHANGED posted

(* Gossip reaches n: some operator has issued the revocation before, and   *)
(* what clients post is not passed on.                                     *)
Learn(n, g) ==
    /\ \E m \in Node : g \in issued[m]
    /\ blocked' = [blocked EXCEPT ![n] = @ \cup {g}]
    /\ UNCHANGED <<issued, posted>>

(* A client posts the identifier to n. *)
Post(n, g) ==
    /\ blocked' = [blocked EXCEPT ![n] = @ \cup {g}]
    /\ posted'  = [posted  EXCEPT ![n] = @ \cup {g}]
    /\ UNCHANGED issued

LedgerNext == \E n \in Node, g \in Gaid : Revoke(n, g) \/ Learn(n, g) \/ Post(n, g)

LedgerSpec == LedgerInit /\ [][LedgerNext]_ledgerVars

(* Every blocked identifier was posted by a client to that very node, or   *)
(* revoked by an operator at some node, and that node blocks it too:       *)
(* storeRevocation comes before propagation.                               *)
NoOrphanBlock ==
    \A n \in Node : \A g \in blocked[n] :
        \/ g \in posted[n]
        \/ \E m \in Node : g \in issued[m] /\ g \in blocked[m]
=============================================================================
