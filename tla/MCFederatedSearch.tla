-------------------------- MODULE MCFederatedSearch --------------------------
(***************************************************************************)
(* Two peers whose answers repeat the local page, each other and           *)
(* themselves.  b1 and b2 are different resources of one name.             *)
(***************************************************************************)
EXTENDS FederatedSearch, TLC

CONSTANTS p1, p2, a, b1, b2, c

TwoPeers  == <<p1, p2>>
LocalPage == <<a>>
Names     == [x \in {a, b1, b2, c} |-> IF x = b2 THEN b1 ELSE x]
SomeHits  == (p1 :> <<a, b1>>) @@ (p2 :> <<b2, c, c>>)
=============================================================================
