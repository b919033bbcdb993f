------------------------- MODULE MCRevocationGossip -------------------------
(* Instances of RevocationGossip small enough for TLC.                      *)
EXTENDS RevocationGossip, TLC

CONSTANTS n1, n2, n3, x, y, gx, gy, g, skill, tool

(* agent://x and agent://y; g is the one GAID a manifest may declare.       *)
OneName  == (x :> gx)
TwoNames == (x :> gx) @@ (y :> gy)

Row(id) == [kind |-> skill, gaid |-> id]

FullMesh == [n \in Node |-> Node \ {n}]
SelfJoin == {<<n1, n1>>}   \* POST /federation does not compare url with its own

(* n1 hosts x, which declares no GAID; every other node is empty.           *)
SeedOne == [n \in Node |-> [z \in Name |-> IF n = n1 /\ z = x THEN Row(NoGaid) ELSE NoRow]]

(* n1 and n2 host x. *)
SeedTwo == [n \in Node |-> [z \in Name |-> IF n \in {n1, n2} THEN Row(NoGaid) ELSE NoRow]]

(* n1 hosts y under the GAID g. *)
SeedDeclared == [n \in Node |-> [z \in Name |-> IF z = y THEN Row(g) ELSE NoRow]]

Never == [n \in Node |-> "never"]
Anew  == [n \in Node |-> "anew"]
Mixed == [n \in Node |-> IF n = n1 THEN "over" ELSE "anew"]

(* A client's revocation of the name x under a GAID that is not agent://x,  *)
(* and under agent://x.                                                    *)
Foreign == {[gaid |-> g, name |-> x, origin |-> Outsider]}
Apt     == {[gaid |-> gx, name |-> x, origin |-> Outsider]}
=============================================================================
