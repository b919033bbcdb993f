---------------------------- MODULE MCResolution ----------------------------
(* a and b are peers of one another, c is a peer of b and lists a.  shared   *)
(* is agent://x/y: its first segment names a row of c, its last one of b,  *)
(* and another row of c declares it.                                       *)
EXTENDS Resolution

CONSTANTS a, b, c, x, y, z, shared, bx, by, bz

PairAndRing == [n \in {a, b, c} |-> CASE n = a -> <<b>> [] n = b -> <<a, c>> [] OTHER -> <<a>>]
BareNames == [h \in {x, y, z} |-> CASE h = x -> bx [] h = y -> by [] OTHER -> bz]
FirstX == [h \in {shared, bx, by, bz} |-> CASE h = by -> y [] h = bz -> z [] OTHER -> x]
FinalY == [h \in {shared, bx, by, bz} |-> CASE h = bx -> x [] h = bz -> z [] OTHER -> y]
SeedFar ==
    [n \in {a, b, c} |->
        CASE n = b -> {[name |-> y, gaid |-> NoGaid, did |-> "web"]}
          [] n = c -> {[name |-> x, gaid |-> NoGaid, did |-> "key"],
                       [name |-> z, gaid |-> shared, did |-> "none"]}
          [] OTHER -> {}]
(* While a lookup is under way b may come to have what WebFinger looks for.  *)
OneAtB == {<<b, [name |-> x, gaid |-> NoGaid, did |-> "none"]>>}
=============================================================================
