---------------------------- MODULE MCRecordStore ----------------------------
(* Two names of either kind, one agent, two dimensions, pages of one row;   *)
(* one of the names comes twice in the seed.  Scores are thousandths, as of *)
(* 0.996, which rounds to 1, and one is negative.                          *)
EXTENDS RecordStore

CONSTANTS skill, tool, x, y, g, speed, quality, m, unknown

TwoSeeded ==
    <<[kind |-> skill, name |-> x], [kind |-> tool, name |-> y], [kind |-> skill, name |-> x]>>
TwoRatings ==
    {[gaid |-> g, dims |-> [d \in {} |-> 0]],
     [gaid |-> g, dims |-> [d \in {speed} |-> 996]]}
OneInFile == {[kind |-> tool, name |-> x]}
Thousandths == {996, 850, -105}
OneUsage == <<[gaid |-> g, model |-> m, tokens |-> 1]>>
OneStatement == <<[gaid |-> g]>>
OneEvent == <<[event |-> "updated", subject |-> x]>>
OneRating ==
    <<[gaid |-> g, dims |-> [d \in {speed, quality} |-> IF d = speed THEN 850 ELSE -105]]>>
=============================================================================
