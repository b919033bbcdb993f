----------------------------- MODULE MCCrdtMesh -----------------------------
(* An instance of CrdtMesh small enough for TLC.                            *)
EXTENDS CrdtMesh

CONSTANTS n1, n2, agent, skill, x, y, b1, b2

(* Two names, a second version of x, and a body without its kind.           *)
Bodies ==
    {[kind |-> agent, name |-> x, body |-> b1],
     [kind |-> agent, name |-> y, body |-> b1],
     [kind |-> Absent, name |-> x, body |-> b2]}

(* Every two manifests collide. *)
Collide == [m \in Manifest |-> 0]
=============================================================================
