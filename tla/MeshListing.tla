---------------------------- MODULE MeshListing ----------------------------
(***************************************************************************)
(* What the P2P mesh promises about the in-memory listings of the nodes,   *)
(* without queues, retries or storage: a node lists only manifests that    *)
(* some node has shared, changes one entry at a time, and loses what it    *)
(* lists only by starting over.  Nothing here says that listings agree.    *)
(***************************************************************************)
CONSTANTS Node,      \* the nodes of the mesh
          Key,       \* what an entry is filed under
          Manifest,  \* what is shared
          NoEntry    \* nothing is filed under a key

VARIABLES shared,    \* the manifests some node has shared
          listed     \* listed[n][k]: what n files under k, or NoEntry

listing == <<shared, listed>>

ListingInit ==
    /\ shared = {}
    /\ listed = [n \in Node |-> [k \in Key |-> NoEntry]]

File(n, k, m) == listed' = [listed EXCEPT ![n] = [@ EXCEPT ![k] = m]]

(* A node shares a manifest and files it itself. *)
Share(n, k, m) ==
    /\ shared' = shared \cup {m}
    /\ File(n, k, m)

(* A node files what was shared, in place of what it had under that key. *)
Learn(n, k, m) ==
    /\ m \in shared
    /\ File(n, k, m)
    /\ UNCHANGED shared

(* A node starts over. *)
Forget(n) ==
    /\ listed' = [listed EXCEPT ![n] = [k \in Key |-> NoEntry]]
    /\ UNCHANGED shared

ListingNext ==
    \E n \in Node :
        \/ \E k \in Key, m \in Manifest : Share(n, k, m) \/ Learn(n, k, m)
        \/ Forget(n)

ListingSpec == ListingInit /\ [][ListingNext]_listing
=============================================================================
