--------------------------- MODULE MCMcpEndpoint ---------------------------
(* The node moves once, and its second manifest lacks the endpoints that     *)
(* getHealth and getAuditLog fall back for.                                *)
EXTENDS McpEndpoint

CONSTANTS k1, k2, c1, c2, s1, s2, i1, i2

TwoManifests ==
    [v \in 1..2 |-> IF v = 1 THEN ReferenceEndpoints
                    ELSE ReferenceEndpoints \ {"health", "governance"}]

(* One tool and one method of every sort. *)
OfEverySort ==
    {m \in Tools : m.name \in {"discover", "search", "duadp_audit_log", "duadp_resolve_gaid"}}
Fallbacks == {m \in Methods : m.name \in {"getHealth", "getAuditLog"}}
=============================================================================
