------------------------- MODULE MCPeerRegistration -------------------------
(* The federation of docker-compose.federation.yml with two of its three    *)
(* mutual peers, a and b, and the node r that lists them and is listed by   *)
(* none.                                                                    *)
EXTENDS PeerRegistration, TLC

CONSTANTS a, b, r

Compose == (a :> <<b>>) @@ (b :> <<a>>) @@ (r :> <<a, b>>)

Body(url, hop, peers) == [url |-> url, hop |-> hop, peers |-> peers]

(* A client introduces r or a with the peers they list: without hops, with  *)
(* hops at the limit, from too far away, and with a hop that is no number.  *)
Introductions ==
    {Body(r, 0, (a :> NoHop) @@ (b :> 1)),
     Body(a, MaxHops, (r :> NoHop) @@ (b :> 0)),
     Body(b, MaxHops + 1, r :> 0),
     Body(b, NotANumber, (a :> NoHop) @@ (r :> -1))}
=============================================================================
