--------------------------- MODULE MCDispatchFence ---------------------------
EXTENDS DispatchFence, TLC

CONSTANTS s1, s2, u, d

MCKind == s1 :> "suspend" @@ s2 :> "suspend" @@ u :> "unsuspend" @@ d :> "delete"

\* Every pair of requests in which two are able to disturb each other.
MCPairs == {{s1, s2}, {s1, u}, {s1, d}, {u, d}}
=============================================================================
