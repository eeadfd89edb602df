--------------------------- MODULE MCRpcEndpoint ---------------------------
(* Instances of RpcEndpoint for TLC.                                       *)
EXTENDS RpcEndpoint

CONSTANTS
  w1,   \* a websocket of this endpoint
  w2,   \* a second websocket on the same ConnectionManager
  w3    \* a third, without a client address

MCConns    == {w1, w2, w3}
MCTwo      == {w1, w2}
MCOne      == {w1}
MCPortless == {w3}
MCNone     == {}

=============================================================================
