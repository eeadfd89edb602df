---------------------------- MODULE MCRpcChannel ----------------------------
(* Instances of RpcChannel for TLC.                                        *)
EXTENDS RpcChannel

CONSTANTS
  c1,       \* awaited, no timeout: only an answer or a close ends it
  c2,       \* awaited, with a timeout and cancellable: a ping of wait_on_rpc_ready
  d1,       \* made by call_me_back
  r1, r2    \* two payloads, so that a mixed-up answer shows

MCCalls       == {c1, c2, d1}
MCDetached    == {d1}
MCTimed       == {c2}
MCCancellable == {c2}
MCSuspending  == {c1, d1}
MCResults     == {r1, r2}

=============================================================================
