--------------------------- MODULE MCRpcIdentity ---------------------------
(* Instances of RpcIdentity for TLC.                                       *)
EXTENDS RpcIdentity

CONSTANTS
  c1,   \* a connection with every difficulty
  c2    \* one that nothing disturbs

MCConns   == {c1, c2}
MCHard    == {c1}
MCWaiters ==
  {[conn |-> c1, place |-> "callback"], [conn |-> c1, place |-> "method"],
   [conn |-> c2, place |-> "task"]}

=============================================================================
