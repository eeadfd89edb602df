----------------------------- MODULE MCRpcPeers -----------------------------
(* Instances of RpcPeers for TLC.                                          *)
EXTENDS RpcPeers

CONSTANTS
  Rec, Nested1, Nested2,  \* the client's user calls a recursive method, whose nested
                          \* call is to a recursive method as well
  Back, Detached1,        \* they call call_me_back; the detached call
  Fetch                   \* they call get_response for the detached call

MCCalls  == {Rec, Nested1, Nested2, Back, Detached1, Fetch}
MCCallsRecursive == {Rec, Nested1}
MCcaller == [c \in Calls |-> IF c \in {Nested1, Detached1} THEN "server" ELSE "client"]
MCkind   == [c \in Calls |->
               CASE c = Rec \/ (c = Nested1 /\ Nested2 \in Calls) -> "recursive"
                 [] c = Back -> "background" [] c = Fetch -> "fetch"
                 [] c = Detached1 -> "flaky" [] OTHER -> "plain"]
MCchild  == [c \in Calls |->
               CASE c = Rec -> Nested1
                 [] c = Nested1 /\ Nested2 \in Calls -> Nested2
                 [] c \in {Back, Fetch} -> Detached1 [] OTHER -> NoCall]
MCTimed  == {Nested1}
MCNone   == {}
=============================================================================
