--------------------------- MODULE MCRpcDispatch ---------------------------
(* An instance of RpcDispatch for TLC: a method with body parameters of    *)
(* its own and four dependencies: the caller's token, uncached; the user,  *)
(* who depends on the token; the token uncached again; and the token.      *)
EXTENDS RpcDispatch

CONSTANTS
  method, fresh, user, first, afresh, again,  \* the uses
  Method, Token, User,                   \* the callables
  header,                                \* the token's parameter: a model
  page,                                  \* the user's: optional
  item, note, prefs                      \* the method's: a model, a field, a model

MCUses == {method, fresh, user, first, afresh, again}
MCcallable == [u \in MCUses |->
  CASE u = method -> Method [] u = user -> User [] OTHER -> Token]
MCdeps == [u \in MCUses |->
  CASE u = method -> <<fresh, user, afresh, again>> [] u = user -> <<first>> [] OTHER -> <<>>]
MCCached == {user, first, again}
MCparams == [u \in MCUses |->
  CASE u = method -> <<item, note, prefs>> [] u = user -> <<page>> [] OTHER -> <<header>>]
MCWhole == {header, item, prefs}
MCRequired == {header, item}
=============================================================================
