--------------------------- MODULE MCRpcRegistry ---------------------------
(* Instances of RpcRegistry for TLC: three classes.  The files' and the    *)
(* users' class both expose "read"; the users' keeps a private _reset, the *)
(* name of a function the clock's class exposes.  The clock's class exposes*)
(* a "ping" of its own as well.                                            *)
EXTENDS RpcRegistry

CONSTANTS
  Files, Users, Clock,              \* the classes
  fread, fwrite, uread, ufind, creset, cping,
  limit,   \* a Body() used in Annotated by several parameters
  named,   \* a Body() with an alias
  shared,  \* a Body() used as the default of several
  filter,  \* a Query()
  user,    \* a Depends()
  preset   \* a Body() with a default

MCClasses == {Files, Users, Clock}
MCFunctions == {fread, fwrite, uread, ufind, creset, cping}
MCfunctions == [k \in MCClasses |->
  CASE k = Files -> <<fread, fwrite>> [] k = Users -> <<ufind, uread>> [] OTHER -> <<creset, cping>>]
MCpath == [f \in MCFunctions |->
  CASE f \in {fread, uread} -> "read" [] f = fwrite -> "write" [] f = ufind -> "find"
    [] f = cping -> "ping" [] OTHER -> "reset"]
MCname == [f \in MCFunctions |->
  CASE f \in {fread, uread} -> "read" [] f = fwrite -> "write" [] f = ufind -> "find"
    [] f = cping -> "ping" [] OTHER -> "_reset"]
MCBuiltIns == {"ping", "get_channel_id"}
MCProtected == {creset}
MCattributes == [k \in MCClasses |->
  CASE k = Files -> {"read", "write"} [] k = Users -> {"find", "read", "_reset"}
    [] OTHER -> {"ping", "_reset"}]

MCNames == {"a", "b", "c"}
MCMarkers == {limit, named, shared, filter, user, preset}
MCkind == [m \in MCMarkers |->
  CASE m = filter -> "Query" [] m = user -> "Depends" [] OTHER -> "Body"]
MCgiven == [m \in MCMarkers |-> [alias |-> IF m = named THEN "c" ELSE "", embed |-> FALSE]]
MCDefaulted == {preset}

Param(n, type, marks, default) ==
  [name |-> n, type |-> type, marks |-> marks, default |-> default, inPath |-> FALSE]

(* Two parameters that are always accepted, and one that may be anything.  *)
MCdeclarations == [f \in MCFunctions |->
  CASE f = fread  -> <<{Param("a", "model", {limit}, "none")}>>
    [] f = fwrite -> <<{Param("a", "field", {}, shared), Param("a", "field", {limit}, "value")},
                       {Param("b", t, {}, d) : t \in {"model", "field"}, d \in {shared, "none"}}>>
    [] f = ufind  -> <<{Param("b", "field", {m}, "none") : m \in {limit, named}} \cup {Param("b", "model", {}, filter)},
                       {[name |-> "c", type |-> t, marks |-> ms, default |-> d, inPath |-> b] :
                          t \in {"model", "field", "message"},
                          ms \in {{}, {limit}, {shared}, {user}, {preset}, {limit, user}},
                          d \in {"none", "value", shared, user}, b \in BOOLEAN}>>
    [] f \in {uread, cping} -> <<>>
    [] OTHER      -> <<{Param("a", "field", {}, "value"), Param("a", "model", {}, shared)}>>]

=============================================================================
