----------------------------- MODULE RpcRegistry -----------------------------
(***************************************************************************)
(* How methods are exposed: rpc_call as a decorator (rpc_methods.py), the  *)
(* analysis of a function's signature when it is decorated (rpc_method.py, *)
(* utils.py), and on_request, which looks a name up for a methods object.  *)
(*                                                                         *)
(* All classes of a process share one registry, and declarations may share *)
(* FieldInfo objects (Body(...), Query(...)), which analyze_param changes  *)
(* in place.  The body of a class is executed once, decorator by decorator;*)
(* an exception ends it, and what it has done until then stays.  A step is *)
(* the analysis of one parameter, or what else decorating a function does. *)
(*                                                                         *)
(* What a dependency's own parameters are is FastAPI's business; aliases   *)
(* that Header makes of underscores are left out.                          *)
(***************************************************************************)
EXTENDS Naturals, Sequences

CONSTANTS
  Classes,      \* methods classes
  Functions,    \* decorated functions
  functions,    \* those of each class, in order
  path,         \* the path each function is registered under
  name,         \* its __name__
  BuiltIns,     \* the paths "ping" and "get_channel_id"
  Protected,    \* the functions whose __name__ begins with "_"
  attributes,   \* the attributes of each class, inherited ones included
  Names,        \* names of parameters, and aliases
  Markers,      \* Body(), Query(), Path() and Depends() objects
  kind,         \* which of these each is
  given,        \* the alias ("": none) and embed each is made with
  Defaulted,    \* those made with a default value
  declarations  \* what the parameters of each function may be, in order

Paths  == {path[f] : f \in Functions}
Params == [name : Names, type : {"model", "field", "message"}, marks : SUBSET Markers,
           default : {"none", "value"} \cup Markers, inPath : BOOLEAN]
Slots  == {<<f, j>> : f \in Functions, j \in 1..3}   \* bound: three parameters
Infos  == Markers \cup Slots       \* FieldInfo objects: given, and copied or made
NoInfo == <<>>                     \* of a parameter that is none of the body

ASSUME RegistryAssumption ==
  /\ functions \in [Classes -> Seq(Functions)]
  /\ \A k \in Classes : \A i \in DOMAIN functions[k] :
       name[functions[k][i]] \in attributes[k]
  /\ kind \in [Markers -> {"Body", "Query", "Path", "Depends"}]
  /\ given \in [Markers -> [alias : Names \cup {""}, embed : BOOLEAN]]
  /\ Defaulted \subseteq Markers
  /\ declarations \in [Functions -> Seq(SUBSET Params)]
  /\ \A f \in Functions : Len(declarations[f]) <= 3
  /\ Protected \subseteq Functions
  /\ NoInfo \notin Infos /\ Markers \cap Slots = {}

Rows == [param : Params, info : Infos \cup {NoInfo}]
Contents == [alias : Names \cup {""}, embed : BOOLEAN, type : {"", "model", "field", "message"}]

VARIABLES
  registry,  \* rpc_call._rpc_dict: the functions registered
  status,    \* how far the import of each class got
  next,      \* the function of each class that is decorated next
  fields,    \* the parameters of each function analysed so far
  info       \* alias, embed and annotation of each FieldInfo object

vars == <<registry, status, next, fields, info>>

TypeOK ==
  /\ registry \subseteq Functions
  /\ status \in [Classes -> {"new", "importing", "loaded", "failed"}]
  /\ next \in [Classes -> Nat \ {0}]
  /\ fields \in [Functions -> Seq(Rows)]
  /\ info \in [Infos -> Contents]

Init ==
  /\ registry = {}
  /\ status = [k \in Classes |-> "new"]
  /\ next = [k \in Classes |-> 1]
  /\ fields = [f \in Functions |-> <<>>]
  /\ info = [i \in Infos |->
       IF i \in Markers THEN [alias |-> given[i].alias, embed |-> given[i].embed, type |-> ""]
       ELSE [alias |-> "", embed |-> FALSE, type |-> ""]]

-----------------------------------------------------------------------------
(* analyze_param.                                                          *)

IsDepends(m) == m \in Markers /\ kind[m] = "Depends"
IsField(m)   == m \in Markers /\ kind[m] # "Depends"

Depends(p) == \E m \in p.marks \cup {p.default} : IsDepends(m)
Hints(p)   == {m \in p.marks : IsField(m)}
Given(p)   == {m \in p.marks \cup {p.default} : IsField(m)}

(* What the assertions leave of the markers: at most one FieldInfo.        *)
Kind(p) ==
  IF Given(p) # {} THEN kind[CHOOSE m \in Given(p) : TRUE]
  ELSE IF p.inPath THEN "Path" ELSE "Body"

HasField(p) == p.type # "message" /\ (Given(p) # {} \/ ~Depends(p))

(* Its assertions.  A Depends in Annotated together with a FieldInfo as    *)
(* the default passes them.                                                *)
Analysable(p) ==
  /\ \A m, n \in p.marks : m = n
  /\ \A m \in Hints(p) : m \notin Defaulted /\ (p.inPath => p.default = "none")
  /\ IsDepends(p.default) => p.marks = {}
  /\ IsField(p.default) => Hints(p) = {}
  /\ p.type = "message" => ~Depends(p) /\ Given(p) = {}
  /\ p.inPath /\ HasField(p) => Kind(p) = "Path"

(* Those of get_dependant: a message makes no field, and what is not a     *)
(* Body must be of a scalar type.                                          *)
Placeable(p) ==
  Depends(p) \/ (p.type # "message" /\ (Kind(p) = "Body" \/ p.type = "field"))

UsesBody(p) == ~Depends(p) /\ Kind(p) = "Body"

\* mutant: the FieldInfo in Annotated is used as it is
AnalysedInPlace(p, slot) ==
  IF Given(p) # {} THEN CHOOSE m \in Given(p) : TRUE ELSE slot

(* A FieldInfo in Annotated is copied, one given as the default is used as *)
(* it is, and without either a new one is made.                            *)
Analysed(p, slot) == IF IsField(p.default) THEN p.default ELSE slot

\* mutant: the annotation and the default are swapped
ChangedSwapped(p, slot) ==
  [info EXCEPT ![Analysed(p, slot)] = [alias |-> p.name, embed |-> FALSE, type |-> p.default]]

(* The alias, once set, is kept: a second parameter with the same object is*)
(* read under the first one's name.                                        *)
Changed(p, slot) ==
  LET from == IF Given(p) # {} THEN CHOOSE m \in Given(p) : TRUE ELSE slot
      alias == IF info[from].alias # "" THEN info[from].alias ELSE p.name
  IN  [info EXCEPT ![Analysed(p, slot)] =
         [alias |-> alias, embed |-> info[from].embed, type |-> p.type]]

-----------------------------------------------------------------------------
(* Importing a class.                                                      *)

Importing == {k \in Classes : status[k] = "importing"}
Current(k) == functions[k][next[k]]
Decorating(k) == status[k] = "importing" /\ next[k] <= Len(functions[k])

(* One class at a time: an import runs to its end.                         *)
Import(k) ==
  /\ status[k] = "new" /\ Importing = {}
  /\ status' = [status EXCEPT ![k] = "importing"]
  /\ UNCHANGED <<registry, next, fields, info>>

\* mutant: only the function itself must be new
SelfTaken(f) == f \in registry

Taken(f) == path[f] \in {path[g] : g \in registry}

(* ValueError: "Method name ... is already registered".                    *)
PathIsTaken(k) ==
  /\ Decorating(k) /\ Taken(Current(k))
  /\ status' = [status EXCEPT ![k] = "failed"]
  /\ UNCHANGED <<registry, next, fields, info>>

(* get_dependant, one parameter, of which the declaration is chosen here.  *)
Analyse(k) ==
  /\ Decorating(k) /\ ~Taken(Current(k))
  /\ LET f == Current(k)  j == Len(fields[f]) + 1 IN
       /\ j <= Len(declarations[f])
       /\ \E p \in declarations[f][j] :
            /\ Analysable(p) /\ Placeable(p)
            /\ info' = IF HasField(p) THEN Changed(p, <<f, j>>) ELSE info
            /\ fields' = [fields EXCEPT ![f] = Append(@,
                 [param |-> p, info |-> IF UsesBody(p) THEN Analysed(p, <<f, j>>) ELSE NoInfo])]
  /\ UNCHANGED <<registry, status, next>>

(* What analyze_param has changed when an assertion fails, its own or one  *)
(* of get_dependant: a shared default has been given this annotation.      *)
Touched(p, slot) ==
  IF Analysable(p) THEN IF HasField(p) THEN Changed(p, slot) ELSE info
  ELSE IF IsField(p.default) /\ Hints(p) = {} /\ \A m, n \in p.marks : m = n
       THEN [info EXCEPT ![p.default].type = p.type] ELSE info

(* AssertionError.                                                         *)
AnalysisFails(k) ==
  /\ Decorating(k) /\ ~Taken(Current(k))
  /\ LET f == Current(k)  j == Len(fields[f]) + 1 IN
       /\ j <= Len(declarations[f])
       /\ \E p \in declarations[f][j] :
            /\ ~(Analysable(p) /\ Placeable(p))
            /\ info' = Touched(p, <<f, j>>)
  /\ status' = [status EXCEPT ![k] = "failed"]
  /\ UNCHANGED <<registry, next, fields>>

BodyInfos(f) == {fields[f][j].info : j \in DOMAIN fields[f]} \ {NoInfo}

(* get_body_field: what is not a model is read by its name.                *)
get_body_field(f) ==
  [i \in Infos |->
    IF i \in BodyInfos(f) /\ info[i].type # "model"
    THEN [info[i] EXCEPT !.embed = TRUE] ELSE info[i]]

\* mutant: registers the function before its signature is analysed
RegisterEarly(k) ==
  /\ Decorating(k) /\ ~Taken(Current(k))
  /\ registry' = registry \cup {Current(k)}
  /\ info' = get_body_field(Current(k))
  /\ next' = [next EXCEPT ![k] = @ + 1]
  /\ UNCHANGED <<status, fields>>

Register(k) ==
  /\ Decorating(k) /\ ~Taken(Current(k))
  /\ Len(fields[Current(k)]) = Len(declarations[Current(k)])
  /\ info' = get_body_field(Current(k))
  /\ registry' = registry \cup {Current(k)}
  /\ next' = [next EXCEPT ![k] = @ + 1]
  /\ UNCHANGED <<status, fields>>

Loaded(k) ==
  /\ status[k] = "importing" /\ next[k] > Len(functions[k])
  /\ status' = [status EXCEPT ![k] = "loaded"]
  /\ UNCHANGED <<registry, next, fields, info>>

Next ==
  \E k \in Classes :
    \/ Import(k) \/ PathIsTaken(k) \/ Analyse(k) \/ AnalysisFails(k)
    \/ Register(k) \/ Loaded(k)

Spec == Init /\ [][Next]_vars

-----------------------------------------------------------------------------
(* What a request runs, by the class of the methods object and the method  *)
(* it names.                                                               *)

(* Any attribute of the function's name will do.                           *)
get_method(k, p) == {f \in registry : path[f] = p /\ name[f] \in attributes[k]}

(* The names that on_request answers itself are looked up nowhere, whether *)
(* or not a function has been registered under them.                       *)
on_request(k, p) == IF p \in BuiltIns THEN {} ELSE get_method(k, p)

(* "calling relevant exposed method" (on_request): a class that could be   *)
(* imported serves each of its functions, and nothing else under the same  *)
(* path, whatever is imported before or after.  Nothing is asked of those  *)
(* that are "protected and ignored": the code serves them like any other.  *)
LoadedServesItsOwn ==
  \A k \in Classes : status[k] = "loaded" =>
    \A i \in DOMAIN functions[k] :
      LET f == functions[k][i] IN
        f \notin Protected /\ path[f] \notin BuiltIns => on_request(k, path[f]) = {f}

(* No class, loaded or failed, leaves a method behind whose signature has  *)
(* not been accepted to the last parameter.                                *)
OnlyWholeMethods ==
  \A f \in registry :
    /\ Len(fields[f]) = Len(declarations[f])
    /\ \A j \in DOMAIN fields[f] :
         Analysable(fields[f][j].param) /\ Placeable(fields[f][j].param)

(* The body parameters that have a FieldInfo of their own: not a default,  *)
(* which others may have as well.                                          *)
OwnField(d) == d.info # NoInfo /\ ~IsField(d.param.default)

(* Whatever is imported later, a registered method reads its parameters as *)
(* it did.                                                                 *)
ReadingIsStable ==
  [][\A f \in registry : \A j \in DOMAIN fields[f] :
       LET d == fields[f][j] IN OwnField(d) => info'[d.info] = info[d.info]]_vars

(* "calling relevant exposed method" (on_request): what a methods object   *)
(* serves is exposed by its class.                                         *)
ServesOnlyItsOwn ==
  \A k \in Classes : status[k] = "loaded" =>
    \A p \in Paths : \A f \in on_request(k, p) :
      \E i \in DOMAIN functions[k] : f = functions[k][i]

=============================================================================
