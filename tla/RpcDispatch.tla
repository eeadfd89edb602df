---------------------------- MODULE RpcDispatch ----------------------------
(***************************************************************************)
(* What one side does with one message: RpcChannel.on_message decides what *)
(* it is, on_request finds the method, and the method's app solves its     *)
(* dependencies, checks its parameters, calls it and shapes the response.  *)
(*                                                                         *)
(* A method's dependencies form a tree of uses (sub_dependant): each use   *)
(* names a callable, its own dependencies in the order of its parameters,  *)
(* and the parameters it takes from the request's body.  Every call of a   *)
(* callable is awaited, so a step of this module is what happens between   *)
(* two awaits.  solve_dependencies is recursive: its frames are in stack.  *)
(*                                                                         *)
(* No dependency_overrides_provider is ever passed: overrides are left out.*)
(***************************************************************************)
EXTENDS Naturals, Sequences

CONSTANTS
  Uses, root,   \* the uses of the called method, and the method itself
  callable,     \* what each use calls
  deps,         \* the dependencies of each use, in order
  Cached,       \* the uses declared with use_cache
  params,       \* the body parameters of each use, in order
  Whole,        \* the parameters whose type is a model: they read the whole body
  Required,     \* the parameters that cannot be left out
  NoId, NoValue, NoReply

Callables == {callable[u] : u \in Uses}
Params == UNION {{params[u][i] : i \in DOMAIN params[u]} : u \in Uses}
Needs(u) == {deps[u][i] : i \in DOMAIN deps[u]}

(* No function is its own dependency, nor another's of the same request:   *)
(* methods are called for by name only.                                    *)
ASSUME DispatchAssumption ==
  /\ root \in Uses
  /\ callable \in [Uses -> Callables]
  /\ \A u \in Uses : callable[u] = callable[root] => u = root
  /\ Cached \subseteq Uses
  /\ deps \in [Uses -> Seq(Uses \ {root})]
  /\ NoValue \notin Nat
  /\ params \in [Uses -> Seq(Params)]
  /\ Whole \subseteq Params /\ Required \subseteq Params

(* The uses are the method, what it needs, what they need and so on.       *)
ASSUME UsesAssumption ==
  \A S \in SUBSET Uses : (root \in S /\ \A u \in S : Needs(u) \subseteq S) => S = Uses

VARIABLES
  message,      \* the message that was read
  fits,         \* how what each parameter looks itself up in suits it
  phase,        \* where its handling stands
  stack,        \* the frames of solve_dependencies, the innermost last
  values,       \* what each use was solved to
  cache,        \* dependency_cache
  errors,       \* the errors found so far
  runs,         \* history: the uses whose callable was called, in order
  reply         \* the message sent in return

request == <<message, fits>>
solving == <<stack, values, cache, errors>>
vars == <<request, phase, solving, runs, reply>>

Frame(u) == [use |-> u, next |-> 1, bad |-> {}]
Top == stack[Len(stack)]

Frames == [use : Uses, next : Nat, bad : SUBSET (Uses \X Params)]
Kinds == {"ping", "get_channel_id", "method", "unknown", "response", "invalid"}
Codes == {"result", "INVALID_REQUEST", "METHOD_NOT_FOUND", "INVALID_PARAMS",
          "INTERNAL_ERROR", "status_code"}

(* The body of a request is its params: a dictionary, or null (schemas.py).*)
Messages == [kind : Kinds, id : {"id", NoId}, params : {"dictionary", "null"}]

TypeOK ==
  /\ message \in Messages
  /\ fits \in [Params -> {"good", "bad", "missing"}]
  /\ phase \in {"received", "solving", "calling", "replied", "delivered", "cancelled"}
  /\ stack \in Seq(Frames)
  /\ values \in [Uses -> Nat \cup {NoValue}]
  /\ cache \in [Callables -> Nat \cup {NoValue}]
  /\ errors \subseteq Uses \X Params
  /\ runs \in Seq(Uses)
  /\ reply \in [id : {"id", NoId}, code : Codes] \cup {NoReply}

(* fits is about dictionaries, the body or a wrapper of it: a parameter    *)
(* that reads one whole is not missing.  What null does, Given says.       *)
Init ==
  /\ message \in Messages
  /\ fits \in [Params -> {"good", "bad", "missing"}]
  /\ \A p \in Whole : fits[p] # "missing"
  /\ phase = "received"
  /\ stack = <<>>
  /\ values = [u \in Uses |-> NoValue]
  /\ cache = [c \in Callables |-> NoValue]
  /\ errors = {}
  /\ runs = <<>>
  /\ reply = NoReply

-----------------------------------------------------------------------------
(* on_message and on_request.                                              *)

Send(id, code) ==
  /\ reply' = [id |-> id, code |-> code]
  /\ phase' = "replied"
  /\ stack' = <<>>

\* mutant: the built-in methods' responses keep the id they were made with
PingWithoutId ==
  /\ phase = "received" /\ message.kind \in {"ping", "get_channel_id"}
  /\ Send(NoId, "result")
  /\ UNCHANGED <<request, values, cache, errors, runs>>

on_request_built_in ==
  /\ phase = "received" /\ message.kind \in {"ping", "get_channel_id"}
  /\ Send(message.id, "result")
  /\ UNCHANGED <<request, values, cache, errors, runs>>

(* Not registered, or registered and no attribute of this side's methods.  *)
on_request_unknown ==
  /\ phase = "received" /\ message.kind = "unknown"
  /\ Send(message.id, "METHOD_NOT_FOUND")
  /\ UNCHANGED <<request, values, cache, errors, runs>>

on_request_method ==
  /\ phase = "received" /\ message.kind = "method"
  /\ phase' = "solving"
  /\ stack' = <<Frame(root)>>
  /\ UNCHANGED <<request, values, cache, errors, runs, reply>>

on_message_response ==
  /\ phase = "received" /\ message.kind = "response"
  /\ phase' = "delivered"
  /\ UNCHANGED <<request, solving, runs, reply>>

on_message_invalid ==
  /\ phase = "received" /\ message.kind = "invalid"
  /\ Send(NoId, "INVALID_REQUEST")
  /\ UNCHANGED <<request, values, cache, errors, runs>>

-----------------------------------------------------------------------------
(* request_body_to_args for the parameters of u.  A parameter that reads   *)
(* the whole body wraps it, {alias: body}, and the wrapper is what the     *)
(* parameters after it look themselves up in.                              *)
Wrapped(u, i) == \E j \in 1..(i - 1) : params[u][j] \in Whole

(* A second model is given the wrapper, a dictionary whatever the body is: *)
(* fits says how that suits it.  Of a null body all else is missing.       *)
Given(u, i) ==
  LET p == params[u][i] IN
    IF IF Wrapped(u, i) THEN p \notin Whole ELSE message.params = "null"
      THEN "missing" ELSE fits[p]

Errs(u, i) ==
  \/ Given(u, i) = "bad"
  \/ Given(u, i) = "missing" /\ params[u][i] \in Required

\* mutant: the errors do not say whose parameter it is
BodyErrorsByName(u) == {params[u][i] : i \in {j \in DOMAIN params[u] : Errs(u, j)}}

BodyErrors(u) == {<<u, params[u][i]>> : i \in {j \in DOMAIN params[u] : Errs(u, j)}}

(* solve_dependencies, one frame: first the dependencies, in order ...     *)
Descend ==
  /\ phase = "solving" /\ Top.next <= Len(deps[Top.use])
  /\ stack' = Append(stack, Frame(deps[Top.use][Top.next]))
  /\ UNCHANGED <<request, phase, values, cache, errors, runs, reply>>

\* mutant: the first dependency with errors ends the caller's loop
PopAndBreak(bad) ==
  LET below == SubSeq(stack, 1, Len(stack) - 1)  n == Len(below) IN
    stack' = [below EXCEPT ![n].bad = @ \cup bad,
                ![n].next = IF bad = {} THEN @ + 1 ELSE Len(deps[below[n].use]) + 1]

(* A frame is left with the errors bad: what remains is its caller, which  *)
(* goes on with its next dependency.                                       *)
Pop(bad) ==
  LET below == SubSeq(stack, 1, Len(stack) - 1)  n == Len(below) IN
    stack' = [below EXCEPT ![n] =
      [use |-> @.use, next |-> @.next + 1, bad |-> @.bad \cup bad]]

Solved == phase = "solving" /\ Top.next > Len(deps[Top.use])
FrameErrors == Top.bad \cup BodyErrors(Top.use)

(* ... then the body.  With errors below it or in it, a dependency is not  *)
(* called.                                                                 *)
SkipDependency ==
  /\ Solved /\ Len(stack) > 1 /\ FrameErrors # {}
  /\ Pop(FrameErrors)
  /\ UNCHANGED <<request, phase, values, cache, errors, runs, reply>>

Hit == Top.use \in Cached /\ cache[callable[Top.use]] # NoValue

UseCached ==
  /\ Solved /\ Len(stack) > 1 /\ FrameErrors = {} /\ Hit
  /\ values' = [values EXCEPT ![Top.use] = cache[callable[Top.use]]]
  /\ Pop({})
  /\ UNCHANGED <<request, phase, cache, errors, runs, reply>>

Call ==
  /\ phase' = "calling"
  /\ runs' = Append(runs, Top.use)

CallDependency ==
  /\ Solved /\ Len(stack) > 1 /\ FrameErrors = {} /\ ~Hit
  /\ Call
  /\ UNCHANGED <<request, solving, reply>>

-----------------------------------------------------------------------------
(* The await of a callable ends.  Its value is fresh.                      *)

\* mutants: only what use_cache asked for is stored; everything always is
StoreIfCached(u, v) ==
  IF u \in Cached THEN [cache EXCEPT ![callable[u]] = v] ELSE cache
StoreAlways(u, v) == [cache EXCEPT ![callable[u]] = v]

(* The first value is kept, whether or not the use asked for use_cache.    *)
Store(u, v) == [cache EXCEPT ![callable[u]] = IF @ = NoValue THEN v ELSE @]

DependencyReturns ==
  /\ phase = "calling" /\ Len(stack) > 1
  /\ phase' = "solving"
  /\ values' = [values EXCEPT ![Top.use] = Len(runs)]
  /\ cache' = Store(Top.use, Len(runs))
  /\ Pop({})
  /\ UNCHANGED <<request, errors, runs, reply>>

(* HTTPException: its status code and its detail make the error; a detail  *)
(* that is no string is refused by RpcError, and the ValidationError makes *)
(* on_message take the request for an invalid message.  Any other exception*)
(* is an internal error.  (A callable that itself raises                   *)
(* RequestValidationError is left out.)                                    *)
CallRaises ==
  /\ phase = "calling"
  /\ \/ Send(message.id, "status_code")
     \/ Send(NoId, "INVALID_REQUEST")
     \/ Send(message.id, "INTERNAL_ERROR")
  /\ UNCHANGED <<request, values, cache, errors, runs>>

\* mutant: the method is called although there are errors
CallMethodAnyway ==
  /\ Solved /\ Len(stack) = 1
  /\ Call
  /\ UNCHANGED <<request, solving, reply>>

(* app: all is solved, and there are errors, or none.                      *)
RejectParams ==
  /\ Solved /\ Len(stack) = 1 /\ FrameErrors # {}
  /\ errors' = FrameErrors
  /\ Send(message.id, "INVALID_PARAMS")
  /\ UNCHANGED <<request, values, cache, runs>>

CallMethod ==
  /\ Solved /\ Len(stack) = 1 /\ FrameErrors = {}
  /\ Call
  /\ UNCHANGED <<request, solving, reply>>

(* A value that the response model refuses is an error.                    *)
serialize_response == {"result", "INTERNAL_ERROR"}

MethodReturns ==
  /\ phase = "calling" /\ Len(stack) = 1
  /\ \E code \in serialize_response : Send(message.id, code)
  /\ UNCHANGED <<request, values, cache, errors, runs>>

(* The reader is cancelled in the await: CancelledError is no Exception.   *)
Cancel ==
  /\ phase = "calling"
  /\ phase' = "cancelled" /\ stack' = <<>>
  /\ UNCHANGED <<request, values, cache, errors, runs, reply>>

Next ==
  \/ on_request_built_in \/ on_request_unknown \/ on_request_method
  \/ on_message_response \/ on_message_invalid
  \/ Descend \/ SkipDependency \/ UseCached \/ CallDependency
  \/ DependencyReturns \/ CallRaises
  \/ RejectParams \/ CallMethod \/ MethodReturns \/ Cancel

Spec == Init /\ [][Next]_vars

-----------------------------------------------------------------------------
(* Safety.                                                                 *)

Ran == {runs[i] : i \in DOMAIN runs}

(* Nothing is called before all it depends on is solved, nor with a        *)
(* parameter that was in error: the method, above all, sees no call that   *)
(* one of its dependencies (an access check, say) has not let through.     *)
NothingRunsUnchecked ==
  \A u \in Ran : BodyErrors(u) = {} /\ \A d \in Needs(u) : values[d] # NoValue

(* A callable is called once per request for all the uses that share it.   *)
CachedCallsRunOnce ==
  \A i, j \in DOMAIN runs :
    i < j /\ runs[j] \in Cached => callable[runs[i]] # callable[runs[j]]

(* Uses that share a callable through the cache get the same value, though *)
(* a use without the cache may have called it again in between.            *)
CachedUsesAgree ==
  \A u, v \in Cached :
    callable[u] = callable[v] /\ values[u] # NoValue /\ values[v] # NoValue =>
      values[u] = values[v]

(* A rejected request lists every error of every use, even of those behind *)
(* a dependency that was skipped, be its params a dictionary or null.      *)
AllErrorsReported ==
  reply # NoReply /\ reply.code = "INVALID_PARAMS" =>
    errors = UNION {BodyErrors(u) : u \in Uses}

(* Every reply carries the id of its request; only one that says the       *)
(* message was invalid carries none.                                       *)
ReplyCarriesId ==
  reply # NoReply /\ reply.code # "INVALID_REQUEST" => reply.id = message.id

=============================================================================
