# A TLA+ verification of fastapi_websocket_rpc

This directory models the RPC library under `src/fastapi_websocket_rpc`: how a
call travels from a coroutine over a websocket to a method on the other side and
back, and what becomes of it when anything on the way stops, fails, times out or
is closed. The modules are translated from the Python source; `PROJECT.json` maps
every definition to the lines it stands for.

Contents: the system and its parts; the modules; the runs; fairness; the proofs;
what was found; what is not modelled; the plan.

## 1. The system

### Components

| part | source | state it keeps | operations |
|---|---|---|---|
| RpcChannel | `rpc_channel.py` | `requests` (id -> promise), `responses` (id -> response), `_closed` event, the channel id exchange, three lists of callbacks | `call`, `async_call`, `wait_for_response`, `on_message`, `on_request`, `on_response`, `close`, `on_connect`, `on_disconnect`, `get_other_channel_id` |
| methods | `rpc_methods.py` | the registry `rpc_call._rpc_dict` (one for the process), the channel each methods object belongs to | `rpc_call(...)`, `get_method`, `_copy_`, `_ping_`, `_get_channel_id_`, `call_me_back`, `get_response` |
| signatures | `utils.py`, `rpc_method.py` | the FieldInfo objects that declarations may share | `get_dependant`, `analyze_param`, `get_body_field`, when a function is decorated |
| method app | `rpc_method.py` | none per request (the dependant is built once) | `app`: solve, check, call, serialize |
| dependencies | `utils.py` | `dependency_cache`, errors and values of one request | `solve_dependencies`, `request_body_to_args` |
| server endpoint | `websocket_rpc_endpoint.py` | none of its own; one `main_loop` coroutine per websocket | `main_loop`, `handle_disconnect` |
| connection manager | `connection_manager.py` | `active_connections` | `connect`, `disconnect` |
| client | `websocket_rpc_client.py` | `ws`, `channel`, `_read_task`, `_keep_alive_task` | `__aenter__`, `__connect__`, `wait_on_rpc_ready`, `reader`, `_keep_alive`, `close`, `wait_on_reader` |
| socket wrappers | `simplewebsocket.py`, handlers in the two files above | the websocket | `send`, `recv`, `close` |
| schemas, logger | `schemas.py`, `logger.py` | none | data classes, logging |

### How they interact

A websocket has an RpcChannel at each end. On the server `main_loop` accepts,
builds the channel, awaits the on_connect callbacks and then loops: `recv`,
`channel.on_message`. On the client `__connect__` dials, starts a reader task
with the same loop and, perhaps, a keep-alive task, pings until the server
answers, and awaits its own on_connect callbacks. `on_message` awaits
`on_request` or `on_response`; `on_request` awaits the method, and the method may
use the channel to call the other side back. A caller awaits `send`, saves a
promise, and waits for the promise's event, the channel's close event or a
timeout. All of one side runs in one asyncio event loop: what is atomic is
whatever lies between two awaits that suspend.

One process has one registry of methods, filled while modules are imported, and
may give one methods object to many channels: each channel takes a copy and
makes itself the copy's channel. With `rpc_channel_get_remote_id` the server's
channel asks the client's for its id, in a task of its own that `on_connect`
starts; `get_other_channel_id` waits for that task's event.

### What is hard here

* **Interleaving at awaits.** `async_call` awaits `send` before it saves the
  promise; the reader runs meanwhile. `close()` is run by the user and by the
  reader at once, and each cancels the tasks the other may be in.
* **One reader per side.** Requests are handled where they are read. While a
  method runs, nothing is read: neither an answer to it nor the end of the
  connection.
* **Exceptions decide the path.** `main_loop` has four kinds of `except` around
  each other, and code in each of them that can raise again.
* **Retries on shared attributes.** A new attempt to connect overwrites `ws`,
  `channel` and both tasks of the old one, whose coroutines may still run.
* **Timeouts against late answers**, flow control, cancellation of a task that
  cancels itself, and of a coroutine that tenacity retries or that is cleaning up.
* **Waiting for a task nobody awaits.** The exchange of ids ends in an event that
  is never set when the task fails.
* **Shared objects changed in place**: one registry for all classes, FieldInfo
  objects that `analyze_param` writes to, imports that fail half way.
* **A websocket without a client address** (behind a unix socket): the log
  statements of the paths that clean up raise themselves.
* **Recursion with a shared cache** in `solve_dependencies`, whose errors must
  not let a method through.

`PROJECT.json` lists each at its line under "hazards", with the properties that
watch it.

### What makes each part correct

* Channel: an answer goes to the call it answers, once; calls that returned leave
  nothing behind; no call with a timeout, and no call on a closed channel, hangs;
  a saved answer is never lost to a timeout or a close.
* Two channels: nothing vanishes on a live wire, answers keep the order of
  requests, each side behaves as a channel, the end of the connection releases
  everyone whose reader can still see it.
* Endpoint: the manager lists the served websockets and no others on all paths;
  the on_disconnect callbacks run once, after everything is closed; a lost
  connection comes to its end unless the user's own code holds it up.
* Client: a failed attempt leaves nothing alive; callbacks are called just once;
  nothing outlives the client; a dropped connection closes the channel, unless the
  reader stays in a method or has died.
* Dispatch: nothing is called unchecked; the cache is consistent; all errors are
  reported; a reply carries its request's id.
* Identity: the id a server learns is that of the client at the other end of that
  very connection; who waits for it gets it or nothing, and learns it where
  nothing keeps the channel from reading.
* Registry: a class that was imported serves all its functions and no other under
  their paths, but for the paths the channel keeps to itself; what is registered was accepted as a whole and is read the same way
  for good.

## 2. The modules

| module | models | lines |
|---|---|---|
| `RpcCall` | what one side promises about its calls: the abstract specification | - |
| `RpcChannel` | one side's channel: callers, reader, closing; the other side is the environment | `rpc_channel.py`, `rpc_methods.py` |
| `RpcChannelProofs` | theorems about `RpcChannel` | |
| `RpcPeers` | two channels, their wires and their readers; composes `RpcChannel` twice | `rpc_channel.py`, `rpc_methods.py`, the loops of endpoint and client |
| `RpcPeersProofs` | theorems about `RpcPeers`: each side is a channel | |
| `RpcPeersOrderProofs` | theorems about `RpcPeers`: what is on the wires, in which order, and recursive calls | |
| `RpcEndpoint` | `main_loop` per websocket, and the manager | `websocket_rpc_endpoint.py`, `connection_manager.py` |
| `RpcEndpointProofs` | theorems about `RpcEndpoint` | |
| `RpcClient` | connecting, reader, keep-alive, close, cancellation | `websocket_rpc_client.py` |
| `RpcClientProofs` | theorems about `RpcClient` | |
| `RpcIdentity` | the exchange of channel ids and who waits for it; several connections over one methods object at each end | `rpc_channel.py`, `rpc_methods.py`, `websocket_rpc_endpoint.py` |
| `RpcIdentityProofs` | theorems about `RpcIdentity` | |
| `RpcRegistry` | decorating functions: the registry, and the analysis of their signatures | `rpc_methods.py`, `rpc_method.py`, `utils.py` |
| `RpcRegistryProofs` | theorems about `RpcRegistry` | |
| `RpcDispatch` | one message: classification, dependencies, call, reply | `rpc_channel.py`, `rpc_method.py`, `utils.py` |
| `RpcDispatchProofs` | theorems about `RpcDispatch` | |
| `MC*` | instances of the above for TLC | |

**RpcCall.** Each call has a `status`: new, open, answered, returned, failed.
`Fail` is possible from new and open only: once its answer has arrived, a call
can no longer fail, except by cancellation (`Abandon`).

**RpcChannel.** `task[c]` is where the coroutine of call `c` stands: `sending` is
the await of `send` in `async_call`, `waiting` the `asyncio.wait` of
`wait_for_response`, `registered` a call of `call_me_back` that nobody awaits.
`requests` and `responses` are the two dictionaries, `event` the promises' events.
`async_call` either suspends in `send` (only the calls in `Suspending` may) or runs
on and saves the promise; `wait_for_response` and `wait_for_response_raises` are
the two ways out of the wait, decided as in the code by what `responses` holds and
not by which event came first. `on_response` keeps an answer only while its promise
is saved. `get_response` is the other side's way to fetch the answer of a detached
call. `CancelCall` is `asyncio.wait_for` around a ping. `peer` and `answer` are the
other side: it answers a request at most once, in any order, with a payload or with
an error that carries no id. `async_call_send_fails` is a send on a websocket that is
shut, and arguments that cannot be serialized, on an open one. The method
`get_response` takes any id; the other side is assumed to ask only for ids it was
given, those of detached calls (with the id of an awaited call it would take that
call's answer from its caller, and with another it gets an error).

**RpcPeers.** The environment of `RpcChannel` replaced by the other channel. Every
call is a constant with its maker and its kind, that is, what its method does: answer,
raise, make a nested call and await it, start a task that makes a call, fetch the answer
of one. Such a method ends by itself or with its nested call; methods that hang for
reasons of their own are in `RpcEndpoint` and `RpcClient`, arguments that cannot be
serialized in `RpcChannel`. `reader` and `handling` say what the one reader of a side is
doing. The task of call_me_back may make its call at any time after the request was
taken (`Begun`), before or after the reply and also on a connection that is down. The
wire of each direction is a queue; a send returns when at most `HighWater` messages are
on it. `LinkDrops` can come at any time; messages already received may still be read.
`ReaderSeesEnd` is the end of a reader: the client's closes its channel only if it was
`recv` that told it, and dies of a reply that cannot be sent; `main_loop` closes its
channel unless `channel.close()` raises as well, or no handler is reached
("failed"). `ReaderFails` is an exception out of `recv` in the client's reader, on a
live connection too. `unanswered` is a history variable used by `AnswersInOrder`: the
requests of each side as they were sent, of which every answer takes the first.

**RpcEndpoint.** `at[c]` is the await at which the `main_loop` of websocket `c`
stands; each way an await can end is an action. Three of the awaits are the user's
code, the on_connect callbacks ("greeting"), a method ("calling") and the on_disconnect
callbacks ("farewell"), and nothing makes them return; "answering" and "reporting" are
sends. `app` and `client` are Starlette's two connection states: `app` is shut by
`channel.close()` (`ServerCloses`) and by a send to a client that has left
(`SendToGone`, `CallToGone`). A receive that is suspended when another task closes the
websocket still gets its disconnect (`RecvDisconnect`), whereas a new one raises
(`Receive`). `AbortRaises` is `channel.close()` on a websocket the application has
closed; where only the client has left it returns (`AbortCloses`). `FailToServe` is the
bare `except` with `manager.disconnect`, whose `list.remove` raises when the websocket
is not in the list. A websocket in `Portless` has no client address: the first log
statement that names its port raises, before anything is cleaned up (`Catch`,
`FailToServe`).

**RpcClient.** `phase` is where the user's coroutine stands. Everything else is per
attempt to connect, because a task left over from an earlier attempt uses the
client's current attributes: `reader`, `keeper`, `ws`, `closed`, `callbacks`. `sock` is
the attempt whose websocket is `self.ws`, which `__connect__` replaces before it
connects; `reads` is the websocket each reader's `recv` is on. A reader is "reading" in
`recv` or "serving" in `on_message`, and while it serves it sees nothing of its
websocket. `doomed` holds tasks that have been cancelled and have not run since;
`callbacks` tells callbacks that `gather` has scheduled from those that run, because a
cancelled task that has not started runs none of its code. `wait_on_reader` returns
(`JoinEnds`) or raises what the reader died of (`JoinRaises`). The user's coroutine may
itself be cancelled wherever it awaits: while connecting tenacity takes that for a
failure and tries again, in `wait_on_reader` it cancels the reader instead, in a cleanup
or in `close()` it skips the rest; `torn` remembers the attempts that happened to.

**RpcIdentity.** `channel` is the `_channel` of every methods object, the originals
and the copies; `sync` is the task of `_get_other_channel_id`, `ask` and `reply` its
one call, `synced` the event. A waiter is an await of `get_other_channel_id` in an
on_connect callback, in a method or in a task: the first two keep `main_loop` from
reading the answer. `main_loop` is reduced to when it reads; `RpcEndpoint` has the
rest, as `RpcChannel` has that of the call.

**RpcRegistry.** An import decorates the functions of a class one after the other,
and a decorator analyses a signature parameter by parameter: a step each. A
parameter is a record of what its declaration says, and `declarations` gives the
alternatives an instance ranges over. `info` is the content of every FieldInfo
object: `Analysed` says which object a parameter gets (a copy, one of its own, or
the very object given as its default, which others may share), `Changed` what
`analyze_param` writes into it, `Touched` what it has written when it fails.
`on_request` is what the models above take for granted: the channel answers the paths
in `BuiltIns` itself and leaves the rest to `get_method`. `Protected` are the functions
whose names begin with an underscore, which the docstring of `on_request` claims are
ignored.

**RpcDispatch.** `stack` holds the frames of `solve_dependencies`; a use is a
sub-dependant. `fits` says how the body suits each parameter; without arguments the
body is null, and then a parameter that is the whole body is missing. `Wrapped` is
`received_body = {field.alias: received_body}`, which stays in force for the
parameters that follow. The recursion is an explicit stack, so that the module has
no RECURSIVE operator and can be proved about.

## 3. The runs

All runs use plain model values; none uses symmetry (the instances with liveness
properties may not).

| run | instance | shows |
|---|---|---|
| `channel` | two awaited calls, one with timeout and cancellable, one detached; the first and the detached one may suspend in send; two payloads | `ResponsesArePending` (`clear_saved_call` never meets a missing key); `ReturnedIsForgotten`; `PromptCallsAreAnswered`; `TimedCallEnds`, `CloseReleasesCallers`; `ImplementsRpcCall`, liveness of RpcCall included |
| `channel_lost` | the same | **violated**: `NoAnswerLost` |
| `peers` | the client calls a method that calls back with a timeout, a method that itself calls back without one; call_me_back, whose call may end in an error without id, and get_response; readers that die; `HighWater` 1 | `NothingVanishes`, `AnswersInOrder`, `ImplementsChannels`, `CallsEnd`, `DropReleasesCallers` |
| `peers_recursive` | one recursive call and its nested call, no timeout | **violated**: `RecursiveCallsEnd` |
| `endpoint` | three websockets on one manager; one whose on_connect callbacks call back, one without a client address; callbacks that raise; cancellation; user's code that need not return | `ManagerTracksServed`, `FarewellComesLast`, `LostConnectionEnds` |
| `endpoint_silent` | two plain websockets | **violated**: `DisconnectionsAreNotified` |
| `client` | two attempts, two pings each, keep-alive, quick timeout, callbacks that raise, two cancellations | `OldAttemptsAreDead`, `NothingIsLeftBehind`, `NotifiedJustOnce`, `DropClosesChannel`, `JoinReturns` |
| `client_dropped` | one attempt, no cancellation | **violated**: `DisconnectCallbacksAreCalled` |
| `identity` | a connection on which the question may suspend, time out or be answered with an error, with a waiter in a callback and one in a method; and one that nothing disturbs, with a waiter in a task | `KnownIdIsTheOthers`, `WaitersGetTheId`, `SyncTaskEnds`, `WaitersLearn` |
| `registry` | three classes of which two share a path and two an attribute; six functions with up to two parameters, one under a path the channel answers itself; markers of every kind, given and shared in every way | `LoadedServesItsOwn`, `OnlyWholeMethods`, `ReadingIsStable` |
| `registry_homonym` | the same | **violated**: `ServesOnlyItsOwn` |
| `dispatch` | a method with four dependencies over two callables, cached and not, and three body parameters, a model, a field and a model; every fit of the body, null included; every kind of message | `NothingRunsUnchecked`, `CachedCallsRunOnce`, `CachedUsesAgree`, `AllErrorsReported`, `ReplyCarriesId` |

Every passing run also checks the module's `TypeOK`.

Bounds and why they are enough:

* *Calls* of a channel interact only through `closed` and `socket`: every action
  concerns one call. Two awaited calls of different kinds and a detached one cover
  all kinds of call and each pair of kinds; two payloads show a mixed-up answer. The proofs
  then cover any number.
* *Peers*: six calls give each side something to call and to answer at once, and fill
  both wires beyond `HighWater`, so that suspended sends, the missed answer and
  the mutual block all happen. Two levels of nesting put a reader at each end into a
  method that awaits a nested call: one with a timeout, which ends, and one without,
  which nothing ends (`Deaf`). One message of room keeps sends that do not suspend.
* *Websockets* share only the list, which two fill; the third is the one without an
  address. *Attempts* interfere only with their successor; two *pings* separate a
  middle from the last timeout; two *cancellations* (`MaxCancels`) are what it takes
  to cancel the handshake and then the cleanup that this causes.
* *Connections* of `RpcIdentity` share only the two methods objects, which two
  connections would mix up.
* *Parameters*: analysis looks at one at a time, and at what earlier ones, of the
  same function or of another, have left in a shared object; two of a function and
  several functions show both. A function has at most three (`Slots`).
* *Dispatch*: the order uncached, cached, uncached, cached over one callable is
  the shortest that tells apart all ways of filling the cache.

The largest are `peers` (about 308000 distinct states, two to three minutes with two
workers) and `client` (229000, about a minute).

Deadlock checking is off in every run: calls are made once, attempts are bounded,
websockets are served once, a message is handled once, so every instance really
comes to rest. That nothing comes to rest too early is what the liveness
properties say.

Every property of a passing run is broken by a mutant of a mapped definition: a
dropped guard, a response kept without its promise, a close event not waited for,
tasks of a failed attempt left running, `continue` turned into `break`.

## 4. Fairness

What asyncio promises is assumed: the event loop runs every coroutine that is ready,
timers fire, a suspended send ends because the transport drains or the connection is
lost. That is weak fairness on the continuation of each await. Not assumed in any
module: that a user calls or closes, that a client leaves, that a connection drops.

What is assumed of the user's code differs from module to module:

* `RpcEndpoint`: nothing. A method and the callbacks may stay where they are for good,
  and `LostConnectionEnds` excepts just the connections whose `main_loop` does. The
  receive that reports the client's departure has strong fairness: frames that arrived
  earlier are read first, and there are finitely many. Sends and closes on a lost
  websocket end.
* `RpcClient`: methods and callbacks need not return, and `DropClosesChannel` and
  `JoinReturns` except a reader that stays in one; a keep-alive ping need not be
  answered. `CancelledError` goes through the user's code where it is raised, so that a
  cancelled reader ends. As above, `ReaderSeesEnd` has strong fairness.
* `RpcPeers`: a method does what its kind says. It makes the nested call it is about to
  make, and ends with it; whether the nested call ends is the model's question. That a
  method may wait for ever for a nested call is the case `Deaf` of `CallsEnd` and
  `DropReleasesCallers`.
* `RpcIdentity`: callbacks, and the methods that await the id, end with that await; a
  client that has been accepted builds its channel and its reader answers the question
  for its id, as nothing there keeps that reader busy.
* `RpcChannel`: awaits of `send` end, and so do timers; the other side need not answer.

`RpcRegistry` and `RpcDispatch` state no fairness and no liveness: importing is
sequential, and a message is handled to its end unless a callable hangs.

## 5. The proofs

`RpcChannelProofs` proves, for every set of calls, payloads and kinds of call that
satisfy `ChannelAssumption`:

* `TypeCorrect`: `SafeSpec => []TypeOK`
* `SavedResponsesArePending`: `SafeSpec => []ResponsesArePending`
* `ReturnedCallsAreForgotten`: `SafeSpec => []ReturnedIsForgotten`
* `PromptCallsLoseNoAnswer`: `SafeSpec => []PromptCallsAreAnswered`
* `ChannelRefinesRpcCall`: `SafeSpec => Abstract!SafeSpec`

None of the safety properties is inductive. `ReturnedIsForgotten`, for instance,
breaks at a late `on_response` unless it is known that the response's promise is
saved only while the call can still take it. `Agreement` states that and its
kin: what `task`, `peer`, `answer` and the dictionaries say of one call is
consistent. `IInv` is the conjunction of all of them. `NextTypeOK`, `NextPending`,
`NextForgotten`, `NextPromptAnswered` and `NextAgreement` show that each conjunct
is preserved, one step per action of `Next`; `Inductive` puts them together, and
the theorems follow by PTL. For the refinement, `StatusMoves` says how the abstract
status of a call moves in each action, and `StepRefines` that every step is a
step of RpcCall or a stutter.

`RpcPeersProofs` proves, for any calls, whoever makes them and whatever their methods
do, any timeouts and any limit on the wire:

* `SidesAreChannels`: `SafeSpec => ImplementsChannels`
* `EndsImplementRpcCall`: `SafeSpec` implies RpcCall's safety part at either end
* `EndsForgetTheirCalls`: `SafeSpec` implies `[]ResponsesArePending` and
  `[]ReturnedIsForgotten` at either end

Each end of a websocket is thus an `RpcChannel`, and `ChannelAssumed` says that the
channel's assumptions hold of it. `ClientEnd` and `ServerEnd` instantiate
`RpcChannelProofs` with the state of one end; with `EndsAssumed` its theorems become
the other two above, so that refinement is carried from the wire to the promise:
RpcPeers implements RpcChannel twice, and RpcChannel implements RpcCall. What takes an
invariant is the channel's assumption about its other side, which answers each
request once. `Carried` says that a message on a wire is in step with what is known of
its call, `Single` that no two messages on a wire are about the same call, `Busy` that
the call whose method runs has been asked for and not answered, `Unasked` that a call
that has not started has no message anywhere. `PushStep`, `HeadStep` and `ReplyStep`
show what a send, a read and an answer do to them. The `Sees*` lemmas then say what
each action is to the channel of a side: the action of the same name on the side that
makes the call, `get_response` for a method that fetches, `PeerAnswers` for an answer
that goes out on the other side, and nothing otherwise.

`RpcPeersOrderProofs` proves, under the same assumptions:

* `PeersTypeCorrect`: `SafeSpec => []TypeOK`
* `NothingIsLost`: `SafeSpec => []NothingVanishes`
* `AnswersKeepOrder`: `SafeSpec => AnswersInOrder`
* `RecursiveCallsNeverSucceed`: `SafeSpec` implies that no recursive call is ever
  answered with a result

`IInv` says that what is on a wire is so; these need the converse, `OInv`. `Present`: a
call that is asked for and whose method does not run has its request on the wire, one
that is answered its answer. `Ordered`: the history of a side holds just its
unanswered calls, each once (`Pending`), those that are on the wire stand there in the
order of the history (`InOrder`), and a method that runs is that of the first
(`FirstIsHandled`). The argument is in `FirstRequest`: the first unanswered
call is on the wire by `Present`; were another one at the head, `InOrder` would put
the first before the head. `AskKeeps`, `StartKeeps`, `TakeKeeps`
and `ReplyKeeps` show that sending, starting a method, reading a response and answering
preserve `OInv`; every other step, and every step after the connection has ended, is
quiet (`QuietKeeps`). With `Single` the sets that `NothingVanishes` counts have one
element or none (`OneOnWire`).

The last theorem is the finding of `peers_recursive` for every instance: no run checks
it, it explains what the run shows. Its invariant, `RInv`, adds to `IInv` that
a saved or taken response has been read (`Heard`) and, for each recursive call
(`Alone`), that its nested call is not made before the method is started
and that no answer to it is read while the method runs. A response is only read when
the reader is in no method (`TakeAlone`), so a method that returns finds its nested call
without one (`ReaderAlone`) and answers with an error. That it may do so is reachable:
in the instance of `peers`, where the nested call has a timeout, it does.

`RpcEndpointProofs` proves, for every set of websockets and whichever of them call
back, raise, have no address or may be cancelled:

* `EndpointTypeCorrect`: `Spec => []TypeOK`, where the type of `notified` says that
  the callbacks of a connection are started once at most
* `ManagerIsExact`: `Spec => []ManagerTracksServed`
* `CallbacksFindItClosed`: `Spec => []FarewellComesLast`

Its invariant adds `NotifiedLate`, that callbacks have started only where
`main_loop` is past its loop for good. Without it `Accept` could open the websocket of
a connection whose callbacks have run, and `handle_disconnect` could count twice.
`EndpointStep` treats together the steps that move inside the service and those
that leave by the bare `except`.

`RpcClientProofs` proves, for any number of attempts, pings and cancellations and
every configuration:

* `ClientTypeCorrect`: `SafeSpec => []TypeOK`
* `OldAttemptsStayDead`: `SafeSpec => []OldAttemptsAreDead`
* `NothingStaysBehind`: `SafeSpec => []NothingIsLeftBehind`
* `CallbacksRunOnce`: `SafeSpec => NotifiedJustOnce`

That old attempts are dead is not inductive: it has to be known what becomes of the
latest attempt before it is an old one. `Owned` says that each of its tasks is held by
the client's references or cancelled already, so that the cleanup reaches both;
`Between`, that while dialing the attempt before is dead, unless its cleanup was cut
short; `Marked`, that callbacks imply a closed channel, from which `NotifiedJustOnce`
follows.

`RpcIdentityProofs` proves, for any connections and waiters:

* `IdentityTypeCorrect`, `LearnsTheRightId` (`KnownIdIsTheOthers`), `ReturnsAnId`
  (`WaitersGetTheId`), each `Spec => []...`

The invariant follows the id from the methods object through the answer to the
channel, and says that a connection not yet served has no task that asks.

`RpcRegistryProofs` proves, for any classes and declarations:

* `RegistryTypeCorrect`, `LoadedClassesAreServed` (`LoadedServesItsOwn`), `MethodsAreWhole`
  (`OnlyWholeMethods`): `Spec => []...`; `ReadingStays`: `Spec => ReadingIsStable`

`LoadedServesItsOwn` excepts the functions under the channel's own paths, and those
the docstring calls protected. The invariant: how far an import is says what it has
registered (`Progress`), no two functions of the registry share a path (`PathsAreUnique`), and every parameter that
was analysed passed all the assertions (`Accepted`).

`RpcDispatchProofs` proves, for any tree of dependencies and any body, a dictionary or
null:

* `DispatchTypeCorrect`, `NothingSlipsThrough` (`NothingRunsUnchecked`), `CacheSavesCalls`
  (`CachedCallsRunOnce`), `CacheIsConsistent` (`CachedUsesAgree`),
  `EveryErrorIsReported` (`AllErrorsReported`) and
  `RepliesCarryTheId` (`ReplyCarriesId`), each `Spec => []...`

The frames on the stack form a path (`Chained`), a frame without errors has solved what
it is past (`Advanced`), and what was called is in the cache (`Stored`), which holds
what the cached uses were solved to (`Agreed`).

`AllErrorsReported` speaks of all uses that the recursion reaches. The invariant is
`Gathered`: a frame holds the errors of everything under the dependencies it is past.
What is under a use is not defined by recursion, over which nothing could be proved
here, but as the least set that holds it and, with each use, those it needs (`Under`);
`UnderUnfolds` derives the step that the recursion makes, and `UsesAssumption`, that
the uses are what the method needs and nothing else, makes the set of the root all
of them (`RootHasAll`).

The assumptions on constants say what types and the code's singletons guarantee:
detached calls have neither timeout nor cancellation, the three kinds of payload
differ, no id is None, the uses of a method are those it needs, directly or not, a class
has attributes of its functions' names, a method is not its own dependency, `NoInfo` is
no FieldInfo, `NoValue` no value.

Every safety property of a passing run is proved. Only model-checked are the
liveness properties: `TimedCallEnds`, `CloseReleasesCallers`, `LostConnectionEnds`,
`DropClosesChannel`, `JoinReturns`, `CallsEnd`, `DropReleasesCallers`, `SyncTaskEnds`,
`WaitersLearn` and the liveness part of `ImplementsRpcCall`, for ENABLED and
fairness are beyond the prover's backends; and the violated properties of section
6, which are counterexamples.

## 6. What was found

Each is a violation run, with the statement of the repository it contradicts
quoted in `PROJECT.json`.

1. *An answer can be lost* (`channel_lost`). The promise is saved after the await
   of `send`; if that suspends once the frame is out (it runs in an executor in
   `ProxyEnabledWebSocketClientHandler`, it waits for a full buffer elsewhere), the
   answer finds no promise and is dropped. The proofs show that this is the only
   way: calls whose send does not suspend miss nothing.
2. *Recursive calls block themselves* (`peers_recursive`): a method that awaits a
   call to its caller keeps its side from reading the answer. The proofs show that
   no such call succeeds in any instance (`RecursiveCallsNeverSucceed`). What the
   code leaves it is a timeout of the nested call, and then it is answered with an
   error; without one even the end of the connection does not release the side that
   waits, for its reader never sees it (`Deaf`).
3. *A websocket closed by the application ends without its on_disconnect
   callbacks* (`endpoint_silent`): the next receive raises, and so does
   `channel.close()` in the error path, as the websocket is closed already.
4. *on_disconnect callbacks can be dropped* (`client_dropped`): the user's close
   cancels a reader whose callbacks are scheduled but not started.
5. *A methods object serves other classes' methods* (`registry_homonym`): `get_method`
   asks only whether the object has an attribute of that name, so a private
   attribute of one class exposes the function another class registered. The
   docstring of `on_request` adds that methods with an underscore are protected and
   ignored (`rpc_channel.py:332`, and `:341` on the check); nothing looks at the prefix.

Further places where code and documentation part, which no run is about:

* The on_connect callbacks of the server are awaited before anything is read
  (`OpenServer`, `Accept`), where the docstrings say "Server spins the callbacks as a new
  task, not waiting on it" (`websocket_rpc_endpoint.py:60`) and "called (As an async
  task)" (`rpc_channel.py:260`). So a callback that awaits the other side, for its id or
  with a call, gets no answer.
* The on_disconnect callbacks of a websocket without a client address never run, where
  the docstring has "Callbacks per disconnection" (`websocket_rpc_endpoint.py:59`), and
  the manager never forgets it. `ManagerTracksServed` and `LostConnectionEnds` except
  such websockets.
* A timeout raises RpcChannelClosedException (`wait_for_response_raises`), where the
  docstring of `wait_for_response` speaks of TimeoutError; a server that answers no ping
  is accepted after the last one (`PingTimesOut`), where the comment on
  `MAX_CONNECTION_ATTEMPTS` speaks of rejecting.

Behaviours that may surprise:

* A function registered as "ping" or "get_channel_id" is loaded and never served: the
  channel answers for it.
* `get_other_channel_id` without a timeout waits for good once the task that asks has
  failed; closing the channel releases the task, not its waiters.
* Cancelling `__aenter__` while it connects makes tenacity try again
  (`CancelDialing`, `CancelHandshake`); cancelled a second time, in the cleanup, an
  attempt keeps its tasks.
* A FieldInfo given as the default of several parameters keeps its first alias, and
  has the annotation of the last (`Changed`): `ReadingIsStable` excepts it.
* Both readers may block in a send behind each other's full wire (`Jammed`); a client's
  reader that dies leaves its channel open ("failed"); an HTTPException whose detail
  is not a string is answered without an id; calls that time out leave their promise
  in `requests`; a field parameter after a model parameter is never read (`Wrapped`).

## 7. What is not modelled

* Payloads, serialization and schemas beyond the kinds the properties tell apart.
* What FastAPI does with the signature of a dependency (`get_sub_dependant`), the fields
  that are built for responses when a function is decorated, and how that fails, the
  aliases that Header makes of underscores, dependency overrides (nothing passes a
  provider), callables that raise RequestValidationError themselves, the string and
  random helpers of `utils.py`.
* The websocket libraries and Starlette: modelled by what their `send`, `recv` and
  `close` do to the code (marked external where a definition has no line of its own).
* Schemas, logging, examples: no state of their own, or none a property is about.

## 8. The plan

Order of work, most important behaviour first; done: 1 to 14.

1. `RpcChannel` against `RpcCall`, with its proofs.
2. `RpcEndpoint` with the manager.
3. `RpcClient`.
4. `RpcPeers`, the composition of two channels.
5. `RpcDispatch`.
6. The first theorems: types, the dictionaries, refinement.
7. `RpcEndpointProofs`, for any number of websockets, with an address and without.
8. `RpcIdentity` with `RpcIdentityProofs`: the exchange of ids, and who waits for it.
9. `RpcRegistry` with `RpcRegistryProofs`: what is exposed, and how signatures are read.
10. Cancellation of the client's coroutine, and `RpcClientProofs`.
11. `RpcDispatchProofs`, from an invariant over the frames of the stack.
12. `RpcPeersProofs`: that each side implements `RpcChannel`, so that the theorems
    about the channel hold of the composition.
13. `RpcPeersOrderProofs`: nothing vanishes on a live wire, and answers keep the order
    of the requests.
14. `EndsImplementRpcCall`, the refinements composed; `EveryErrorIsReported`, over the
    tree of dependencies; `RecursiveCallsNeverSucceed`.
15. The life of one client object across several connections.
