----------------------------- MODULE RpcEndpoint -----------------------------
(***************************************************************************)
(* The server: WebsocketRPCEndpoint.main_loop, one coroutine per websocket *)
(* (websocket_rpc_endpoint.py), and the ConnectionManager they share       *)
(* (connection_manager.py).                                                *)
(*                                                                         *)
(* A step of a connection is what main_loop does between two awaits.       *)
(* Exceptions decide where it goes next, so the ones it tells apart are    *)
(* kept: WebSocketDisconnect, SerializationError, DeserializationError,    *)
(* any other exception inside the read loop, and whatever escapes to the   *)
(* bare except around everything.  Of the channel only the closed flag and *)
(* the callbacks of on_disconnect are kept; RpcChannel has the rest.       *)
(*                                                                         *)
(* The websocket is Starlette's: the application may send until it has     *)
(* closed (then send, receive and close raise RuntimeError), and learns    *)
(* that the client has left from receive or from a failing send.           *)
(*                                                                         *)
(* The user's code runs inside main_loop: the on_connect callbacks, a      *)
(* method, the on_disconnect callbacks.  Nothing makes it return.          *)
(***************************************************************************)
EXTENDS Naturals

CONSTANTS
  Conns,        \* websockets
  CallingBack,  \* those whose on_connect callbacks await a call to the client
  Raising,      \* those with callbacks that may raise
  Cancellable,  \* those whose main_loop the server may cancel when it stops
  Portless      \* those without a client address: behind a unix socket
                \* websocket.client is None

ASSUME EndpointAssumption ==
  /\ CallingBack \subseteq Conns
  /\ Raising \subseteq Conns
  /\ Cancellable \subseteq Conns
  /\ Portless \subseteq Conns

VARIABLES
  at,        \* where each connection's main_loop stands
  active,    \* ConnectionManager.active_connections
  app,       \* may the application still send on the websocket?
  client,    \* is the client still there?
  closed,    \* the connections whose channel has _closed set
  notified   \* how often on_disconnect's callbacks were started

vars == <<at, active, app, client, closed, notified>>

UsersCode == {"greeting", "calling", "farewell"}
Sending == {"answering", "reporting"}
Looping == {"receiving", "calling"} \cup Sending   \* inside "while True"
Served  == {"greeting", "aborting", "closing"} \cup Looping
Over    == {"done", "crashed"}

TypeOK ==
  /\ at \in [Conns -> {"new", "farewell"} \cup Served \cup Over]
  /\ active \subseteq Conns
  /\ app \in [Conns -> {"unopened", "open", "shut"}]
  /\ client \in [Conns -> {"here", "gone"}]
  /\ closed \subseteq Conns
  /\ notified \in [Conns -> 0..1]

Init ==
  /\ at = [c \in Conns |-> "new"]
  /\ active = {}
  /\ app = [c \in Conns |-> "unopened"]
  /\ client = [c \in Conns |-> "here"]
  /\ closed = {}
  /\ notified = [c \in Conns |-> 0]

Lost(c) == client[c] = "gone" \/ app[c] = "shut"

Goto(c, where) == at' = [at EXCEPT ![c] = where]

(* The bare except.  Its first statement logs websocket.client.port, which *)
(* raises AttributeError where there is no address; manager.disconnect is a*)
(* list.remove that raises ValueError when the websocket is not in the     *)
(* list.  Either leaves main_loop.                                         *)
FailToServe(c) ==
  /\ Goto(c, IF c \in active \ Portless THEN "done" ELSE "crashed")
  /\ active' = IF c \in Portless THEN active ELSE active \ {c}

(* An exception of the loop goes to its handler, which logs the port before*)
(* it does anything: without one its AttributeError goes on to "except     *)
(* Exception", whose own log raises again, and so to the bare except.      *)
Catch(c, handler) ==
  IF c \in Portless THEN FailToServe(c)
  ELSE Goto(c, handler) /\ UNCHANGED active

-----------------------------------------------------------------------------
(* Before the read loop.                                                   *)

(* manager.connect accepts, then appends; the channel is built and         *)
(* channel.on_connect awaits the callbacks.                                *)
Accept(c) ==
  /\ at[c] = "new"
  /\ Goto(c, "greeting")
  /\ active' = active \cup {c}
  /\ app' = [app EXCEPT ![c] = "open"]
  /\ UNCHANGED <<client, closed, notified>>

AcceptFails(c) ==
  /\ at[c] = "new"
  /\ client[c] = "gone"
  /\ FailToServe(c)
  /\ UNCHANGED <<app, client, closed, notified>>

(* receive raises RuntimeError at once where the application has closed.   *)
Receive(c) ==
  IF app[c] = "open" THEN Goto(c, "receiving") /\ UNCHANGED active
  ELSE Catch(c, "aborting")

(* Nothing reads the websocket yet, so a callback that awaits a call to    *)
(* the client cannot get its answer: only closing the channel releases it. *)
GreetingEnds(c) ==
  /\ at[c] = "greeting"
  /\ c \in CallingBack => c \in closed
  /\ Receive(c)
  /\ UNCHANGED <<app, client, closed, notified>>

(* A callback raises: its own doing, a call back that times out, or one    *)
(* that is released by RpcChannelClosedException.                          *)
GreetingRaises(c) ==
  /\ c \in Raising \/ c \in CallingBack \cap closed
  /\ at[c] = "greeting"
  /\ FailToServe(c)
  /\ UNCHANGED <<app, client, closed, notified>>

-----------------------------------------------------------------------------
(* The read loop.  A receive that is suspended when another task closes    *)
(* the websocket goes on: it gets the frames that were on their way, and   *)
(* then the disconnect.                                                    *)

(* A request for a method of the user's, or a message that on_message      *)
(* answers itself: built-in methods, unknown methods, invalid messages.    *)
RecvMessage(c) ==
  /\ at[c] = "receiving"
  /\ \E where \in {"calling", "answering"} : Goto(c, where)
  /\ UNCHANGED <<active, app, client, closed, notified>>

(* A response is taken without an await, and the loop receives again.      *)
RecvResponse(c) ==
  /\ at[c] = "receiving"
  /\ Receive(c)
  /\ UNCHANGED <<app, client, closed, notified>>

(* DeserializationError                                                    *)
RecvGarbage(c) ==
  /\ at[c] = "receiving"
  /\ Catch(c, "reporting")
  /\ UNCHANGED <<app, client, closed, notified>>

\* mutant: the disconnect is caught inside the loop, which goes on
RecvDisconnectRetries(c) ==
  /\ at[c] = "receiving" /\ Lost(c)
  /\ Goto(c, "receiving")
  /\ UNCHANGED <<active, app, client, closed, notified>>

(* WebSocketDisconnect                                                     *)
RecvDisconnect(c) ==
  /\ at[c] = "receiving" /\ Lost(c)
  /\ Catch(c, "closing")
  /\ UNCHANGED <<app, client, closed, notified>>

(* The method returns or raises: on_request sends its answer.              *)
MethodEnds(c) ==
  /\ at[c] = "calling"
  /\ Goto(c, "answering")
  /\ UNCHANGED <<active, app, client, closed, notified>>

(* The answer or the error report has been sent.                           *)
Handled(c) ==
  /\ at[c] \in Sending /\ app[c] = "open"
  /\ Goto(c, "receiving")
  /\ UNCHANGED <<active, app, client, closed, notified>>

(* SerializationError, caught around on_message but not around the report, *)
(* which carries the very value that could not be serialized.              *)
SerializationFails(c) ==
  /\ at[c] \in Sending
  /\ Catch(c, IF at[c] = "answering" THEN "reporting" ELSE "aborting")
  /\ UNCHANGED <<app, client, closed, notified>>

(* The reply or the report meets a client that has left: WebSocketDisconnect*)
(* from send, which has closed the application's side.                     *)
SendToGone(c) ==
  /\ at[c] \in Sending
  /\ app[c] = "open" /\ client[c] = "gone"
  /\ app' = [app EXCEPT ![c] = "shut"]
  /\ Catch(c, "closing")
  /\ UNCHANGED <<client, closed, notified>>

(* RuntimeError('Cannot call "send" once a close message has been sent.'), *)
(* or of the next receive, where the send was begun before the close.      *)
SendOnShut(c) ==
  /\ at[c] \in Sending /\ app[c] = "shut"
  /\ Catch(c, "aborting")
  /\ UNCHANGED <<app, client, closed, notified>>

(* Any other exception of the loop's body: a frame of the wrong type, a    *)
(* ping or an error reply that raises.                                     *)
LoopRaises(c) ==
  /\ at[c] \in {"receiving", "answering"}
  /\ Catch(c, "aborting")
  /\ UNCHANGED <<app, client, closed, notified>>

-----------------------------------------------------------------------------
(* After the read loop.                                                    *)

\* mutant: tells the callbacks at once instead of closing the channel
AbortNotifies(c) ==
  /\ at[c] = "aborting" /\ app[c] = "open"
  /\ app' = [app EXCEPT ![c] = "shut"]
  /\ closed' = closed \cup {c}
  /\ notified' = [notified EXCEPT ![c] = @ + 1]
  /\ Goto(c, "closing")
  /\ UNCHANGED <<active, client>>

(* "except Exception": await channel.close(), then handle_disconnect.      *)
AbortCloses(c) ==
  /\ at[c] = "aborting" /\ app[c] = "open"
  /\ app' = [app EXCEPT ![c] = "shut"]
  /\ closed' = closed \cup {c}
  /\ Goto(c, "closing")
  /\ UNCHANGED <<active, client, notified>>

(* channel.close() raises RuntimeError where the application has closed the*)
(* websocket before: handle_disconnect is never called.  On a websocket    *)
(* that only the client has left it returns.                               *)
AbortRaises(c) ==
  /\ at[c] = "aborting" /\ app[c] = "shut"
  /\ FailToServe(c)
  /\ UNCHANGED <<app, client, closed, notified>>

\* mutants: forgets the connection manager; runs the callbacks on a channel
\* that is not marked as closed
ForgetsManager(c) ==
  /\ at[c] = "closing"
  /\ app' = [app EXCEPT ![c] = "shut"]
  /\ closed' = closed \cup {c}
  /\ notified' = [notified EXCEPT ![c] = @ + 1]
  /\ Goto(c, "farewell")
  /\ UNCHANGED <<active, client>>

CallbacksBeforeClosed(c) ==
  /\ at[c] = "closing"
  /\ app' = [app EXCEPT ![c] = "shut"]
  /\ active' = active \ {c}
  /\ notified' = [notified EXCEPT ![c] = @ + 1]
  /\ Goto(c, "farewell")
  /\ UNCHANGED <<client, closed>>

(* handle_disconnect: websocket.close() with RuntimeError passed over,     *)
(* manager.disconnect, channel.on_disconnect: _closed.set() and callbacks. *)
handle_disconnect(c) ==
  /\ at[c] = "closing"
  /\ app' = [app EXCEPT ![c] = "shut"]
  /\ active' = active \ {c}
  /\ closed' = closed \cup {c}
  /\ notified' = [notified EXCEPT ![c] = @ + 1]
  /\ Goto(c, "farewell")
  /\ UNCHANGED client

FarewellEnds(c) ==
  /\ at[c] = "farewell"
  /\ Goto(c, "done")
  /\ UNCHANGED <<active, app, client, closed, notified>>

(* An on_disconnect callback raises: the bare except removes the websocket *)
(* a second time.                                                          *)
FarewellRaises(c) ==
  /\ c \in Raising
  /\ at[c] = "farewell"
  /\ FailToServe(c)
  /\ UNCHANGED <<app, client, closed, notified>>

(* The server shuts down and cancels main_loop: the bare except catches    *)
(* CancelledError as well.                                                 *)
Cancelled(c) ==
  /\ c \in Cancellable
  /\ at[c] \notin Over
  /\ FailToServe(c)
  /\ UNCHANGED <<app, client, closed, notified>>

-----------------------------------------------------------------------------
(* Around main_loop.                                                       *)

ClientLeaves(c) ==
  /\ client[c] = "here"
  /\ client' = [client EXCEPT ![c] = "gone"]
  /\ UNCHANGED <<at, active, app, closed, notified>>

(* A method, a callback or another task calls channel.close().             *)
ServerCloses(c) ==
  /\ at[c] \in {"greeting"} \cup Looping /\ app[c] = "open"
  /\ app' = [app EXCEPT ![c] = "shut"]
  /\ closed' = closed \cup {c}
  /\ UNCHANGED <<at, active, client, notified>>

(* A client that does not read may hold up a send, but not once it is lost.*)
SendEnds(c) ==
  /\ Lost(c)
  /\ Handled(c) \/ SerializationFails(c) \/ SendToGone(c) \/ SendOnShut(c)

(* A call made by a callback, a method or another task meets a client that *)
(* has left.  Its caller gets WebSocketDisconnect, which on_request makes  *)
(* an error reply of; the application's side of the websocket is closed.   *)
CallToGone(c) ==
  /\ at[c] \in {"greeting"} \cup Looping
  /\ app[c] = "open" /\ client[c] = "gone"
  /\ app' = [app EXCEPT ![c] = "shut"]
  /\ UNCHANGED <<at, active, client, closed, notified>>

Next ==
  \E c \in Conns :
    \/ Accept(c) \/ AcceptFails(c) \/ GreetingEnds(c) \/ GreetingRaises(c)
    \/ RecvMessage(c) \/ RecvResponse(c) \/ RecvGarbage(c) \/ RecvDisconnect(c)
    \/ MethodEnds(c) \/ Handled(c) \/ SerializationFails(c) \/ SendToGone(c) \/ SendOnShut(c)
    \/ LoopRaises(c) \/ AbortCloses(c) \/ AbortRaises(c) \/ handle_disconnect(c)
    \/ FarewellEnds(c) \/ FarewellRaises(c) \/ Cancelled(c)
    \/ ClientLeaves(c) \/ ServerCloses(c) \/ CallToGone(c)

(* main_loop's own steps: the disconnect is received, sends and closes on a*)
(* lost websocket complete.  Frames that arrived before are read first,    *)
(* hence SF: there are finitely many of them.  A client need not leave or  *)
(* send, and the user's callbacks and methods need not return.             *)
Fairness ==
  \A c \in Conns :
    /\ SF_vars(RecvDisconnect(c))
    /\ WF_vars(SendEnds(c))
    /\ WF_vars(AbortCloses(c) \/ AbortRaises(c))
    /\ WF_vars(handle_disconnect(c))

SafeSpec == Init /\ [][Next]_vars
Spec == SafeSpec /\ Fairness

-----------------------------------------------------------------------------
(* Safety.                                                                 *)

(* ConnectionManager.active_connections lists the websockets being served  *)
(* and no other, on every path out of main_loop: cancelled, failed, or     *)
(* disconnected; except for those without a client address.                *)
ManagerTracksServed == \A c \in Conns \ Portless : c \in active <=> at[c] \in Served

(* When the on_disconnect callbacks run, the channel is closed (a call     *)
(* made from a callback fails instead of hanging), its websocket too, and  *)
(* the manager no longer lists it.                                         *)
FarewellComesLast ==
  \A c \in Conns :
    notified[c] > 0 => c \in closed /\ app[c] = "shut" /\ c \notin active

(* Docstring of WebsocketRPCEndpoint: on_disconnect are "Callbacks per     *)
(* disconnection"; the comment in main_loop counts among the disconnections*)
(* a send after the application closed the websocket.                      *)
DisconnectionsAreNotified ==
  \A c \in Conns : at[c] = "done" => notified[c] = 1

-----------------------------------------------------------------------------
(* Liveness.                                                               *)

(* Once the client has left, or the application has closed the websocket,  *)
(* main_loop comes to its end and the manager forgets the websocket, if it *)
(* has an address; unless main_loop stays for good in the user's code: a   *)
(* callback, or a method that awaits what never comes.                     *)
LostConnectionEnds ==
  \A c \in Conns :
    \/ <>[](at[c] \in UsersCode)
    \/ (at[c] \in Served /\ Lost(c)) ~>
         (at[c] \in Over /\ (c \in active => c \in Portless))

=============================================================================
