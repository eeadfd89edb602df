----------------------------- MODULE RpcClient -----------------------------
(***************************************************************************)
(* WebSocketRpcClient (websocket_rpc_client.py): connecting with retries,  *)
(* the ping handshake, the reader and keep-alive tasks, and close(), which *)
(* both the user's coroutine and the reader may run, at the same time.     *)
(*                                                                         *)
(* The coroutines are the user's (__aenter__, the body of the async with,  *)
(* __aexit__), a reader and a keep-alive task per attempt to connect, and  *)
(* the on_disconnect callbacks, which asyncio.gather runs as tasks.  They  *)
(* share the client's attributes: channel, _read_task and _keep_alive_task *)
(* always belong to the latest attempt, also for a task left over from an  *)
(* earlier one; self.ws does too until the next attempt replaces it by a   *)
(* websocket that is not connected yet.                                    *)
(*                                                                         *)
(* The reader awaits on_message, and with it the user's methods: while it  *)
(* serves a message it sees nothing of its websocket.  Nothing makes the   *)
(* user's methods and callbacks return.                                    *)
(*                                                                         *)
(* Task.cancel() only marks a task: CancelledError is raised in it when it *)
(* next runs, which takes precedence over whatever it was waiting for.     *)
(***************************************************************************)
EXTENDS Naturals

CONSTANTS
  MaxAttempts,      \* bound: connections made before the model stops
  MaxPings,         \* MAX_CONNECTION_ATTEMPTS
  Retrying,         \* retry_config is not False
  KeepAlive,        \* keep_alive > 0
  QuickTimeout,     \* default_response_timeout ends a ping before wait_for does
  CallbacksRaise,   \* may on_connect and on_disconnect callbacks raise?
  MaxCancels        \* bound: cancellations of the user's coroutine

Attempts == 1..MaxAttempts

ASSUME ClientAssumption ==
  /\ MaxAttempts \in Nat \ {0}
  /\ MaxPings \in Nat \ {0} /\ MaxCancels \in Nat
  /\ {Retrying, KeepAlive, QuickTimeout, CallbacksRaise} \subseteq BOOLEAN

VARIABLES
  phase,       \* where the user's coroutine stands
  attempt,     \* the latest connection made, that of self.channel
  sock,        \* the attempt whose websocket is self.ws (0: not connected)
  pings,       \* attempt_count of wait_on_rpc_ready (0: outside it)
  ws,          \* the websocket of each attempt
  closed,      \* the attempts whose channel has _closed set
  callbacks,   \* how far the on_disconnect callbacks of each attempt got
  reader,      \* the reader task of each attempt
  reads,       \* the attempt whose websocket the recv of each reader is on
  keeper,      \* the keep-alive task of each attempt
  refs,        \* self._read_task and self._keep_alive_task (0: None)
  doomed,      \* the attempts whose reader, keep-alive task has been cancelled
  notifies,    \* whose on_disconnect callbacks the reader of each attempt awaits
  cancels,     \* how often the user's coroutine was cancelled
  torn         \* the attempts whose cleanup or close() a cancellation cut short

conn == <<ws, closed, callbacks>>
tasks == <<reader, reads, keeper, refs, doomed>>
cut == <<notifies, cancels, torn>>
vars == <<phase, attempt, sock, pings, conn, tasks, cut>>

Reading == {"reading", "serving", "closing", "notifying"}   \* a reader that still runs
Keeping == {"sleeping", "pinging"}                \* a keep-alive task that does

TypeOK ==
  /\ phase \in {"out", "dialing", "pinging", "greeting", "cleaning", "inside",
                "joining", "closing", "notifying", "left", "raised"}
  /\ attempt \in 0..MaxAttempts
  /\ sock \in 0..MaxAttempts
  /\ pings \in 0..(MaxPings - 1)
  /\ ws \in [Attempts -> {"none", "open", "lost", "shut"}]
  /\ closed \subseteq Attempts
  /\ callbacks \in [Attempts -> {"none", "scheduled", "running", "finished",
                                 "raised", "dropped", "interrupted"}]
  /\ reader \in [Attempts -> {"none", "over", "failed"} \cup Reading]
  /\ reads \in [Attempts -> 0..MaxAttempts]
  /\ keeper \in [Attempts -> {"none", "over"} \cup Keeping]
  /\ refs \in [{"reader", "keeper"} -> 0..MaxAttempts]
  /\ doomed \in [{"reader", "keeper"} -> SUBSET Attempts]
  /\ notifies \in [Attempts -> 0..MaxAttempts]
  /\ cancels \in 0..MaxCancels
  /\ torn \subseteq Attempts

Init ==
  /\ phase = "out"
  /\ attempt = 0
  /\ sock = 0
  /\ pings = 0
  /\ ws = [a \in Attempts |-> "none"]
  /\ closed = {}
  /\ callbacks = [a \in Attempts |-> "none"]
  /\ reader = [a \in Attempts |-> "none"]
  /\ reads = [a \in Attempts |-> 0]
  /\ keeper = [a \in Attempts |-> "none"]
  /\ refs = [t \in {"reader", "keeper"} |-> 0]
  /\ doomed = [t \in {"reader", "keeper"} |-> {}]
  /\ notifies = [a \in Attempts |-> 0]
  /\ cancels = 0
  /\ torn = {}

Up == ws[attempt] = "open"

(* self.ws.close(), seen from the moment it is called: from then on send   *)
(* raises and recv returns None.  Not connected, there is nothing to close.*)
ShutWs == ws' = IF sock = 0 THEN ws ELSE [ws EXCEPT ![sock] = "shut"]

(* channel.close(), which closes the channel's own websocket.              *)
CloseChannel ==
  /\ ws' = [ws EXCEPT ![attempt] = "shut"]
  /\ closed' = closed \cup {attempt}

(* Somebody is in recv on the channel's websocket and takes what it gets.  *)
Listening == \E a \in Attempts : reader[a] = "reading" /\ reads[a] = attempt

(* _cancel_keep_alive_task and cancel_reader_task.                         *)
cancel_tasks ==
  /\ doomed' = [t \in {"reader", "keeper"} |-> doomed[t] \cup ({refs[t]} \ {0})]
  /\ refs' = [t \in {"reader", "keeper"} |-> 0]

(* on_disconnect up to its await: marks the channel and gathers.           *)
StartCallbacks ==
  /\ closed' = closed \cup {attempt}
  /\ callbacks' = [callbacks EXCEPT ![attempt] = "scheduled"]

(* gather passes a cancellation on to the callbacks it waits for: a task   *)
(* that has not started yet never runs any of its code.                    *)
CancelCallbacks(a) ==
  callbacks' = [callbacks EXCEPT ![a] =
    CASE @ = "scheduled" -> "dropped"
      [] @ = "running"   -> "interrupted"
      [] OTHER           -> @]

-----------------------------------------------------------------------------
(* __aenter__: tenacity runs __connect__ until it returns.                 *)

(* The first __connect__, or the next, after a sleep: self.ws is a new     *)
(* websocket, which is not connected yet.                                  *)
Enter ==
  /\ phase = "out" \/ (phase = "dialing" /\ sock # 0)
  /\ phase' = "dialing"
  /\ sock' = 0
  /\ UNCHANGED <<attempt, pings, conn, tasks, cut>>

(* 401 or 403 (isNotForbbiden), or any failure when there is no retrying.  *)
(* Every other failure to connect changes nothing and is tried again.      *)
DialRejected ==
  /\ phase = "dialing" /\ sock = 0
  /\ phase' = "raised"
  /\ UNCHANGED <<attempt, sock, pings, conn, tasks, cut>>

DialSucceeds ==
  /\ phase = "dialing" /\ sock = 0
  /\ attempt < MaxAttempts
  /\ LET a == attempt + 1 IN
       /\ attempt' = a /\ sock' = a
       /\ ws' = [ws EXCEPT ![a] = "open"]
       /\ reader' = [reader EXCEPT ![a] = "reading"]
       /\ reads' = [reads EXCEPT ![a] = a]
       /\ keeper' = [keeper EXCEPT ![a] = IF KeepAlive THEN "sleeping" ELSE "none"]
       /\ refs' = [reader |-> a, keeper |-> IF KeepAlive THEN a ELSE refs.keeper]
  /\ phase' = "pinging"
  /\ UNCHANGED <<pings, closed, callbacks, doomed, cut>>

(* wait_on_rpc_ready: the reader delivers the pong, on_connect starts.     *)
Pong ==
  /\ phase = "pinging"
  /\ Up /\ Listening /\ attempt \notin closed
  /\ phase' = "greeting"
  /\ pings' = 0
  /\ UNCHANGED <<attempt, sock, conn, tasks, cut>>

\* mutant: one ping too many
PingTimesOutLate ==
  /\ phase = "pinging"
  /\ \/ pings < MaxPings /\ phase' = phase /\ pings' = pings + 1
     \/ pings >= MaxPings /\ phase' = "greeting" /\ pings' = 0
  /\ UNCHANGED <<attempt, sock, conn, tasks, cut>>

(* wait_for gives up on a ping; after the last one the loop ends like that *)
(* of a client which has been answered.                                    *)
PingTimesOut ==
  /\ phase = "pinging"
  /\ \/ pings + 1 < MaxPings /\ phase' = phase /\ pings' = pings + 1
     \/ pings + 1 >= MaxPings /\ phase' = "greeting" /\ pings' = 0
  /\ UNCHANGED <<attempt, sock, conn, tasks, cut>>

(* Any other exception of a ping, or of an on_connect callback (whose own  *)
(* calls fail once the connection has): __connect__ cleans up.             *)
ConnectFails ==
  /\ \/ phase = "pinging" /\ (~Up \/ attempt \in closed \/ QuickTimeout)
     \/ phase = "greeting" /\ (~Up \/ attempt \in closed \/ CallbacksRaise)
  /\ phase' = "cleaning"
  /\ pings' = 0
  /\ ShutWs
  /\ UNCHANGED <<attempt, sock, closed, callbacks, tasks, cut>>

\* mutant: the tasks of the failed attempt are left running
CleanedUpLoosely ==
  /\ phase = "cleaning"
  /\ CloseChannel
  /\ phase' = IF Retrying THEN "dialing" ELSE "raised"
  /\ UNCHANGED <<attempt, sock, pings, callbacks, tasks, cut>>

CleanedUp ==
  /\ phase = "cleaning"
  /\ CloseChannel
  /\ cancel_tasks
  /\ phase' = IF Retrying THEN "dialing" ELSE "raised"
  /\ UNCHANGED <<attempt, sock, pings, callbacks, reader, reads, keeper, cut>>

Connected ==
  /\ phase = "greeting"
  /\ phase' = "inside"
  /\ UNCHANGED <<attempt, sock, pings, conn, tasks, cut>>

-----------------------------------------------------------------------------
(* The body of the async with, and __aexit__.                              *)

(* wait_on_reader, which returns at once when there is no _read_task.      *)
Join ==
  /\ phase = "inside"
  /\ refs.reader # 0
  /\ phase' = "joining"
  /\ UNCHANGED <<attempt, sock, pings, conn, tasks, cut>>

JoinEnds ==
  /\ phase = "joining"
  /\ reader[attempt] = "over"
  /\ phase' = "inside"
  /\ UNCHANGED <<attempt, sock, pings, conn, tasks, cut>>

(* The exception of a reader that failed comes out of wait_on_reader: the  *)
(* body catches it, or it leaves the async with, and __aexit__ closes.     *)
JoinRaises ==
  /\ phase = "joining"
  /\ reader[attempt] = "failed"
  /\ \/ phase' = "inside" /\ UNCHANGED ws
     \/ phase' = "closing" /\ ShutWs
  /\ UNCHANGED <<attempt, sock, pings, closed, callbacks, tasks, cut>>

UserCloses ==
  /\ phase = "inside"
  /\ phase' = "closing"
  /\ ShutWs
  /\ UNCHANGED <<attempt, sock, pings, closed, callbacks, tasks, cut>>

\* mutants: isClosed() is not asked; a closed channel ends close() at once
UserNotifiesAgain ==
  /\ phase = "closing"
  /\ StartCallbacks
  /\ phase' = "notifying"
  /\ UNCHANGED <<attempt, sock, pings, ws, tasks, cut>>

UserReturnsEarly ==
  /\ phase = "closing"
  /\ IF attempt \in closed
       THEN phase' = "left" /\ UNCHANGED <<closed, callbacks>>
       ELSE phase' = "notifying" /\ StartCallbacks
  /\ UNCHANGED <<attempt, sock, pings, ws, tasks, cut>>

(* close() after its ws.close(): "Notify callbacks (but just once)".       *)
UserNotifies ==
  /\ phase = "closing"
  /\ IF attempt \in closed
       THEN cancel_tasks /\ phase' = "left" /\ UNCHANGED <<closed, callbacks>>
       ELSE StartCallbacks /\ phase' = "notifying" /\ UNCHANGED <<refs, doomed>>
  /\ UNCHANGED <<attempt, sock, pings, ws, reader, reads, keeper, cut>>

(* The callbacks are done.  If one raised, so does close(), at once.       *)
UserLeaves ==
  /\ phase = "notifying"
  /\ \/ callbacks[attempt] = "finished" /\ cancel_tasks /\ phase' = "left"
     \/ callbacks[attempt] = "raised" /\ phase' = "raised" /\ UNCHANGED <<refs, doomed>>
  /\ UNCHANGED <<attempt, sock, pings, conn, reader, reads, keeper, cut>>

-----------------------------------------------------------------------------
(* The user's coroutine is cancelled (by a timeout around it, say).        *)

Cancel == cancels < MaxCancels /\ cancels' = cancels + 1

(* The predicate for retries holds for CancelledError as well: while it    *)
(* connects, a cancellation makes tenacity try again; only one in its sleep*)
(* between attempts ends __aenter__.                                       *)
CancelDialing ==
  /\ phase = "dialing" /\ Cancel
  /\ \/ Retrying /\ phase' = phase
     \/ phase' = "raised"
  /\ UNCHANGED <<attempt, sock, pings, conn, tasks, notifies, torn>>

CancelHandshake ==
  /\ phase \in {"pinging", "greeting"} /\ Cancel
  /\ phase' = "cleaning"
  /\ pings' = 0
  /\ ShutWs
  /\ UNCHANGED <<attempt, sock, closed, callbacks, tasks, notifies, torn>>

(* In the awaits of the cleanup: the rest of it is skipped.                *)
CancelCleanup ==
  /\ phase = "cleaning" /\ Cancel
  /\ torn' = torn \cup {attempt}
  /\ phase' = IF Retrying THEN "dialing" ELSE "raised"
  /\ UNCHANGED <<attempt, sock, pings, conn, tasks, notifies>>

(* In wait_on_reader: Task.cancel() cancels the reader that is awaited,    *)
(* which returns in peace, and so does wait_on_reader.                     *)
CancelJoin ==
  /\ phase = "joining" /\ reader[attempt] \in Reading /\ Cancel
  /\ doomed' = [doomed EXCEPT !.reader = @ \cup {attempt}]
  /\ UNCHANGED <<phase, attempt, sock, pings, conn, reader, reads, keeper, refs, notifies, torn>>

(* In close(): in ws.close(), or in the callbacks.                         *)
CancelClose ==
  /\ phase \in {"closing", "notifying"} /\ Cancel
  /\ torn' = torn \cup {attempt}
  /\ phase' = "raised"
  /\ IF phase = "notifying" THEN CancelCallbacks(attempt) ELSE UNCHANGED callbacks
  /\ UNCHANGED <<attempt, sock, pings, ws, closed, tasks, notifies>>

-----------------------------------------------------------------------------
(* The reader of attempt a.                                                *)

(* recv returns a message, and on_message is awaited: a request waits for  *)
(* the user's method, be the connection lost or not.                       *)
ReaderServes(a) ==
  /\ reader[a] = "reading" /\ a \notin doomed.reader
  /\ reader' = [reader EXCEPT ![a] = "serving"]
  /\ UNCHANGED <<phase, attempt, sock, pings, conn, reads, keeper, refs, doomed, cut>>

(* on_message returns, and the reader receives from what is self.ws now.   *)
(* One that is left over from a torn attempt may find a new websocket: if  *)
(* not connected yet, recv returns None; if its own reader is in recv, the *)
(* second recv raises or not, depending on the websocket library.          *)
ReaderReceives(a) ==
  /\ reader[a] = "serving" /\ a \notin doomed.reader
  /\ reads' = [reads EXCEPT ![a] = sock]
  /\ \/ sock # 0 /\ reader' = [reader EXCEPT ![a] = "reading"]
     \/ sock = 0 /\ reader' = [reader EXCEPT ![a] = "closing"]
     \/ /\ \E b \in Attempts \ {a} : reader[b] = "reading" /\ reads[b] = sock
        /\ reader' = [reader EXCEPT ![a] = "failed"]
  /\ UNCHANGED <<phase, attempt, sock, pings, conn, keeper, refs, doomed, cut>>

\* mutant: None is taken for a message
ReaderIgnoresNone(a) ==
  /\ reader[a] = "reading" /\ a \notin doomed.reader
  /\ ws[reads[a]] # "open"
  /\ UNCHANGED vars

(* recv returns None; the reader calls close() on the client.              *)
ReaderSeesEnd(a) ==
  /\ reader[a] = "reading" /\ a \notin doomed.reader
  /\ ws[reads[a]] # "open"
  /\ reader' = [reader EXCEPT ![a] = "closing"]
  /\ ShutWs
  /\ UNCHANGED <<phase, attempt, sock, pings, closed, callbacks, reads, keeper, refs, doomed, cut>>

(* on_message or recv raises: the task ends and nothing else happens.      *)
ReaderFails(a) ==
  /\ reader[a] \in {"reading", "serving"} /\ a \notin doomed.reader
  /\ reader' = [reader EXCEPT ![a] = "failed"]
  /\ UNCHANGED <<phase, attempt, sock, pings, conn, reads, keeper, refs, doomed, cut>>

\* mutant: leaves the callbacks and the channel to the user's close()
ReaderOnlyStops(a) ==
  /\ reader[a] = "closing" /\ a \notin doomed.reader
  /\ cancel_tasks
  /\ reader' = [reader EXCEPT ![a] = "over"]
  /\ UNCHANGED <<phase, attempt, sock, pings, conn, reads, keeper, cut>>

ReaderNotifies(a) ==
  /\ reader[a] = "closing" /\ a \notin doomed.reader
  /\ IF attempt \in closed
       THEN /\ cancel_tasks
            /\ reader' = [reader EXCEPT ![a] = "over"]
            /\ UNCHANGED <<closed, callbacks, notifies>>
       ELSE /\ StartCallbacks
            /\ notifies' = [notifies EXCEPT ![a] = attempt]
            /\ reader' = [reader EXCEPT ![a] = "notifying"]
            /\ UNCHANGED <<refs, doomed>>
  /\ UNCHANGED <<phase, attempt, sock, pings, ws, reads, keeper, cancels, torn>>

(* After the callbacks, channel.close() closes what is then the channel.   *)
(* Having cancelled itself, the reader stops without another await.        *)
ReaderStops(a) ==
  /\ reader[a] = "notifying" /\ a \notin doomed.reader
  /\ \/ /\ callbacks[notifies[a]] = "finished"
        /\ CloseChannel
        /\ cancel_tasks
        /\ reader' = [reader EXCEPT ![a] = "over"]
     \/ /\ callbacks[notifies[a]] = "raised"
        /\ reader' = [reader EXCEPT ![a] = "failed"]
        /\ UNCHANGED <<ws, closed, refs, doomed>>
  /\ UNCHANGED <<phase, attempt, sock, pings, callbacks, reads, keeper, cut>>

(* CancelledError, wherever the reader is: it is caught, and that is all.  *)
ReaderCancelled(a) ==
  /\ a \in doomed.reader
  /\ reader[a] \in Reading
  /\ reader' = [reader EXCEPT ![a] = "over"]
  /\ IF reader[a] = "notifying" THEN CancelCallbacks(notifies[a]) ELSE UNCHANGED callbacks
  /\ UNCHANGED <<phase, attempt, sock, pings, ws, closed, reads, keeper, refs, doomed, cut>>

-----------------------------------------------------------------------------
(* The on_disconnect callbacks of attempt a.                               *)

CallbacksStart(a) ==
  /\ callbacks[a] = "scheduled"
  /\ callbacks' = [callbacks EXCEPT ![a] = "running"]
  /\ UNCHANGED <<phase, attempt, sock, pings, ws, closed, tasks, cut>>

CallbacksEnd(a) ==
  /\ callbacks[a] = "running"
  /\ \E outcome \in {"finished"} \cup (IF CallbacksRaise THEN {"raised"} ELSE {}) :
       callbacks' = [callbacks EXCEPT ![a] = outcome]
  /\ UNCHANGED <<phase, attempt, sock, pings, ws, closed, tasks, cut>>

-----------------------------------------------------------------------------
(* The keep-alive task of attempt a.                                       *)

KeeperPings(a) ==
  /\ keeper[a] = "sleeping" /\ a \notin doomed.keeper
  /\ keeper' = [keeper EXCEPT ![a] = IF Up THEN "pinging" ELSE "over"]
  /\ UNCHANGED <<phase, attempt, sock, pings, conn, reader, reads, refs, doomed, cut>>

KeeperAnswered(a) ==
  /\ keeper[a] = "pinging" /\ a \notin doomed.keeper
  /\ Up /\ Listening
  /\ keeper' = [keeper EXCEPT ![a] = "sleeping"]
  /\ UNCHANGED <<phase, attempt, sock, pings, conn, reader, reads, refs, doomed, cut>>

(* The ping raises (closed channel, timeout): the task ends, unnoticed.    *)
KeeperFails(a) ==
  /\ keeper[a] = "pinging" /\ a \notin doomed.keeper
  /\ attempt \in closed \/ QuickTimeout
  /\ keeper' = [keeper EXCEPT ![a] = "over"]
  /\ UNCHANGED <<phase, attempt, sock, pings, conn, reader, reads, refs, doomed, cut>>

KeeperCancelled(a) ==
  /\ a \in doomed.keeper
  /\ keeper[a] \in Keeping
  /\ keeper' = [keeper EXCEPT ![a] = "over"]
  /\ UNCHANGED <<phase, attempt, sock, pings, conn, reader, reads, refs, doomed, cut>>

-----------------------------------------------------------------------------

(* The server or the network ends the connection.                          *)
ConnectionDrops ==
  /\ attempt # 0
  /\ Up
  /\ ws' = [ws EXCEPT ![attempt] = "lost"]
  /\ UNCHANGED <<phase, attempt, sock, pings, closed, callbacks, tasks, cut>>

UserSteps ==
  \/ Enter \/ DialRejected \/ DialSucceeds \/ Pong \/ PingTimesOut
  \/ ConnectFails \/ CleanedUp \/ Connected \/ Join \/ JoinEnds \/ JoinRaises
  \/ UserCloses \/ UserNotifies \/ UserLeaves

ReaderRuns(a) ==
  ReaderSeesEnd(a) \/ ReaderNotifies(a) \/ ReaderStops(a) \/ ReaderCancelled(a)

KeeperSteps(a) ==
  KeeperPings(a) \/ KeeperAnswered(a) \/ KeeperFails(a) \/ KeeperCancelled(a)

Next ==
  \/ UserSteps
  \/ \E a \in Attempts :
       \/ ReaderRuns(a) \/ ReaderServes(a) \/ ReaderReceives(a) \/ ReaderFails(a)
       \/ KeeperSteps(a)
       \/ CallbacksStart(a) \/ CallbacksEnd(a)
  \/ ConnectionDrops
  \/ CancelDialing \/ CancelHandshake \/ CancelCleanup \/ CancelJoin \/ CancelClose

(* The event loop runs what is ready; timers fire; websockets finish their *)
(* closing handshake.  Messages that came before the end of a websocket are*)
(* read first, hence SF: there are finitely many of them.  The user need   *)
(* not close, the server not answer, and no method and no callback return. *)
Fairness ==
  /\ WF_vars(PingTimesOut)
  /\ WF_vars(CleanedUp)
  /\ WF_vars(JoinEnds \/ JoinRaises)
  /\ WF_vars(UserNotifies)
  /\ WF_vars(UserLeaves)
  /\ \A a \in Attempts :
       /\ SF_vars(ReaderSeesEnd(a))
       /\ WF_vars(ReaderRuns(a))
       /\ WF_vars(KeeperCancelled(a))
       /\ WF_vars(CallbacksStart(a))

SafeSpec == Init /\ [][Next]_vars
Spec == SafeSpec /\ Fairness

-----------------------------------------------------------------------------
(* Safety.                                                                 *)

(* The tasks of an attempt that failed, or was cancelled, never touch the  *)
(* next connection: each has ended or has a cancellation pending, and the  *)
(* attempt's websocket and channel are closed.  (Unless a cancellation came*)
(* in the cleanup itself.)                                                 *)
OldAttemptsAreDead ==
  \A a \in Attempts \ torn : a < attempt =>
    /\ ws[a] = "shut" /\ a \in closed
    /\ reader[a] \in Reading => a \in doomed.reader
    /\ keeper[a] \in Keeping => a \in doomed.keeper

(* The comment in close(): "Notify callbacks (but just once)", whoever     *)
(* closes, in whatever order.                                              *)
NotifiedJustOnce ==
  [][\A a \in Attempts :
       callbacks'[a] = "scheduled" => callbacks[a] \in {"none", "scheduled"}]_vars

(* After the async with, or a failed entry into it, no task is left that   *)
(* nobody has cancelled, and whoever waits on the channel is released.     *)
(* (An on_disconnect callback that raises cuts close() short, as does a    *)
(* cancellation.)                                                          *)
NothingIsLeftBehind ==
  torn = {} /\ (phase = "left" \/ (phase = "raised" /\ attempt # 0 /\ callbacks[attempt] # "raised")) =>
    /\ attempt \in closed
    /\ \A a \in Attempts :
         /\ reader[a] \in Reading => a \in doomed.reader
         /\ keeper[a] \in Keeping => a \in doomed.keeper

(* Docstring of __init__: on_disconnect are "callbacks on connection       *)
(* termination (each callback is called with the channel)".                *)
DisconnectCallbacksAreCalled ==
  phase = "left" => callbacks[attempt] # "dropped"

-----------------------------------------------------------------------------
(* Liveness.                                                               *)

(* A cancelled wait_on_reader has cancelled the reader as well.            *)
Muted(a) == a \in doomed.reader /\ refs.reader = a

(* A dropped connection closes the channel, and with it releases the calls *)
(* waiting on it, unless the reader has died of an exception or of that    *)
(* cancellation, or one has cut the cleanup short; or unless the reader    *)
(* stays in a method that never returns.                                   *)
DropClosesChannel ==
  \A a \in Attempts :
    \/ <>[](reader[a] = "serving")
    \/ (ws[a] = "lost" /\ reader[a] \in {"reading", "serving"}) ~>
         (a \in closed \cup torn \/ reader[a] = "failed" \/ Muted(a))

(* The reader is in a method, or awaits a callback, of the user's.         *)
InUsersCode(a) ==
  \/ reader[a] = "serving"
  \/ reader[a] = "notifying" /\ callbacks[notifies[a]] = "running"

(* wait_on_reader returns or raises once the connection is gone, unless the*)
(* reader stays for good in the user's code.                               *)
JoinReturns ==
  \/ <>[](\E a \in Attempts : InUsersCode(a))
  \/ (phase = "joining" /\ ~Up) ~> phase # "joining"

=============================================================================
