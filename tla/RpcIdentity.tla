----------------------------- MODULE RpcIdentity -----------------------------
(***************************************************************************)
(* Who is at the other end: the exchange of channel ids (rpc_channel.py,   *)
(* on_connect, _get_other_channel_id, get_other_channel_id) and the copies *)
(* of the methods object that make the answer right (rpc_methods.py).      *)
(*                                                                         *)
(* An endpoint with rpc_channel_get_remote_id asks every client for its id *)
(* in a task that on_connect starts.  The answer comes from the client's   *)
(* methods object, which knows one channel.  The endpoint gives one methods*)
(* object to all its connections, and so may a process to its clients:     *)
(* each channel makes a copy of it and sets itself as the copy's channel.  *)
(*                                                                         *)
(* get_other_channel_id may be awaited anywhere on the server: by an       *)
(* on_connect callback and by a method, which keep main_loop from reading, *)
(* or by a task of its own.  The rest of main_loop is in RpcEndpoint, that *)
(* of a call in RpcChannel.                                                *)
(***************************************************************************)

CONSTANTS
  Conns,       \* connections, each with a channel on the server and the client
  Syncing,     \* those whose server asks for the other id (sync_channel_id)
  Timed,       \* those with a default_response_timeout on the server
  Suspending,  \* those on which the question's send may suspend
  Foreign,     \* those whose client may answer with an error or with no id
  Waiters      \* coroutines that await get_other_channel_id, by connection and
               \* by place: "callback" of on_connect, "method" or "task"

ASSUME IdentityAssumption ==
  /\ Syncing \subseteq Conns /\ Timed \subseteq Conns
  /\ Suspending \subseteq Conns /\ Foreign \subseteq Conns
  /\ Waiters \subseteq [conn : Conns, place : {"callback", "method", "task"}]

VARIABLES
  at,       \* where main_loop stands
  client,   \* is the client's channel there?
  closed,   \* the connections whose server channel has _closed set
  channel,  \* _channel of each methods object
  sync,     \* the task of _get_other_channel_id
  ask,      \* how far its question got
  reply,    \* the id in the answer (None: an error, or no id)
  other,    \* _other_channel_id
  synced,   \* the connections with _channel_id_synced set
  wait,     \* how each await of get_other_channel_id goes
  result    \* what it returned

task == <<sync, ask, reply, other, synced>>
waits == <<wait, result>>
vars == <<at, client, closed, channel, task, waits>>

Channels == {"server", "client"} \X Conns
Objects  == {<<"server">>, <<"client">>} \cup Channels   \* originals and copies
Id(side, c) == <<side, c>>                               \* gen_uid()
None == <<>>

Serving  == {"greeting", "reading", "handling"}
Blocking == {"callback", "method"}

TypeOK ==
  /\ at \in [Conns -> {"new", "over"} \cup Serving]
  /\ client \in [Conns -> {"new", "open", "gone"}]
  /\ closed \subseteq Conns
  /\ channel \in [Objects -> Channels \cup {None}]
  /\ sync \in [Conns -> {"none", "ready", "sending", "waiting", "done", "failed"}]
  /\ ask \in [Conns -> {"none", "asked", "answered", "saved", "dropped"}]
  /\ reply \in [Conns -> Channels \cup {None}]
  /\ other \in [Conns -> Channels \cup {None}]
  /\ synced \subseteq Conns
  /\ wait \in [Waiters -> {"idle", "waiting", "got", "raised"}]
  /\ result \in [Waiters -> Channels \cup {None}]

Init ==
  /\ at = [c \in Conns |-> "new"]
  /\ client = [c \in Conns |-> "new"]
  /\ closed = {}
  /\ channel = [o \in Objects |-> None]
  /\ sync = [c \in Conns |-> "none"]
  /\ ask = [c \in Conns |-> "none"]
  /\ reply = [c \in Conns |-> None]
  /\ other = [c \in Conns |-> None]
  /\ synced = {}
  /\ wait = [w \in Waiters |-> "idle"]
  /\ result = [w \in Waiters |-> None]

Of(c, places) == {w \in Waiters : w.conn = c /\ w.place \in places}

(* The await of those waiters becomes what.                                *)
Mark(ws, what) == wait' = [w \in Waiters |-> IF w \in ws THEN what ELSE wait[w]]

\* mutant: the channel keeps the methods object it is given
SharedMethods(side, c) == <<side>>

(* RpcChannel.methods = methods._copy_()                                   *)
Methods(side, c) == <<side, c>>

(* methods._set_channel_(self) in RpcChannel.__init__                      *)
SetChannel(side, c) ==
  channel' = [channel EXCEPT ![Methods(side, c)] = Id(side, c)]

-----------------------------------------------------------------------------
(* Both ends of a connection.                                              *)

(* main_loop builds the channel; on_connect creates the task, and awaits   *)
(* the callbacks, of which some await the other id: in vain, since main_loop*)
(* reads only after them (the docstring of on_connect has them "called (As *)
(* an async task)").                                                       *)
OpenServer(c) ==
  /\ at[c] = "new"
  /\ at' = [at EXCEPT ![c] = "greeting"]
  /\ SetChannel("server", c)
  /\ sync' = [sync EXCEPT ![c] = IF c \in Syncing THEN "ready" ELSE "none"]
  /\ \E ws \in SUBSET Of(c, {"callback"}) : Mark(ws, "waiting")
  /\ UNCHANGED <<client, closed, ask, reply, other, synced, result>>

(* __connect__, once the server has accepted.                              *)
OpenClient(c) ==
  /\ client[c] = "new" /\ at[c] # "new"
  /\ client' = [client EXCEPT ![c] = "open"]
  /\ SetChannel("client", c)
  /\ UNCHANGED <<at, closed, task, waits>>

GreetingEnds(c) ==
  /\ at[c] = "greeting"
  /\ \A w \in Of(c, {"callback"}) : wait[w] \in {"idle", "got"}
  /\ at' = [at EXCEPT ![c] = "reading"]
  /\ UNCHANGED <<client, closed, channel, task, waits>>

(* TimeoutError leaves on_connect, and main_loop by its bare except, which *)
(* does not close the channel.                                             *)
GreetingRaises(c) ==
  /\ at[c] = "greeting"
  /\ \E w \in Of(c, {"callback"}) : wait[w] = "raised"
  /\ at' = [at EXCEPT ![c] = "over"]
  /\ UNCHANGED <<client, closed, channel, task, waits>>

(* Reading ends: the client has left, or the application has closed.       *)
Disconnect(c) ==
  /\ at[c] = "reading"
  /\ client[c] = "gone" \/ c \in closed
  /\ at' = [at EXCEPT ![c] = "over"]
  /\ closed' = closed \cup {c}
  /\ UNCHANGED <<client, channel, task, waits>>

(* main_loop is cancelled, or fails and cannot close: the channel is not   *)
(* marked as closed.  What main_loop awaits is cancelled with it.          *)
EndsUnclosed(c) ==
  /\ at[c] \in Serving
  /\ at' = [at EXCEPT ![c] = "over"]
  /\ Mark({w \in Of(c, Blocking) : wait[w] = "waiting"}, "raised")
  /\ UNCHANGED <<client, closed, channel, task, result>>

ServerCloses(c) ==
  /\ at[c] \in Serving /\ c \notin closed
  /\ closed' = closed \cup {c}
  /\ UNCHANGED <<at, client, channel, task, waits>>

ClientLeaves(c) ==
  /\ client[c] = "open"
  /\ client' = [client EXCEPT ![c] = "gone"]
  /\ UNCHANGED <<at, closed, channel, task, waits>>

-----------------------------------------------------------------------------
(* The task of _get_other_channel_id, and its one call.                    *)

Up(c) == client[c] # "gone" /\ c \notin closed /\ at[c] # "over"

(* A send that suspends has not saved the promise yet.                     *)
Ask(c) ==
  /\ sync[c] = "ready" /\ c \notin closed
  /\ \E next \in {"waiting"} \cup (IF c \in Suspending THEN {"sending"} ELSE {}) :
       sync' = [sync EXCEPT ![c] = next]
  /\ ask' = [ask EXCEPT ![c] = "asked"]
  /\ UNCHANGED <<at, client, closed, channel, reply, other, synced, waits>>

AskResumes(c) ==
  /\ sync[c] = "sending"
  /\ sync' = [sync EXCEPT ![c] = "waiting"]
  /\ UNCHANGED <<at, client, closed, channel, ask, reply, other, synced, waits>>

SendFails(c) ==
  /\ sync[c] \in {"ready", "sending"} /\ ~Up(c)
  /\ sync' = [sync EXCEPT ![c] = "failed"]
  /\ UNCHANGED <<at, client, closed, channel, ask, reply, other, synced, waits>>

(* The client's on_request: RpcResponse(result=_get_channel_id_()).        *)
ClientAnswers(c) ==
  /\ ask[c] = "asked" /\ client[c] = "open"
  /\ ask' = [ask EXCEPT ![c] = "answered"]
  /\ \E id \in {channel[Methods("client", c)]} \cup (IF c \in Foreign THEN {None} ELSE {}) :
       reply' = [reply EXCEPT ![c] = id]
  /\ UNCHANGED <<at, client, closed, channel, sync, other, synced, waits>>

(* on_response, in main_loop: kept if the promise is saved.                *)
TakeAnswer(c) ==
  /\ ask[c] = "answered"
  /\ at[c] = "reading" /\ c \notin closed
  /\ ask' = [ask EXCEPT ![c] = IF sync[c] = "waiting" THEN "saved" ELSE "dropped"]
  /\ UNCHANGED <<at, client, closed, channel, sync, reply, other, synced, waits>>

\* mutants: the response is kept instead of its result; the event is set
\* before the answer is looked at; the event is not set
SyncedWithResponse(c) ==
  /\ sync[c] = "waiting" /\ ask[c] = "saved"
  /\ sync' = [sync EXCEPT ![c] = "done"]
  /\ other' = [other EXCEPT ![c] = <<reply[c]>>]
  /\ synced' = synced \cup {c}
  /\ UNCHANGED <<at, client, closed, channel, ask, reply, waits>>

SyncedAnyway(c) ==
  /\ sync[c] = "waiting" /\ ask[c] = "saved"
  /\ sync' = [sync EXCEPT ![c] = IF reply[c] = None THEN "failed" ELSE "done"]
  /\ other' = [other EXCEPT ![c] = reply[c]]
  /\ synced' = synced \cup {c}
  /\ UNCHANGED <<at, client, closed, channel, ask, reply, waits>>

SyncedQuietly(c) ==
  /\ sync[c] = "waiting" /\ ask[c] = "saved"
  /\ sync' = [sync EXCEPT ![c] = IF reply[c] = None THEN "failed" ELSE "done"]
  /\ other' = [other EXCEPT ![c] = reply[c]]
  /\ UNCHANGED <<at, client, closed, channel, ask, reply, synced, waits>>

(* The id is stored and the event set, or RemoteValueError ends the task.  *)
Synced(c) ==
  /\ sync[c] = "waiting" /\ ask[c] = "saved"
  /\ sync' = [sync EXCEPT ![c] = IF reply[c] = None THEN "failed" ELSE "done"]
  /\ other' = [other EXCEPT ![c] = reply[c]]
  /\ synced' = IF reply[c] = None THEN synced ELSE synced \cup {c}
  /\ UNCHANGED <<at, client, closed, channel, ask, reply, waits>>

\* mutant: the task waits for the answer only
SyncNotReleased(c) ==
  /\ sync[c] = "waiting" /\ ask[c] # "saved"
  /\ c \in Timed
  /\ sync' = [sync EXCEPT ![c] = "failed"]
  /\ UNCHANGED <<at, client, closed, channel, ask, reply, other, synced, waits>>

(* RpcChannelClosedException ends the task, after a close or a timeout.    *)
(* Nobody awaits it, and nobody asks again.                                *)
SyncReleased(c) ==
  /\ sync[c] = "waiting" /\ ask[c] # "saved"
  /\ c \in closed \/ c \in Timed
  /\ sync' = [sync EXCEPT ![c] = "failed"]
  /\ UNCHANGED <<at, client, closed, channel, ask, reply, other, synced, waits>>

-----------------------------------------------------------------------------
(* get_other_channel_id.                                                   *)

(* A method calls it: main_loop awaits the method.                         *)
MethodWaits(w) ==
  /\ w.place = "method" /\ wait[w] = "idle"
  /\ at[w.conn] = "reading" /\ client[w.conn] # "new" /\ w.conn \notin closed
  /\ at' = [at EXCEPT ![w.conn] = "handling"]
  /\ Mark({w}, "waiting")
  /\ UNCHANGED <<client, closed, channel, task, result>>

(* The method returns, or its TimeoutError is reported to the client.      *)
MethodEnds(w) ==
  /\ w.place = "method" /\ wait[w] \in {"got", "raised"}
  /\ at[w.conn] = "handling"
  /\ at' = [at EXCEPT ![w.conn] = "reading"]
  /\ UNCHANGED <<client, closed, channel, task, waits>>

TaskWaits(w) ==
  /\ w.place = "task" /\ wait[w] = "idle"
  /\ at[w.conn] # "new"
  /\ Mark({w}, "waiting")
  /\ UNCHANGED <<at, client, closed, channel, task, result>>

GetReturns(w) ==
  /\ wait[w] = "waiting" /\ w.conn \in synced
  /\ Mark({w}, "got")
  /\ result' = [result EXCEPT ![w] = other[w.conn]]
  /\ UNCHANGED <<at, client, closed, channel, task>>

(* wait_for's TimeoutError; a closed channel ends no wait.                 *)
GetTimesOut(w) ==
  /\ wait[w] = "waiting" /\ w.conn \in Timed
  /\ Mark({w}, "raised")
  /\ UNCHANGED <<at, client, closed, channel, task, result>>

-----------------------------------------------------------------------------

Next ==
  \/ \E c \in Conns :
       \/ OpenClient(c) \/ OpenServer(c) \/ GreetingEnds(c) \/ GreetingRaises(c)
       \/ Disconnect(c) \/ EndsUnclosed(c) \/ ServerCloses(c) \/ ClientLeaves(c)
       \/ Ask(c) \/ AskResumes(c) \/ SendFails(c)
       \/ ClientAnswers(c) \/ TakeAnswer(c) \/ Synced(c) \/ SyncReleased(c)
  \/ \E w \in Waiters :
       \/ MethodWaits(w) \/ MethodEnds(w) \/ TaskWaits(w)
       \/ GetReturns(w) \/ GetTimesOut(w)

(* Tasks that are ready run, timers fire, sends end, main_loop reads what  *)
(* there is to read; a client that has been accepted builds its channel,   *)
(* and its reader, which nothing here keeps busy, answers.  Nobody need    *)
(* connect, leave, close or wait.                                          *)
Fairness ==
  /\ \A c \in Conns :
       /\ WF_vars(GreetingEnds(c) \/ GreetingRaises(c))
       /\ WF_vars(Ask(c) \/ AskResumes(c) \/ SendFails(c))
       /\ WF_vars(ClientAnswers(c))
       /\ WF_vars(TakeAnswer(c))
       /\ WF_vars(Synced(c) \/ SyncReleased(c))
       /\ WF_vars(OpenClient(c))
  /\ \A w \in Waiters :
       /\ WF_vars(GetReturns(w) \/ GetTimesOut(w))
       /\ WF_vars(MethodEnds(w))

SafeSpec == Init /\ [][Next]_vars
Spec == SafeSpec /\ Fairness

-----------------------------------------------------------------------------
(* Safety.                                                                 *)

(* The id that the server has learned is the client's of that connection,  *)
(* however many others the two methods objects serve: "each channel has its*)
(* own copy of the methods object".                                        *)
KnownIdIsTheOthers == \A c \in Conns : other[c] \in {None, Id("client", c)}

(* get_other_channel_id returns an id or does not return at all: "The      *)
(* _channel_id_synced verify we have it".                                  *)
WaitersGetTheId ==
  \A w \in Waiters : wait[w] = "got" => result[w] = Id("client", w.conn)

-----------------------------------------------------------------------------
(* Liveness.                                                               *)

(* The task ends when its channel is closed, or in time.  (It is left      *)
(* waiting for good if main_loop fails without closing the channel.)       *)
SyncTaskEnds ==
  \A c \in Conns :
    (sync[c] = "waiting" /\ (c \in closed \/ c \in Timed)) ~>
      sync[c] \in {"done", "failed"}

(* Where nothing blocks main_loop and the question's send does not suspend,*)
(* a waiter learns the id of a client that stays.                          *)
WaitersLearn ==
  \A w \in Waiters :
    w.conn \in Syncing \ (Suspending \cup Foreign \cup Timed) /\ Of(w.conn, Blocking) = {} =>
      wait[w] = "waiting" ~> wait[w] = "got" \/ ~Up(w.conn)

=============================================================================
