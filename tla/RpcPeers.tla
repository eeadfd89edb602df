------------------------------ MODULE RpcPeers ------------------------------
(***************************************************************************)
(* Two RpcChannels at the ends of one websocket, a client's and a server's:*)
(* every request handled and every response taken by the one reader of its *)
(* side (WebSocketRpcClient.reader, WebsocketRPCEndpoint.main_loop), which *)
(* awaits on_message, which awaits on_request, which awaits the method.    *)
(* While a method runs, its side reads nothing.                            *)
(*                                                                         *)
(* The calls of an instance are constants: who makes each, and what its    *)
(* method does on the other side:                                          *)
(*   "plain"       answers                                                 *)
(*   "flaky"       may raise HTTPException with a detail that is no string, *)
(*                 which becomes an error report without an id             *)
(*   "recursive"   awaits a call of its own to the caller (child) first    *)
(*   "background"  call_me_back: starts a task that makes the call child,  *)
(*                 before its answer is out or later                       *)
(*   "fetch"       get_response: hands over the response to the call child *)
(*                                                                         *)
(* The wire is reliable and in order until it drops.  A send returns when  *)
(* at most HighWater messages are on their way (the transport's drain).    *)
(***************************************************************************)
EXTENDS Naturals, Sequences, FiniteSets

CONSTANTS
  Calls, caller, kind, child,
  Timed,          \* the calls made with a timeout
  HighWater,
  Anonymous, NoResponse, NoCall

Sides == {"client", "server"}
Other(s) == IF s = "client" THEN "server" ELSE "client"

Detached == {child[c] : c \in {b \in Calls : kind[b] = "background"}}

(* What an answer with an id says: whose answer it is, and which kind.     *)
Payloads == [of : Calls, is : {"ok", "error"}]

ASSUME PeersAssumption ==
  /\ caller \in [Calls -> Sides]
  /\ kind \in [Calls -> {"plain", "flaky", "recursive", "background", "fetch"}]
  /\ child \in [Calls -> Calls \cup {NoCall}]
  /\ \A c \in Calls :
       /\ (child[c] = NoCall) <=> (kind[c] \in {"plain", "flaky"})
       /\ (child[c] # NoCall) => (caller[child[c]] = Other(caller[c]))
       /\ (kind[c] = "fetch") => (child[c] \in Detached)
  /\ Timed \subseteq Calls \ Detached
  /\ HighWater \in Nat
  /\ NoCall \notin Calls
  /\ {Anonymous, NoResponse} \cap Payloads = {} /\ Anonymous # NoResponse

VARIABLES
  task, requests, responses, event, peer, answer, result,   \* as in RpcChannel
  closed,     \* the sides whose channel has _closed set
  link,       \* the websocket
  wire,       \* the messages on their way to each side
  reader,     \* what the reader of each side is doing ...
  handling,   \* ... and for which call
  unanswered  \* history: the requests of each side in the order they were sent,
              \* which every answer takes the first off (AnswersInOrder)

chan == <<requests, responses, event>>
calls == <<task, chan, peer, answer, result>>
readers == <<reader, handling>>
vars == <<calls, closed, link, wire, readers, unanswered>>

Running == {"sending", "waiting", "registered"}
Ended   == {"returned", "raised", "unsent"}

(* of is the call a message is about, which its id says except in an error *)
(* report without one.                                                     *)
Messages ==
  [type : {"request", "response"}, of : Calls, id : Calls \cup {NoCall},
   body : Payloads \cup {Anonymous, NoResponse}]

RequestOf(c) == [type |-> "request", of |-> c, id |-> c, body |-> NoResponse]
ResponseTo(c, body) ==
  [type |-> "response", of |-> c, id |-> IF body = Anonymous THEN NoCall ELSE c, body |-> body]

TypeOK ==
  /\ task \in [Calls -> {"idle"} \cup Running \cup Ended]
  /\ requests \subseteq Calls /\ event \subseteq Calls
  /\ responses \in [Calls -> Payloads \cup {NoResponse}]
  /\ peer \in [Calls -> {"unasked", "asked", "answered", "delivered"}]
  /\ answer \in [Calls -> Payloads \cup {Anonymous, NoResponse}]
  /\ result \in [Calls -> Payloads \cup {NoResponse}]
  /\ closed \subseteq Sides
  /\ link \in {"up", "down"}
  /\ wire \in [Sides -> Seq(Messages)]
  /\ reader \in [Sides -> {"reading", "awaiting", "replying", "ended", "failed"}]
  /\ handling \in [Sides -> Calls \cup {NoCall}]
  /\ unanswered \in [Sides -> Seq(Calls)]

Init ==
  /\ task = [c \in Calls |-> "idle"]
  /\ requests = {} /\ event = {}
  /\ responses = [c \in Calls |-> NoResponse]
  /\ peer = [c \in Calls |-> "unasked"]
  /\ answer = [c \in Calls |-> NoResponse]
  /\ result = [c \in Calls |-> NoResponse]
  /\ closed = {}
  /\ link = "up"
  /\ wire = [s \in Sides |-> <<>>]
  /\ reader = [s \in Sides |-> "reading"]
  /\ handling = [s \in Sides |-> NoCall]
  /\ unanswered = [s \in Sides |-> <<>>]

-----------------------------------------------------------------------------
(* The calling side: RpcChannel, with the wire for its environment.        *)

(* The request c has been taken off the wire.                              *)
Begun(c) ==
  /\ peer[c] # "unasked"
  /\ \A i \in DOMAIN wire[Other(caller[c])] : wire[Other(caller[c])][i] # RequestOf(c)

(* A nested call is made by the method that is being handled, a detached   *)
(* one by the task its method started, at any time from then on, a         *)
(* get_response by a caller who was told the id; anything else is a call   *)
(* of the user's.                                                          *)
Ready(c) ==
  \A b \in Calls :
    /\ (child[b] = c /\ kind[b] = "recursive") =>
         (handling[caller[c]] = b /\ reader[caller[c]] = "awaiting")
    /\ (child[b] = c /\ kind[b] = "background") => Begun(b)
    /\ (kind[c] = "fetch" /\ kind[b] = "background" /\ child[b] = child[c]) =>
         task[b] = "returned"

Drained(queue) == Len(queue) <= HighWater

SavePromise(c) ==
  /\ requests' = requests \cup {c}
  /\ task' = [task EXCEPT ![c] = IF c \in Detached THEN "registered" ELSE "waiting"]

async_call(c) ==
  /\ task[c] = "idle" /\ Ready(c)
  /\ link = "up"
  /\ peer' = [peer EXCEPT ![c] = "asked"]
  /\ wire' = [wire EXCEPT ![Other(caller[c])] = Append(@, RequestOf(c))]
  /\ IF Drained(wire'[Other(caller[c])])
       THEN SavePromise(c)
       ELSE task' = [task EXCEPT ![c] = "sending"] /\ UNCHANGED requests
  /\ unanswered' = [unanswered EXCEPT ![caller[c]] = Append(@, c)]
  /\ UNCHANGED <<responses, event, answer, result, closed, link, readers>>

async_call_resume(c) ==
  /\ task[c] = "sending" /\ Drained(wire[Other(caller[c])])
  /\ SavePromise(c)
  /\ UNCHANGED <<responses, event, peer, answer, result, closed, link, wire, readers, unanswered>>

async_call_send_fails(c) ==
  /\ (task[c] = "idle" /\ Ready(c)) \/ task[c] = "sending"
  /\ link = "down"
  /\ task' = [task EXCEPT ![c] = "unsent"]
  /\ UNCHANGED <<chan, peer, answer, result, closed, link, wire, readers, unanswered>>

\* mutant: asyncio.wait without the close event
WaitIgnoresClose(c) == task[c] = "waiting" /\ (c \in event \/ c \in Timed)

WaitIsOver(c) ==
  task[c] = "waiting" /\ (c \in event \/ caller[c] \in closed \/ c \in Timed)

clear_saved_call(c) ==
  /\ requests' = requests \ {c}
  /\ responses' = [responses EXCEPT ![c] = NoResponse]

(* The call's task, or a get_response, takes the saved response.           *)
TakeResponse(c) ==
  /\ clear_saved_call(c)
  /\ task' = [task EXCEPT ![c] = "returned"]
  /\ result' = [result EXCEPT ![c] = responses[c]]

wait_for_response(c) ==
  /\ WaitIsOver(c)
  /\ responses[c] # NoResponse
  /\ TakeResponse(c)
  /\ UNCHANGED <<event, peer, answer, closed, link, wire, readers, unanswered>>

wait_for_response_raises(c) ==
  /\ WaitIsOver(c)
  /\ responses[c] = NoResponse
  /\ task' = [task EXCEPT ![c] = "raised"]
  /\ UNCHANGED <<chan, peer, answer, result, closed, link, wire, readers, unanswered>>

-----------------------------------------------------------------------------
(* The reader of side s.                                                   *)

(* on_request's last lines: the answer to c goes out; rest is what is left *)
(* of the wire to s.  On a dead connection send raises (ReaderSeesEnd).    *)
Reply(s, c, body, rest) ==
  /\ handling' = [handling EXCEPT ![s] = NoCall]
  /\ IF link = "up"
       THEN /\ wire' = [wire EXCEPT ![s] = rest, ![Other(s)] = Append(@, ResponseTo(c, body))]
            /\ peer' = [peer EXCEPT ![c] = "answered"]
            /\ answer' = [answer EXCEPT ![c] = body]
            /\ unanswered' = [unanswered EXCEPT ![Other(s)] = Tail(@)]
            /\ reader' = [reader EXCEPT ![s] =
                            IF Drained(wire'[Other(s)]) THEN "reading" ELSE "replying"]
       ELSE /\ wire' = [wire EXCEPT ![s] = rest]
            /\ reader' = [reader EXCEPT ![s] = "replying"]
            /\ UNCHANGED <<peer, answer, unanswered>>

Body(c, is) == [of |-> c, is |-> is]

\* mutant: a request that a later one overtakes, each in a task of its own
on_request_overtaken(s) ==
  /\ reader[s] = "reading"
  /\ \E i \in DOMAIN wire[s] :
       LET m == wire[s][i] IN
         /\ m.type = "request"
         /\ Reply(s, m.of, Body(m.of, "ok"), SubSeq(wire[s], 1, i - 1) \o SubSeq(wire[s], i + 1, Len(wire[s])))
  /\ UNCHANGED <<task, chan, result, closed, link>>

(* The next message is a request: its method is called, and awaited.       *)
on_request(s) ==
  /\ reader[s] = "reading" /\ wire[s] # <<>>
  /\ Head(wire[s]).type = "request"
  /\ LET c == Head(wire[s]).id  d == child[c]  rest == Tail(wire[s]) IN
       \/ /\ kind[c] \in {"plain", "flaky"}
          /\ Reply(s, c, Body(c, "ok"), rest)
          /\ UNCHANGED <<task, chan, result>>
       \/ /\ kind[c] = "flaky"                     \* RpcError refuses the detail
          /\ Reply(s, c, Anonymous, rest)
          /\ UNCHANGED <<task, chan, result>>
       \/ /\ kind[c] = "fetch" /\ responses[d] # NoResponse
          /\ TakeResponse(d)
          /\ Reply(s, c, Body(c, "ok"), rest)
          /\ UNCHANGED event
       \/ /\ kind[c] = "fetch" /\ responses[d] = NoResponse      \* KeyError
          /\ Reply(s, c, Body(c, "error"), rest)
          /\ UNCHANGED <<task, chan, result>>
       \/ /\ kind[c] \in {"recursive", "background"}
          /\ wire' = [wire EXCEPT ![s] = rest]
          /\ reader' = [reader EXCEPT ![s] = "awaiting"]
          /\ handling' = [handling EXCEPT ![s] = c]
          /\ UNCHANGED <<calls, unanswered>>
  /\ UNCHANGED <<closed, link>>

\* mutants: no error report when the method raises; and none, but on it reads
MethodReturnsOrHangs(s) ==
  /\ reader[s] = "awaiting"
  /\ kind[handling[s]] = "background" \/ task[child[handling[s]]] = "returned"
  /\ Reply(s, handling[s], Body(handling[s], "ok"), wire[s])
  /\ UNCHANGED <<task, chan, result, closed, link>>

MethodReturnsSilently(s) ==
  /\ reader[s] = "awaiting"
  /\ kind[handling[s]] = "background" \/ task[child[handling[s]]] \in Ended
  /\ reader' = [reader EXCEPT ![s] = "reading"]
  /\ handling' = [handling EXCEPT ![s] = NoCall]
  /\ UNCHANGED <<calls, closed, link, wire, unanswered>>

(* The method of call_me_back ends by itself, a recursive one with its     *)
(* nested call.                                                            *)
MethodReturns(s) ==
  /\ reader[s] = "awaiting"
  /\ LET c == handling[s]
         is == IF kind[c] = "recursive" /\ task[child[c]] # "returned" THEN "error" ELSE "ok" IN
       /\ kind[c] = "recursive" => task[child[c]] \in Ended
       /\ Reply(s, c, Body(c, is), wire[s])
  /\ UNCHANGED <<task, chan, result, closed, link>>

ReplySent(s) ==
  /\ reader[s] = "replying" /\ link = "up" /\ Drained(wire[Other(s)])
  /\ reader' = [reader EXCEPT ![s] = "reading"]
  /\ UNCHANGED <<calls, closed, link, wire, handling, unanswered>>

(* The next message is a response; it is saved under key, if at all.       *)
Takes(s, m, key, saved) ==
  /\ peer' = [peer EXCEPT ![m.of] = "delivered"]
  /\ IF saved
       THEN responses' = [responses EXCEPT ![key] = m.body] /\ event' = event \cup {key}
       ELSE UNCHANGED <<responses, event>>
  /\ wire' = [wire EXCEPT ![s] = Tail(@)]
  /\ UNCHANGED <<task, requests, answer, result, closed, link, readers, unanswered>>

Reads(s, m) == reader[s] = "reading" /\ m.type = "response"

\* mutants: an error without an id is given to the call it is about; the id
\* is not looked up
on_response_anonymous(s) ==
  wire[s] # <<>> /\ LET m == Head(wire[s]) IN Reads(s, m) /\ Takes(s, m, m.of, m.of \in requests)
on_response_unsolicited(s) ==
  wire[s] # <<>> /\ LET m == Head(wire[s]) IN Reads(s, m) /\ Takes(s, m, m.id, m.id # NoCall)

(* One without an id is dropped, as is one nobody has a promise for.       *)
on_response(s) ==
  /\ wire[s] # <<>>
  /\ LET m == Head(wire[s]) IN Reads(s, m) /\ Takes(s, m, m.id, m.id \in requests)

-----------------------------------------------------------------------------
(* The end of the connection.                                              *)

LinkDrops ==
  /\ link = "up"
  /\ link' = "down"
  /\ UNCHANGED <<calls, closed, wire, readers, unanswered>>

(* recv tells the reader, which closes its channel.  A reply that cannot   *)
(* be sent kills the client's reader; main_loop closes its channel, unless *)
(* the application has closed the websocket: then close() raises as well.  *)
ReaderSeesEnd(s) ==
  /\ link = "down"
  /\ reader[s] \in {"reading", "replying"}
  /\ \/ /\ reader[s] = "reading" \/ s = "server"
        /\ reader' = [reader EXCEPT ![s] = "ended"]
        /\ closed' = closed \cup {s}
     \/ /\ reader[s] = "replying" \/ s = "server"
        /\ reader' = [reader EXCEPT ![s] = "failed"]
        /\ UNCHANGED closed
  /\ UNCHANGED <<calls, link, wire, handling, unanswered>>

(* recv raises in the client's reader (a message that cannot be decoded,   *)
(* say): the task dies, and neither the channel nor the websocket is closed.*)
ReaderFails ==
  /\ reader["client"] = "reading"
  /\ reader' = [reader EXCEPT !["client"] = "failed"]
  /\ UNCHANGED <<calls, closed, link, wire, handling, unanswered>>

(* The user of the client closes it; on the server nobody does but the     *)
(* reader.                                                                 *)
UserCloses ==
  /\ link = "down" /\ "client" \notin closed
  /\ closed' = closed \cup {"client"}
  /\ UNCHANGED <<calls, link, wire, readers, unanswered>>

CallSteps(c) ==
  \/ async_call_resume(c) \/ (task[c] = "sending" /\ async_call_send_fails(c))
  \/ wait_for_response(c) \/ wait_for_response_raises(c)

ReaderSteps(s) ==
  \/ on_request(s) \/ on_response(s) \/ MethodReturns(s) \/ ReplySent(s)
  \/ ReaderSeesEnd(s)

Next ==
  \/ \E c \in Calls :
       \/ async_call(c) \/ async_call_resume(c) \/ async_call_send_fails(c)
       \/ wait_for_response(c) \/ wait_for_response_raises(c)
  \/ \E s \in Sides :
       \/ on_request(s) \/ on_response(s) \/ MethodReturns(s) \/ ReplySent(s)
       \/ ReaderSeesEnd(s)
  \/ LinkDrops \/ UserCloses \/ ReaderFails

(* Both event loops run what is ready, timers fire, and a method makes the *)
(* call it is about to make.  Users need not call or close, the wire need  *)
(* not drop.                                                               *)
Nested == {child[c] : c \in {b \in Calls : kind[b] = "recursive"}}

Fairness ==
  /\ \A c \in Calls : WF_vars(CallSteps(c))
  /\ \A c \in Nested : WF_vars(async_call(c) \/ async_call_send_fails(c))
  /\ \A s \in Sides : WF_vars(ReaderSteps(s))

SafeSpec == Init /\ [][Next]_vars
Spec == SafeSpec /\ Fairness

-----------------------------------------------------------------------------
(* Safety.                                                                 *)

OnWire(s, type, c) == {i \in DOMAIN wire[s] : wire[s][i].type = type /\ wire[s][i].of = c}

(* While the wire holds, an unanswered request is on its way or in a       *)
(* method, and an unread answer is on its way: exactly once.               *)
NothingVanishes ==
  link = "up" => \A c \in Calls :
    LET there == OnWire(Other(caller[c]), "request", c)
        back  == OnWire(caller[c], "response", c) IN
      /\ Cardinality(there) =
           IF peer[c] = "asked" /\ handling[Other(caller[c])] # c THEN 1 ELSE 0
      /\ Cardinality(back) = IF peer[c] = "answered" THEN 1 ELSE 0

(* One reader, one method at a time: a side answers requests in the order  *)
(* they were sent.                                                         *)
AnswersInOrder ==
  [][\A c \in Calls :
       (peer[c] = "asked" /\ peer'[c] = "answered") => c = Head(unanswered[caller[c]])]_vars

(* Each side is an RpcChannel whose other side answers each request once.  *)
Own == [s \in Sides |-> {c \in Calls : caller[c] = s}]
Of(s, f) == [c \in Own[s] |-> f[c]]

ClientChannel == INSTANCE RpcChannel WITH
  Calls <- Own["client"], Detached <- Detached \cap Own["client"],
  Timed <- Timed \cap Own["client"], Cancellable <- {}, Suspending <- Own["client"],
  Results <- Payloads, task <- Of("client", task), requests <- requests \cap Own["client"],
  responses <- Of("client", responses), event <- event \cap Own["client"],
  closed <- ("client" \in closed), socket <- IF link = "up" THEN "open" ELSE "shut",
  peer <- Of("client", peer), answer <- Of("client", answer), result <- Of("client", result)

ServerChannel == INSTANCE RpcChannel WITH
  Calls <- Own["server"], Detached <- Detached \cap Own["server"],
  Timed <- Timed \cap Own["server"], Cancellable <- {}, Suspending <- Own["server"],
  Results <- Payloads, task <- Of("server", task), requests <- requests \cap Own["server"],
  responses <- Of("server", responses), event <- event \cap Own["server"],
  closed <- ("server" \in closed), socket <- IF link = "up" THEN "open" ELSE "shut",
  peer <- Of("server", peer), answer <- Of("server", answer), result <- Of("server", result)

(* Both ends implement RpcChannel: what is proved of it holds of them.     *)
ImplementsChannels == ClientChannel!SafeSpec /\ ServerChannel!SafeSpec

-----------------------------------------------------------------------------
(* Liveness.                                                               *)

(* Both readers are in a send, of a reply or of a nested call, behind a    *)
(* wire the other no longer reads: only the end of the connection helps.   *)
Jammed ==
  /\ link = "up"
  /\ \A s \in Sides :
       /\ ~Drained(wire[s])
       /\ \/ reader[s] = "replying"
          \/ reader[s] = "awaiting" /\ task[child[handling[s]]] = "sending"

(* The reader of s takes nothing any more, and has not closed its channel: *)
(* it has died, or it is inside a method that awaits a nested call without *)
(* a timeout, whose answer only that reader could take.                    *)
Deaf(s) ==
  \/ reader[s] = "failed"
  \/ /\ reader[s] = "awaiting" /\ kind[handling[s]] = "recursive"
     /\ task[child[handling[s]]] = "waiting" /\ child[handling[s]] \notin Timed

(* The answer to a running call was dropped: it carried no id, or came     *)
(* before the promise was saved.                                           *)
Missed(c) == peer[c] = "delivered" /\ responses[c] = NoResponse

(* Every awaited call ends, even if its method raises or never gets its    *)
(* own answer, unless its answer was dropped, the two readers block each   *)
(* other, its own side is deaf, or the other is while the connection lasts.*)
(* (Each call is made once: that all end is the same as that each does.)   *)
CallsEnd ==
  <>[](\A c \in Calls \ Detached :
         \/ task[c] \notin Running
         \/ Missed(c) \/ Jammed
         \/ Deaf(caller[c]) \/ (Deaf(Other(caller[c])) /\ link = "up"))

(* The end of the connection releases every awaited call, of both sides,   *)
(* whatever their readers were in the middle of, but for a side that is    *)
(* deaf to it.                                                             *)
DropReleasesCallers ==
  link = "down" ~>
    \A c \in Calls \ Detached : task[c] \notin Running \/ Deaf(caller[c])

(* The comment in RpcChannel.__init__: methods have access to the channel  *)
(* "for recursive calls - e.g. call me as a response for me calling you".  *)
(* While the connection lasts and is read, a recursive call comes to its   *)
(* end.                                                                    *)
RecursiveCallsEnd ==
  \A c \in Calls :
    (kind[c] = "recursive" /\ task[c] \in Running) ~>
      (task[c] \in Ended \/ link = "down" \/ reader["client"] = "failed")

=============================================================================
