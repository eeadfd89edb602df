----------------------------- MODULE RpcChannel -----------------------------
(***************************************************************************)
(* One side's RpcChannel (fastapi_websocket_rpc/rpc_channel.py): the calls *)
(* it makes, the two dictionaries that track them, and the coroutines that *)
(* share those dictionaries.                                               *)
(*                                                                         *)
(* The channel runs in one asyncio event loop, so a step of this module is *)
(* what one coroutine does between two awaits that can suspend it.  The    *)
(* coroutines are: a task per awaited call (RpcChannel.call), a task per   *)
(* detached call (created by RpcUtilityMethods.call_me_back), the reader   *)
(* that feeds on_message, and whoever closes the channel.                  *)
(*                                                                         *)
(* The other side is the environment: it receives what was put on the wire *)
(* and answers each request at most once, in any order.                    *)
(***************************************************************************)

CONSTANTS
  Calls,        \* call ids (gen_uid: never reused)
  Detached,     \* the calls made by call_me_back: no task awaits them
  Timed,        \* the awaited calls with a timeout
  Cancellable,  \* the awaited calls made under asyncio.wait_for
  Results,      \* payloads of the responses that carry a call id
  Anonymous,    \* the payload of an error response without a call id
  NoResponse,   \* the NoResponse singleton: nothing saved
  Suspending    \* the calls whose send may suspend, the frame on the wire

ASSUME ChannelAssumption ==
  /\ Detached \subseteq Calls
  /\ Timed \subseteq Calls \ Detached
  /\ Cancellable \subseteq Calls \ Detached
  /\ NoResponse \notin Results
  /\ Anonymous \notin Results
  /\ NoResponse # Anonymous
  /\ Suspending \subseteq Calls

VARIABLES
  task,       \* where the coroutine that makes each call stands
  requests,   \* the keys of self.requests
  responses,  \* self.responses
  event,      \* the calls whose RpcPromise event is set
  closed,     \* self._closed is set
  socket,     \* can the socket still send?
  peer,       \* what the other side has done about each call
  answer,     \* the payload the other side answered with
  result      \* what each call handed to its caller

chan == <<requests, responses, event>>
vars == <<task, requests, responses, event, closed, socket, peer, answer, result>>

Awaited == Calls \ Detached

Running == {"sending", "waiting", "registered"}
Ended   == {"returned", "raised", "unsent", "cancelled"}

TypeOK ==
  /\ task \in [Calls -> {"idle"} \cup Running \cup Ended]
  /\ requests \subseteq Calls
  /\ responses \in [Calls -> Results \cup {NoResponse}]
  /\ event \subseteq Calls
  /\ closed \in BOOLEAN
  /\ socket \in {"open", "shut"}
  /\ peer \in [Calls -> {"unasked", "asked", "answered", "delivered"}]
  /\ answer \in [Calls -> Results \cup {Anonymous, NoResponse}]
  /\ result \in [Calls -> Results \cup {NoResponse}]

Init ==
  /\ task = [c \in Calls |-> "idle"]
  /\ requests = {}
  /\ responses = [c \in Calls |-> NoResponse]
  /\ event = {}
  /\ closed = FALSE
  /\ socket = "open"
  /\ peer = [c \in Calls |-> "unasked"]
  /\ answer = [c \in Calls |-> NoResponse]
  /\ result = [c \in Calls |-> NoResponse]

-----------------------------------------------------------------------------
(* The calling side.                                                       *)

(* The tail of async_call: the promise is saved once send has returned,    *)
(* and RpcChannel.call goes straight on to wait for it.                    *)
SavePromise(c) ==
  /\ requests' = requests \cup {c}
  /\ task' = [task EXCEPT ![c] = IF c \in Detached THEN "registered" ELSE "waiting"]

\* mutant: the promise is left for a later step even if send was prompt
async_call_saves_late(c) ==
  /\ task[c] = "idle"
  /\ socket = "open"
  /\ peer' = [peer EXCEPT ![c] = "asked"]
  /\ task' = [task EXCEPT ![c] = "sending"]
  /\ UNCHANGED <<chan, closed, socket, answer, result>>

(* async_call up to its await of send, and past it if send does not suspend.*)
async_call(c) ==
  /\ task[c] = "idle"
  /\ socket = "open"
  /\ peer' = [peer EXCEPT ![c] = "asked"]
  /\ \/ c \in Suspending /\ task' = [task EXCEPT ![c] = "sending"] /\ UNCHANGED requests
     \/ SavePromise(c)
  /\ UNCHANGED <<responses, event, closed, socket, answer, result>>

(* The suspended send completes.                                           *)
async_call_resume(c) ==
  /\ task[c] = "sending"
  /\ SavePromise(c)
  /\ UNCHANGED <<responses, event, closed, socket, peer, answer, result>>

(* send raises: at once, for a request that cannot be serialized or on a   *)
(* socket that is shut, or out of its suspension when the connection goes  *)
(* away meanwhile.  Nothing has been saved.                                *)
async_call_send_fails(c) ==
  /\ task[c] = "idle" \/ (task[c] = "sending" /\ socket = "shut")
  /\ task' = [task EXCEPT ![c] = "unsent"]
  /\ UNCHANGED <<chan, closed, socket, peer, answer, result>>

\* mutant: only the response is deleted
clear_saved_response_only(c) ==
  /\ responses' = [responses EXCEPT ![c] = NoResponse]
  /\ UNCHANGED requests

clear_saved_call(c) ==
  /\ requests' = requests \ {c}
  /\ responses' = [responses EXCEPT ![c] = NoResponse]

\* mutants: asyncio.wait without the close event, and without the timeout
WaitIgnoresClose(c) == task[c] = "waiting" /\ (c \in event \/ c \in Timed)
WaitIgnoresTimeout(c) == task[c] = "waiting" /\ (c \in event \/ closed)

(* asyncio.wait comes back: the promise's event, the close event, or the   *)
(* timeout.  Which of them it was is not looked at again.                  *)
WaitIsOver(c) ==
  /\ task[c] = "waiting"
  /\ c \in event \/ closed \/ c \in Timed

wait_for_response(c) ==
  /\ WaitIsOver(c)
  /\ responses[c] # NoResponse
  /\ clear_saved_call(c)
  /\ task' = [task EXCEPT ![c] = "returned"]
  /\ result' = [result EXCEPT ![c] = responses[c]]
  /\ UNCHANGED <<event, closed, socket, peer, answer>>

\* mutant: raises because the channel is closed, without a look at responses
raises_when_closed(c) ==
  /\ WaitIsOver(c)
  /\ closed \/ responses[c] = NoResponse
  /\ task' = [task EXCEPT ![c] = "raised"]
  /\ UNCHANGED <<chan, closed, socket, peer, answer, result>>

(* No response is saved: RpcChannelClosedException, and the promise stays. *)
wait_for_response_raises(c) ==
  /\ WaitIsOver(c)
  /\ responses[c] = NoResponse
  /\ task' = [task EXCEPT ![c] = "raised"]
  /\ UNCHANGED <<chan, closed, socket, peer, answer, result>>

(* asyncio.wait_for gives up on the call (wait_on_rpc_ready does, each     *)
(* WAIT_FOR_INITIAL_CONNECTION): CancelledError out of the current await.  *)
CancelCall(c) ==
  /\ c \in Cancellable
  /\ task[c] \in {"sending", "waiting"}
  /\ task' = [task EXCEPT ![c] = "cancelled"]
  /\ UNCHANGED <<chan, closed, socket, peer, answer, result>>

(* The other side fetches the outcome of a call it asked for with          *)
(* call_me_back, whose id it was given.  When nothing is saved the lookup  *)
(* raises KeyError, which on_request turns into an error response: the     *)
(* channel does not change.  (The code takes any id, and would take from   *)
(* an awaited call the answer it is about to return: that the other side   *)
(* asks only for what it was given is assumed.)                            *)
get_response(c) ==
  /\ c \in Detached
  /\ responses[c] # NoResponse
  /\ clear_saved_call(c)
  /\ task' = [task EXCEPT ![c] = "returned"]
  /\ result' = [result EXCEPT ![c] = responses[c]]
  /\ UNCHANGED <<event, closed, socket, peer, answer>>

-----------------------------------------------------------------------------
(* The reader: on_message hands a parsed response to on_response.          *)

\* mutant: keeps a response nobody has a promise for
on_response_unsolicited(c) ==
  /\ peer[c] = "answered"
  /\ peer' = [peer EXCEPT ![c] = "delivered"]
  /\ IF answer[c] # Anonymous
       THEN responses' = [responses EXCEPT ![c] = answer[c]] /\ event' = event \cup {c}
       ELSE UNCHANGED <<responses, event>>
  /\ UNCHANGED <<task, requests, closed, socket, answer, result>>

\* mutant: takes an answer without an id for the answer to this call
on_response_anonymous(c) ==
  /\ peer[c] = "answered"
  /\ peer' = [peer EXCEPT ![c] = "delivered"]
  /\ IF c \in requests
       THEN responses' = [responses EXCEPT ![c] = answer[c]] /\ event' = event \cup {c}
       ELSE UNCHANGED <<responses, event>>
  /\ UNCHANGED <<task, requests, closed, socket, answer, result>>

(* The response is kept only while its promise is saved.                   *)
on_response(c) ==
  /\ peer[c] = "answered"
  /\ peer' = [peer EXCEPT ![c] = "delivered"]
  /\ IF answer[c] # Anonymous /\ c \in requests
       THEN /\ responses' = [responses EXCEPT ![c] = answer[c]]
            /\ event' = event \cup {c}
       ELSE UNCHANGED <<responses, event>>
  /\ UNCHANGED <<task, requests, closed, socket, answer, result>>

-----------------------------------------------------------------------------
(* Closing.  The socket shuts first, because the connection is lost or as  *)
(* the first half of close(); the flag follows, from close() or from       *)
(* on_disconnect.                                                          *)

SocketShuts ==
  /\ socket = "open"
  /\ socket' = "shut"
  /\ UNCHANGED <<task, chan, closed, peer, answer, result>>

MarkClosed ==
  /\ socket = "shut"
  /\ ~closed
  /\ closed' = TRUE
  /\ UNCHANGED <<task, chan, socket, peer, answer, result>>

-----------------------------------------------------------------------------
(* The other side: RpcChannel.on_request answers with the request's id,    *)
(* the endpoint's main_loop reports a response it cannot serialize with an *)
(* error that carries none.                                                *)
PeerAnswers(c) ==
  /\ peer[c] = "asked"
  /\ peer' = [peer EXCEPT ![c] = "answered"]
  /\ \E r \in Results \cup {Anonymous} : answer' = [answer EXCEPT ![c] = r]
  /\ UNCHANGED <<task, chan, closed, socket, result>>

-----------------------------------------------------------------------------

Next ==
  \/ \E c \in Calls :
       \/ async_call(c) \/ async_call_resume(c) \/ async_call_send_fails(c)
       \/ wait_for_response(c) \/ wait_for_response_raises(c) \/ CancelCall(c)
       \/ get_response(c) \/ on_response(c) \/ PeerAnswers(c)
  \/ SocketShuts \/ MarkClosed

(* The event loop runs every coroutine that is ready, and its timers fire. *)
(* A suspended send ends: the transport drains or the connection is lost.  *)
(* Nothing else is promised: callers need not call, the other side need    *)
(* not answer, nobody needs to close the channel.                          *)
SendEnds(c) ==
  async_call_resume(c) \/ (task[c] = "sending" /\ async_call_send_fails(c))

WaitEnds(c) == wait_for_response(c) \/ wait_for_response_raises(c)

Fairness == \A c \in Calls : WF_vars(SendEnds(c)) /\ WF_vars(WaitEnds(c))

SafeSpec == Init /\ [][Next]_vars
Spec == SafeSpec /\ Fairness

-----------------------------------------------------------------------------
(* Safety.                                                                 *)

(* clear_saved_call deletes from both dictionaries: if a response could be *)
(* saved without its promise, the first del would raise KeyError in the    *)
(* middle of a call or of get_response.  A saved response implies a saved  *)
(* promise whose event is set, so whoever waits for it is woken.           *)
ResponsesArePending ==
  \A c \in Calls :
    responses[c] # NoResponse => c \in requests /\ c \in event

(* A call that handed over its response leaves nothing behind in either    *)
(* dictionary, whatever arrives later.                                     *)
ReturnedIsForgotten ==
  \A c \in Calls :
    task[c] = "returned" => c \notin requests /\ responses[c] = NoResponse

(* A response that carries the id of a call which is still running is     *)
(* there for it once on_response is done with it.                          *)
HasItsAnswer(c) ==
  peer[c] = "delivered" /\ answer[c] # Anonymous /\ task[c] \in Running =>
    responses[c] = answer[c]

(* A call whose send does not suspend saves its promise before anything    *)
(* else can run: on_response cannot miss it.                               *)
PromptCallsAreAnswered == \A c \in Calls \ Suspending : HasItsAnswer(c)

(* README, Concepts: "Receiving RpcResponses and delivering them to        *)
(* waiting callers", for every call.                                       *)
NoAnswerLost == \A c \in Calls : HasItsAnswer(c)

(* What the proofs add to make the above inductive: how far a call has got *)
(* (task), what was said about it (peer, answer) and what is saved of it   *)
(* (requests, responses, event) always agree.                              *)
Agreement ==
  \A c \in Calls :
    /\ task[c] = "idle" => peer[c] = "unasked"
    /\ peer[c] \in {"unasked", "asked"} => answer[c] = NoResponse
    /\ peer[c] \in {"answered", "delivered"} => answer[c] # NoResponse
    /\ c \in event => peer[c] = "delivered"
    /\ c \in requests => task[c] \in {"waiting", "registered", "raised", "cancelled"}
    /\ task[c] \in {"waiting", "registered"} => c \in requests
    /\ c \in Detached => task[c] \notin {"waiting", "raised", "cancelled"}
    /\ c \notin Detached => task[c] # "registered"
    /\ task[c] = "sending" => c \in Suspending
    /\ responses[c] # NoResponse => responses[c] = answer[c]
    /\ task[c] = "returned" => result[c] = answer[c] /\ answer[c] \in Results
    /\ task[c] # "returned" => result[c] = NoResponse

IInv ==
  /\ TypeOK /\ ResponsesArePending /\ ReturnedIsForgotten
  /\ PromptCallsAreAnswered /\ Agreement

-----------------------------------------------------------------------------
(* Liveness.                                                               *)

(* A call with a timeout ends, whatever the other side does.               *)
TimedCallEnds ==
  \A c \in Timed : task[c] \in Running ~> task[c] \in Ended

(* Closing the channel releases every task that waits on it: none is left  *)
(* hanging on an answer that cannot come any more.                         *)
CloseReleasesCallers ==
  \A c \in Awaited : (closed /\ task[c] \in Running) ~> task[c] \in Ended

-----------------------------------------------------------------------------
(* RpcChannel implements RpcCall.                                          *)

statusOf(c) ==
  CASE task[c] = "idle" -> "new"
    [] task[c] \in Running -> IF responses[c] = NoResponse THEN "open" ELSE "answered"
    [] task[c] = "returned" -> "returned"
    [] task[c] \in {"raised", "unsent", "cancelled"} -> "failed"

Abstract == INSTANCE RpcCall WITH status <- [c \in Calls |-> statusOf(c)]

(* Every behaviour of the channel is one of the abstract specification: a  *)
(* call returns the answer given to that very call, never fails once its   *)
(* answer is saved unless cancelled, and returns if it is awaited.         *)
ImplementsRpcCall == Abstract!Spec

=============================================================================
