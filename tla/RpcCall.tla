------------------------------ MODULE RpcCall ------------------------------
(***************************************************************************)
(* What one side of the RPC protocol promises about the calls it makes,    *)
(* with no dictionaries, events, sockets or tasks: a call is issued, its   *)
(* answer may arrive while the call is still open, and the call then ends  *)
(* by returning that answer, or fails.  A call whose answer has arrived    *)
(* can no longer fail, unless the task that made it is cancelled.          *)
(*                                                                         *)
(* RpcChannel is shown to implement this specification.                    *)
(***************************************************************************)
CONSTANTS
  Calls,        \* call ids
  Results,      \* payloads of the responses that carry a call id
  Anonymous,    \* the payload of an error response that carries no call id
  NoResponse,   \* no payload (yet)
  Awaited,      \* the calls a task of this side waits for
  Cancellable   \* the awaited calls whose task may be cancelled

VARIABLES
  status,       \* how far each call has got
  answer,       \* what the other side said to each call
  result        \* what each call returned

vars == <<status, answer, result>>

Init ==
  /\ status = [c \in Calls |-> "new"]
  /\ answer = [c \in Calls |-> NoResponse]
  /\ result = [c \in Calls |-> NoResponse]

Issue(c) ==
  /\ status[c] = "new"
  /\ status' = [status EXCEPT ![c] = "open"]
  /\ UNCHANGED <<answer, result>>

(* The other side answers at most once; it cannot know that the caller has *)
(* given up.                                                               *)
Reply(c) ==
  /\ status[c] # "new"
  /\ answer[c] = NoResponse
  /\ \E r \in Results \cup {Anonymous} : answer' = [answer EXCEPT ![c] = r]
  /\ UNCHANGED <<status, result>>

Arrive(c) ==
  /\ status[c] = "open"
  /\ answer[c] \in Results
  /\ status' = [status EXCEPT ![c] = "answered"]
  /\ UNCHANGED <<answer, result>>

Return(c) ==
  /\ status[c] = "answered"
  /\ status' = [status EXCEPT ![c] = "returned"]
  /\ result' = [result EXCEPT ![c] = answer[c]]
  /\ UNCHANGED answer

(* Never from "answered".                                                  *)
Fail(c) ==
  /\ status[c] \in {"new", "open"}
  /\ status' = [status EXCEPT ![c] = "failed"]
  /\ UNCHANGED <<answer, result>>

Abandon(c) ==
  /\ c \in Cancellable
  /\ status[c] \in {"open", "answered"}
  /\ status' = [status EXCEPT ![c] = "failed"]
  /\ UNCHANGED <<answer, result>>

Next ==
  \E c \in Calls :
    \/ Issue(c) \/ Reply(c) \/ Arrive(c)
    \/ Return(c) \/ Fail(c) \/ Abandon(c)

SafeSpec == Init /\ [][Next]_vars

(* An awaited call whose answer has arrived does end.                      *)
Spec == SafeSpec /\ \A c \in Awaited : WF_vars(Return(c))

=============================================================================
