-------------------------- MODULE RpcChannelProofs --------------------------
(***************************************************************************)
(* What holds of RpcChannel for every set of calls and every choice of the *)
(* ones that are detached, timed, cancellable or suspended in send: the    *)
(* inductive invariant, and the implementation of RpcCall (safety).        *)
(***************************************************************************)
EXTENDS RpcChannel, TLAPS

(* A channel just built (__init__) satisfies the inductive invariant.      *)
LEMMA InitIInv == Init => IInv
BY ChannelAssumption
   DEF Init, IInv, TypeOK, ResponsesArePending, ReturnedIsForgotten, PromptCallsAreAnswered,
       HasItsAnswer, Agreement, Running, Ended

(* No coroutine takes a variable of the channel out of its type.           *)
LEMMA NextTypeOK == TypeOK /\ [Next]_vars => TypeOK'
<1> SUFFICES ASSUME TypeOK, [Next]_vars PROVE TypeOK'
  OBVIOUS
<1> USE ChannelAssumption DEF TypeOK, Running, Ended
<1>1. CASE UNCHANGED vars
  BY <1>1 DEF vars
<1>2. ASSUME NEW c \in Calls, async_call(c) PROVE TypeOK'
  BY <1>2 DEF async_call, SavePromise
<1>3. ASSUME NEW c \in Calls, async_call_resume(c) PROVE TypeOK'
  BY <1>3 DEF async_call_resume, SavePromise
<1>4. ASSUME NEW c \in Calls, async_call_send_fails(c) PROVE TypeOK'
  BY <1>4 DEF async_call_send_fails, chan
<1>5. ASSUME NEW c \in Calls, wait_for_response(c) PROVE TypeOK'
  BY <1>5 DEF wait_for_response, WaitIsOver, clear_saved_call
<1>6. ASSUME NEW c \in Calls, wait_for_response_raises(c) PROVE TypeOK'
  BY <1>6 DEF wait_for_response_raises, WaitIsOver, chan
<1>7. ASSUME NEW c \in Calls, CancelCall(c) PROVE TypeOK'
  BY <1>7 DEF CancelCall, chan
<1>8. ASSUME NEW c \in Calls, get_response(c) PROVE TypeOK'
  BY <1>8 DEF get_response, clear_saved_call
<1>9. ASSUME NEW c \in Calls, on_response(c) PROVE TypeOK'
  BY <1>9 DEF on_response
<1>10. ASSUME NEW c \in Calls, PeerAnswers(c) PROVE TypeOK'
  BY <1>10 DEF PeerAnswers, chan
<1>11. CASE SocketShuts
  BY <1>11 DEF SocketShuts, chan
<1>12. CASE MarkClosed
  BY <1>12 DEF MarkClosed, chan
<1> QED
  BY <1>1, <1>2, <1>3, <1>4, <1>5, <1>6, <1>7, <1>8, <1>9, <1>10, <1>11, <1>12 DEF Next

(* on_response saves only for a saved promise, and clear_saved_call        *)
(* deletes both entries at once.                                           *)
LEMMA NextPending == IInv /\ [Next]_vars => ResponsesArePending'
<1> SUFFICES ASSUME IInv, [Next]_vars PROVE ResponsesArePending'
  OBVIOUS
<1> USE ChannelAssumption DEF IInv, TypeOK, ResponsesArePending, Agreement
<1>1. CASE UNCHANGED vars
  BY <1>1 DEF vars
<1>2. ASSUME NEW d \in Calls, async_call(d) PROVE ResponsesArePending'
  BY <1>2 DEF async_call, SavePromise
<1>3. ASSUME NEW d \in Calls, async_call_resume(d) PROVE ResponsesArePending'
  BY <1>3 DEF async_call_resume, SavePromise
<1>4. ASSUME NEW d \in Calls, async_call_send_fails(d) PROVE ResponsesArePending'
  BY <1>4 DEF async_call_send_fails, chan
<1>5. ASSUME NEW d \in Calls, wait_for_response(d) PROVE ResponsesArePending'
  BY <1>5 DEF wait_for_response, WaitIsOver, clear_saved_call
<1>6. ASSUME NEW d \in Calls, wait_for_response_raises(d) PROVE ResponsesArePending'
  BY <1>6 DEF wait_for_response_raises, WaitIsOver, chan
<1>7. ASSUME NEW d \in Calls, CancelCall(d) PROVE ResponsesArePending'
  BY <1>7 DEF CancelCall, chan
<1>8. ASSUME NEW d \in Calls, get_response(d) PROVE ResponsesArePending'
  BY <1>8 DEF get_response, clear_saved_call
<1>9. ASSUME NEW d \in Calls, on_response(d) PROVE ResponsesArePending'
  BY <1>9 DEF on_response
<1>10. ASSUME NEW d \in Calls, PeerAnswers(d) PROVE ResponsesArePending'
  BY <1>10 DEF PeerAnswers, chan
<1>11. CASE SocketShuts
  BY <1>11 DEF SocketShuts, chan
<1>12. CASE MarkClosed
  BY <1>12 DEF MarkClosed, chan
<1> QED
  BY <1>1, <1>2, <1>3, <1>4, <1>5, <1>6, <1>7, <1>8, <1>9, <1>10, <1>11, <1>12 DEF Next

(* Nothing saves a promise or a response for a call that has returned.     *)
LEMMA NextForgotten == IInv /\ [Next]_vars => ReturnedIsForgotten'
<1> SUFFICES ASSUME IInv, [Next]_vars PROVE ReturnedIsForgotten'
  OBVIOUS
<1> USE ChannelAssumption DEF IInv, TypeOK, ReturnedIsForgotten, Agreement
<1>1. CASE UNCHANGED vars
  BY <1>1 DEF vars
<1>2. ASSUME NEW d \in Calls, async_call(d) PROVE ReturnedIsForgotten'
  BY <1>2 DEF async_call, SavePromise
<1>3. ASSUME NEW d \in Calls, async_call_resume(d) PROVE ReturnedIsForgotten'
  BY <1>3 DEF async_call_resume, SavePromise
<1>4. ASSUME NEW d \in Calls, async_call_send_fails(d) PROVE ReturnedIsForgotten'
  BY <1>4 DEF async_call_send_fails, chan
<1>5. ASSUME NEW d \in Calls, wait_for_response(d) PROVE ReturnedIsForgotten'
  BY <1>5 DEF wait_for_response, WaitIsOver, clear_saved_call
<1>6. ASSUME NEW d \in Calls, wait_for_response_raises(d) PROVE ReturnedIsForgotten'
  BY <1>6 DEF wait_for_response_raises, WaitIsOver, chan
<1>7. ASSUME NEW d \in Calls, CancelCall(d) PROVE ReturnedIsForgotten'
  BY <1>7 DEF CancelCall, chan
<1>8. ASSUME NEW d \in Calls, get_response(d) PROVE ReturnedIsForgotten'
  BY <1>8 DEF get_response, clear_saved_call
<1>9. ASSUME NEW d \in Calls, on_response(d) PROVE ReturnedIsForgotten'
  BY <1>9 DEF on_response
<1>10. ASSUME NEW d \in Calls, PeerAnswers(d) PROVE ReturnedIsForgotten'
  BY <1>10 DEF PeerAnswers, chan
<1>11. CASE SocketShuts
  BY <1>11 DEF SocketShuts, chan
<1>12. CASE MarkClosed
  BY <1>12 DEF MarkClosed, chan
<1> QED
  BY <1>1, <1>2, <1>3, <1>4, <1>5, <1>6, <1>7, <1>8, <1>9, <1>10, <1>11, <1>12 DEF Next

(* Every step keeps the progress of a call and what is saved of it in step.*)
LEMMA NextAgreement == IInv /\ [Next]_vars => Agreement'
<1> SUFFICES ASSUME IInv, [Next]_vars PROVE Agreement'
  OBVIOUS
<1> USE ChannelAssumption
    DEF IInv, TypeOK, ResponsesArePending, ReturnedIsForgotten, Agreement, Running, Ended
<1>1. CASE UNCHANGED vars
  BY <1>1 DEF vars
<1>2. ASSUME NEW d \in Calls, async_call(d) PROVE Agreement'
  BY <1>2 DEF async_call, SavePromise
<1>3. ASSUME NEW d \in Calls, async_call_resume(d) PROVE Agreement'
  BY <1>3 DEF async_call_resume, SavePromise
<1>4. ASSUME NEW d \in Calls, async_call_send_fails(d) PROVE Agreement'
  BY <1>4 DEF async_call_send_fails, chan
<1>5. ASSUME NEW d \in Calls, wait_for_response(d) PROVE Agreement'
  BY <1>5 DEF wait_for_response, WaitIsOver, clear_saved_call
<1>6. ASSUME NEW d \in Calls, wait_for_response_raises(d) PROVE Agreement'
  BY <1>6 DEF wait_for_response_raises, WaitIsOver, chan
<1>7. ASSUME NEW d \in Calls, CancelCall(d) PROVE Agreement'
  BY <1>7 DEF CancelCall, chan
<1>8. ASSUME NEW d \in Calls, get_response(d) PROVE Agreement'
  BY <1>8 DEF get_response, clear_saved_call
<1>9. ASSUME NEW d \in Calls, on_response(d) PROVE Agreement'
  BY <1>9 DEF on_response
<1>10. ASSUME NEW d \in Calls, PeerAnswers(d) PROVE Agreement'
  BY <1>10 DEF PeerAnswers, chan
<1>11. CASE SocketShuts
  BY <1>11 DEF SocketShuts, chan
<1>12. CASE MarkClosed
  BY <1>12 DEF MarkClosed, chan
<1> QED
  BY <1>1, <1>2, <1>3, <1>4, <1>5, <1>6, <1>7, <1>8, <1>9, <1>10, <1>11, <1>12 DEF Next

(* The promise of a prompt call is saved in the step that sends its request.*)
LEMMA NextPromptAnswered == IInv /\ [Next]_vars => PromptCallsAreAnswered'
<1> SUFFICES ASSUME IInv, [Next]_vars PROVE PromptCallsAreAnswered'
  OBVIOUS
<1> USE ChannelAssumption
    DEF IInv, TypeOK, ResponsesArePending, Agreement, PromptCallsAreAnswered, HasItsAnswer, Running, Ended
<1>1. CASE UNCHANGED vars
  BY <1>1 DEF vars
<1>2. ASSUME NEW d \in Calls, async_call(d) PROVE PromptCallsAreAnswered'
  BY <1>2 DEF async_call, SavePromise
<1>3. ASSUME NEW d \in Calls, async_call_resume(d) PROVE PromptCallsAreAnswered'
  BY <1>3 DEF async_call_resume, SavePromise
<1>4. ASSUME NEW d \in Calls, async_call_send_fails(d) PROVE PromptCallsAreAnswered'
  BY <1>4 DEF async_call_send_fails, chan
<1>5. ASSUME NEW d \in Calls, wait_for_response(d) PROVE PromptCallsAreAnswered'
  BY <1>5 DEF wait_for_response, WaitIsOver, clear_saved_call
<1>6. ASSUME NEW d \in Calls, wait_for_response_raises(d) PROVE PromptCallsAreAnswered'
  BY <1>6 DEF wait_for_response_raises, WaitIsOver, chan
<1>7. ASSUME NEW d \in Calls, CancelCall(d) PROVE PromptCallsAreAnswered'
  BY <1>7 DEF CancelCall, chan
<1>8. ASSUME NEW d \in Calls, get_response(d) PROVE PromptCallsAreAnswered'
  BY <1>8 DEF get_response, clear_saved_call
<1>9. ASSUME NEW d \in Calls, on_response(d) PROVE PromptCallsAreAnswered'
  BY <1>9 DEF on_response
<1>10. ASSUME NEW d \in Calls, PeerAnswers(d) PROVE PromptCallsAreAnswered'
  BY <1>10 DEF PeerAnswers, chan
<1>11. CASE SocketShuts
  BY <1>11 DEF SocketShuts, chan
<1>12. CASE MarkClosed
  BY <1>12 DEF MarkClosed, chan
<1> QED
  BY <1>1, <1>2, <1>3, <1>4, <1>5, <1>6, <1>7, <1>8, <1>9, <1>10, <1>11, <1>12 DEF Next

(* The inductive invariant holds of every behaviour of the channel.        *)
LEMMA Inductive == SafeSpec => []IInv
<1>1. IInv /\ [Next]_vars => IInv'
  BY NextTypeOK, NextPending, NextForgotten, NextPromptAnswered, NextAgreement DEF IInv
<1> QED
  BY <1>1, InitIInv, PTL DEF SafeSpec

(* Every variable of the channel keeps its type.                           *)
THEOREM TypeCorrect == SafeSpec => []TypeOK
<1>1. IInv => TypeOK
  BY DEF IInv
<1> QED
  BY <1>1, Inductive, PTL

(* on_response, wait_for_response and get_response keep the dictionaries   *)
(* in step: clear_saved_call never meets a missing key, and a saved        *)
(* response always has a promise whose event is set.                       *)
THEOREM SavedResponsesArePending == SafeSpec => []ResponsesArePending
<1>1. IInv => ResponsesArePending
  BY DEF IInv
<1> QED
  BY <1>1, Inductive, PTL

(* A call that handed over its response is in neither dictionary again,    *)
(* however late other messages arrive.                                     *)
THEOREM ReturnedCallsAreForgotten == SafeSpec => []ReturnedIsForgotten
<1>1. IInv => ReturnedIsForgotten
  BY DEF IInv
<1> QED
  BY <1>1, Inductive, PTL

(* README, "delivering them to waiting callers": on_response finds the      *)
(* promise of every running call whose send did not suspend.               *)
THEOREM PromptCallsLoseNoAnswer == SafeSpec => []PromptCallsAreAnswered
<1>1. IInv => PromptCallsAreAnswered
  BY DEF IInv
<1> QED
  BY <1>1, Inductive, PTL

-----------------------------------------------------------------------------
(* The channel implements RpcCall, liveness aside.                         *)

(* How a step that only touches call d moves its abstract status.          *)
Moves(d, from, to) ==
  /\ statusOf(d) = from
  /\ statusOf(d)' = to
  /\ \A e \in Calls : e # d => statusOf(e)' = statusOf(e)

(* In terms of the function that RpcCall calls status.                     *)
LEMMA StatusMoves ==
  ASSUME NEW d \in Calls, NEW from, NEW to, Moves(d, from, to)
  PROVE  /\ [c \in Calls |-> statusOf(c)][d] = from
         /\ [c \in Calls |-> statusOf(c)]' = [[c \in Calls |-> statusOf(c)] EXCEPT ![d] = to]
<1>1. [c \in Calls |-> statusOf(c)]' = [c \in Calls |-> statusOf(c)']
  OBVIOUS
<1>2. [c \in Calls |-> statusOf(c)][d] = from
  BY DEF Moves
<1>3. [c \in Calls |-> statusOf(c)'] = [[c \in Calls |-> statusOf(c)] EXCEPT ![d] = to]
  BY DEF Moves
<1> QED
  BY <1>1, <1>2, <1>3

(* One step of the channel is one step of RpcCall, or a stutter.           *)
LEMMA StepRefines == IInv /\ IInv' /\ [Next]_vars => [Abstract!Next]_(Abstract!vars)
<1> SUFFICES ASSUME IInv, IInv', [Next]_vars PROVE [Abstract!Next]_(Abstract!vars)
  OBVIOUS
<1> USE ChannelAssumption
<1> DEFINE Same == \A c \in Calls : statusOf(c)' = statusOf(c)
<1>0. ASSUME Same, UNCHANGED <<answer, result>> PROVE UNCHANGED Abstract!vars
  <2>1. [c \in Calls |-> statusOf(c)]' = [c \in Calls |-> statusOf(c)]
    BY <1>0
  <2> QED
    BY <2>1, <1>0 DEF Abstract!vars
<1>1. CASE UNCHANGED vars
  <2>1. Same
    BY <1>1 DEF vars, statusOf
  <2> QED
    BY <1>0, <1>1, <2>1 DEF vars
<1>2. ASSUME NEW d \in Calls, async_call(d) PROVE Abstract!Issue(d)
  <2>1. Moves(d, "new", "open")
    BY <1>2 DEF async_call, SavePromise, Moves, statusOf, Running, Ended,
                IInv, TypeOK, ResponsesArePending, Agreement
  <2> QED
    BY <1>2, <2>1, StatusMoves DEF async_call, Abstract!Issue
<1>3. ASSUME NEW d \in Calls, async_call_resume(d) PROVE UNCHANGED Abstract!vars
  <2>1. Same
    BY <1>3 DEF async_call_resume, SavePromise, statusOf, Running, Ended, IInv, TypeOK, ResponsesArePending, ReturnedIsForgotten, Agreement
  <2> QED
    BY <1>0, <1>3, <2>1 DEF async_call_resume
<1>4. ASSUME NEW d \in Calls, async_call_send_fails(d) PROVE Abstract!Fail(d)
  <2>1. Moves(d, statusOf(d), "failed") /\ statusOf(d) \in {"new", "open"}
    BY <1>4 DEF async_call_send_fails, chan, Moves, statusOf, Running, Ended,
                IInv, TypeOK, ResponsesArePending, ReturnedIsForgotten, Agreement
  <2> QED
    BY <1>4, <2>1, StatusMoves DEF async_call_send_fails, Abstract!Fail
<1>5. ASSUME NEW d \in Calls, wait_for_response(d) PROVE Abstract!Return(d)
  <2>1. Moves(d, "answered", "returned")
    BY <1>5 DEF wait_for_response, WaitIsOver, clear_saved_call, Moves, statusOf, Running, Ended,
                IInv, TypeOK, ResponsesArePending, ReturnedIsForgotten, Agreement
  <2>2. responses[d] = answer[d]
    BY <1>5 DEF wait_for_response, IInv, Agreement
  <2> QED
    BY <1>5, <2>1, <2>2, StatusMoves DEF wait_for_response, Abstract!Return
<1>6. ASSUME NEW d \in Calls, wait_for_response_raises(d) PROVE Abstract!Fail(d)
  <2>1. Moves(d, "open", "failed")
    BY <1>6 DEF wait_for_response_raises, WaitIsOver, chan, Moves, statusOf, Running, Ended,
                IInv, TypeOK, ResponsesArePending, ReturnedIsForgotten, Agreement
  <2> QED
    BY <1>6, <2>1, StatusMoves DEF wait_for_response_raises, Abstract!Fail
<1>7. ASSUME NEW d \in Calls, CancelCall(d) PROVE Abstract!Abandon(d)
  <2>1. Moves(d, statusOf(d), "failed") /\ statusOf(d) \in {"open", "answered"}
    BY <1>7 DEF CancelCall, chan, Moves, statusOf, Running, Ended,
                IInv, TypeOK, ResponsesArePending, ReturnedIsForgotten, Agreement
  <2> QED
    BY <1>7, <2>1, StatusMoves DEF CancelCall, Abstract!Abandon
<1>8. ASSUME NEW d \in Calls, get_response(d) PROVE Abstract!Return(d)
  <2>1. Moves(d, "answered", "returned")
    BY <1>8 DEF get_response, clear_saved_call, Moves, statusOf, Running, Ended,
                IInv, TypeOK, ResponsesArePending, ReturnedIsForgotten, Agreement
  <2>2. responses[d] = answer[d]
    BY <1>8 DEF get_response, IInv, Agreement
  <2> QED
    BY <1>8, <2>1, <2>2, StatusMoves DEF get_response, Abstract!Return
<1>9. ASSUME NEW d \in Calls, on_response(d)
      PROVE  Abstract!Arrive(d) \/ UNCHANGED Abstract!vars
  <2>1. CASE answer[d] # Anonymous /\ d \in requests /\ task[d] \in Running
    <3>1. Moves(d, "open", "answered")
      BY <1>9, <2>1 DEF on_response, Moves, statusOf, Running, Ended,
                        IInv, TypeOK, ResponsesArePending, ReturnedIsForgotten, Agreement
    <3>2. answer[d] \in Results
      BY <1>9, <2>1 DEF on_response, IInv, TypeOK, ResponsesArePending, ReturnedIsForgotten, Agreement
    <3> QED
      BY <1>9, <3>1, <3>2, StatusMoves DEF on_response, Abstract!Arrive
  <2>2. CASE ~(answer[d] # Anonymous /\ d \in requests /\ task[d] \in Running)
    <3>1. Same
      BY <1>9, <2>2 DEF on_response, statusOf, Running, Ended,
                        IInv, TypeOK, ResponsesArePending, ReturnedIsForgotten, Agreement
    <3> QED
      BY <1>0, <1>9, <3>1 DEF on_response
  <2> QED
    BY <2>1, <2>2
<1>10. ASSUME NEW d \in Calls, PeerAnswers(d) PROVE Abstract!Reply(d)
  <2>1. Same /\ statusOf(d) # "new"
    BY <1>10 DEF PeerAnswers, chan, statusOf, Running, Ended, IInv, TypeOK, ResponsesArePending, ReturnedIsForgotten, Agreement
  <2>2. UNCHANGED [c \in Calls |-> statusOf(c)]
    BY <2>1
  <2>3. answer[d] = NoResponse
    BY <1>10 DEF PeerAnswers, IInv, TypeOK, ResponsesArePending, ReturnedIsForgotten, Agreement
  <2> QED
    BY <1>10, <2>1, <2>2, <2>3 DEF PeerAnswers, Abstract!Reply
<1>11. CASE SocketShuts
  <2>1. Same
    BY <1>11 DEF SocketShuts, chan, statusOf, Running, Ended, IInv, TypeOK, ResponsesArePending, ReturnedIsForgotten, Agreement
  <2> QED
    BY <1>0, <1>11, <2>1 DEF SocketShuts
<1>12. CASE MarkClosed
  <2>1. Same
    BY <1>12 DEF MarkClosed, chan, statusOf, Running, Ended, IInv, TypeOK, ResponsesArePending, ReturnedIsForgotten, Agreement
  <2> QED
    BY <1>0, <1>12, <2>1 DEF MarkClosed
<1> QED
  BY <1>1, <1>2, <1>3, <1>4, <1>5, <1>6, <1>7, <1>8, <1>9, <1>10, <1>11, <1>12
  DEF Next, Abstract!Next

(* Every behaviour of the channel satisfies the safety part of RpcCall: a  *)
(* call that returns returns its own answer, and a call whose answer       *)
(* on_response has saved does not fail unless it is cancelled.             *)
THEOREM ChannelRefinesRpcCall == SafeSpec => Abstract!SafeSpec
<1>1. Init => Abstract!Init
  <2>1. ASSUME Init, NEW c \in Calls PROVE statusOf(c) = "new"
    <3>1. task[c] = "idle"
      BY <2>1 DEF Init
    <3> QED
      BY <3>1 DEF statusOf, Running, Ended
  <2> QED
    BY <2>1 DEF Init, Abstract!Init
<1>2. IInv /\ IInv' /\ [Next]_vars => [Abstract!Next]_(Abstract!vars)
  BY StepRefines
<1> QED
  BY <1>1, <1>2, Inductive, PTL DEF SafeSpec, Abstract!SafeSpec

=============================================================================
