-------------------------- MODULE RpcClientProofs --------------------------
(***************************************************************************)
(* Proofs about RpcClient, for any number of attempts, pings and           *)
(* cancellations.                                                          *)
(*                                                                         *)
(* Why an old attempt is dead: as long as it is the latest, each of its    *)
(* tasks is held by the client's references or already cancelled (Owned),  *)
(* so that cancel_tasks, at the end of the cleanup, reaches both; and the  *)
(* next attempt is made only after the cleanup (Between).                  *)
(***************************************************************************)
EXTENDS RpcClient, TLAPS

Harmless(a) ==
  /\ reader[a] \in Reading => a \in doomed.reader
  /\ keeper[a] \in Keeping => a \in doomed.keeper

Dead(a) == ws[a] = "shut" /\ a \in closed /\ Harmless(a)

Unborn ==
  \A a \in Attempts : a > attempt =>
    /\ reader[a] = "none" /\ keeper[a] = "none"

Owned ==
  attempt # 0 =>
    /\ reader[attempt] \in Reading => attempt \in doomed.reader \/ refs.reader = attempt
    /\ keeper[attempt] \in Keeping => attempt \in doomed.keeper \/ refs.keeper = attempt

Between ==
  /\ phase = "dialing" /\ attempt # 0 /\ attempt \notin torn => Dead(attempt)
  /\ phase = "cleaning" => ws[attempt] = "shut"

Begun ==
  /\ phase = "out" => attempt = 0
  /\ phase \notin {"out", "dialing", "raised"} => attempt # 0 /\ sock = attempt

Marked ==
  /\ \A a \in Attempts : callbacks[a] # "none" => a \in closed
  /\ phase = "notifying" => attempt \in closed

IInv ==
  /\ TypeOK /\ Unborn /\ Owned /\ Between /\ Begun /\ Marked
  /\ OldAttemptsAreDead /\ NothingIsLeftBehind

LEMMA Initially == Init => IInv
BY ClientAssumption DEF Init, IInv, TypeOK, Unborn, Owned, Between, Begun, Marked,
   OldAttemptsAreDead, NothingIsLeftBehind, Attempts, Reading, Keeping, Dead, Harmless

-----------------------------------------------------------------------------
(* Types.                                                                  *)

LEMMA CancelTasksTyped ==
  ASSUME TypeOK, cancel_tasks
  PROVE  /\ refs' \in [{"reader", "keeper"} -> 0..MaxAttempts]
         /\ doomed' \in [{"reader", "keeper"} -> SUBSET Attempts]
<1>1. \A t \in {"reader", "keeper"} : doomed[t] \cup ({refs[t]} \ {0}) \in SUBSET Attempts
  BY ClientAssumption DEF TypeOK, Attempts
<1>2. 0 \in 0..MaxAttempts
  BY ClientAssumption
<1>3. QED BY <1>1, <1>2 DEF cancel_tasks

LEMMA ShutWsTyped ==
  ASSUME TypeOK, ShutWs
  PROVE  ws' \in [Attempts -> {"none", "open", "lost", "shut"}]
BY DEF TypeOK, ShutWs

LEMMA CancelCallbacksTyped ==
  ASSUME TypeOK, NEW a, CancelCallbacks(a)
  PROVE  callbacks' \in [Attempts -> {"none", "scheduled", "running", "finished",
                                     "raised", "dropped", "interrupted"}]
BY DEF TypeOK, CancelCallbacks

LEMMA CancelTyped ==
  ASSUME TypeOK, Cancel
  PROVE  cancels' \in 0..MaxCancels
BY ClientAssumption DEF TypeOK, Cancel

(* What the inductive step needs of the types.                             *)
Shapes ==
  /\ Attempts \subseteq Nat \ {0}
  /\ attempt \in Nat /\ (attempt # 0 => attempt \in Attempts)
  /\ sock # 0 => sock \in Attempts
  /\ DOMAIN ws = Attempts /\ ws = [a \in Attempts |-> ws[a]]
  /\ DOMAIN callbacks = Attempts /\ callbacks = [a \in Attempts |-> callbacks[a]]
  /\ DOMAIN reader = Attempts /\ reader = [a \in Attempts |-> reader[a]]
  /\ DOMAIN keeper = Attempts /\ keeper = [a \in Attempts |-> keeper[a]]

LEMMA Shaped ==
  ASSUME TypeOK
  PROVE  Shapes
BY ClientAssumption DEF TypeOK, Shapes, Attempts

(* Who acts has a connection to act on.                                    *)
LEMMA ReaderHasAConnection ==
  ASSUME IInv, NEW a \in Attempts, reader[a] # "none"
  PROVE  attempt \in Attempts /\ a <= attempt
BY ClientAssumption DEF IInv, Unborn, TypeOK, Attempts

LEMMA UserHasAConnection ==
  ASSUME IInv, phase \notin {"out", "dialing", "raised"}
  PROVE  attempt \in Attempts /\ sock = attempt
BY ClientAssumption DEF IInv, Begun, TypeOK, Attempts

LEMMA TypeStep ==
  ASSUME IInv, [Next]_vars
  PROVE  TypeOK'
<1> USE ClientAssumption DEF TypeOK, IInv
<1>1. CASE Enter BY <1>1 DEF Enter, conn, tasks, cut
<1>2. CASE DialRejected BY <1>2 DEF DialRejected, conn, tasks, cut
<1>3. CASE DialSucceeds BY <1>3, SMTT(60) DEF DialSucceeds, cut, Reading, Keeping, Attempts
<1>4. CASE Pong BY <1>4 DEF Pong, conn, tasks, cut
<1>5. CASE PingTimesOut BY <1>5 DEF PingTimesOut, conn, tasks, cut
<1>6. CASE ConnectFails BY <1>6, ShutWsTyped DEF ConnectFails, tasks, cut
<1>7. CASE CleanedUp BY <1>7, CancelTasksTyped, UserHasAConnection DEF CleanedUp, CloseChannel, cut
<1>8. CASE Connected BY <1>8 DEF Connected, conn, tasks, cut
<1>9. CASE Join BY <1>9 DEF Join, conn, tasks, cut
<1>10. CASE JoinEnds BY <1>10 DEF JoinEnds, conn, tasks, cut
<1>29. CASE JoinRaises BY <1>29 DEF JoinRaises, ShutWs, tasks, cut
<1>11. CASE UserCloses BY <1>11 DEF UserCloses, ShutWs, tasks, cut
<1>12. CASE UserNotifies BY <1>12, CancelTasksTyped, UserHasAConnection DEF UserNotifies, StartCallbacks, cut
<1>13. CASE UserLeaves BY <1>13, CancelTasksTyped DEF UserLeaves, conn, cut
<1>14. ASSUME NEW a \in Attempts, ReaderSeesEnd(a) PROVE TypeOK'
  BY <1>14 DEF ReaderSeesEnd, ShutWs, cut, Reading
<1>30. ASSUME NEW a \in Attempts, ReaderServes(a) \/ ReaderReceives(a) PROVE TypeOK'
  BY <1>30 DEF ReaderServes, ReaderReceives, conn, cut, Reading
<1>15. ASSUME NEW a \in Attempts, ReaderFails(a) PROVE TypeOK'
  BY <1>15 DEF ReaderFails, conn, cut, Reading
<1>16. ASSUME NEW a \in Attempts, ReaderNotifies(a) PROVE TypeOK'
  BY <1>16, CancelTasksTyped, ReaderHasAConnection DEF ReaderNotifies, StartCallbacks, Reading
<1>17. ASSUME NEW a \in Attempts, ReaderStops(a) PROVE TypeOK'
  BY <1>17, CancelTasksTyped, ReaderHasAConnection DEF ReaderStops, CloseChannel, cut, Reading
<1>18. ASSUME NEW a \in Attempts, ReaderCancelled(a) PROVE TypeOK'
  BY <1>18, CancelCallbacksTyped DEF ReaderCancelled, cut, Reading
<1>19. ASSUME NEW a \in Attempts, CallbacksStart(a) \/ CallbacksEnd(a) PROVE TypeOK'
  BY <1>19 DEF CallbacksStart, CallbacksEnd, tasks, cut
<1>20. ASSUME NEW a \in Attempts, KeeperSteps(a) PROVE TypeOK'
  BY <1>20 DEF KeeperSteps, KeeperPings, KeeperAnswered, KeeperFails, KeeperCancelled,
               conn, cut, Keeping
<1>21. CASE ConnectionDrops BY <1>21 DEF ConnectionDrops, tasks, cut
<1>22. CASE CancelDialing BY <1>22, CancelTyped DEF CancelDialing, conn, tasks
<1>23. CASE CancelHandshake BY <1>23, CancelTyped, ShutWsTyped DEF CancelHandshake, tasks
<1>24. CASE CancelCleanup BY <1>24, CancelTyped, UserHasAConnection DEF CancelCleanup, conn, tasks
<1>25. CASE CancelJoin BY <1>25, CancelTyped, UserHasAConnection DEF CancelJoin, conn
<1>26. CASE CancelClose BY <1>26, CancelTyped, CancelCallbacksTyped, UserHasAConnection DEF CancelClose, tasks
<1>27. CASE UNCHANGED vars BY <1>27 DEF vars, conn, tasks, cut
<1>28. QED
  BY <1>1, <1>2, <1>3, <1>4, <1>5, <1>6, <1>7, <1>8, <1>9, <1>10, <1>11, <1>12, <1>13,
     <1>14, <1>15, <1>16, <1>17, <1>18, <1>19, <1>20, <1>21, <1>22, <1>23, <1>24, <1>25,
     <1>26, <1>27, <1>29, <1>30 DEF Next, UserSteps, ReaderRuns

-----------------------------------------------------------------------------
(* The inductive step, an actor at a time.                                 *)

(* What a step that leaves the tasks' state alone has to establish.        *)
LEMMA UserStep ==
  ASSUME IInv, UserSteps, TypeOK'
  PROVE  IInv'
<1>0. Shapes
  BY Shaped DEF IInv
<1> USE <1>0 DEF IInv, Unborn, Owned, Between, Begun, Marked, OldAttemptsAreDead,
      NothingIsLeftBehind, Reading, Keeping, Dead, Harmless, Shapes
<1>1. CASE Enter BY <1>1 DEF Enter, conn, tasks, cut
<1>2. CASE DialRejected BY <1>2, SMTT(60) DEF DialRejected, conn, tasks, cut
<1>3. CASE DialSucceeds
  <2>1. /\ phase = "dialing" /\ phase' = "pinging"
        /\ attempt' = attempt + 1 /\ sock' = attempt'
        /\ ws' = [ws EXCEPT ![attempt'] = "open"]
        /\ reader' = [reader EXCEPT ![attempt'] = "reading"]
        /\ \E k \in {"sleeping", "none"} : keeper' = [keeper EXCEPT ![attempt'] = k]
        /\ refs'.reader = attempt' /\ (keeper'[attempt'] = "sleeping" => refs'.keeper = attempt')
        /\ UNCHANGED <<closed, callbacks, doomed, torn>>
    <3>2. attempt + 1 \in Attempts
      BY <1>3, ClientAssumption DEF DialSucceeds, Attempts
    <3>3. keeper' = [keeper EXCEPT ![attempt'] = IF KeepAlive THEN "sleeping" ELSE "none"]
      BY <1>3 DEF DialSucceeds
    <3>4. keeper'[attempt'] = "sleeping" => refs'.keeper = attempt'
      BY <1>3, <3>2, <3>3 DEF DialSucceeds
    <3>5. QED BY <1>3, <3>3, <3>4 DEF DialSucceeds, cut
  <2>2. attempt' \in Attempts /\ attempt' # 0
    BY <1>3, ClientAssumption DEF DialSucceeds, Attempts
  <2>3. \A a \in Attempts : a < attempt' <=> a < attempt \/ a = attempt
    BY <2>1
  <2>4. Unborn' /\ Owned' /\ Between' /\ Begun' /\ Marked' /\ NothingIsLeftBehind'
    BY <2>1, <2>2
  <2>5. OldAttemptsAreDead'
    BY <2>1, <2>2, <2>3
  <2>6. QED BY <2>4, <2>5
<1>4. CASE Pong BY <1>4 DEF Pong, conn, tasks, cut
<1>5. CASE PingTimesOut BY <1>5 DEF PingTimesOut, conn, tasks, cut
<1>6. CASE ConnectFails BY <1>6 DEF ConnectFails, ShutWs, tasks, cut
<1>7. CASE CleanedUp BY <1>7, SMTT(60) DEF CleanedUp, CloseChannel, cancel_tasks, cut
<1>8. CASE Connected BY <1>8 DEF Connected, conn, tasks, cut
<1>9. CASE Join BY <1>9 DEF Join, conn, tasks, cut
<1>10. CASE JoinEnds BY <1>10 DEF JoinEnds, conn, tasks, cut
<1>15. CASE JoinRaises BY <1>15 DEF JoinRaises, ShutWs, tasks, cut
<1>11. CASE UserCloses BY <1>11 DEF UserCloses, ShutWs, tasks, cut
<1>12. CASE UserNotifies BY <1>12, SMTT(60) DEF UserNotifies, StartCallbacks, cancel_tasks, cut
<1>13. CASE UserLeaves BY <1>13, SMTT(60) DEF UserLeaves, cancel_tasks, conn, cut
<1>14. QED
  BY <1>1, <1>2, <1>3, <1>4, <1>5, <1>6, <1>7, <1>8, <1>9, <1>10, <1>11, <1>12, <1>13, <1>15
  DEF UserSteps

(* Nothing but the progress of callbacks: those that raised stay raised.   *)
LEMMA CallbacksStep ==
  ASSUME IInv, TypeOK', UNCHANGED <<phase, attempt, sock, pings, ws, closed, tasks, cut>>,
         \A b \in Attempts : /\ callbacks'[b] # "none" => callbacks[b] # "none"
                             /\ callbacks[b] = "raised" => callbacks'[b] = "raised"
  PROVE  IInv'
<1>1. Unborn' /\ Owned' /\ Between' /\ Begun' /\ OldAttemptsAreDead'
  BY DEF IInv, Unborn, Owned, Between, Begun, OldAttemptsAreDead, Dead, Harmless, tasks, cut
<1>2. Marked'
  <2>1. closed' = closed /\ phase' = phase /\ attempt' = attempt
    OBVIOUS
  <2>2. Marked
    BY DEF IInv
  <2>3. ASSUME NEW b \in Attempts, callbacks'[b] # "none" PROVE b \in closed'
    BY <2>1, <2>2, <2>3 DEF Marked
  <2>4. phase' = "notifying" => attempt' \in closed'
    BY <2>1, <2>2 DEF Marked
  <2>5. QED BY <2>3, <2>4 DEF Marked
<1>3. NothingIsLeftBehind'
  <2>1. attempt \in 0..MaxAttempts
    BY DEF IInv, TypeOK
  <2>2. attempt # 0 => attempt \in Attempts
    BY <2>1, ClientAssumption DEF Attempts
  <2>3. QED BY <2>2 DEF IInv, NothingIsLeftBehind, tasks, cut
<1>4. QED BY <1>1, <1>2, <1>3 DEF IInv

LEMMA TaskStep ==
  ASSUME IInv, NEW a \in Attempts, TypeOK',
         \/ ReaderRuns(a) \/ ReaderServes(a) \/ ReaderReceives(a) \/ ReaderFails(a)
         \/ KeeperSteps(a) \/ CallbacksStart(a) \/ CallbacksEnd(a)
  PROVE  IInv'
<1>0. Shapes
  BY Shaped DEF IInv
<1> USE <1>0 DEF IInv, Unborn, Owned, Between, Begun, Marked, OldAttemptsAreDead,
      NothingIsLeftBehind, Reading, Keeping, Dead, Harmless, Shapes
<1>1. CASE ReaderSeesEnd(a) BY <1>1, SMTT(60) DEF ReaderSeesEnd, ShutWs, cut
<1>2. CASE ReaderFails(a) BY <1>2, SMTT(60) DEF ReaderFails, conn, cut
<1>7. CASE ReaderServes(a) BY <1>7, SMTT(60) DEF ReaderServes, conn, cut
<1>13. CASE ReaderReceives(a)
  <2>1. /\ reader[a] = "serving" /\ a \notin doomed.reader /\ a <= attempt
        /\ \E r \in {"reading", "closing", "failed"} : reader' = [reader EXCEPT ![a] = r]
    BY <1>13, ReaderHasAConnection DEF ReaderReceives
  <2>2. UNCHANGED <<phase, attempt, sock, pings, ws, closed, callbacks, keeper, refs, doomed, torn>>
    BY <1>13 DEF ReaderReceives, conn, cut
  <2>3. QED BY <2>1, <2>2, SMTT(60)
<1>3. CASE ReaderNotifies(a)
  <2>1. a \notin doomed.reader /\ reader[a] = "closing" /\ attempt \in Attempts /\ a <= attempt
    BY <1>3, ReaderHasAConnection DEF ReaderNotifies
  <2>2. CASE attempt \in closed
    <3>1. /\ UNCHANGED <<phase, attempt, sock, pings, ws, closed, callbacks, keeper, torn>>
          /\ reader' = [reader EXCEPT ![a] = "over"]
          /\ cancel_tasks
      BY <1>3, <2>2 DEF ReaderNotifies
    <3>2. Unborn'
      BY <2>1, <3>1
    <3>6. Begun'
      BY <3>1
    <3>7. Marked'
      BY <3>1
    <3>3. Owned'
      BY <2>1, <3>1 DEF cancel_tasks
    <3>4. Between' /\ OldAttemptsAreDead' /\ NothingIsLeftBehind'
      BY <2>1, <3>1, SMTT(60) DEF cancel_tasks
    <3>5. QED BY <3>2, <3>3, <3>4, <3>6, <3>7
  <2>3. CASE attempt \notin closed
    <3>1. /\ UNCHANGED <<phase, attempt, sock, pings, ws, keeper, refs, doomed, torn>>
          /\ reader' = [reader EXCEPT ![a] = "notifying"]
          /\ closed' = closed \cup {attempt}
          /\ callbacks' = [callbacks EXCEPT ![attempt] = "scheduled"]
      BY <1>3, <2>3 DEF ReaderNotifies, StartCallbacks
    <3>2. Unborn' /\ Begun'
      BY <2>1, <3>1
    <3>7. Marked'
      <4>1. ASSUME NEW b \in Attempts, callbacks'[b] # "none" PROVE b \in closed'
        BY <3>1, <4>1
      <4>2. phase' = "notifying" => attempt' \in closed'
        BY <3>1
      <4>3. QED BY <4>1, <4>2
    <3>3. Owned' /\ Between' /\ OldAttemptsAreDead'
      BY <2>1, <3>1
    <3>4. callbacks[attempt] = "none"
      BY <2>1, <2>3
    <3>5. NothingIsLeftBehind'
      BY <2>1, <2>3, <3>1, <3>4
    <3>6. QED BY <3>2, <3>3, <3>5, <3>7
  <2>4. QED BY <2>2, <2>3
<1>4. CASE ReaderStops(a)
  <2>1. a \notin doomed.reader /\ reader[a] = "notifying" /\ attempt \in Attempts /\ a <= attempt
    BY <1>4, ReaderHasAConnection DEF ReaderStops
  <2>2. CASE reader' = [reader EXCEPT ![a] = "over"]
    BY <1>4, <2>1, <2>2, SMTT(60) DEF ReaderStops, CloseChannel, cancel_tasks, cut
  <2>3. CASE reader' = [reader EXCEPT ![a] = "failed"] /\ UNCHANGED <<ws, closed, refs, doomed>>
    BY <1>4, <2>1, <2>3 DEF ReaderStops, cut
  <2>4. QED BY <1>4, <2>2, <2>3 DEF ReaderStops
<1>5. CASE ReaderCancelled(a)
  <2>1. /\ UNCHANGED <<phase, attempt, sock, pings, ws, closed, keeper, refs, doomed, torn>>
        /\ reader' = [reader EXCEPT ![a] = "over"]
        /\ \A b \in Attempts : /\ callbacks'[b] # "none" => callbacks[b] # "none"
                               /\ callbacks[b] = "raised" => callbacks'[b] = "raised"
    BY <1>5 DEF ReaderCancelled, CancelCallbacks, cut
  <2>0. a <= attempt
    BY <1>5, ReaderHasAConnection DEF ReaderCancelled
  <2>2. Unborn'
    BY <2>0, <2>1
  <2>3. Begun'
    BY <2>1
  <2>4. Owned'
    BY <2>1
  <2>5. Between'
    BY <2>1
  <2>6. OldAttemptsAreDead'
    BY <2>1
  <2>7. Marked'
    <3>1. ASSUME NEW b \in Attempts, callbacks'[b] # "none" PROVE b \in closed'
      BY <2>1, <3>1
    <3>2. phase' = "notifying" => attempt' \in closed'
      BY <2>1
    <3>3. QED BY <3>1, <3>2
  <2>8. NothingIsLeftBehind'
    BY <2>1
  <2>9. QED BY <2>2, <2>3, <2>4, <2>5, <2>6, <2>7, <2>8
<1>6. CASE CallbacksStart(a) \/ CallbacksEnd(a)
  <2>1. UNCHANGED <<phase, attempt, sock, pings, ws, closed, tasks, cut>>
    BY <1>6 DEF CallbacksStart, CallbacksEnd
  <2>2. \A b \in Attempts : /\ callbacks'[b] # "none" => callbacks[b] # "none"
                            /\ callbacks[b] = "raised" => callbacks'[b] = "raised"
    <3>1. CASE CallbacksStart(a)
      BY <3>1 DEF CallbacksStart
    <3>2. CASE CallbacksEnd(a)
      <4>1. PICK outcome : callbacks' = [callbacks EXCEPT ![a] = outcome]
        BY <3>2 DEF CallbacksEnd
      <4>2. callbacks[a] = "running"
        BY <3>2 DEF CallbacksEnd
      <4>3. QED BY <4>1, <4>2, SMTT(60)
    <3>3. QED BY <1>6, <3>1, <3>2
  <2>3. QED BY <2>1, <2>2, CallbacksStep
<1>8. CASE KeeperPings(a) BY <1>8, SMTT(60) DEF KeeperPings, conn, cut
<1>9. CASE KeeperAnswered(a) BY <1>9 DEF KeeperAnswered, conn, cut
<1>10. CASE KeeperFails(a) BY <1>10 DEF KeeperFails, conn, cut
<1>11. CASE KeeperCancelled(a) BY <1>11, SMTT(60) DEF KeeperCancelled, conn, cut
<1>12. QED
  BY <1>1, <1>2, <1>3, <1>4, <1>5, <1>6, <1>7, <1>8, <1>9, <1>10, <1>11, <1>13
  DEF ReaderRuns, KeeperSteps

LEMMA CancelStep ==
  ASSUME IInv, TypeOK',
         CancelDialing \/ CancelHandshake \/ CancelCleanup \/ CancelJoin \/ CancelClose
  PROVE  IInv'
<1>0. Shapes
  BY Shaped DEF IInv
<1> USE <1>0 DEF IInv, Unborn, Owned, Between, Begun, Marked, OldAttemptsAreDead,
      NothingIsLeftBehind, Reading, Keeping, Dead, Harmless, Shapes
<1>1. CASE CancelDialing BY <1>1, SMTT(60) DEF CancelDialing, conn, tasks
<1>2. CASE CancelHandshake BY <1>2 DEF CancelHandshake, ShutWs, tasks
<1>3. CASE CancelCleanup BY <1>3 DEF CancelCleanup, conn, tasks
<1>4. CASE CancelJoin BY <1>4 DEF CancelJoin, conn
<1>5. CASE CancelClose BY <1>5 DEF CancelClose, CancelCallbacks, tasks
<1>6. QED BY <1>1, <1>2, <1>3, <1>4, <1>5

LEMMA DropStep ==
  ASSUME IInv, TypeOK', ConnectionDrops \/ UNCHANGED vars
  PROVE  IInv'
<1>1. CASE ConnectionDrops
  <2>1. /\ attempt # 0 /\ ws[attempt] = "open" /\ ws' = [ws EXCEPT ![attempt] = "lost"]
        /\ UNCHANGED <<phase, attempt, sock, pings, closed, callbacks, tasks, cut>>
    BY <1>1 DEF ConnectionDrops, Up
  <2>2. Unborn' /\ Owned' /\ Begun' /\ Marked' /\ NothingIsLeftBehind'
    BY <2>1 DEF IInv, Unborn, Owned, Begun, Marked, NothingIsLeftBehind, tasks, cut
  <2>3. Between' /\ OldAttemptsAreDead'
    BY <2>1, ClientAssumption DEF IInv, Between, OldAttemptsAreDead, Begun, Dead, Harmless, TypeOK, Attempts,
       tasks, cut
  <2>4. QED BY <2>2, <2>3 DEF IInv
<1>2. CASE UNCHANGED vars
  BY <1>2, CallbacksStep DEF vars, conn
<1>3. QED BY <1>1, <1>2

LEMMA Invariance == SafeSpec => []IInv
<1>1. IInv /\ [Next]_vars => IInv'
  BY TypeStep, UserStep, TaskStep, CancelStep, DropStep DEF Next
<1>2. QED BY <1>1, Initially, PTL DEF SafeSpec

-----------------------------------------------------------------------------
(* What follows.                                                           *)

(* Every variable keeps its type: an attempt, a task and a cancellation    *)
(* are always ones of this client.                                         *)
THEOREM ClientTypeCorrect == SafeSpec => []TypeOK
<1>1. IInv => TypeOK
  BY DEF IInv
<1>2. QED BY <1>1, Invariance, PTL

(* However often __connect__ fails, is cancelled or is retried, the reader *)
(* and the keep-alive task of an earlier attempt never outlive its cleanup *)
(* without a cancellation pending (websocket_rpc_client.py, __connect__).  *)
THEOREM OldAttemptsStayDead == SafeSpec => []OldAttemptsAreDead
<1>1. IInv => OldAttemptsAreDead
  BY DEF IInv
<1>2. QED BY <1>1, Invariance, PTL

(* However the async with is left, no task of any attempt stays behind     *)
(* uncancelled and the channel is closed, the exceptions of                *)
(* NothingIsLeftBehind apart (close() and __connect__).                    *)
THEOREM NothingStaysBehind == SafeSpec => []NothingIsLeftBehind
<1>1. IInv => NothingIsLeftBehind
  BY DEF IInv
<1>2. QED BY <1>1, Invariance, PTL

(* isClosed() is asked and _closed is set without an await in between: the *)
(* user's close() and the reader's never both start the callbacks.         *)
LEMMA CallbacksStartOnce ==
  ASSUME IInv, [Next]_vars, NEW a \in Attempts,
         callbacks'[a] = "scheduled"
  PROVE  callbacks[a] \in {"none", "scheduled"}
<1> USE DEF IInv, TypeOK
<1>1. CASE UserNotifies
  BY <1>1 DEF UserNotifies, StartCallbacks, Marked
<1>2. ASSUME NEW b \in Attempts, ReaderNotifies(b)
      PROVE  callbacks[a] \in {"none", "scheduled"}
  BY <1>2 DEF ReaderNotifies, StartCallbacks, Marked
<1>3. ASSUME NEW b, CancelCallbacks(b)
      PROVE  callbacks[a] \in {"none", "scheduled"}
  BY <1>3 DEF CancelCallbacks
<1>4. CASE UserSteps
  BY <1>1, <1>4 DEF UserSteps, Enter, DialRejected, DialSucceeds, Pong, PingTimesOut,
     ConnectFails, CleanedUp, Connected, Join, JoinEnds, JoinRaises, UserCloses, UserLeaves, conn
<1>5. ASSUME NEW b \in Attempts,
             \/ ReaderRuns(b) \/ ReaderServes(b) \/ ReaderReceives(b) \/ ReaderFails(b)
             \/ KeeperSteps(b)
      PROVE  callbacks[a] \in {"none", "scheduled"}
  BY <1>2, <1>3, <1>5 DEF ReaderRuns, ReaderSeesEnd, ReaderStops, ReaderCancelled, ReaderServes,
     ReaderReceives, ReaderFails,
     KeeperSteps, KeeperPings, KeeperAnswered, KeeperFails, KeeperCancelled, conn
<1>6. ASSUME NEW b \in Attempts, CallbacksStart(b) \/ CallbacksEnd(b)
      PROVE  callbacks[a] \in {"none", "scheduled"}
  BY <1>6 DEF CallbacksStart, CallbacksEnd
<1>7. CASE CancelDialing \/ CancelHandshake \/ CancelCleanup \/ CancelJoin \/ CancelClose
  BY <1>3, <1>7 DEF CancelDialing, CancelHandshake, CancelCleanup, CancelJoin, CancelClose, conn
<1>8. CASE ConnectionDrops \/ UNCHANGED vars
  BY <1>8 DEF ConnectionDrops, vars, conn
<1>9. QED BY <1>4, <1>5, <1>6, <1>7, <1>8 DEF Next

(* "Notify callbacks (but just once)", for any number of attempts and      *)
(* cancellations.                                                          *)
THEOREM CallbacksRunOnce == SafeSpec => NotifiedJustOnce
<1>1. IInv /\ [Next]_vars =>
        [\A a \in Attempts :
           callbacks'[a] = "scheduled" => callbacks[a] \in {"none", "scheduled"}]_vars
  BY CallbacksStartOnce
<1>2. QED BY <1>1, Invariance, PTL DEF SafeSpec, NotifiedJustOnce

=============================================================================
