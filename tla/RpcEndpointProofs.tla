-------------------------- MODULE RpcEndpointProofs --------------------------
(***************************************************************************)
(* What RpcEndpoint guarantees for any set of connections, whichever of    *)
(* them call back, raise, may be cancelled or have no address.             *)
(*                                                                         *)
(* FarewellComesLast and the type of notified are not inductive: Accept    *)
(* opens a websocket, handle_disconnect counts.  Neither can happen once   *)
(* the callbacks have started, which NotifiedLate says.                    *)
(***************************************************************************)
EXTENDS RpcEndpoint, TLAPS

(* Once the callbacks have started, main_loop is past its read loop for    *)
(* good.                                                                   *)
NotifiedLate ==
  \A c \in Conns : notified[c] > 0 => at[c] \in {"farewell"} \cup Over

EndpointInv ==
  /\ TypeOK
  /\ ManagerTracksServed
  /\ FarewellComesLast
  /\ NotifiedLate

(* The invariant holds before any connection is accepted.                  *)
LEMMA EndpointInit == Init => EndpointInv
  BY EndpointAssumption
  DEF Init, EndpointInv, TypeOK, ManagerTracksServed,
      FarewellComesLast, NotifiedLate, Served, Looping, Sending, Over

(* Every step of a main_loop, of a client or of a closing task keeps it.   *)
LEMMA EndpointStep == EndpointInv /\ [Next]_vars => EndpointInv'
<1> SUFFICES ASSUME EndpointInv, [Next]_vars PROVE EndpointInv'
  OBVIOUS
<1> USE EndpointAssumption
    DEF EndpointInv, TypeOK, ManagerTracksServed,
        FarewellComesLast, NotifiedLate, Served, Looping, Sending, Over
<1>1. CASE UNCHANGED vars
  BY <1>1 DEF vars
<1>2. ASSUME NEW c \in Conns, Accept(c) PROVE EndpointInv'
  BY <1>2 DEF Accept, Goto
\* What the ways out through the bare except have in common: app may be shut
\* by the failing send that leads there.
<1>3. ASSUME NEW c \in Conns, at[c] \notin Over, FailToServe(c),
             \/ app' = app
             \/ app[c] = "open" /\ app' = [app EXCEPT ![c] = "shut"],
             UNCHANGED <<client, closed, notified>>
      PROVE  EndpointInv'
  BY <1>3 DEF FailToServe, Goto
<1>4. ASSUME NEW c \in Conns,
             AcceptFails(c) \/ GreetingRaises(c) \/ AbortRaises(c)
               \/ FarewellRaises(c) \/ Cancelled(c)
      PROVE  EndpointInv'
  <2>1. at[c] \notin Over /\ FailToServe(c)
          /\ UNCHANGED <<app, client, closed, notified>>
    BY <1>4 DEF AcceptFails, GreetingRaises, AbortRaises, FarewellRaises,
                Cancelled
  <2> QED BY <2>1, <1>3
\* What the steps from one place of the service to another have in common.
<1>5. ASSUME NEW c \in Conns, NEW where \in Served, at[c] \in Served,
             Goto(c, where), UNCHANGED <<active, app, client, closed, notified>>
      PROVE  EndpointInv'
  BY <1>5 DEF Goto
<1>6. ASSUME NEW c \in Conns, RecvMessage(c) \/ MethodEnds(c) \/ Handled(c)
      PROVE  EndpointInv'
  <2>1. at[c] \in Served /\ UNCHANGED <<active, app, client, closed, notified>>
    BY <1>6 DEF RecvMessage, MethodEnds, Handled
  <2>2. PICK where \in Looping : Goto(c, where)
    BY <1>6 DEF RecvMessage, MethodEnds, Handled
  <2> QED BY <2>1, <2>2, <1>5
\* The exceptions of the read loop: a handler, or the bare except at once.
<1>7. ASSUME NEW c \in Conns, NEW handler \in Served, at[c] \in Served,
             Catch(c, handler), UNCHANGED <<app, client, closed, notified>>
      PROVE  EndpointInv'
  <2>1. CASE c \in Portless
    BY <1>7, <2>1, <1>3 DEF Catch
  <2>2. CASE c \notin Portless
    BY <1>7, <2>2, <1>5 DEF Catch
  <2> QED BY <2>1, <2>2
<1>8. ASSUME NEW c \in Conns,
              RecvGarbage(c) \/ RecvDisconnect(c)
                \/ SerializationFails(c) \/ SendOnShut(c) \/ LoopRaises(c)
       PROVE  EndpointInv'
  <2>1. at[c] \in Served /\ UNCHANGED <<app, client, closed, notified>>
    BY <1>8 DEF RecvGarbage, RecvDisconnect, SerializationFails, SendOnShut, LoopRaises
  <2>2. PICK handler \in Served : Catch(c, handler)
    BY <1>8 DEF RecvGarbage, RecvDisconnect, SerializationFails, SendOnShut, LoopRaises
  <2> QED BY <2>1, <2>2, <1>7
\* The next receive: a place of the service, or an exception of the loop.
<1>9. ASSUME NEW c \in Conns, GreetingEnds(c) \/ RecvResponse(c)
       PROVE  EndpointInv'
  <2>1. at[c] \in Served /\ Receive(c) /\ UNCHANGED <<app, client, closed, notified>>
    BY <1>9 DEF GreetingEnds, RecvResponse
  <2>2. CASE app[c] = "open"
    BY <2>1, <2>2, <1>5 DEF Receive
  <2>3. CASE app[c] # "open"
    BY <2>1, <2>3, <1>7 DEF Receive
  <2> QED BY <2>2, <2>3
<1>10. ASSUME NEW c \in Conns, SendToGone(c) PROVE EndpointInv'
  <2>1. CASE c \in Portless
    BY <1>10, <2>1, <1>3 DEF SendToGone, Catch
  <2>2. CASE c \notin Portless
    BY <1>10, <2>2 DEF SendToGone, Catch, Goto
  <2> QED BY <2>1, <2>2
<1>11. ASSUME NEW c \in Conns, AbortCloses(c) PROVE EndpointInv'
  BY <1>11 DEF AbortCloses, Goto
\* The only step that counts: NotifiedLate says it has not counted before.
<1>12. ASSUME NEW c \in Conns, handle_disconnect(c) PROVE EndpointInv'
  <2>1. notified[c] = 0
    BY <1>12 DEF handle_disconnect
  <2> QED BY <1>12, <2>1 DEF handle_disconnect, Goto
<1>13. ASSUME NEW c \in Conns, FarewellEnds(c) PROVE EndpointInv'
  BY <1>13 DEF FarewellEnds, Goto
<1>14. ASSUME NEW c \in Conns, ClientLeaves(c) PROVE EndpointInv'
  BY <1>14 DEF ClientLeaves
<1>15. ASSUME NEW c \in Conns, ServerCloses(c) PROVE EndpointInv'
  BY <1>15 DEF ServerCloses
<1>16. ASSUME NEW c \in Conns, CallToGone(c) PROVE EndpointInv'
  BY <1>16 DEF CallToGone
<1> QED
  BY <1>1, <1>2, <1>4, <1>6, <1>8, <1>9, <1>10, <1>11, <1>12, <1>13, <1>14, <1>15, <1>16
  DEF Next

LEMMA EndpointInvariant == SafeSpec => []EndpointInv
  BY EndpointInit, EndpointStep, PTL DEF SafeSpec

-----------------------------------------------------------------------------

(* Every variable keeps its type: in particular no connection's            *)
(* on_disconnect callbacks are started twice, though handle_disconnect is  *)
(* called from two places of main_loop.                                    *)
THEOREM EndpointTypeCorrect == Spec => []TypeOK
  BY EndpointInvariant, PTL DEF Spec, EndpointInv

(* For any number of connections, however main_loop of each comes to its   *)
(* end, active_connections lists those being served and no other that has a*)
(* client address.                                                         *)
THEOREM ManagerIsExact == Spec => []ManagerTracksServed
  BY EndpointInvariant, PTL DEF Spec, EndpointInv

(* No on_disconnect callback meets an open channel, an open websocket or a *)
(* manager that still lists the connection.                                *)
THEOREM CallbacksFindItClosed == Spec => []FarewellComesLast
  BY EndpointInvariant, PTL DEF Spec, EndpointInv

=============================================================================
