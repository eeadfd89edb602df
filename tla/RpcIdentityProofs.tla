-------------------------- MODULE RpcIdentityProofs --------------------------
(***************************************************************************)
(* What RpcIdentity guarantees for any number of connections, whichever of *)
(* them sync, time out, suspend or have foreign clients, and whoever waits.*)
(*                                                                         *)
(* KnownIdIsTheOthers depends on the answer in flight, and that on what the*)
(* methods objects know: OwnMethods and AnswersAreRight.  WaitersGetTheId  *)
(* needs that the event is set after the id, for good (SyncedIsKnown): the *)
(* task that sets it belongs to an open channel (NewHasNoTask).            *)
(***************************************************************************)
EXTENDS RpcIdentity, TLAPS

(* "Each channel has its own copy of the methods object": once a channel is*)
(* built, its copy knows it and no other.                                  *)
OwnMethods ==
  \A c \in Conns :
    /\ at[c] # "new" => channel[Methods("server", c)] = Id("server", c)
    /\ client[c] # "new" => channel[Methods("client", c)] = Id("client", c)

AnswersAreRight == \A c \in Conns : reply[c] \in {None, Id("client", c)}

SyncedIsKnown ==
  \A c \in synced : sync[c] = "done" /\ other[c] = Id("client", c)

NewHasNoTask == \A c \in Conns : at[c] = "new" => sync[c] = "none"

IdentityInv ==
  /\ TypeOK
  /\ OwnMethods
  /\ AnswersAreRight
  /\ KnownIdIsTheOthers
  /\ SyncedIsKnown
  /\ WaitersGetTheId
  /\ NewHasNoTask

(* The objects and the ids of both ends of all connections are different.  *)
LEMMA EndsAreDistinct ==
  \A c, d \in Conns :
    /\ Methods("server", c) \in Objects /\ Methods("client", c) \in Objects
    /\ Id("server", c) \in Channels /\ Id("client", c) \in Channels
    /\ Methods("server", c) # Methods("client", d)
    /\ c # d => /\ Methods("server", c) # Methods("server", d)
                /\ Methods("client", c) # Methods("client", d)
    /\ Id("client", c) # None
  BY DEF Methods, Id, Objects, Channels, None

(* The invariant holds before any connection is made.                      *)
LEMMA IdentityInit == Init => IdentityInv
  BY EndsAreDistinct, IdentityAssumption
  DEF Init, IdentityInv, TypeOK, OwnMethods, AnswersAreRight, KnownIdIsTheOthers,
      SyncedIsKnown, WaitersGetTheId, NewHasNoTask, Serving

(* Every step of either end, of the task or of a waiter keeps it.          *)
LEMMA IdentityStep == IdentityInv /\ [Next]_vars => IdentityInv'
<1> SUFFICES ASSUME IdentityInv, [Next]_vars PROVE IdentityInv'
  OBVIOUS
<1> USE EndsAreDistinct, IdentityAssumption
    DEF IdentityInv, TypeOK, OwnMethods, AnswersAreRight, KnownIdIsTheOthers,
        SyncedIsKnown, WaitersGetTheId, NewHasNoTask, Serving, task, waits
<1>1. CASE UNCHANGED vars
  BY <1>1 DEF vars
<1>2. ASSUME NEW c \in Conns, OpenServer(c) PROVE IdentityInv'
  <2>1. TypeOK' /\ WaitersGetTheId'
    BY <1>2 DEF OpenServer, SetChannel, Mark
  <2>2. OwnMethods'
    BY <1>2 DEF OpenServer, SetChannel
  <2>3. AnswersAreRight' /\ KnownIdIsTheOthers'
    BY <1>2 DEF OpenServer
  <2>4. SyncedIsKnown' /\ NewHasNoTask'
    BY <1>2 DEF OpenServer
  <2> QED BY <2>1, <2>2, <2>3, <2>4
<1>3. ASSUME NEW c \in Conns, OpenClient(c) PROVE IdentityInv'
  BY <1>3 DEF OpenClient, SetChannel
<1>4. ASSUME NEW c \in Conns, GreetingEnds(c) PROVE IdentityInv'
  BY <1>4 DEF GreetingEnds, Of
<1>5. ASSUME NEW c \in Conns, GreetingRaises(c) PROVE IdentityInv'
  BY <1>5 DEF GreetingRaises
<1>6. ASSUME NEW c \in Conns, Disconnect(c) PROVE IdentityInv'
  BY <1>6 DEF Disconnect
<1>7. ASSUME NEW c \in Conns, EndsUnclosed(c) PROVE IdentityInv'
  BY <1>7 DEF EndsUnclosed, Mark, Of, Blocking
<1>8. ASSUME NEW c \in Conns, ServerCloses(c) \/ ClientLeaves(c) PROVE IdentityInv'
  BY <1>8 DEF ServerCloses, ClientLeaves
<1>9. ASSUME NEW c \in Conns, Ask(c) \/ AskResumes(c) \/ SendFails(c)
      PROVE  IdentityInv'
  <2>1. CASE Ask(c)
    BY <2>1 DEF Ask
  <2>2. CASE AskResumes(c)
    BY <2>2 DEF AskResumes
  <2>3. CASE SendFails(c)
    BY <2>3 DEF SendFails
  <2> QED BY <1>9, <2>1, <2>2, <2>3
<1>10. ASSUME NEW c \in Conns, ClientAnswers(c) PROVE IdentityInv'
  BY <1>10 DEF ClientAnswers
<1>11. ASSUME NEW c \in Conns, TakeAnswer(c) PROVE IdentityInv'
  BY <1>11 DEF TakeAnswer
<1>12. ASSUME NEW c \in Conns, Synced(c) PROVE IdentityInv'
  <2>1. CASE reply[c] = None
    BY <1>12, <2>1 DEF Synced
  <2>2. CASE reply[c] # None
    BY <1>12, <2>2 DEF Synced
  <2> QED BY <2>1, <2>2
<1>13. ASSUME NEW c \in Conns, SyncReleased(c) PROVE IdentityInv'
  BY <1>13 DEF SyncReleased
<1>14. ASSUME NEW w \in Waiters, MethodWaits(w) PROVE IdentityInv'
  BY <1>14 DEF MethodWaits, Mark
<1>15. ASSUME NEW w \in Waiters, MethodEnds(w) PROVE IdentityInv'
  BY <1>15 DEF MethodEnds
<1>16. ASSUME NEW w \in Waiters, TaskWaits(w) PROVE IdentityInv'
  BY <1>16 DEF TaskWaits, Mark
<1>17. ASSUME NEW w \in Waiters, GetReturns(w) PROVE IdentityInv'
  BY <1>17 DEF GetReturns, Mark
<1>18. ASSUME NEW w \in Waiters, GetTimesOut(w) PROVE IdentityInv'
  BY <1>18 DEF GetTimesOut, Mark
<1> QED
  BY <1>1, <1>2, <1>3, <1>4, <1>5, <1>6, <1>7, <1>8, <1>9, <1>10, <1>11, <1>12,
     <1>13, <1>14, <1>15, <1>16, <1>17, <1>18
  DEF Next

LEMMA IdentityInvariant == SafeSpec => []IdentityInv
  BY IdentityInit, IdentityStep, PTL DEF SafeSpec

-----------------------------------------------------------------------------

(* Every variable keeps its type.                                          *)
THEOREM IdentityTypeCorrect == Spec => []TypeOK
  BY IdentityInvariant, PTL DEF Spec, IdentityInv

(* However many connections share the methods objects, the id a server has *)
(* learned is that of the client at the other end.                         *)
THEOREM LearnsTheRightId == Spec => []KnownIdIsTheOthers
  BY IdentityInvariant, PTL DEF Spec, IdentityInv

(* get_other_channel_id never returns anything but the other end's id,     *)
(* whatever the client answers and whenever the waiter asks.               *)
THEOREM ReturnsAnId == Spec => []WaitersGetTheId
  BY IdentityInvariant, PTL DEF Spec, IdentityInv

=============================================================================
