--------------------------- MODULE RpcPeersProofs ---------------------------
(***************************************************************************)
(* Proof that both sides of RpcPeers implement RpcChannel, for any calls:  *)
(* what is proved of a channel whose other side answers each request once  *)
(* holds of either end of a websocket.                                     *)
(*                                                                         *)
(* That the other side answers once is what takes an invariant: a message  *)
(* on the wire is in step with what is known of its call (Carried), and    *)
(* alone there (Single); the method that is being handled is one that has  *)
(* been asked for and not answered (Busy).  With that invariant each       *)
(* action is, to the channel of a side, the action of the same name, or    *)
(* one of its environment (PeerAnswers, SocketShuts), or nothing.  The     *)
(* theorems of RpcChannelProofs are then instantiated for either end.      *)
(***************************************************************************)
EXTENDS RpcPeers, SequenceTheorems, TLAPS

(* ClientChannel and ServerChannel, in one.                                *)
Channel(s) == INSTANCE RpcChannel WITH
  Calls <- Own[s], Detached <- Detached \cap Own[s],
  Timed <- Timed \cap Own[s], Cancellable <- {}, Suspending <- Own[s],
  Results <- Payloads, task <- Of(s, task), requests <- requests \cap Own[s],
  responses <- Of(s, responses), event <- event \cap Own[s],
  closed <- (s \in closed), socket <- IF link = "up" THEN "open" ELSE "shut",
  peer <- Of(s, peer), answer <- Of(s, answer), result <- Of(s, result)

(* TypeOK but for the history.                                             *)
Typed ==
  /\ task \in [Calls -> {"idle"} \cup Running \cup Ended]
  /\ requests \subseteq Calls /\ event \subseteq Calls
  /\ responses \in [Calls -> Payloads \cup {NoResponse}]
  /\ peer \in [Calls -> {"unasked", "asked", "answered", "delivered"}]
  /\ answer \in [Calls -> Payloads \cup {Anonymous, NoResponse}]
  /\ result \in [Calls -> Payloads \cup {NoResponse}]
  /\ closed \subseteq Sides
  /\ link \in {"up", "down"}
  /\ wire \in [Sides -> Seq(Messages)]
  /\ reader \in [Sides -> {"reading", "awaiting", "replying", "ended", "failed"}]
  /\ handling \in [Sides -> Calls \cup {NoCall}]

(* What a message on its way to side s says of its call is so.             *)
Fits(s, m) ==
  \/ /\ m.type = "request" /\ m.id = m.of
     /\ m.of \in Own[Other(s)] /\ peer[m.of] = "asked" /\ handling[s] # m.of
  \/ /\ m.type = "response" /\ m.id = IF m.body = Anonymous THEN NoCall ELSE m.of
     /\ m.of \in Own[s] /\ peer[m.of] = "answered" /\ m.body = answer[m.of]

Carried == \A s \in Sides : \A i \in 1..Len(wire[s]) : Fits(s, wire[s][i])

Single ==
  \A s \in Sides : \A i, j \in 1..Len(wire[s]) : wire[s][i].of = wire[s][j].of => i = j

Busy ==
  \A s \in Sides :
    IF reader[s] = "awaiting"
      THEN handling[s] \in Own[Other(s)] /\ peer[handling[s]] = "asked"
      ELSE handling[s] = NoCall

Unasked == \A c \in Calls : task[c] = "idle" => peer[c] = "unasked"

IInv == Typed /\ Carried /\ Single /\ Busy /\ Unasked

LEMMA SidesFacts ==
  /\ \A s \in Sides : Other(s) \in Sides /\ Other(s) # s /\ Other(Other(s)) = s
  /\ \A s, t \in Sides : s = t \/ s = Other(t)
  /\ \A s \in Sides : Own[s] \cap Own[Other(s)] = {} /\ Own[s] \subseteq Calls
  /\ \A c \in Calls : caller[c] \in Sides /\ c \in Own[caller[c]]
  /\ \A s \in Sides : \A c \in Own[s] : caller[c] = s
BY PeersAssumption DEF Sides, Other, Own

LEMMA Initially == Init => IInv
<1> SUFFICES ASSUME Init PROVE IInv
  OBVIOUS
<1>1. Typed
  BY DEF Init, Typed, Sides
<1>2. Carried /\ Single /\ Busy /\ Unasked
  BY DEF Init, Carried, Single, Busy, Unasked
<1>3. QED BY <1>1, <1>2 DEF IInv

-----------------------------------------------------------------------------
(* Messages.                                                               *)

LEMMA MessagesTyped ==
  ASSUME NEW c \in Calls
  PROVE  /\ RequestOf(c) \in Messages
         /\ RequestOf(c).type = "request" /\ RequestOf(c).of = c /\ RequestOf(c).id = c
         /\ \A body \in Payloads \cup {Anonymous} :
              /\ ResponseTo(c, body) \in Messages
              /\ ResponseTo(c, body).type = "response" /\ ResponseTo(c, body).of = c
              /\ ResponseTo(c, body).id = (IF body = Anonymous THEN NoCall ELSE c)
              /\ ResponseTo(c, body).body = body
         /\ \A is \in {"ok", "error"} : Body(c, is) \in Payloads
BY DEF RequestOf, ResponseTo, Messages, Body, Payloads

(* What an append and a removal of the head do to a wire.                  *)
LEMMA Appended ==
  ASSUME NEW q \in Seq(Messages), NEW m \in Messages
  PROVE  /\ Append(q, m) \in Seq(Messages) /\ Len(Append(q, m)) = Len(q) + 1
         /\ \A i \in 1..Len(q) : Append(q, m)[i] = q[i]
         /\ Append(q, m)[Len(q) + 1] = m
BY AppendProperties

LEMMA Removed ==
  ASSUME NEW q \in Seq(Messages), q # <<>>
  PROVE  /\ Head(q) \in Messages /\ Head(q) = q[1] /\ Len(q) \in Nat \ {0}
         /\ Tail(q) \in Seq(Messages) /\ Len(Tail(q)) = Len(q) - 1
         /\ \A i \in 1..Len(Tail(q)) : Tail(q)[i] = q[i + 1]
BY HeadTailProperties

-----------------------------------------------------------------------------
(* The inductive step: what happens on the wires.                          *)

LEMMA PushStep ==
  ASSUME IInv, NEW c \in Calls, peer[c] = "unasked",
         peer' = [peer EXCEPT ![c] = "asked"],
         wire' = [wire EXCEPT ![Other(caller[c])] = Append(@, RequestOf(c))],
         UNCHANGED <<answer, reader, handling>>
  PROVE  wire' \in [Sides -> Seq(Messages)] /\ Carried' /\ Single' /\ Busy'
<1> DEFINE t == Other(caller[c])
<1>1. t \in Sides /\ c \in Own[Other(t)] /\ c \notin Own[t] /\ c # NoCall
  BY SidesFacts, PeersAssumption
<1>2. \A s \in Sides : wire[s] \in Seq(Messages) /\ Len(wire[s]) \in Nat
  BY DEF IInv, Typed
<1>3. \A s \in Sides : \A i \in 1..Len(wire[s]) : wire[s][i].of # c
  BY DEF IInv, Carried, Fits
<1>4. /\ wire' \in [Sides -> Seq(Messages)]
      /\ \A s \in Sides \ {t} : wire'[s] = wire[s]
      /\ Len(wire'[t]) = Len(wire[t]) + 1
      /\ \A i \in 1..Len(wire[t]) : wire'[t][i] = wire[t][i]
      /\ wire'[t][Len(wire[t]) + 1] = RequestOf(c)
  BY <1>1, <1>2, Appended, MessagesTyped DEF IInv, Typed
<1>5. /\ peer'[c] = "asked" /\ \A d \in Calls : d # c => peer'[d] = peer[d]
      /\ \A s \in Sides : handling[s] # c
  BY <1>1 DEF IInv, Typed, Busy
<1>6. ASSUME NEW s \in Sides, NEW i \in 1..Len(wire'[s]) PROVE Fits(s, wire[s][i])'
  <2>1. CASE i \in 1..Len(wire[s])
    <3>1. wire'[s][i] = wire[s][i] /\ wire[s][i].of # c
      BY <1>3, <1>4, <2>1
    <3>2. Fits(s, wire[s][i])
      BY <2>1 DEF IInv, Carried
    <3>3. wire[s][i].of \in Calls
      BY <3>2, SidesFacts DEF Fits
    <3>4. QED BY <1>5, <3>1, <3>2, <3>3 DEF Fits
  <2>2. CASE i \notin 1..Len(wire[s])
    <3>1. s = t /\ wire'[s][i] = RequestOf(c)
      BY <1>2, <1>4, <2>2
    <3>2. wire'[s][i].type = "request" /\ wire'[s][i].id = c /\ wire'[s][i].of = c
      BY <3>1, MessagesTyped
    <3>3. QED BY <1>1, <1>5, <3>1, <3>2 DEF Fits
  <2>3. QED BY <2>1, <2>2
<1>7. Single'
  <2> SUFFICES ASSUME NEW s \in Sides, NEW i \in 1..Len(wire'[s]), NEW j \in 1..Len(wire'[s]),
                      wire'[s][i].of = wire'[s][j].of
               PROVE  i = j
    BY DEF Single
  <2>1. CASE s # t
    BY <1>4, <2>1 DEF IInv, Single
  <2>2. CASE s = t
    <3>1. i \in 1..Len(wire[t]) \/ i = Len(wire[t]) + 1
      BY <1>2, <1>4, <2>2
    <3>2. j \in 1..Len(wire[t]) \/ j = Len(wire[t]) + 1
      BY <1>2, <1>4, <2>2
    <3>3. RequestOf(c).of = c
      BY MessagesTyped
    <3>4. QED BY <1>1, <1>3, <1>4, <2>2, <3>1, <3>2, <3>3 DEF IInv, Single
  <2>3. QED BY <2>1, <2>2
<1>8. Busy'
  BY <1>5, SidesFacts DEF IInv, Busy
<1>9. QED BY <1>4, <1>6, <1>7, <1>8 DEF Carried

(* What is left of the wire to side t once it has read about c.            *)
Rest(t, c, rest) ==
  \/ wire[t] # <<>> /\ Head(wire[t]).of = c /\ rest = Tail(wire[t])
  \/ handling[t] = c /\ rest = wire[t]

LEMMA RestFacts ==
  ASSUME IInv, NEW t \in Sides, NEW c \in Own[Other(t)], NEW rest, Rest(t, c, rest)
  PROVE  \E k \in {0, 1} :
           /\ rest \in Seq(Messages) /\ Len(rest) + k = Len(wire[t]) /\ Len(rest) \in Nat
           /\ \A i \in 1..Len(rest) :
                i + k \in 1..Len(wire[t]) /\ rest[i] = wire[t][i + k] /\ rest[i].of # c
<1>1. wire[t] \in Seq(Messages)
  BY DEF IInv, Typed
<1>2. CASE wire[t] # <<>> /\ Head(wire[t]).of = c /\ rest = Tail(wire[t])
  <2>1. /\ wire[t][1].of = c /\ Len(wire[t]) \in Nat \ {0}
        /\ rest \in Seq(Messages) /\ Len(rest) = Len(wire[t]) - 1
        /\ \A i \in 1..Len(rest) : rest[i] = wire[t][i + 1]
    BY <1>1, <1>2, Removed
  <2>2. \A i \in 1..Len(rest) : i + 1 \in 1..Len(wire[t]) /\ 1 \in 1..Len(wire[t]) /\ i + 1 # 1
    BY <2>1
  <2>3. \A i \in 1..Len(rest) : wire[t][i + 1].of # c
    BY <2>1, <2>2 DEF IInv, Single
  <2>4. QED BY <2>1, <2>2, <2>3
<1>3. CASE handling[t] = c /\ rest = wire[t]
  <2>1. \A i \in 1..Len(wire[t]) : wire[t][i].of # c
    BY <1>3, SidesFacts DEF IInv, Carried, Fits
  <2>2. QED BY <1>1, <1>3, <2>1
<1>4. QED BY <1>2, <1>3 DEF Rest

(* Messages about other calls stay in step.                                *)
LEMMA StillFits ==
  ASSUME IInv, NEW s \in Sides, NEW i, i \in 1..Len(wire'[s]),
         NEW j \in 1..Len(wire[s]), wire'[s][i] = wire[s][j], NEW c \in Calls, wire[s][j].of # c,
         \A d \in Calls : d # c => peer'[d] = peer[d] /\ answer'[d] = answer[d],
         handling'[s] \in {handling[s], NoCall, c}
  PROVE  Fits(s, wire[s][i])'
<1> DEFINE m == wire[s][j]
<1>1. Fits(s, m)
  BY DEF IInv, Carried
<1> HIDE DEF m
<1>2. m.of \in Calls /\ m.of # NoCall
  BY <1>1, SidesFacts, PeersAssumption DEF Fits
<1>3. m.of # c /\ wire'[s][i] = m
  BY DEF m
<1>4. \/ /\ m.type = "request" /\ m.id = m.of
         /\ m.of \in Own[Other(s)] /\ peer'[m.of] = "asked" /\ handling'[s] # m.of
      \/ /\ m.type = "response" /\ m.id = IF m.body = Anonymous THEN NoCall ELSE m.of
         /\ m.of \in Own[s] /\ peer'[m.of] = "answered" /\ m.body = answer'[m.of]
  BY <1>1, <1>2, <1>3 DEF Fits
<1>5. QED BY <1>3, <1>4 DEF Fits

LEMMA ReplyStep ==
  ASSUME IInv, NEW t \in Sides, NEW c \in Own[Other(t)], peer[c] = "asked",
         NEW body \in Payloads \cup {Anonymous}, NEW rest, Rest(t, c, rest),
         Reply(t, c, body, rest)
  PROVE  /\ wire' \in [Sides -> Seq(Messages)]
         /\ peer' \in [Calls -> {"unasked", "asked", "answered", "delivered"}]
         /\ answer' \in [Calls -> Payloads \cup {Anonymous, NoResponse}]
         /\ reader' \in [Sides -> {"reading", "awaiting", "replying", "ended", "failed"}]
         /\ handling' \in [Sides -> Calls \cup {NoCall}]
         /\ Carried' /\ Single' /\ Busy'
<1> DEFINE x == Other(t)
<1>1. x \in Sides /\ x # t /\ c \in Calls /\ c \in Own[x] /\ c \notin Own[t] /\ c # NoCall
      /\ \A s \in Sides : s = t \/ s = x
  BY SidesFacts, PeersAssumption
<1>2. PICK k \in {0, 1} :
        /\ rest \in Seq(Messages) /\ Len(rest) + k = Len(wire[t]) /\ Len(rest) \in Nat
        /\ \A i \in 1..Len(rest) :
             i + k \in 1..Len(wire[t]) /\ rest[i] = wire[t][i + k] /\ rest[i].of # c
  BY RestFacts
<1>3. wire[x] \in Seq(Messages) /\ Len(wire[x]) \in Nat
  BY <1>1 DEF IInv, Typed
<1>4. \A i \in 1..Len(wire[x]) : wire[x][i].of # c
  <2> SUFFICES ASSUME NEW i \in 1..Len(wire[x]), wire[x][i].of = c PROVE FALSE
    OBVIOUS
  <2>1. Fits(x, wire[x][i])
    BY <1>1 DEF IInv, Carried
  <2>2. QED BY <1>1, <2>1, SidesFacts DEF Fits
<1>5. /\ handling' = [handling EXCEPT ![t] = NoCall]
      /\ handling'[t] = NoCall /\ handling'[x] = handling[x]
  BY <1>1 DEF Reply, IInv, Typed
<1>6. /\ peer' \in [Calls -> {"unasked", "asked", "answered", "delivered"}]
      /\ answer' \in [Calls -> Payloads \cup {Anonymous, NoResponse}]
      /\ \A d \in Calls : d # c => peer'[d] = peer[d] /\ answer'[d] = answer[d]
  <2>1. \/ peer' = [peer EXCEPT ![c] = "answered"] /\ answer' = [answer EXCEPT ![c] = body]
        \/ UNCHANGED <<peer, answer>>
    BY DEF Reply
  <2>2. /\ peer \in [Calls -> {"unasked", "asked", "answered", "delivered"}]
        /\ answer \in [Calls -> Payloads \cup {Anonymous, NoResponse}]
    BY DEF IInv, Typed
  <2>3. CASE UNCHANGED <<peer, answer>>
    BY <2>2, <2>3
  <2>4. CASE peer' = [peer EXCEPT ![c] = "answered"] /\ answer' = [answer EXCEPT ![c] = body]
    BY <1>1, <2>2, <2>4
  <2>5. QED BY <2>1, <2>3, <2>4
<1>7. PICK r \in {"reading", "replying"} : reader' = [reader EXCEPT ![t] = r]
  BY DEF Reply
<1>8. Busy'
  <2>1. reader'[t] # "awaiting" /\ reader'[x] = reader[x]
    BY <1>1, <1>7 DEF IInv, Typed
  <2>2. handling[x] \in Own[t] => handling[x] # c /\ handling[x] \in Calls
    BY <1>1, SidesFacts
  <2>3. QED BY <1>1, <1>5, <1>6, <2>1, <2>2, SidesFacts DEF IInv, Busy
<1> DEFINE sent == /\ Len(wire'[x]) = Len(wire[x]) + 1
                   /\ \A i \in 1..Len(wire[x]) : wire'[x][i] = wire[x][i]
                   /\ wire'[x][Len(wire[x]) + 1] = ResponseTo(c, body)
                   /\ peer'[c] = "answered" /\ answer'[c] = body
<1>9. /\ wire' \in [Sides -> Seq(Messages)] /\ wire'[t] = rest
      /\ sent \/ wire'[x] = wire[x]
  <2>1. CASE link = "up"
    <3>1. wire' = [wire EXCEPT ![t] = rest, ![x] = Append(wire[x], ResponseTo(c, body))]
      BY <1>1, <2>1 DEF Reply, IInv, Typed
    <3>2. peer'[c] = "answered" /\ answer'[c] = body
      BY <1>1, <2>1 DEF Reply, IInv, Typed
    <3>3. ResponseTo(c, body) \in Messages
      BY <1>1, MessagesTyped
    <3>4. wire'[x] = Append(wire[x], ResponseTo(c, body)) /\ wire'[t] = rest
      BY <1>1, <3>1 DEF IInv, Typed
    <3>5. wire' \in [Sides -> Seq(Messages)]
      BY <1>1, <1>2, <1>3, <3>1, <3>3, Appended DEF IInv, Typed
    <3>6. QED BY <1>3, <3>2, <3>3, <3>4, <3>5, Appended
  <2>2. CASE link # "up"
    <3>1. wire' = [wire EXCEPT ![t] = rest]
      BY <2>2 DEF Reply
    <3>2. QED BY <1>1, <1>2, <3>1 DEF IInv, Typed
  <2>3. QED BY <2>1, <2>2
<1>10. ASSUME NEW i \in 1..Len(rest) PROVE Fits(t, wire[t][i])'
  <2>1. /\ i + k \in 1..Len(wire[t]) /\ wire'[t][i] = wire[t][i + k] /\ wire[t][i + k].of # c
    BY <1>2, <1>9
  <2>2. i \in 1..Len(wire'[t]) /\ handling'[t] \in {handling[t], NoCall}
    BY <1>5, <1>9
  <2>3. \A d \in Calls : d # c => peer'[d] = peer[d] /\ answer'[d] = answer[d]
    BY <1>6
  <2>4. QED BY <1>1, <2>1, <2>2, <2>3, StillFits
<1>11. ASSUME NEW i \in 1..Len(wire[x]) PROVE wire'[x][i] = wire[x][i] /\ Fits(x, wire[x][i])'
  <2>1. wire'[x][i] = wire[x][i]
    BY <1>9
  <2>2. wire[x][i].of # c /\ handling'[x] \in {handling[x], NoCall}
    BY <1>4, <1>5
  <2>3. i \in 1..Len(wire'[x])
    BY <1>3, <1>9
  <2>4. \A d \in Calls : d # c => peer'[d] = peer[d] /\ answer'[d] = answer[d]
    BY <1>6
  <2>5. x \in Sides /\ c \in Calls
    BY <1>1
  <2> HIDE DEF x
  <2>6. Fits(x, wire[x][i])'
    BY <2>1, <2>2, <2>3, <2>4, <2>5, StillFits
  <2>7. QED BY <2>1, <2>6
<1>12. ASSUME sent PROVE Fits(x, wire[x][Len(wire[x])])'
  <2>1. /\ ResponseTo(c, body).type = "response" /\ ResponseTo(c, body).of = c
        /\ ResponseTo(c, body).id = (IF body = Anonymous THEN NoCall ELSE c)
        /\ ResponseTo(c, body).body = body
    BY <1>1, MessagesTyped
  <2>2. wire'[x][Len(wire'[x])] = ResponseTo(c, body)
    BY <1>12
  <2>3. QED BY <1>1, <1>12, <2>1, <2>2 DEF Fits
<1>13. \A i \in 1..Len(wire'[x]) :
         i \in 1..Len(wire[x]) \/ (sent /\ i = Len(wire'[x]) /\ wire'[x][i].of = c)
  <2>1. ResponseTo(c, body).of = c
    BY <1>1, MessagesTyped
  <2>2. QED BY <1>3, <1>9, <2>1
<1>14. Carried'
  <2> SUFFICES ASSUME NEW s \in Sides, NEW i \in 1..Len(wire'[s]) PROVE Fits(s, wire[s][i])'
    BY DEF Carried
  <2>1. CASE s = t
    BY <1>9, <1>10, <2>1
  <2>2. CASE s = x
    BY <1>11, <1>12, <1>13, <2>2
  <2>3. QED BY <1>1, <2>1, <2>2
<1>15. Single'
  <2> SUFFICES ASSUME NEW s \in Sides, NEW i \in 1..Len(wire'[s]), NEW j \in 1..Len(wire'[s]),
                      wire'[s][i].of = wire'[s][j].of
               PROVE  i = j
    BY DEF Single
  <2>1. CASE s = t
    <3>1. /\ i + k \in 1..Len(wire[t]) /\ rest[i] = wire[t][i + k]
          /\ j + k \in 1..Len(wire[t]) /\ rest[j] = wire[t][j + k]
      BY <1>2, <1>9, <2>1
    <3>2. i + k = j + k
      BY <1>9, <2>1, <3>1 DEF IInv, Single
    <3>3. QED BY <3>2
  <2>2. CASE s = x
    <3> HIDE DEF sent
    <3>1. CASE i \in 1..Len(wire[x]) /\ j \in 1..Len(wire[x])
      BY <1>1, <1>11, <2>2, <3>1 DEF IInv, Single
    <3>2. CASE i \in 1..Len(wire[x]) /\ j \notin 1..Len(wire[x])
      BY <1>4, <1>11, <1>13, <2>2, <3>2
    <3>3. CASE i \notin 1..Len(wire[x])
      BY <1>4, <1>11, <1>13, <2>2, <3>3
    <3>4. QED BY <3>1, <3>2, <3>3
  <2>3. QED BY <1>1, <2>1, <2>2
<1>16. QED BY <1>1, <1>5, <1>6, <1>7, <1>8, <1>9, <1>14, <1>15 DEF IInv, Typed

-----------------------------------------------------------------------------
(* The inductive step: the other steps of a reader, and the calls.         *)

(* The head of a wire, about c, is read.                                   *)
LEMMA HeadStep ==
  ASSUME IInv, NEW s \in Sides, wire[s] # <<>>,
         wire' = [wire EXCEPT ![s] = Tail(wire[s])],
         NEW c \in Calls, c = Head(wire[s]).of,
         \A d \in Calls : d # c => peer'[d] = peer[d] /\ answer'[d] = answer[d],
         \A t \in Sides : handling'[t] \in {handling[t], NoCall, c}
  PROVE  Carried' /\ Single'
<1> DEFINE m == Head(wire[s])
<1>1. /\ wire[s] \in Seq(Messages)
      /\ wire'[s] = Tail(wire[s]) /\ \A t \in Sides : t # s => wire'[t] = wire[t]
  BY DEF IInv, Typed
<1>2. /\ m = wire[s][1] /\ 1 \in 1..Len(wire[s]) /\ Len(wire[s]) \in Nat
      /\ Len(Tail(wire[s])) = Len(wire[s]) - 1
      /\ \A i \in 1..Len(Tail(wire[s])) : Tail(wire[s])[i] = wire[s][i + 1]
  BY <1>1, Removed
<1> HIDE DEF m
<1>3. Fits(s, m) /\ m.of = c
  BY <1>2 DEF IInv, Carried, m
<1>4. ASSUME NEW t \in Sides, NEW i \in 1..Len(wire'[t])
      PROVE  \E k \in {0, 1} : /\ i + k \in 1..Len(wire[t]) /\ wire'[t][i] = wire[t][i + k]
                              /\ wire[t][i + k].of # c /\ (k = 1 <=> t = s)
  <2>1. CASE t = s
    <3>1. i \in 1..Len(Tail(wire[s])) /\ wire'[t][i] = Tail(wire[s])[i]
      BY <1>1, <2>1
    <3>2. /\ i + 1 \in 1..Len(wire[s]) /\ i + 1 # 1
          /\ wire'[t][i] = wire[s][i + 1]
      BY <1>2, <3>1
    <3>3. wire[s][i + 1].of # c
      BY <1>2, <1>3, <3>2 DEF IInv, Single
    <3>4. QED BY <2>1, <3>2, <3>3
  <2>2. CASE t # s
    <3>1. i + 0 = i /\ i \in 1..Len(wire[t]) /\ wire'[t][i] = wire[t][i]
      BY <1>1, <2>2
    <3>2. Fits(t, wire[t][i])
      BY <3>1 DEF IInv, Carried
    <3>3. t = Other(s) /\ s = Other(t)
      BY <2>2, SidesFacts
    <3>4. wire[t][i].of # c
      BY <1>3, <3>2, <3>3, SidesFacts DEF Fits
    <3>5. QED BY <2>2, <3>1, <3>4
  <2>3. QED BY <2>1, <2>2
<1>5. Carried'
  <2> SUFFICES ASSUME NEW t \in Sides, NEW i \in 1..Len(wire'[t]) PROVE Fits(t, wire[t][i])'
    BY DEF Carried
  <2>1. PICK j \in 1..Len(wire[t]) : wire'[t][i] = wire[t][j] /\ wire[t][j].of # c
    BY <1>4
  <2>2. i \in 1..Len(wire'[t]) /\ handling'[t] \in {handling[t], NoCall, c}
    OBVIOUS
  <2>3. \A d \in Calls : d # c => peer'[d] = peer[d] /\ answer'[d] = answer[d]
    OBVIOUS
  <2>4. QED BY <2>1, <2>2, <2>3, StillFits
<1>6. Single'
  <2> SUFFICES ASSUME NEW t \in Sides, NEW i \in 1..Len(wire'[t]), NEW j \in 1..Len(wire'[t]),
                      wire'[t][i].of = wire'[t][j].of
               PROVE  i = j
    BY DEF Single
  <2>1. PICK k \in {0, 1} : /\ i + k \in 1..Len(wire[t]) /\ wire'[t][i] = wire[t][i + k]
                            /\ (k = 1 <=> t = s)
    BY <1>4
  <2>2. PICK l \in {0, 1} : /\ j + l \in 1..Len(wire[t]) /\ wire'[t][j] = wire[t][j + l]
                            /\ (l = 1 <=> t = s)
    BY <1>4
  <2>3. i + k = j + l
    BY <2>1, <2>2 DEF IInv, Single
  <2>4. QED BY <2>1, <2>2, <2>3
<1>7. QED BY <1>5, <1>6

LEMMA TakeStep ==
  ASSUME IInv, NEW s \in Sides, on_response(s)
  PROVE  IInv'
<1> DEFINE m == Head(wire[s])
<1> DEFINE c == m.of
<1>1. /\ wire[s] \in Seq(Messages) /\ wire[s] # <<>> /\ m.type = "response"
      /\ Takes(s, m, m.id, m.id \in requests)
  BY DEF on_response, Reads, IInv, Typed
<1>2. /\ m = wire[s][1] /\ 1 \in 1..Len(wire[s]) /\ Len(wire[s]) \in Nat
      /\ Tail(wire[s]) \in Seq(Messages) /\ Len(Tail(wire[s])) = Len(wire[s]) - 1
      /\ \A i \in 1..Len(Tail(wire[s])) : Tail(wire[s])[i] = wire[s][i + 1]
  BY <1>1, Removed
<1>3. Fits(s, m)
  BY <1>2 DEF IInv, Carried
<1>4. /\ c \in Own[s] /\ peer[c] = "answered" /\ m.body = answer[c]
      /\ m.id = IF m.body = Anonymous THEN NoCall ELSE c
  BY <1>1, <1>3 DEF Fits
<1>5. c \in Calls /\ c \notin Own[Other(s)] /\ c # NoCall
  BY <1>4, SidesFacts, PeersAssumption
<1> HIDE DEF m
<1>6. /\ peer' = [peer EXCEPT ![c] = "delivered"]
      /\ wire' = [wire EXCEPT ![s] = Tail(wire[s])]
      /\ UNCHANGED <<task, requests, answer, result, closed, link, reader, handling>>
  BY <1>1 DEF Takes, readers
<1>7. responses' \in [Calls -> Payloads \cup {NoResponse}] /\ event' \subseteq Calls
  <2>1. CASE m.id \in requests
    <3>1. m.body # Anonymous /\ m.id \in Calls
      BY <1>4, <2>1, PeersAssumption DEF IInv, Typed
    <3>2. m.body \in Payloads \cup {NoResponse}
      BY <1>4, <1>5, <3>1 DEF IInv, Typed
    <3>3. QED BY <1>1, <2>1, <3>1, <3>2 DEF Takes, IInv, Typed
  <2>2. CASE m.id \notin requests
    BY <1>1, <2>2 DEF Takes, IInv, Typed
  <2>3. QED BY <2>1, <2>2
<1>8. Typed'
  BY <1>2, <1>5, <1>6, <1>7 DEF IInv, Typed
<1>9. \A d \in Calls : d # c => peer'[d] = peer[d] /\ answer'[d] = answer[d]
  BY <1>5, <1>6 DEF IInv, Typed
<1>10. Carried' /\ Single'
  BY <1>1, <1>5, <1>6, <1>9, HeadStep DEF m
<1>11. Busy'
  <2>1. \A t \in Sides : handling[t] # c \/ reader[t] # "awaiting"
    BY <1>4, <1>5 DEF IInv, Busy
  <2>2. QED BY <1>6, <1>9, <2>1, SidesFacts DEF IInv, Busy
<1>12. Unasked'
  BY <1>4, <1>5, <1>6, <1>9 DEF IInv, Unasked
<1>13. QED BY <1>8, <1>10, <1>11, <1>12 DEF IInv

(* A request that is read: it has been asked for, and not answered.        *)
LEMMA RequestRead ==
  ASSUME IInv, NEW s \in Sides, wire[s] # <<>>, Head(wire[s]).type = "request"
  PROVE  LET c == Head(wire[s]).id IN
         /\ c \in Own[Other(s)] /\ c \in Calls /\ peer[c] = "asked" /\ c = Head(wire[s]).of
         /\ Rest(s, c, Tail(wire[s]))
<1>1. /\ wire[s] \in Seq(Messages) /\ Head(wire[s]) = wire[s][1] /\ 1 \in 1..Len(wire[s])
  BY Removed DEF IInv, Typed
<1>2. Fits(s, Head(wire[s]))
  BY <1>1 DEF IInv, Carried
<1>3. QED BY <1>2, SidesFacts DEF Fits, Rest

(* A call whose method takes a while.                                      *)
LEMMA MethodStarts ==
  ASSUME IInv, NEW s \in Sides, reader[s] = "reading",
         wire[s] # <<>>, Head(wire[s]).type = "request",
         wire' = [wire EXCEPT ![s] = Tail(wire[s])],
         reader' = [reader EXCEPT ![s] = "awaiting"],
         handling' = [handling EXCEPT ![s] = Head(wire[s]).id],
         UNCHANGED <<calls, closed, link>>
  PROVE  IInv'
<1> DEFINE c == Head(wire[s]).id
<1>1. c \in Own[Other(s)] /\ c \in Calls /\ peer[c] = "asked" /\ c = Head(wire[s]).of
  BY RequestRead
<1>2. wire[s] \in Seq(Messages) /\ Tail(wire[s]) \in Seq(Messages)
  BY Removed DEF IInv, Typed
<1> HIDE DEF c
<1>3. UNCHANGED <<task, requests, responses, event, peer, answer, result>>
  BY DEF calls, chan
<1>4. handling' = [handling EXCEPT ![s] = c]
  BY DEF c
<1>5. Typed'
  BY <1>1, <1>2, <1>3, <1>4 DEF IInv, Typed
<1>6. Carried' /\ Single'
  <2>1. \A t \in Sides : handling'[t] \in {handling[t], NoCall, c}
    BY <1>4 DEF IInv, Typed
  <2>2. QED BY <1>1, <1>3, <2>1, HeadStep
<1>7. Busy'
  BY <1>1, <1>3, <1>4 DEF IInv, Typed, Busy
<1>8. Unasked'
  BY <1>3 DEF IInv, Unasked
<1>9. QED BY <1>5, <1>6, <1>7, <1>8 DEF IInv

(* An answer goes out, and with it at most a response is taken.            *)
LEMMA AnswerStep ==
  ASSUME IInv, NEW s \in Sides, NEW c \in Own[Other(s)], peer[c] = "asked",
         NEW body \in Payloads \cup {Anonymous}, NEW rest, Rest(s, c, rest),
         Reply(s, c, body, rest), UNCHANGED <<event, closed, link>>,
         UNCHANGED <<task, requests, responses, result>> \/ \E d \in Calls : TakeResponse(d)
  PROVE  IInv'
<1>1. /\ wire' \in [Sides -> Seq(Messages)]
      /\ peer' \in [Calls -> {"unasked", "asked", "answered", "delivered"}]
      /\ answer' \in [Calls -> Payloads \cup {Anonymous, NoResponse}]
      /\ reader' \in [Sides -> {"reading", "awaiting", "replying", "ended", "failed"}]
      /\ handling' \in [Sides -> Calls \cup {NoCall}]
      /\ Carried' /\ Single' /\ Busy'
  BY ReplyStep
<1>2. /\ task' \in [Calls -> {"idle"} \cup Running \cup Ended] /\ requests' \subseteq Calls
      /\ responses' \in [Calls -> Payloads \cup {NoResponse}]
      /\ result' \in [Calls -> Payloads \cup {NoResponse}]
      /\ \A d \in Calls : task'[d] = "idle" => task[d] = "idle"
  <2>1. CASE UNCHANGED <<task, requests, responses, result>>
    BY <2>1 DEF IInv, Typed
  <2>2. CASE \E d \in Calls : TakeResponse(d)
    BY <2>2 DEF TakeResponse, clear_saved_call, IInv, Typed, Ended
  <2>3. QED BY <2>1, <2>2
<1>3. Typed'
  BY <1>1, <1>2 DEF IInv, Typed
<1>4. Unasked'
  <2>1. peer' = peer \/ peer' = [peer EXCEPT ![c] = "answered"]
    BY DEF Reply
  <2>2. QED BY <1>2, <2>1 DEF IInv, Typed, Unasked
<1>5. QED BY <1>1, <1>3, <1>4 DEF IInv

(* What touches neither the wires nor the methods leaves them in step.     *)
LEMMA QuietStep ==
  ASSUME IInv, UNCHANGED <<peer, answer, wire, handling>>
  PROVE  Carried' /\ Single'
BY DEF IInv, Carried, Single, Fits

LEMMA CallStep ==
  ASSUME IInv, NEW c \in Calls,
         \/ async_call(c) \/ async_call_resume(c) \/ async_call_send_fails(c)
         \/ wait_for_response(c) \/ wait_for_response_raises(c)
  PROVE  IInv'
<1>1. CASE async_call(c)
  <2>1. peer[c] = "unasked"
    BY <1>1 DEF async_call, IInv, Unasked
  <2>2. wire' \in [Sides -> Seq(Messages)] /\ Carried' /\ Single' /\ Busy'
    BY <1>1, <2>1, PushStep DEF async_call, readers
  <2>3. PICK now \in Running : task' = [task EXCEPT ![c] = now]
    BY <1>1 DEF async_call, SavePromise, Running
  <2>4. requests' \subseteq Calls
    BY <1>1 DEF async_call, SavePromise, IInv, Typed
  <2>5. /\ peer' = [peer EXCEPT ![c] = "asked"]
        /\ UNCHANGED <<responses, event, answer, result, closed, link, reader, handling>>
    BY <1>1 DEF async_call, readers
  <2>6. Typed'
    BY <2>2, <2>3, <2>4, <2>5 DEF IInv, Typed
  <2>7. Unasked'
    BY <2>3, <2>5 DEF IInv, Typed, Unasked, Running
  <2>8. QED BY <2>2, <2>6, <2>7 DEF IInv
<1>2. CASE ~async_call(c)
  <2>1. UNCHANGED <<event, peer, answer, closed, link, wire, reader, handling>>
    BY <1>2 DEF async_call_resume, async_call_send_fails, wait_for_response,
                wait_for_response_raises, chan, readers
  <2>2. PICK now \in (Running \cup Ended) \ {"sending"} : task' = [task EXCEPT ![c] = now]
    BY <1>2 DEF async_call_resume, async_call_send_fails, wait_for_response, TakeResponse,
                wait_for_response_raises, SavePromise, Running, Ended
  <2>3. /\ requests' \subseteq Calls
        /\ responses' \in [Calls -> Payloads \cup {NoResponse}]
        /\ result' \in [Calls -> Payloads \cup {NoResponse}]
    BY <1>2 DEF async_call_resume, async_call_send_fails, wait_for_response, TakeResponse,
                wait_for_response_raises, SavePromise, clear_saved_call, chan, IInv, Typed
  <2>4. Typed'
    BY <2>1, <2>2, <2>3 DEF IInv, Typed
  <2>5. Carried' /\ Single'
    BY <2>1, QuietStep
  <2>6. Busy' /\ Unasked'
    BY <2>1, <2>2 DEF IInv, Typed, Busy, Unasked, Running, Ended
  <2>7. QED BY <2>4, <2>5, <2>6 DEF IInv
<1>3. QED BY <1>1, <1>2

(* The four ways a method that is run at once answers, and with what.      *)
LEMMA RequestAnswered ==
  ASSUME IInv, NEW s \in Sides, on_request(s), kind[Head(wire[s]).id] \notin {"recursive", "background"}
  PROVE  LET c == Head(wire[s]).id IN
         \E body \in Payloads \cup {Anonymous} :
           /\ Reply(s, c, body, Tail(wire[s])) /\ UNCHANGED event
           /\ \/ UNCHANGED <<task, requests, responses, result>>
              \/ /\ kind[c] = "fetch" /\ responses[child[c]] # NoResponse
                 /\ TakeResponse(child[c])
<1> DEFINE c == Head(wire[s]).id
<1>1. c \in Calls
  BY RequestRead DEF on_request
<1>2. Body(c, "ok") \in Payloads /\ Body(c, "error") \in Payloads
  BY <1>1, MessagesTyped
<1>3. QED BY <1>2 DEF on_request, chan

LEMMA ReaderStep ==
  ASSUME IInv, NEW s \in Sides,
         \/ on_request(s) \/ on_response(s) \/ MethodReturns(s) \/ ReplySent(s)
         \/ ReaderSeesEnd(s)
  PROVE  IInv'
<1>1. CASE on_request(s)
  <2> DEFINE c == Head(wire[s]).id
  <2>1. /\ c \in Own[Other(s)] /\ c \in Calls /\ peer[c] = "asked"
        /\ Rest(s, c, Tail(wire[s]))
        /\ UNCHANGED <<closed, link>>
    BY <1>1, RequestRead DEF on_request
  <2>2. CASE kind[c] \in {"recursive", "background"}
    BY <1>1, <2>2, MethodStarts DEF on_request
  <2>3. CASE kind[c] \notin {"recursive", "background"}
    <3>1. PICK body \in Payloads \cup {Anonymous} :
            /\ Reply(s, c, body, Tail(wire[s])) /\ UNCHANGED event
            /\ \/ UNCHANGED <<task, requests, responses, result>>
               \/ kind[c] = "fetch" /\ TakeResponse(child[c])
      BY <1>1, <2>3, RequestAnswered
    <3>2. kind[c] = "fetch" => child[c] \in Calls
      BY <2>1, PeersAssumption
    <3>3. QED BY <2>1, <3>1, <3>2, AnswerStep
  <2>4. QED BY <2>2, <2>3
<1>2. CASE on_response(s)
  BY <1>2, TakeStep
<1>3. CASE MethodReturns(s)
  <2> DEFINE c == handling[s]
  <2>1. c \in Own[Other(s)] /\ c \in Calls /\ peer[c] = "asked" /\ Rest(s, c, wire[s])
    BY <1>3, SidesFacts DEF MethodReturns, IInv, Busy, Rest
  <2>2. PICK is \in {"ok", "error"} : Reply(s, c, Body(c, is), wire[s])
    BY <1>3 DEF MethodReturns
  <2>3. Body(c, is) \in Payloads
    BY <2>1, MessagesTyped
  <2>4. UNCHANGED <<task, requests, responses, event, result, closed, link>>
    BY <1>3 DEF MethodReturns, chan
  <2>5. QED BY <2>1, <2>2, <2>3, <2>4, AnswerStep
<1>4. CASE ReplySent(s) \/ ReaderSeesEnd(s)
  <2>1. /\ UNCHANGED <<task, requests, responses, event, peer, answer, result, link, wire, handling>>
        /\ closed' \subseteq Sides /\ reader[s] # "awaiting"
    BY <1>4 DEF ReplySent, ReaderSeesEnd, calls, chan, IInv, Typed
  <2>2. PICK now \in {"reading", "ended", "failed"} : reader' = [reader EXCEPT ![s] = now]
    BY <1>4 DEF ReplySent, ReaderSeesEnd
  <2>3. Typed'
    BY <2>1, <2>2 DEF IInv, Typed
  <2>4. Carried' /\ Single'
    BY <2>1, QuietStep
  <2>5. Busy' /\ Unasked'
    BY <2>1, <2>2 DEF IInv, Typed, Busy, Unasked
  <2>6. QED BY <2>3, <2>4, <2>5 DEF IInv
<1>5. QED BY <1>1, <1>2, <1>3, <1>4

LEMMA InductiveStep == IInv /\ [Next]_vars => IInv'
<1> SUFFICES ASSUME IInv, [Next]_vars PROVE IInv'
  OBVIOUS
<1>1. ASSUME NEW c \in Calls,
             \/ async_call(c) \/ async_call_resume(c) \/ async_call_send_fails(c)
             \/ wait_for_response(c) \/ wait_for_response_raises(c)
      PROVE  IInv'
  BY <1>1, CallStep
<1>2. ASSUME NEW s \in Sides,
             \/ on_request(s) \/ on_response(s) \/ MethodReturns(s) \/ ReplySent(s)
             \/ ReaderSeesEnd(s)
      PROVE  IInv'
  BY <1>2, ReaderStep
<1>5. CASE ReaderFails
  <2>1. /\ UNCHANGED <<task, requests, responses, event, peer, answer, result, closed, link, wire, handling>>
        /\ reader["client"] = "reading" /\ reader' = [reader EXCEPT !["client"] = "failed"]
    BY <1>5 DEF ReaderFails, calls, chan
  <2>2. Carried' /\ Single'
    BY <2>1, QuietStep
  <2>3. Typed' /\ Busy' /\ Unasked'
    BY <2>1 DEF IInv, Typed, Busy, Unasked
  <2>4. QED BY <2>2, <2>3 DEF IInv
<1>3. CASE LinkDrops \/ UserCloses \/ UNCHANGED vars
  <2>1. /\ UNCHANGED <<task, requests, responses, event, peer, answer, result, wire, reader, handling>>
        /\ closed' \subseteq Sides /\ link' \in {"up", "down"}
    BY <1>3 DEF LinkDrops, UserCloses, vars, calls, chan, readers, IInv, Typed, Sides
  <2>2. Carried' /\ Single'
    BY <2>1, QuietStep
  <2>3. Typed' /\ Busy' /\ Unasked'
    BY <2>1 DEF IInv, Typed, Busy, Unasked
  <2>4. QED BY <2>2, <2>3 DEF IInv
<1>4. QED BY <1>1, <1>2, <1>3, <1>5 DEF Next

LEMMA Invariance == SafeSpec => []IInv
<1>1. QED BY Initially, InductiveStep, PTL DEF SafeSpec

-----------------------------------------------------------------------------
(* The simulation: what a step is to the channel of side s.                *)

(* What RpcChannel assumes of its constants holds of either side's.        *)
LEMMA ChannelAssumed == \A s \in Sides : Channel(s)!ChannelAssumption
BY PeersAssumption DEF Channel!ChannelAssumption, Own

LEMMA ChannelInit == \A s \in Sides : Init => Channel(s)!Init
BY DEF Init, Channel!Init, Of, Own

LEMMA SeesCall ==
  ASSUME IInv, NEW c \in Calls, NEW s \in Sides,
         \/ async_call(c) \/ async_call_resume(c) \/ async_call_send_fails(c)
         \/ wait_for_response(c) \/ wait_for_response_raises(c)
  PROVE  Channel(s)!Next \/ UNCHANGED Channel(s)!vars
<1>1. /\ \A d \in Own[s] : d \in Calls /\ Of(s, task)[d] = task[d]
      /\ \A v : c \in Own[s] => Of(s, [task EXCEPT ![c] = v]) = [Of(s, task) EXCEPT ![c] = v]
      /\ \A v : c \notin Own[s] => Of(s, [task EXCEPT ![c] = v]) = Of(s, task)
  BY DEF Of, Own, IInv, Typed
<1>2. /\ \A v : c \in Own[s] => Of(s, [peer EXCEPT ![c] = v]) = [Of(s, peer) EXCEPT ![c] = v]
      /\ \A v : c \notin Own[s] => Of(s, [peer EXCEPT ![c] = v]) = Of(s, peer)
  BY DEF Of, Own, IInv, Typed
<1>3. /\ \A d \in Own[s] : Of(s, responses)[d] = responses[d]
      /\ \A v : c \in Own[s] => Of(s, [responses EXCEPT ![c] = v]) = [Of(s, responses) EXCEPT ![c] = v]
      /\ \A v : c \notin Own[s] => Of(s, [responses EXCEPT ![c] = v]) = Of(s, responses)
  BY DEF Of, Own, IInv, Typed
<1>4. /\ \A v : c \in Own[s] => Of(s, [result EXCEPT ![c] = v]) = [Of(s, result) EXCEPT ![c] = v]
      /\ \A v : c \notin Own[s] => Of(s, [result EXCEPT ![c] = v]) = Of(s, result)
  BY DEF Of, Own, IInv, Typed
<1>5. CASE c \in Own[s]
  <2>1. async_call(c) => Channel(s)!async_call(c)
    BY <1>1, <1>2, <1>5 DEF async_call, SavePromise, Channel!async_call, Channel!SavePromise
  <2>2. async_call_resume(c) => Channel(s)!async_call_resume(c)
    BY <1>1, <1>5
    DEF async_call_resume, SavePromise, Channel!async_call_resume, Channel!SavePromise
  <2>3. async_call_send_fails(c) => Channel(s)!async_call_send_fails(c)
    BY <1>1, <1>5
    DEF async_call_send_fails, chan, Channel!async_call_send_fails, Channel!chan
  <2>4. wait_for_response(c) => Channel(s)!wait_for_response(c)
    BY <1>1, <1>3, <1>4, <1>5
    DEF wait_for_response, WaitIsOver, TakeResponse, clear_saved_call,
        Channel!wait_for_response, Channel!WaitIsOver, Channel!clear_saved_call, Own
  <2>5. wait_for_response_raises(c) => Channel(s)!wait_for_response_raises(c)
    BY <1>1, <1>3, <1>5
    DEF wait_for_response_raises, WaitIsOver, chan,
        Channel!wait_for_response_raises, Channel!WaitIsOver, Channel!chan, Own
  <2>6. QED BY <1>5, <2>1, <2>2, <2>3, <2>4, <2>5 DEF Channel!Next
<1>6. CASE c \notin Own[s]
  <2>1. async_call(c) => UNCHANGED Channel(s)!vars
    BY <1>1, <1>2, <1>6 DEF async_call, SavePromise, Channel!vars
  <2>2. async_call_resume(c) => UNCHANGED Channel(s)!vars
    BY <1>1, <1>6 DEF async_call_resume, SavePromise, Channel!vars
  <2>3. async_call_send_fails(c) => UNCHANGED Channel(s)!vars
    BY <1>1, <1>6 DEF async_call_send_fails, chan, Channel!vars
  <2>4. wait_for_response(c) => UNCHANGED Channel(s)!vars
    BY <1>1, <1>3, <1>4, <1>6
    DEF wait_for_response, TakeResponse, clear_saved_call, Channel!vars
  <2>5. wait_for_response_raises(c) => UNCHANGED Channel(s)!vars
    BY <1>1, <1>6 DEF wait_for_response_raises, chan, Channel!vars
  <2>6. QED BY <2>1, <2>2, <2>3, <2>4, <2>5
<1>7. QED BY <1>5, <1>6

(* An answer to c is given, and a response of the answering side taken.    *)
LEMMA SeesAnswer ==
  ASSUME IInv, NEW t \in Sides, NEW c \in Own[Other(t)], peer[c] = "asked",
         NEW body \in Payloads \cup {Anonymous}, NEW rest, Reply(t, c, body, rest),
         UNCHANGED <<event, closed, link>>, NEW s \in Sides,
         \/ UNCHANGED <<task, requests, responses, result>>
         \/ \E d \in Detached \cap Own[t] : responses[d] # NoResponse /\ TakeResponse(d)
  PROVE  Channel(s)!Next \/ UNCHANGED Channel(s)!vars
<1>1. c \in Calls /\ c \notin Own[t] /\ (s # t => s = Other(t) /\ c \in Own[s])
  BY SidesFacts
<1>2. CASE s = t
  <2>1. Of(s, peer)' = Of(s, peer) /\ Of(s, answer)' = Of(s, answer)
    BY <1>1, <1>2 DEF Of, Own, Reply, IInv, Typed
  <2>2. CASE UNCHANGED <<task, requests, responses, result>>
    BY <2>1, <2>2 DEF Channel!vars, Of
  <2>3. ASSUME NEW d \in Detached \cap Own[t], responses[d] # NoResponse, TakeResponse(d)
        PROVE  Channel(s)!get_response(d)
    <3>1. d \in Calls /\ d \in Own[s]
      BY <1>2, SidesFacts
    <3>2. Of(s, task)' = [Of(s, task) EXCEPT ![d] = "returned"]
      BY <2>3, <3>1 DEF Of, Own, TakeResponse, IInv, Typed
    <3>3. Of(s, responses)' = [Of(s, responses) EXCEPT ![d] = NoResponse]
      BY <2>3, <3>1 DEF Of, Own, TakeResponse, clear_saved_call, IInv, Typed
    <3>4. Of(s, result)' = [Of(s, result) EXCEPT ![d] = Of(s, responses)[d]]
      BY <2>3, <3>1 DEF Of, Own, TakeResponse, IInv, Typed
    <3>5. (requests \cap Own[s])' = (requests \cap Own[s]) \ {d}
      BY <2>3 DEF TakeResponse, clear_saved_call, Own
    <3>6. Of(s, responses)[d] # NoResponse
      BY <2>3, <3>1 DEF Of
    <3>7. QED BY <1>2, <2>1, <3>1, <3>2, <3>3, <3>4, <3>5, <3>6
              DEF Channel!get_response, Channel!clear_saved_call, Own
  <2>4. QED BY <2>2, <2>3, <1>2, SidesFacts DEF Channel!Next
<1>3. CASE s # t
  <2>1. /\ Of(s, task)' = Of(s, task) /\ Of(s, responses)' = Of(s, responses)
        /\ Of(s, result)' = Of(s, result) /\ (requests \cap Own[s])' = requests \cap Own[s]
    <3>1. CASE UNCHANGED <<task, requests, responses, result>>
      BY <3>1 DEF Of, Own
    <3>2. ASSUME NEW d \in Own[t], TakeResponse(d)
          PROVE  /\ Of(s, task)' = Of(s, task) /\ Of(s, responses)' = Of(s, responses)
                 /\ Of(s, result)' = Of(s, result)
                 /\ (requests \cap Own[s])' = requests \cap Own[s]
      <4>1. d \in Calls /\ d \notin Own[s]
        BY <1>3, SidesFacts
      <4>2. QED BY <3>2, <4>1, SidesFacts DEF TakeResponse, clear_saved_call, IInv, Typed, Of, Own
    <3>3. QED BY <3>1, <3>2
  <2>2. CASE link = "up"
    <3>1. /\ Of(s, peer)' = [Of(s, peer) EXCEPT ![c] = "answered"]
          /\ Of(s, answer)' = [Of(s, answer) EXCEPT ![c] = body]
          /\ Of(s, peer)[c] = "asked"
      BY <1>1, <1>3, <2>2 DEF Of, Own, Reply, IInv, Typed
    <3>2. Channel(s)!PeerAnswers(c)
      BY <2>1, <3>1 DEF Channel!PeerAnswers, Channel!chan, Own
    <3>3. QED BY <1>1, <1>3, <3>2 DEF Channel!Next
  <2>3. CASE link # "up"
    BY <2>1, <2>3 DEF Reply, Channel!vars, Of, Own
  <2>4. QED BY <2>2, <2>3
<1>4. QED BY <1>2, <1>3

LEMMA SeesTake ==
  ASSUME IInv, NEW t \in Sides, on_response(t), NEW s \in Sides
  PROVE  Channel(s)!Next \/ UNCHANGED Channel(s)!vars
<1> DEFINE m == Head(wire[t])
<1> DEFINE c == m.of
<1>1. Takes(t, m, m.id, m.id \in requests) /\ m.type = "response"
  BY DEF on_response, Reads
<1>2. Fits(t, m)
  <2>1. m = wire[t][1] /\ 1 \in 1..Len(wire[t])
    BY Removed DEF on_response, IInv, Typed
  <2>2. QED BY <2>1 DEF IInv, Carried
<1> HIDE DEF m
<1>3. /\ c \in Own[t] /\ c \in Calls /\ peer[c] = "answered" /\ m.body = answer[c]
      /\ m.id = IF m.body = Anonymous THEN NoCall ELSE c
      /\ (s # t => c \notin Own[s])
  BY <1>1, <1>2, SidesFacts DEF Fits
<1>4. /\ peer' = [peer EXCEPT ![c] = "delivered"]
      /\ UNCHANGED <<task, requests, answer, result, closed, link>>
  BY <1>1 DEF Takes
<1>5. IF answer[c] # Anonymous /\ c \in requests
        THEN responses' = [responses EXCEPT ![c] = answer[c]] /\ event' = event \cup {c}
        ELSE UNCHANGED <<responses, event>>
  <2>1. (m.id \in requests) <=> (answer[c] # Anonymous /\ c \in requests)
    BY <1>3, PeersAssumption DEF IInv, Typed
  <2>2. QED BY <1>1, <1>3, <2>1 DEF Takes
<1> HIDE DEF c
<1>6. CASE s = t
  <2>1. /\ Of(s, peer)[c] = "answered" /\ Of(s, answer)[c] = answer[c]
        /\ Of(s, peer)' = [Of(s, peer) EXCEPT ![c] = "delivered"]
    BY <1>3, <1>4, <1>6 DEF Of, Own, IInv, Typed
  <2>2. /\ Of(s, task)' = Of(s, task) /\ Of(s, answer)' = Of(s, answer)
        /\ Of(s, result)' = Of(s, result) /\ (requests \cap Own[s])' = requests \cap Own[s]
    BY <1>4 DEF Of, Own
  <2>3. IF answer[c] # Anonymous /\ c \in requests \cap Own[s]
          THEN /\ Of(s, responses)' = [Of(s, responses) EXCEPT ![c] = answer[c]]
               /\ (event \cap Own[s])' = (event \cap Own[s]) \cup {c}
          ELSE /\ Of(s, responses)' = Of(s, responses)
               /\ (event \cap Own[s])' = event \cap Own[s]
    <3>1. CASE answer[c] # Anonymous /\ c \in requests
      <4>1. Of(s, responses)' = [Of(s, responses) EXCEPT ![c] = answer[c]]
        BY <1>3, <1>5, <1>6, <3>1 DEF Of, Own, IInv, Typed
      <4>2. (event \cap Own[s])' = (event \cap Own[s]) \cup {c}
        BY <1>3, <1>5, <1>6, <3>1 DEF Own
      <4>3. QED BY <1>3, <1>6, <3>1, <4>1, <4>2
    <3>2. CASE ~(answer[c] # Anonymous /\ c \in requests)
      BY <1>5, <3>2 DEF Of, Own
    <3>3. QED BY <3>1, <3>2
  <2>4. Channel(s)!on_response(c)
    BY <1>4, <2>1, <2>2, <2>3 DEF Channel!on_response
  <2>5. QED BY <1>3, <1>6, <2>4 DEF Channel!Next
<1>7. CASE s # t
  <2>1. /\ Of(s, peer)' = Of(s, peer) /\ Of(s, responses)' = Of(s, responses)
        /\ (event \cap Own[s])' = event \cap Own[s]
    BY <1>3, <1>4, <1>5, <1>7 DEF Of, Own, IInv, Typed
  <2>2. QED BY <1>4, <2>1 DEF Channel!vars, Of, Own
<1>8. QED BY <1>6, <1>7

LEMMA SeesReader ==
  ASSUME IInv, NEW t \in Sides, NEW s \in Sides,
         \/ on_request(t) \/ on_response(t) \/ MethodReturns(t) \/ ReplySent(t)
         \/ ReaderSeesEnd(t)
  PROVE  Channel(s)!Next \/ UNCHANGED Channel(s)!vars
<1>1. CASE on_request(t)
  <2> DEFINE c == Head(wire[t]).id
  <2>1. c \in Own[Other(t)] /\ c \in Calls /\ peer[c] = "asked" /\ UNCHANGED <<closed, link>>
    BY <1>1, RequestRead DEF on_request
  <2>2. CASE kind[c] \in {"recursive", "background"}
    BY <1>1, <2>2 DEF on_request, calls, chan, Channel!vars, Of, Own
  <2>3. CASE kind[c] \notin {"recursive", "background"}
    <3>1. PICK body \in Payloads \cup {Anonymous} :
            /\ Reply(t, c, body, Tail(wire[t])) /\ UNCHANGED event
            /\ \/ UNCHANGED <<task, requests, responses, result>>
               \/ /\ kind[c] = "fetch" /\ responses[child[c]] # NoResponse
                  /\ TakeResponse(child[c])
      BY <1>1, <2>3, RequestAnswered
    <3>2. kind[c] = "fetch" => child[c] \in Detached /\ child[c] \in Calls
      BY <2>1, PeersAssumption
    <3>3. kind[c] = "fetch" => caller[child[c]] = t
      BY <2>1, <3>2, PeersAssumption, SidesFacts DEF Own
    <3>4. kind[c] = "fetch" => child[c] \in Detached \cap Own[t]
      BY <3>2, <3>3 DEF Own
    <3>5. QED BY <2>1, <3>1, <3>4, SeesAnswer
  <2>4. QED BY <2>2, <2>3
<1>2. CASE on_response(t)
  BY <1>2, SeesTake
<1>3. CASE MethodReturns(t)
  <2> DEFINE c == handling[t]
  <2>1. c \in Own[Other(t)] /\ c \in Calls /\ peer[c] = "asked"
    BY <1>3, SidesFacts DEF MethodReturns, IInv, Busy
  <2>2. PICK is \in {"ok", "error"} : Reply(t, c, Body(c, is), wire[t])
    BY <1>3 DEF MethodReturns
  <2>3. Body(c, is) \in Payloads
    BY <2>1, MessagesTyped
  <2>4. UNCHANGED <<task, requests, responses, event, result, closed, link>>
    BY <1>3 DEF MethodReturns, chan
  <2>5. QED BY <2>1, <2>2, <2>3, <2>4, SeesAnswer
<1>4. CASE ReplySent(t)
  BY <1>4 DEF ReplySent, calls, chan, Channel!vars, Of, Own
<1>5. CASE ReaderSeesEnd(t)
  <2>1. link = "down" /\ UNCHANGED <<task, requests, responses, event, peer, answer, result, link>>
    BY <1>5 DEF ReaderSeesEnd, calls, chan
  <2>2. closed' = closed \/ closed' = closed \cup {t}
    BY <1>5 DEF ReaderSeesEnd
  <2>3. CASE s = t /\ s \notin closed /\ closed' = closed \cup {t}
    <3>1. Channel(s)!MarkClosed
      BY <2>1, <2>3 DEF Channel!MarkClosed, Channel!chan, Of, Own
    <3>2. QED BY <3>1 DEF Channel!Next
  <2>4. CASE ~(s = t /\ s \notin closed /\ closed' = closed \cup {t})
    BY <2>1, <2>2, <2>4 DEF Channel!vars, Of, Own
  <2>5. QED BY <2>3, <2>4
<1>6. QED BY <1>1, <1>2, <1>3, <1>4, <1>5

LEMMA SeesEnd ==
  ASSUME LinkDrops \/ UserCloses \/ ReaderFails, NEW s \in Sides
  PROVE  Channel(s)!Next \/ UNCHANGED Channel(s)!vars
<1>1. UNCHANGED <<task, requests, responses, event, peer, answer, result>>
  BY DEF LinkDrops, UserCloses, ReaderFails, calls, chan
<1>2. CASE LinkDrops
  <2>1. Channel(s)!SocketShuts
    BY <1>1, <1>2 DEF LinkDrops, Channel!SocketShuts, Channel!chan, Of, Own
  <2>2. QED BY <2>1 DEF Channel!Next
<1>3. CASE UserCloses /\ s = "client"
  <2>1. Channel(s)!MarkClosed
    BY <1>1, <1>3 DEF UserCloses, Channel!MarkClosed, Channel!chan, Of, Own
  <2>2. QED BY <2>1 DEF Channel!Next
<1>4. CASE UserCloses /\ s # "client"
  BY <1>1, <1>4 DEF UserCloses, Channel!vars, Of, Own
<1>5. CASE ReaderFails
  BY <1>1, <1>5 DEF ReaderFails, Channel!vars, Of, Own
<1>6. QED BY <1>2, <1>3, <1>4, <1>5

(* Every step is a step of either channel, or nothing to it.               *)
LEMMA Simulation ==
  ASSUME NEW s \in Sides
  PROVE  IInv /\ [Next]_vars => [Channel(s)!Next]_(Channel(s)!vars)
<1> SUFFICES ASSUME IInv, [Next]_vars PROVE Channel(s)!Next \/ UNCHANGED Channel(s)!vars
  OBVIOUS
<1>1. CASE UNCHANGED vars
  BY <1>1 DEF vars, calls, chan, Channel!vars, Of, Own
<1>2. CASE Next
  BY <1>2, SeesCall, SeesReader, SeesEnd DEF Next
<1>3. QED BY <1>1, <1>2

(* Whatever the calls, each end of a websocket behaves as an RpcChannel    *)
(* whose other side answers each request at most once: what is proved of   *)
(* a channel alone holds of both channels of a connection.                 *)
THEOREM SidesAreChannels == SafeSpec => ImplementsChannels
<1>1. "client" \in Sides /\ "server" \in Sides
  BY DEF Sides
<1>2. SafeSpec => ClientChannel!SafeSpec
  <2>1. Init => ClientChannel!Init
    BY <1>1, ChannelInit DEF ClientChannel!Init, Channel!Init
  <2>2. IInv /\ [Next]_vars => [ClientChannel!Next]_(ClientChannel!vars)
    <3>1. IInv /\ [Next]_vars => [Channel("client")!Next]_(Channel("client")!vars)
      BY <1>1, Simulation
    <3>2. Channel("client")!Next => ClientChannel!Next
      BY DEF Channel!Next, Channel!chan, Channel!async_call, Channel!SavePromise,
        Channel!async_call_resume, Channel!async_call_send_fails,
        Channel!wait_for_response, Channel!wait_for_response_raises,
        Channel!WaitIsOver, Channel!clear_saved_call, Channel!CancelCall,
        Channel!get_response, Channel!on_response, Channel!SocketShuts,
        Channel!MarkClosed, Channel!PeerAnswers,
        ClientChannel!Next, ClientChannel!chan, ClientChannel!async_call,
        ClientChannel!SavePromise, ClientChannel!async_call_resume,
        ClientChannel!async_call_send_fails, ClientChannel!wait_for_response,
        ClientChannel!wait_for_response_raises, ClientChannel!WaitIsOver,
        ClientChannel!clear_saved_call, ClientChannel!CancelCall,
        ClientChannel!get_response, ClientChannel!on_response,
        ClientChannel!SocketShuts, ClientChannel!MarkClosed, ClientChannel!PeerAnswers
    <3>3. UNCHANGED Channel("client")!vars => UNCHANGED ClientChannel!vars
      BY DEF Channel!vars, ClientChannel!vars
    <3>4. QED BY <3>1, <3>2, <3>3
  <2>3. QED BY <2>1, <2>2, Invariance, PTL DEF SafeSpec, ClientChannel!SafeSpec
<1>3. SafeSpec => ServerChannel!SafeSpec
  <2>1. Init => ServerChannel!Init
    BY <1>1, ChannelInit DEF ServerChannel!Init, Channel!Init
  <2>2. IInv /\ [Next]_vars => [ServerChannel!Next]_(ServerChannel!vars)
    <3>1. IInv /\ [Next]_vars => [Channel("server")!Next]_(Channel("server")!vars)
      BY <1>1, Simulation
    <3>2. Channel("server")!Next => ServerChannel!Next
      BY DEF Channel!Next, Channel!chan, Channel!async_call, Channel!SavePromise,
        Channel!async_call_resume, Channel!async_call_send_fails,
        Channel!wait_for_response, Channel!wait_for_response_raises,
        Channel!WaitIsOver, Channel!clear_saved_call, Channel!CancelCall,
        Channel!get_response, Channel!on_response, Channel!SocketShuts,
        Channel!MarkClosed, Channel!PeerAnswers,
        ServerChannel!Next, ServerChannel!chan, ServerChannel!async_call,
        ServerChannel!SavePromise, ServerChannel!async_call_resume,
        ServerChannel!async_call_send_fails, ServerChannel!wait_for_response,
        ServerChannel!wait_for_response_raises, ServerChannel!WaitIsOver,
        ServerChannel!clear_saved_call, ServerChannel!CancelCall,
        ServerChannel!get_response, ServerChannel!on_response,
        ServerChannel!SocketShuts, ServerChannel!MarkClosed, ServerChannel!PeerAnswers
    <3>3. UNCHANGED Channel("server")!vars => UNCHANGED ServerChannel!vars
      BY DEF Channel!vars, ServerChannel!vars
    <3>4. QED BY <3>1, <3>2, <3>3
  <2>3. QED BY <2>1, <2>2, Invariance, PTL DEF SafeSpec, ServerChannel!SafeSpec
<1>4. QED BY <1>2, <1>3 DEF ImplementsChannels

-----------------------------------------------------------------------------
(* What is proved of a channel alone, of the two ends of a websocket.      *)

ClientEnd == INSTANCE RpcChannelProofs WITH
  Calls <- Own["client"], Detached <- Detached \cap Own["client"],
  Timed <- Timed \cap Own["client"], Cancellable <- {}, Suspending <- Own["client"],
  Results <- Payloads, task <- Of("client", task), requests <- requests \cap Own["client"],
  responses <- Of("client", responses), event <- event \cap Own["client"],
  closed <- ("client" \in closed), socket <- IF link = "up" THEN "open" ELSE "shut",
  peer <- Of("client", peer), answer <- Of("client", answer), result <- Of("client", result)

ServerEnd == INSTANCE RpcChannelProofs WITH
  Calls <- Own["server"], Detached <- Detached \cap Own["server"],
  Timed <- Timed \cap Own["server"], Cancellable <- {}, Suspending <- Own["server"],
  Results <- Payloads, task <- Of("server", task), requests <- requests \cap Own["server"],
  responses <- Of("server", responses), event <- event \cap Own["server"],
  closed <- ("server" \in closed), socket <- IF link = "up" THEN "open" ELSE "shut",
  peer <- Of("server", peer), answer <- Of("server", answer), result <- Of("server", result)

LEMMA EndsAssumed == ClientEnd!ChannelAssumption /\ ServerEnd!ChannelAssumption
BY PeersAssumption DEF ClientEnd!ChannelAssumption, ServerEnd!ChannelAssumption, Own

LEMMA ClientEndIsChannel == SafeSpec => ClientEnd!SafeSpec
<1>1. ClientChannel!Init => ClientEnd!Init
  BY DEF ClientChannel!Init, ClientEnd!Init
<1>2. [ClientChannel!Next]_(ClientChannel!vars) => [ClientEnd!Next]_(ClientEnd!vars)
  <2>1. ClientChannel!Next => ClientEnd!Next
    BY DEF
        ClientChannel!Next, ClientChannel!chan, ClientChannel!async_call,
        ClientChannel!SavePromise, ClientChannel!async_call_resume,
        ClientChannel!async_call_send_fails, ClientChannel!wait_for_response,
        ClientChannel!wait_for_response_raises, ClientChannel!WaitIsOver,
        ClientChannel!clear_saved_call, ClientChannel!CancelCall,
        ClientChannel!get_response, ClientChannel!on_response, ClientChannel!SocketShuts,
        ClientChannel!MarkClosed, ClientChannel!PeerAnswers, ClientEnd!Next, ClientEnd!chan,
        ClientEnd!async_call, ClientEnd!SavePromise, ClientEnd!async_call_resume,
        ClientEnd!async_call_send_fails, ClientEnd!wait_for_response,
        ClientEnd!wait_for_response_raises, ClientEnd!WaitIsOver,
        ClientEnd!clear_saved_call, ClientEnd!CancelCall, ClientEnd!get_response,
        ClientEnd!on_response, ClientEnd!SocketShuts, ClientEnd!MarkClosed,
        ClientEnd!PeerAnswers
  <2>2. UNCHANGED ClientChannel!vars => UNCHANGED ClientEnd!vars
    BY DEF ClientChannel!vars, ClientEnd!vars
  <2>3. QED BY <2>1, <2>2
<1>3. QED BY <1>1, <1>2, SidesAreChannels, PTL
          DEF ImplementsChannels, ClientChannel!SafeSpec, ClientEnd!SafeSpec

LEMMA ServerEndIsChannel == SafeSpec => ServerEnd!SafeSpec
<1>1. ServerChannel!Init => ServerEnd!Init
  BY DEF ServerChannel!Init, ServerEnd!Init
<1>2. [ServerChannel!Next]_(ServerChannel!vars) => [ServerEnd!Next]_(ServerEnd!vars)
  <2>1. ServerChannel!Next => ServerEnd!Next
    BY DEF
        ServerChannel!Next, ServerChannel!chan, ServerChannel!async_call,
        ServerChannel!SavePromise, ServerChannel!async_call_resume,
        ServerChannel!async_call_send_fails, ServerChannel!wait_for_response,
        ServerChannel!wait_for_response_raises, ServerChannel!WaitIsOver,
        ServerChannel!clear_saved_call, ServerChannel!CancelCall,
        ServerChannel!get_response, ServerChannel!on_response, ServerChannel!SocketShuts,
        ServerChannel!MarkClosed, ServerChannel!PeerAnswers, ServerEnd!Next, ServerEnd!chan,
        ServerEnd!async_call, ServerEnd!SavePromise, ServerEnd!async_call_resume,
        ServerEnd!async_call_send_fails, ServerEnd!wait_for_response,
        ServerEnd!wait_for_response_raises, ServerEnd!WaitIsOver,
        ServerEnd!clear_saved_call, ServerEnd!CancelCall, ServerEnd!get_response,
        ServerEnd!on_response, ServerEnd!SocketShuts, ServerEnd!MarkClosed,
        ServerEnd!PeerAnswers
  <2>2. UNCHANGED ServerChannel!vars => UNCHANGED ServerEnd!vars
    BY DEF ServerChannel!vars, ServerEnd!vars
  <2>3. QED BY <2>1, <2>2
<1>3. QED BY <1>1, <1>2, SidesAreChannels, PTL
          DEF ImplementsChannels, ServerChannel!SafeSpec, ServerEnd!SafeSpec

(* Both ends of a websocket keep, with a real other side, what RpcCall     *)
(* promises of calls: each is answered once, returns the very answer of    *)
(* the other side's on_request, and cannot fail once on_response saved it. *)
THEOREM EndsImplementRpcCall ==
  SafeSpec => ClientEnd!Abstract!SafeSpec /\ ServerEnd!Abstract!SafeSpec
<1>1. ClientEnd!SafeSpec => ClientEnd!Abstract!SafeSpec
  BY EndsAssumed, ClientEnd!ChannelRefinesRpcCall
<1>2. ServerEnd!SafeSpec => ServerEnd!Abstract!SafeSpec
  BY EndsAssumed, ServerEnd!ChannelRefinesRpcCall
<1>3. QED BY <1>1, <1>2, ClientEndIsChannel, ServerEndIsChannel

(* At both ends, whatever is pending at the other: a saved response has    *)
(* its promise, so that clear_saved_call meets no missing key, and a call  *)
(* that has returned is in neither dictionary again.                       *)
THEOREM EndsForgetTheirCalls ==
  SafeSpec => /\ []ClientEnd!ResponsesArePending /\ []ClientEnd!ReturnedIsForgotten
              /\ []ServerEnd!ResponsesArePending /\ []ServerEnd!ReturnedIsForgotten
<1>1. ClientEnd!SafeSpec => []ClientEnd!ResponsesArePending /\ []ClientEnd!ReturnedIsForgotten
  BY EndsAssumed, ClientEnd!SavedResponsesArePending, ClientEnd!ReturnedCallsAreForgotten
<1>2. ServerEnd!SafeSpec => []ServerEnd!ResponsesArePending /\ []ServerEnd!ReturnedIsForgotten
  BY EndsAssumed, ServerEnd!SavedResponsesArePending, ServerEnd!ReturnedCallsAreForgotten
<1>3. QED BY <1>1, <1>2, ClientEndIsChannel, ServerEndIsChannel

=============================================================================
