------------------------ MODULE RpcPeersOrderProofs ------------------------
(***************************************************************************)
(* Proofs that nothing vanishes between the two sides of RpcPeers while    *)
(* the connection lasts, that a side answers in the order of requests, and *)
(* that a method that calls its caller back is never answered with success.*)
(*                                                                         *)
(* RpcPeersProofs says that what is on a wire is so.  Here it is the other *)
(* way round: what is pending is on a wire or in a method (Present), and   *)
(* the requests that are pending stand on the wire in the order they were  *)
(* sent, behind the one whose method runs (Ordered).  While a recursive    *)
(* method runs nothing is read that could let it succeed (Alone).          *)
(***************************************************************************)
EXTENDS RpcPeersProofs, FiniteSetTheorems

Has(w, type, c) == \E i \in 1..Len(w) : w[i].type = type /\ w[i].of = c

Present ==
  link = "up" => \A c \in Calls :
    LET s == caller[c] IN
      /\ peer[c] = "asked" /\ handling[Other(s)] # c => Has(wire[Other(s)], "request", c)
      /\ peer[c] = "answered" => Has(wire[s], "response", c)

(* Calls stand in w in the order they have in q.                           *)
InOrder(w, q) ==
  \A i, j \in 1..Len(w) : \A k, l \in 1..Len(q) :
    w[i].of = q[k] /\ w[j].of = q[l] /\ k < l => i < j

Recorded == unanswered \in [Sides -> Seq(Calls)]

Pending(s) ==
  /\ \A k \in 1..Len(unanswered[s]) :
       unanswered[s][k] \in Own[s] /\ peer[unanswered[s][k]] = "asked"
  /\ \A c \in Own[s] : peer[c] = "asked" => \E k \in 1..Len(unanswered[s]) : unanswered[s][k] = c
  /\ \A k, l \in 1..Len(unanswered[s]) : unanswered[s][k] = unanswered[s][l] => k = l

FirstIsHandled(s) ==
  handling[Other(s)] # NoCall => unanswered[s] # <<>> /\ unanswered[s][1] = handling[Other(s)]

Ordered ==
  link = "up" => \A s \in Sides :
    Pending(s) /\ InOrder(wire[Other(s)], unanswered[s]) /\ FirstIsHandled(s)

OInv == Recorded /\ Present /\ Ordered

-----------------------------------------------------------------------------
(* Wires and what stands on them.                                          *)

LEMMA HasAppend ==
  ASSUME NEW w \in Seq(Messages), NEW m \in Messages, NEW type, NEW c
  PROVE  /\ Has(w, type, c) => Has(Append(w, m), type, c)
         /\ m.type = type /\ m.of = c => Has(Append(w, m), type, c)
<1>1. /\ Len(w) \in Nat /\ Len(Append(w, m)) = Len(w) + 1
      /\ \A i \in 1..Len(w) : i \in 1..(Len(w) + 1) /\ Append(w, m)[i] = w[i]
      /\ Append(w, m)[Len(w) + 1] = m /\ Len(w) + 1 \in 1..(Len(w) + 1)
  BY Appended
<1>2. QED BY <1>1 DEF Has

LEMMA HasTail ==
  ASSUME NEW w \in Seq(Messages), w # <<>>, NEW type, NEW c, Has(w, type, c), Head(w).of # c
  PROVE  Has(Tail(w), type, c)
<1>1. PICK i \in 1..Len(w) : w[i].type = type /\ w[i].of = c
  BY DEF Has
<1>2. /\ Head(w) = w[1] /\ Len(w) \in Nat \ {0} /\ Len(Tail(w)) = Len(w) - 1
      /\ \A j \in 1..Len(Tail(w)) : Tail(w)[j] = w[j + 1]
  BY Removed
<1>3. i - 1 \in 1..Len(Tail(w)) /\ Tail(w)[i - 1] = w[i]
  <2>1. i # 1
    BY <1>1, <1>2
  <2>2. i - 1 \in 1..Len(Tail(w)) /\ (i - 1) + 1 = i
    BY <1>2, <2>1
  <2>3. QED BY <1>2, <2>2
<1>4. QED BY <1>1, <1>3 DEF Has

LEMMA QueueTail ==
  ASSUME NEW q \in Seq(Calls), q # <<>>
  PROVE  /\ Tail(q) \in Seq(Calls) /\ Len(q) \in Nat \ {0} /\ Len(Tail(q)) = Len(q) - 1
         /\ \A k \in 1..Len(Tail(q)) : k + 1 \in 1..Len(q) /\ Tail(q)[k] = q[k + 1]
         /\ \A k \in 1..Len(q) : k # 1 => k - 1 \in 1..Len(Tail(q)) /\ Tail(q)[k - 1] = q[k]
         /\ 1 \in 1..Len(q)
<1>1. /\ Tail(q) \in Seq(Calls) /\ Len(q) \in Nat \ {0} /\ Len(Tail(q)) = Len(q) - 1
      /\ \A k \in 1..Len(Tail(q)) : Tail(q)[k] = q[k + 1]
  BY HeadTailProperties
<1>2. \A k \in 1..Len(q) : k # 1 => k - 1 \in 1..Len(Tail(q)) /\ (k - 1) + 1 = k
  BY <1>1
<1>3. \A k \in 1..Len(Tail(q)) : k + 1 \in 1..Len(q)
  BY <1>1
<1>4. QED BY <1>1, <1>2, <1>3

LEMMA QueueAppend ==
  ASSUME NEW q \in Seq(Calls), NEW c \in Calls
  PROVE  /\ Append(q, c) \in Seq(Calls) /\ Len(q) \in Nat /\ Len(Append(q, c)) = Len(q) + 1
         /\ \A k \in 1..Len(q) : Append(q, c)[k] = q[k]
         /\ Append(q, c)[Len(q) + 1] = c
BY AppendProperties

LEMMA OrderTail ==
  ASSUME NEW w \in Seq(Messages), w # <<>>, NEW q, InOrder(w, q)
  PROVE  InOrder(Tail(w), q)
<1> SUFFICES ASSUME NEW i \in 1..Len(Tail(w)), NEW j \in 1..Len(Tail(w)),
                    NEW k \in 1..Len(q), NEW l \in 1..Len(q),
                    Tail(w)[i].of = q[k], Tail(w)[j].of = q[l], k < l
             PROVE  i < j
  BY DEF InOrder
<1>1. /\ Len(w) \in Nat \ {0} /\ Len(Tail(w)) = Len(w) - 1
      /\ Tail(w)[i] = w[i + 1] /\ Tail(w)[j] = w[j + 1]
  BY Removed
<1>2. i + 1 \in 1..Len(w) /\ j + 1 \in 1..Len(w)
  BY <1>1
<1>3. i + 1 < j + 1
  BY <1>1, <1>2 DEF InOrder
<1>4. QED BY <1>3

LEMMA OrderQueueTail ==
  ASSUME NEW w, NEW q \in Seq(Calls), q # <<>>, InOrder(w, q)
  PROVE  InOrder(w, Tail(q))
<1> SUFFICES ASSUME NEW i \in 1..Len(w), NEW j \in 1..Len(w),
                    NEW k \in 1..Len(Tail(q)), NEW l \in 1..Len(Tail(q)),
                    w[i].of = Tail(q)[k], w[j].of = Tail(q)[l], k < l
             PROVE  i < j
  BY DEF InOrder
<1>1. /\ k + 1 \in 1..Len(q) /\ l + 1 \in 1..Len(q)
      /\ w[i].of = q[k + 1] /\ w[j].of = q[l + 1] /\ k + 1 < l + 1
  BY QueueTail
<1>2. QED BY <1>1 DEF InOrder

(* A message that is about none of the calls in q.                         *)
LEMMA OrderForeign ==
  ASSUME NEW w \in Seq(Messages), NEW m \in Messages, NEW q, InOrder(w, q),
         \A k \in 1..Len(q) : q[k] # m.of
  PROVE  InOrder(Append(w, m), q)
<1> SUFFICES ASSUME NEW i \in 1..Len(Append(w, m)), NEW j \in 1..Len(Append(w, m)),
                    NEW k \in 1..Len(q), NEW l \in 1..Len(q),
                    Append(w, m)[i].of = q[k], Append(w, m)[j].of = q[l], k < l
             PROVE  i < j
  BY DEF InOrder
<1>1. /\ Len(w) \in Nat /\ Len(Append(w, m)) = Len(w) + 1
      /\ \A n \in 1..Len(w) : Append(w, m)[n] = w[n]
      /\ Append(w, m)[Len(w) + 1] = m
  BY Appended
<1>2. i \in 1..Len(w) /\ j \in 1..Len(w)
  BY <1>1
<1>3. QED BY <1>1, <1>2 DEF InOrder

(* The request of a call that stood neither on the wire nor in the queue.  *)
LEMMA OrderAppend ==
  ASSUME NEW w \in Seq(Messages), NEW m \in Messages, NEW q \in Seq(Calls), NEW c \in Calls,
         InOrder(w, q), m.of = c,
         \A i \in 1..Len(w) : w[i].of # c, \A k \in 1..Len(q) : q[k] # c
  PROVE  InOrder(Append(w, m), Append(q, c))
<1> SUFFICES ASSUME NEW i \in 1..Len(Append(w, m)), NEW j \in 1..Len(Append(w, m)),
                    NEW k \in 1..Len(Append(q, c)), NEW l \in 1..Len(Append(q, c)),
                    Append(w, m)[i].of = Append(q, c)[k], Append(w, m)[j].of = Append(q, c)[l],
                    k < l
             PROVE  i < j
  BY DEF InOrder
<1>1. /\ Len(w) \in Nat /\ Len(Append(w, m)) = Len(w) + 1
      /\ \A n \in 1..Len(w) : Append(w, m)[n] = w[n]
      /\ Append(w, m)[Len(w) + 1] = m
  BY Appended
<1>2. /\ Len(q) \in Nat /\ Len(Append(q, c)) = Len(q) + 1
      /\ \A n \in 1..Len(q) : Append(q, c)[n] = q[n]
      /\ Append(q, c)[Len(q) + 1] = c
  BY QueueAppend
<1>3. k \in 1..Len(q) /\ Append(q, c)[k] = q[k] /\ q[k] # c
  BY <1>2
<1>4. i \in 1..Len(w) /\ Append(w, m)[i] = w[i]
  BY <1>1, <1>3
<1>5. CASE l \in 1..Len(q)
  <2>1. j \in 1..Len(w) /\ Append(w, m)[j] = w[j]
    BY <1>1, <1>2, <1>5
  <2>2. QED BY <1>2, <1>3, <1>4, <1>5, <2>1 DEF InOrder
<1>6. CASE l = Len(q) + 1
  <2>1. Append(w, m)[j].of = c
    BY <1>2, <1>6
  <2>2. j = Len(w) + 1
    BY <1>1, <2>1
  <2>3. QED BY <1>1, <1>4, <2>2
<1>7. QED BY <1>2, <1>5, <1>6, SMTT(60)

-----------------------------------------------------------------------------
(* The inductive step: what is asked, read and answered while the          *)
(* connection lasts.                                                       *)

LEMMA Starts == Init => OInv
<1> SUFFICES ASSUME Init PROVE OInv
  OBVIOUS
<1>1. /\ unanswered = [s \in Sides |-> <<>>] /\ wire = [s \in Sides |-> <<>>]
      /\ peer = [c \in Calls |-> "unasked"] /\ handling = [s \in Sides |-> NoCall]
  BY DEF Init
<1>2. Recorded
  BY <1>1 DEF Recorded
<1>3. Present
  BY <1>1 DEF Present
<1>4. ASSUME NEW s \in Sides PROVE Pending(s) /\ FirstIsHandled(s)
  BY <1>1, SidesFacts DEF Pending, FirstIsHandled
<1>5. ASSUME NEW s \in Sides PROVE InOrder(wire[Other(s)], unanswered[s])
  BY <1>1, SidesFacts DEF InOrder
<1>6. QED BY <1>2, <1>3, <1>4, <1>5 DEF OInv, Ordered

(* The request that is read next is the first that is not answered.        *)
LEMMA FirstRequest ==
  ASSUME IInv, OInv, link = "up", NEW s \in Sides, wire[s] # <<>>,
         Head(wire[s]).type = "request", handling[s] = NoCall
  PROVE  /\ unanswered[Other(s)] # <<>>
         /\ unanswered[Other(s)][1] = Head(wire[s]).id
<1> DEFINE x == Other(s)
<1> DEFINE q == unanswered[x]
<1> DEFINE c == Head(wire[s]).id
<1>1. c \in Own[x] /\ c \in Calls /\ peer[c] = "asked" /\ c = Head(wire[s]).of
  BY RequestRead
<1>2. x \in Sides /\ Other(x) = s
  BY SidesFacts
<1>3. Pending(x) /\ InOrder(wire[s], q)
  BY <1>2 DEF OInv, Ordered
<1>4. q \in Seq(Calls) /\ Len(q) \in Nat
  BY <1>2 DEF OInv, Recorded
<1>5. wire[s] \in Seq(Messages) /\ 1 \in 1..Len(wire[s]) /\ wire[s][1].of = c
  BY <1>1, Removed DEF IInv, Typed
<1>6. PICK k \in 1..Len(q) : q[k] = c
  BY <1>1, <1>3 DEF Pending
<1>7. 1 \in 1..Len(q) /\ q # <<>>
  BY <1>4, <1>6
<1>8. q[1] \in Own[x] /\ q[1] \in Calls /\ peer[q[1]] = "asked"
  BY <1>2, <1>3, <1>7, SidesFacts DEF Pending
<1>9. caller[q[1]] = x /\ q[1] # NoCall
  BY <1>2, <1>8, SidesFacts, PeersAssumption
<1>10. Has(wire[s], "request", q[1])
  BY <1>2, <1>8, <1>9 DEF OInv, Present
<1>11. PICK i \in 1..Len(wire[s]) : wire[s][i].of = q[1]
  BY <1>10 DEF Has
<1>12. k = 1
  <2> SUFFICES ASSUME k # 1 PROVE FALSE
    OBVIOUS
  <2>1. 1 < k
    BY <1>6
  <2>2. i < 1
    BY <1>3, <1>5, <1>6, <1>7, <1>11, <2>1 DEF InOrder
  <2>3. QED BY <1>11, <2>2
<1>13. QED BY <1>6, <1>7, <1>12

(* What the reading of c leaves on the wire, of other calls.               *)
LEMMA OthersHave ==
  ASSUME IInv, NEW t \in Sides, NEW c, NEW rest, Rest(t, c, rest),
         NEW type, NEW d, d # c, Has(wire[t], type, d)
  PROVE  Has(rest, type, d)
<1>1. wire[t] \in Seq(Messages)
  BY DEF IInv, Typed
<1>2. CASE wire[t] # <<>> /\ Head(wire[t]).of = c /\ rest = Tail(wire[t])
  <2>1. wire[t] # <<>> /\ Head(wire[t]).of # d
    BY <1>2
  <2>2. Has(Tail(wire[t]), type, d)
    BY <1>1, <2>1, HasTail
  <2>3. QED BY <1>2, <2>2
<1>3. CASE rest = wire[t]
  BY <1>3
<1>4. QED BY <1>2, <1>3 DEF Rest

LEMMA AskKeeps ==
  ASSUME IInv, OInv, link = "up", NEW c \in Calls, async_call(c)
  PROVE  OInv'
<1> DEFINE s == caller[c]
<1> DEFINE t == Other(s)
<1> DEFINE q == unanswered[s]
<1>1. s \in Sides /\ t \in Sides /\ t # s /\ Other(t) = s /\ c \in Own[s] /\ c \notin Own[t]
      /\ c # NoCall /\ \A r \in Sides : r = s \/ r = t
  BY SidesFacts, PeersAssumption
<1>2. /\ peer[c] = "unasked" /\ peer' = [peer EXCEPT ![c] = "asked"]
      /\ wire' = [wire EXCEPT ![t] = Append(wire[t], RequestOf(c))]
      /\ unanswered' = [unanswered EXCEPT ![s] = Append(q, c)]
      /\ handling' = handling /\ link' = link
  BY <1>1 DEF async_call, readers, IInv, Unasked, Typed, OInv, Recorded
<1>3. /\ peer'[c] = "asked" /\ \A d \in Calls : d # c => peer'[d] = peer[d]
      /\ wire'[t] = Append(wire[t], RequestOf(c)) /\ wire'[s] = wire[s]
      /\ unanswered'[s] = Append(q, c) /\ unanswered'[t] = unanswered[t]
  BY <1>1, <1>2 DEF IInv, Typed, OInv, Recorded
<1>4. /\ wire[t] \in Seq(Messages) /\ q \in Seq(Calls) /\ RequestOf(c) \in Messages
      /\ RequestOf(c).type = "request" /\ RequestOf(c).of = c
  BY <1>1, MessagesTyped DEF IInv, Typed, OInv, Recorded
<1>5. \A i \in 1..Len(wire[t]) : wire[t][i].of # c
  <2> SUFFICES ASSUME NEW i \in 1..Len(wire[t]), wire[t][i].of = c PROVE FALSE
    OBVIOUS
  <2>1. Fits(t, wire[t][i])
    BY <1>1 DEF IInv, Carried
  <2>2. QED BY <1>1, <1>2, <2>1 DEF Fits
<1>6. \A r \in Sides : \A k \in 1..Len(unanswered[r]) :
        unanswered[r][k] # c /\ unanswered[r][k] \in Calls /\ unanswered[r][k] \in Own[r]
  BY <1>1, <1>2, SidesFacts DEF OInv, Ordered, Pending
<1>7. Recorded'
  BY <1>1, <1>2, <1>4, QueueAppend DEF OInv, Recorded
<1>8. Present'
  <2> SUFFICES ASSUME NEW d \in Calls
               PROVE  /\ peer'[d] = "asked" /\ handling[Other(caller[d])] # d
                           => Has(wire'[Other(caller[d])], "request", d)
                      /\ peer'[d] = "answered" => Has(wire'[caller[d]], "response", d)
    BY <1>2 DEF Present, Has
  <2>1. caller[d] \in Sides /\ Other(caller[d]) \in Sides
    BY SidesFacts
  <2>2. \A r \in Sides : \A type : Has(wire[r], type, d) => Has(wire'[r], type, d)
    BY <1>1, <1>3, <1>4, HasAppend
  <2>3. CASE d = c
    BY <1>1, <1>3, <1>4, <2>3, HasAppend
  <2>4. CASE d # c
    BY <1>3, <2>1, <2>2, <2>4 DEF OInv, Present
  <2>5. QED BY <2>3, <2>4
<1>9. Pending(s)'
  <2>1. /\ Len(q) \in Nat /\ Len(unanswered'[s]) = Len(q) + 1
        /\ \A k \in 1..Len(q) : unanswered'[s][k] = q[k]
        /\ unanswered'[s][Len(q) + 1] = c
    BY <1>3, <1>4, QueueAppend
  <2>2. Pending(s)
    BY <1>1 DEF OInv, Ordered
  <2>3. \A k \in 1..Len(q) : q[k] # c /\ q[k] \in Calls
    BY <1>1, <1>6
  <2> HIDE DEF s, q
  <2>4. \A k \in 1..Len(unanswered'[s]) :
          (k \in 1..Len(q) /\ unanswered'[s][k] = q[k]) \/ (k = Len(q) + 1 /\ unanswered'[s][k] = c)
    BY <2>1
  <2>5. \A k \in 1..Len(unanswered'[s]) :
          unanswered'[s][k] \in Own[s] /\ peer'[unanswered'[s][k]] = "asked"
    BY <1>1, <1>3, <2>2, <2>3, <2>4 DEF Pending, q
  <2>6. \A d \in Own[s] : peer'[d] = "asked" => \E k \in 1..Len(unanswered'[s]) : unanswered'[s][k] = d
    <3> SUFFICES ASSUME NEW d \in Own[s], peer'[d] = "asked"
                 PROVE  \E k \in 1..Len(unanswered'[s]) : unanswered'[s][k] = d
      OBVIOUS
    <3>1. CASE d = c
      BY <2>1, <3>1
    <3>2. CASE d # c
      <4>1. peer[d] = "asked"
        BY <1>1, <1>3, <3>2, SidesFacts
      <4>2. PICK k \in 1..Len(q) : q[k] = d
        BY <2>2, <4>1 DEF Pending, q
      <4>3. QED BY <2>1, <4>2
    <3>3. QED BY <3>1, <3>2
  <2>7. \A k, l \in 1..Len(unanswered'[s]) : unanswered'[s][k] = unanswered'[s][l] => k = l
    BY <2>2, <2>3, <2>4 DEF Pending, q
  <2>8. QED BY <2>5, <2>6, <2>7 DEF Pending
<1>10. Pending(t)'
  <2>1. Pending(t)
    BY <1>1 DEF OInv, Ordered
  <2>2. \A d \in Own[t] : d # c /\ d \in Calls
    BY <1>1, SidesFacts
  <2>3. QED BY <1>3, <2>1, <2>2 DEF Pending
<1>11. InOrder(wire'[t], unanswered'[s])
  <2>1. InOrder(wire[t], q)
    BY <1>1 DEF OInv, Ordered
  <2>2. \A k \in 1..Len(q) : q[k] # c
    BY <1>1, <1>6
  <2>3. QED BY <1>3, <1>4, <1>5, <2>1, <2>2, OrderAppend
<1>12. InOrder(wire'[s], unanswered'[t])
  BY <1>1, <1>3 DEF OInv, Ordered
<1>13. FirstIsHandled(s)' /\ FirstIsHandled(t)'
  <2>1. FirstIsHandled(s) /\ FirstIsHandled(t)
    BY <1>1 DEF OInv, Ordered
  <2>2. q # <<>> => unanswered'[s] # <<>> /\ unanswered'[s][1] = q[1]
    BY <1>3, <1>4, QueueAppend
  <2>3. QED BY <1>2, <1>3, <2>1, <2>2 DEF FirstIsHandled
<1>14. Ordered'
  <2>1. ASSUME NEW r \in Sides
        PROVE  Pending(r)' /\ InOrder(wire[Other(r)], unanswered[r])' /\ FirstIsHandled(r)'
    <3>1. Pending(r)' /\ FirstIsHandled(r)'
      BY <1>1, <1>9, <1>10, <1>13
    <3>2. InOrder(wire'[Other(r)], unanswered'[r])
      BY <1>1, <1>11, <1>12
    <3>3. InOrder(wire[Other(r)], unanswered[r])'
      BY <3>2 DEF InOrder
    <3>4. QED BY <3>1, <3>3
  <2>2. QED BY <2>1 DEF Ordered
<1>15. QED BY <1>7, <1>8, <1>14 DEF OInv

(* A request is read: its call stays unanswered while its method awaits.   *)
LEMMA StartKeeps ==
  ASSUME IInv, OInv, link = "up", NEW s \in Sides, reader[s] = "reading",
         wire[s] # <<>>, Head(wire[s]).type = "request",
         wire' = [wire EXCEPT ![s] = Tail(wire[s])],
         handling' = [handling EXCEPT ![s] = Head(wire[s]).id],
         UNCHANGED <<peer, link, unanswered>>
  PROVE  OInv'
<1> DEFINE x == Other(s)
<1> DEFINE c == Head(wire[s]).id
<1>1. /\ c \in Own[x] /\ c \in Calls /\ c = Head(wire[s]).of /\ Rest(s, c, Tail(wire[s]))
      /\ c # NoCall
  BY RequestRead, PeersAssumption
<1>2. /\ x \in Sides /\ x # s /\ Other(x) = s /\ c \notin Own[s] /\ caller[c] = x
      /\ \A r \in Sides : r = s \/ r = x
  BY <1>1, SidesFacts DEF Own
<1>3. handling[s] = NoCall
  BY DEF IInv, Busy
<1>4. unanswered[x] # <<>> /\ unanswered[x][1] = c
  BY <1>3, FirstRequest
<1> HIDE DEF c
<1>5. handling'[s] = c /\ handling'[x] = handling[x]
  BY <1>1, <1>2 DEF IInv, Typed, c
<1>6. /\ wire'[s] = Tail(wire[s]) /\ wire'[x] = wire[x]
      /\ wire[s] \in Seq(Messages)
  BY <1>2 DEF IInv, Typed
<1>7. Recorded'
  BY DEF OInv, Recorded
<1>8. Present'
  <2> SUFFICES ASSUME NEW d \in Calls
               PROVE  /\ peer[d] = "asked" /\ handling'[Other(caller[d])] # d
                           => Has(wire'[Other(caller[d])], "request", d)
                      /\ peer[d] = "answered" => Has(wire'[caller[d]], "response", d)
    BY DEF Present, Has
  <2>1. caller[d] \in Sides /\ Other(caller[d]) \in Sides
    BY SidesFacts
  <2>2. peer[c] = "asked"
    BY RequestRead DEF c
  <2>3. CASE d = c
    BY <1>2, <1>5, <2>2, <2>3
  <2>4. CASE d # c
    <3>1. ASSUME NEW r \in Sides, NEW type, Has(wire[r], type, d)
          PROVE  Has(wire'[r], type, d)
      <4>1. CASE r = s
        <5>1. Has(Tail(wire[s]), type, d)
          BY <1>1, <2>4, <3>1, <4>1, OthersHave
        <5>2. QED BY <1>6, <4>1, <5>1
      <4>2. CASE r = x
        BY <1>6, <3>1, <4>2
      <4>3. QED BY <1>2, <4>1, <4>2
    <3>2. ASSUME NEW r \in Sides, handling'[r] # d, handling[r] = d PROVE peer[d] # "asked"
      BY <1>2, <1>3, <1>5, <3>2, PeersAssumption
    <3>3. QED BY <2>1, <3>1, <3>2 DEF OInv, Present
  <2>5. QED BY <2>3, <2>4
<1>9. Ordered'
  <2> SUFFICES ASSUME NEW r \in Sides
               PROVE  Pending(r)' /\ InOrder(wire[Other(r)], unanswered[r])' /\ FirstIsHandled(r)'
    BY DEF Ordered
  <2>1. Pending(r) /\ InOrder(wire[Other(r)], unanswered[r]) /\ FirstIsHandled(r)
    BY DEF OInv, Ordered
  <2>2. Pending(r)'
    BY <2>1 DEF Pending, Own
  <2>3. InOrder(wire'[Other(r)], unanswered[r])
    <3>1. CASE r = x
      <4>1. InOrder(Tail(wire[s]), unanswered[r])
        BY <1>2, <1>6, <2>1, <3>1, OrderTail
      <4>2. QED BY <1>2, <1>6, <3>1, <4>1
    <3>2. CASE r = s
      BY <1>6, <2>1, <3>2
    <3>3. QED BY <1>2, <3>1, <3>2
  <2>4. FirstIsHandled(r)'
    <3>1. CASE r = x
      BY <1>2, <1>4, <1>5, <3>1 DEF FirstIsHandled
    <3>2. CASE r = s
      BY <1>5, <2>1, <3>2 DEF FirstIsHandled
    <3>3. QED BY <1>2, <3>1, <3>2
  <2>5. InOrder(wire[Other(r)], unanswered[r])'
    <3>1. unanswered'[r] = unanswered[r]
      OBVIOUS
    <3>2. InOrder(wire'[Other(r)], unanswered'[r])
      BY <2>3, <3>1
    <3>3. QED BY <3>2 DEF InOrder
  <2>6. QED BY <2>2, <2>4, <2>5
<1>10. QED BY <1>7, <1>8, <1>9 DEF OInv

(* A response is read.                                                     *)
LEMMA TakeKeeps ==
  ASSUME IInv, OInv, link = "up", NEW s \in Sides, on_response(s)
  PROVE  OInv'
<1> DEFINE m == Head(wire[s])
<1> DEFINE c == m.of
<1> DEFINE x == Other(s)
<1>1. /\ wire[s] \in Seq(Messages) /\ wire[s] # <<>> /\ m.type = "response"
      /\ Takes(s, m, m.id, m.id \in requests)
  BY DEF on_response, Reads, IInv, Typed
<1>2. m = wire[s][1] /\ 1 \in 1..Len(wire[s])
  BY <1>1, Removed
<1>3. Fits(s, m)
  BY <1>2 DEF IInv, Carried
<1>4. /\ c \in Own[s] /\ c \in Calls /\ peer[c] = "answered" /\ Rest(s, c, Tail(wire[s]))
  BY <1>1, <1>3, SidesFacts DEF Fits, Rest
<1>5. /\ x \in Sides /\ x # s /\ Other(x) = s /\ \A r \in Sides : r = s \/ r = x
  BY SidesFacts
<1> HIDE DEF m
<1>6. /\ peer' = [peer EXCEPT ![c] = "delivered"]
      /\ wire' = [wire EXCEPT ![s] = Tail(wire[s])]
      /\ UNCHANGED <<link, handling, unanswered>>
  BY <1>1 DEF Takes, readers
<1> HIDE DEF c
<1>7. /\ peer'[c] = "delivered" /\ \A d \in Calls : d # c => peer'[d] = peer[d]
      /\ wire'[s] = Tail(wire[s]) /\ wire'[x] = wire[x]
  BY <1>4, <1>5, <1>6 DEF IInv, Typed
<1>8. Recorded'
  BY <1>6 DEF OInv, Recorded
<1>9. Present'
  <2> SUFFICES ASSUME NEW d \in Calls
               PROVE  /\ peer'[d] = "asked" /\ handling[Other(caller[d])] # d
                           => Has(wire'[Other(caller[d])], "request", d)
                      /\ peer'[d] = "answered" => Has(wire'[caller[d]], "response", d)
    BY <1>6 DEF Present, Has
  <2>1. caller[d] \in Sides /\ Other(caller[d]) \in Sides
    BY SidesFacts
  <2>2. CASE d = c
    BY <1>7, <2>2
  <2>3. CASE d # c
    <3>1. ASSUME NEW r \in Sides, NEW type, Has(wire[r], type, d)
          PROVE  Has(wire'[r], type, d)
      <4>1. CASE r = s
        <5>1. Has(Tail(wire[s]), type, d)
          BY <1>4, <2>3, <3>1, <4>1, OthersHave
        <5>2. QED BY <1>7, <4>1, <5>1
      <4>2. CASE r = x
        BY <1>7, <3>1, <4>2
      <4>3. QED BY <1>5, <4>1, <4>2
    <3>2. QED BY <1>7, <2>1, <2>3, <3>1 DEF OInv, Present
  <2>4. QED BY <2>2, <2>3
<1>10. Ordered'
  <2> SUFFICES ASSUME NEW r \in Sides
               PROVE  Pending(r)' /\ InOrder(wire[Other(r)], unanswered[r])' /\ FirstIsHandled(r)'
    BY DEF Ordered
  <2>1. Pending(r) /\ InOrder(wire[Other(r)], unanswered[r]) /\ FirstIsHandled(r)
    BY DEF OInv, Ordered
  <2>2. \A d \in Calls : peer'[d] = "asked" <=> peer[d] = "asked"
    BY <1>4, <1>7
  <2>3. Own[r] \subseteq Calls
    BY SidesFacts
  <2>4. Pending(r)'
    BY <1>6, <2>1, <2>2, <2>3 DEF Pending, Own
  <2>5. InOrder(wire'[Other(r)], unanswered[r])
    <3>1. CASE r = x
      <4>1. InOrder(Tail(wire[s]), unanswered[r])
        BY <1>1, <1>5, <2>1, <3>1, OrderTail
      <4>2. QED BY <1>5, <1>7, <3>1, <4>1
    <3>2. CASE r = s
      BY <1>7, <2>1, <3>2
    <3>3. QED BY <1>5, <3>1, <3>2
  <2>6. FirstIsHandled(r)'
    BY <1>6, <2>1 DEF FirstIsHandled
  <2>7. InOrder(wire[Other(r)], unanswered[r])'
    <3>1. unanswered'[r] = unanswered[r]
      BY <1>6
    <3>2. InOrder(wire'[Other(r)], unanswered'[r])
      BY <2>5, <3>1
    <3>3. QED BY <3>2 DEF InOrder
  <2>8. QED BY <2>4, <2>6, <2>7
<1>11. QED BY <1>8, <1>9, <1>10 DEF OInv

(* The first request that is not answered is.                              *)
LEMMA ReplyKeeps ==
  ASSUME IInv, OInv, link = "up", link' = link, NEW t \in Sides, NEW c \in Own[Other(t)],
         NEW body \in Payloads \cup {Anonymous}, NEW rest, Rest(t, c, rest),
         handling[t] \in {NoCall, c},
         unanswered[Other(t)] # <<>>, unanswered[Other(t)][1] = c,
         Reply(t, c, body, rest)
  PROVE  OInv'
<1> DEFINE x == Other(t)
<1> DEFINE q == unanswered[x]
<1>1. /\ x \in Sides /\ x # t /\ Other(x) = t /\ c \in Calls /\ c \in Own[x] /\ c \notin Own[t]
      /\ caller[c] = x /\ c # NoCall /\ \A r \in Sides : r = t \/ r = x
  BY SidesFacts, PeersAssumption DEF Own
<1>2. /\ wire' = [wire EXCEPT ![t] = rest, ![x] = Append(wire[x], ResponseTo(c, body))]
      /\ peer' = [peer EXCEPT ![c] = "answered"]
      /\ unanswered' = [unanswered EXCEPT ![x] = Tail(q)]
      /\ handling' = [handling EXCEPT ![t] = NoCall]
  BY <1>1 DEF Reply, IInv, Typed, OInv, Recorded
<1>3. /\ wire'[t] = rest /\ wire'[x] = Append(wire[x], ResponseTo(c, body))
      /\ peer'[c] = "answered" /\ \A d \in Calls : d # c => peer'[d] = peer[d]
      /\ unanswered'[x] = Tail(q) /\ unanswered'[t] = unanswered[t]
      /\ handling'[t] = NoCall /\ handling'[x] = handling[x]
  BY <1>1, <1>2 DEF IInv, Typed, OInv, Recorded
<1>4. /\ wire[x] \in Seq(Messages) /\ wire[t] \in Seq(Messages) /\ q \in Seq(Calls)
      /\ ResponseTo(c, body) \in Messages
      /\ ResponseTo(c, body).type = "response" /\ ResponseTo(c, body).of = c
  BY <1>1, MessagesTyped DEF IInv, Typed, OInv, Recorded
<1>5. Recorded'
  BY <1>1, <1>2, <1>4, QueueTail DEF OInv, Recorded
<1>6. ASSUME NEW d \in Calls, d # c, NEW r \in Sides, NEW type, Has(wire[r], type, d)
      PROVE  Has(wire'[r], type, d)
  <2>1. CASE r = t
    <3>1. Has(wire[t], type, d)
      BY <1>6, <2>1
    <3>2. Has(rest, type, d)
      BY <1>6, <3>1, OthersHave
    <3>3. QED BY <1>3, <2>1, <3>2
  <2>2. CASE r = x
    <3>1. Has(wire[x], type, d)
      BY <1>6, <2>2
    <3>2. Has(Append(wire[x], ResponseTo(c, body)), type, d)
      BY <1>4, <3>1, HasAppend
    <3>3. QED BY <1>3, <2>2, <3>2
  <2>3. QED BY <1>1, <2>1, <2>2
<1>7. Present'
  <2> SUFFICES ASSUME NEW d \in Calls
               PROVE  /\ peer'[d] = "asked" /\ handling'[Other(caller[d])] # d
                           => Has(wire'[Other(caller[d])], "request", d)
                      /\ peer'[d] = "answered" => Has(wire'[caller[d]], "response", d)
    BY DEF Present, Has
  <2>1. caller[d] \in Sides /\ Other(caller[d]) \in Sides
    BY SidesFacts
  <2>2. CASE d = c
    <3>1. Has(Append(wire[x], ResponseTo(c, body)), "response", c)
      BY <1>4, HasAppend
    <3>2. QED BY <1>1, <1>3, <2>2, <3>1
  <2>3. CASE d # c
    <3>1. \A r \in Sides : handling'[r] # d => handling[r] # d
      BY <1>1, <1>3, <2>3, PeersAssumption
    <3>2. QED BY <1>3, <1>6, <2>1, <2>3, <3>1 DEF OInv, Present
  <2>4. QED BY <2>2, <2>3
<1>8. /\ Pending(t) /\ InOrder(wire[x], unanswered[t]) /\ FirstIsHandled(t)
      /\ Pending(x) /\ InOrder(wire[t], q)
  BY <1>1 DEF OInv, Ordered
<1>9. /\ Tail(q) \in Seq(Calls) /\ Len(q) \in Nat \ {0} /\ Len(Tail(q)) = Len(q) - 1
      /\ \A k \in 1..Len(Tail(q)) : k + 1 \in 1..Len(q) /\ Tail(q)[k] = q[k + 1]
      /\ \A k \in 1..Len(q) : k # 1 => k - 1 \in 1..Len(Tail(q)) /\ Tail(q)[k - 1] = q[k]
      /\ 1 \in 1..Len(q)
  BY <1>4, QueueTail
<1>10. Pending(x)'
  <2>1. ASSUME NEW k \in 1..Len(Tail(q))
        PROVE  Tail(q)[k] \in Own[x] /\ peer'[Tail(q)[k]] = "asked"
    <3>1. /\ k + 1 \in 1..Len(q) /\ Tail(q)[k] = q[k + 1] /\ k + 1 # 1 /\ 1 \in 1..Len(q)
          /\ q[1] = c
      BY <1>9
    <3> HIDE DEF q
    <3>2. q[k + 1] \in Own[x] /\ peer[q[k + 1]] = "asked" /\ q[k + 1] # c
      BY <1>8, <3>1 DEF Pending, q
    <3>3. q[k + 1] \in Calls
      BY <1>1, <3>2, SidesFacts
    <3>4. QED BY <1>3, <3>1, <3>2, <3>3
  <2>2. ASSUME NEW d \in Own[x], peer'[d] = "asked"
        PROVE  \E k \in 1..Len(Tail(q)) : Tail(q)[k] = d
    <3>1. d \in Calls /\ d # c
      BY <1>1, <1>3, <2>2, SidesFacts
    <3>2. peer[d] = "asked"
      BY <1>3, <2>2, <3>1
    <3>3. PICK k \in 1..Len(q) : q[k] = d
      BY <1>8, <3>2 DEF Pending
    <3>4. k # 1
      BY <3>1, <3>3
    <3>5. k - 1 \in 1..Len(Tail(q)) /\ Tail(q)[k - 1] = d
      BY <1>9, <3>3, <3>4
    <3>6. QED BY <3>5
  <2>3. ASSUME NEW k \in 1..Len(Tail(q)), NEW l \in 1..Len(Tail(q)), Tail(q)[k] = Tail(q)[l]
        PROVE  k = l
    <3>1. /\ k + 1 \in 1..Len(q) /\ l + 1 \in 1..Len(q) /\ q[k + 1] = q[l + 1]
      BY <1>9, <2>3
    <3>2. k + 1 = l + 1
      BY <1>8, <3>1 DEF Pending
    <3>3. QED BY <3>2
  <2>4. unanswered'[x] = Tail(q)
    BY <1>3
  <2> HIDE DEF q
  <2>5. /\ \A k \in 1..Len(unanswered'[x]) :
             unanswered'[x][k] \in Own[x] /\ peer'[unanswered'[x][k]] = "asked"
        /\ \A d \in Own[x] :
             peer'[d] = "asked" => \E k \in 1..Len(unanswered'[x]) : unanswered'[x][k] = d
        /\ \A k, l \in 1..Len(unanswered'[x]) : unanswered'[x][k] = unanswered'[x][l] => k = l
    BY <2>1, <2>2, <2>3, <2>4
  <2>6. QED BY <2>5 DEF Pending, Own
<1>11. Pending(t)'
  <2>1. \A d \in Own[t] : d # c /\ d \in Calls
    BY <1>1, SidesFacts
  <2>2. QED BY <1>3, <1>8, <2>1 DEF Pending, Own
<1>12. InOrder(wire'[t], unanswered'[x])
  <2>1. InOrder(wire[t], Tail(q))
    BY <1>4, <1>8, OrderQueueTail
  <2>2. CASE wire[t] # <<>> /\ rest = Tail(wire[t])
    <3>1. InOrder(Tail(wire[t]), Tail(q))
      BY <1>4, <2>1, <2>2, OrderTail
    <3>2. QED BY <1>3, <2>2, <3>1
  <2>3. CASE rest = wire[t]
    BY <1>3, <2>1, <2>3
  <2>4. QED BY <2>2, <2>3 DEF Rest
<1>13. InOrder(wire'[x], unanswered'[t])
  <2>1. \A k \in 1..Len(unanswered[t]) : unanswered[t][k] # ResponseTo(c, body).of
    BY <1>1, <1>4, <1>8 DEF Pending
  <2>2. InOrder(Append(wire[x], ResponseTo(c, body)), unanswered[t])
    BY <1>4, <1>8, <2>1, OrderForeign
  <2>3. QED BY <1>3, <2>2
<1>14. FirstIsHandled(x)' /\ FirstIsHandled(t)'
  BY <1>1, <1>3, <1>8 DEF FirstIsHandled
<1>15. Ordered'
  <2>1. ASSUME NEW r \in Sides
        PROVE  Pending(r)' /\ InOrder(wire[Other(r)], unanswered[r])' /\ FirstIsHandled(r)'
    <3>1. Pending(r)' /\ FirstIsHandled(r)'
      BY <1>1, <1>10, <1>11, <1>14
    <3>2. InOrder(wire'[Other(r)], unanswered'[r])
      BY <1>1, <1>12, <1>13
    <3>3. InOrder(wire[Other(r)], unanswered[r])'
      BY <3>2 DEF InOrder
    <3>4. QED BY <3>1, <3>3
  <2>2. QED BY <2>1 DEF Ordered
<1>16. QED BY <1>5, <1>7, <1>15 DEF OInv

(* Either way a call comes to be answered: which one it is.                *)
LEMMA AnsweredIsFirst ==
  ASSUME IInv, OInv, link = "up", NEW s \in Sides,
         (on_request(s) /\ kind[Head(wire[s]).id] \notin {"recursive", "background"}) \/ MethodReturns(s)
  PROVE  \E c \in Own[Other(s)] : \E body \in Payloads \cup {Anonymous} : \E rest :
           /\ Rest(s, c, rest) /\ Reply(s, c, body, rest) /\ handling[s] \in {NoCall, c}
           /\ unanswered[Other(s)] # <<>> /\ unanswered[Other(s)][1] = c /\ link' = link
<1>1. CASE on_request(s) /\ kind[Head(wire[s]).id] \notin {"recursive", "background"}
  <2> DEFINE c == Head(wire[s]).id
  <2>1. c \in Own[Other(s)] /\ Rest(s, c, Tail(wire[s])) /\ link' = link
    BY <1>1, RequestRead DEF on_request
  <2>2. handling[s] = NoCall
    BY <1>1 DEF on_request, IInv, Busy
  <2>3. unanswered[Other(s)] # <<>> /\ unanswered[Other(s)][1] = c
    BY <1>1, <2>2, FirstRequest DEF on_request
  <2>4. PICK body \in Payloads \cup {Anonymous} : Reply(s, c, body, Tail(wire[s]))
    BY <1>1, RequestAnswered
  <2> HIDE DEF c
  <2>5. QED BY <2>1, <2>2, <2>3, <2>4
<1>2. CASE MethodReturns(s)
  <2> DEFINE c == handling[s]
  <2>1. c \in Own[Other(s)] /\ c \in Calls /\ Rest(s, c, wire[s]) /\ link' = link
    BY <1>2, SidesFacts DEF MethodReturns, IInv, Busy, Rest
  <2>2. PICK is \in {"ok", "error"} : Reply(s, c, Body(c, is), wire[s])
    BY <1>2 DEF MethodReturns
  <2>3. Body(c, is) \in Payloads
    BY <2>1, MessagesTyped
  <2>4. unanswered[Other(s)] # <<>> /\ unanswered[Other(s)][1] = c
    <3>1. FirstIsHandled(Other(s)) /\ Other(Other(s)) = s
      BY SidesFacts DEF OInv, Ordered
    <3>2. c # NoCall
      BY <2>1, PeersAssumption
    <3>3. QED BY <3>1, <3>2 DEF FirstIsHandled
  <2> HIDE DEF c
  <2>5. QED BY <2>1, <2>2, <2>3, <2>4 DEF c
<1>3. QED BY <1>1, <1>2

(* Any other step, and any after the connection has ended.                 *)
LEMMA QuietKeeps ==
  ASSUME OInv, unanswered' = unanswered, link' = "up" => link = "up",
         link' = "up" => UNCHANGED <<peer, wire, handling>>
  PROVE  OInv'
<1>1. Recorded'
  BY DEF OInv, Recorded
<1>2. Present'
  BY DEF OInv, Present, Has
<1>3. Ordered'
  <2> SUFFICES ASSUME link' = "up", NEW s \in Sides
               PROVE  Pending(s)' /\ InOrder(wire[Other(s)], unanswered[s])' /\ FirstIsHandled(s)'
    BY DEF Ordered
  <2>1. Pending(s) /\ InOrder(wire[Other(s)], unanswered[s]) /\ FirstIsHandled(s)
    BY DEF OInv, Ordered
  <2>2. wire'[Other(s)] = wire[Other(s)] /\ unanswered'[s] = unanswered[s]
    OBVIOUS
  <2>3. InOrder(wire'[Other(s)], unanswered'[s])
    BY <2>1, <2>2
  <2>4. InOrder(wire[Other(s)], unanswered[s])'
    BY <2>3 DEF InOrder
  <2>5. Pending(s)' /\ FirstIsHandled(s)'
    BY <2>1 DEF Pending, Own, FirstIsHandled
  <2>6. QED BY <2>4, <2>5
<1>4. QED BY <1>1, <1>2, <1>3 DEF OInv

LEMMA CallKeeps ==
  ASSUME IInv, OInv, NEW c \in Calls,
         \/ async_call(c) \/ async_call_resume(c) \/ async_call_send_fails(c)
         \/ wait_for_response(c) \/ wait_for_response_raises(c)
  PROVE  OInv'
<1>1. CASE async_call(c)
  BY <1>1, AskKeeps DEF async_call
<1>2. CASE ~async_call(c)
  <2>1. UNCHANGED <<link, unanswered, peer, wire, handling>>
    BY <1>2 DEF async_call_resume, async_call_send_fails, wait_for_response,
                wait_for_response_raises, readers
  <2>2. QED BY <2>1, QuietKeeps
<1>3. QED BY <1>1, <1>2

LEMMA ReaderKeeps ==
  ASSUME IInv, OInv, NEW s \in Sides,
         \/ on_request(s) \/ on_response(s) \/ MethodReturns(s) \/ ReplySent(s)
         \/ ReaderSeesEnd(s)
  PROVE  OInv'
<1>1. CASE link # "up"
  <2>1. link' = link /\ unanswered' = unanswered
    BY <1>1 DEF on_request, on_response, Takes, MethodReturns, ReplySent, ReaderSeesEnd, Reply
  <2>2. QED BY <1>1, <2>1, QuietKeeps
<1>2. CASE link = "up"
  <2>1. CASE on_request(s) /\ kind[Head(wire[s]).id] \in {"recursive", "background"}
    <3>1. /\ reader[s] = "reading" /\ wire[s] # <<>> /\ Head(wire[s]).type = "request"
          /\ wire' = [wire EXCEPT ![s] = Tail(wire[s])]
          /\ handling' = [handling EXCEPT ![s] = Head(wire[s]).id]
          /\ UNCHANGED <<peer, link, unanswered>>
      BY <2>1 DEF on_request, calls
    <3>2. QED BY <1>2, <3>1, StartKeeps
  <2>2. CASE (on_request(s) /\ kind[Head(wire[s]).id] \notin {"recursive", "background"}) \/ MethodReturns(s)
    <3>1. PICK c \in Own[Other(s)], body \in Payloads \cup {Anonymous} : \E rest :
             /\ Rest(s, c, rest) /\ Reply(s, c, body, rest) /\ handling[s] \in {NoCall, c}
             /\ unanswered[Other(s)] # <<>> /\ unanswered[Other(s)][1] = c /\ link' = link
      BY <1>2, <2>2, AnsweredIsFirst
    <3>2. QED BY <1>2, <3>1, ReplyKeeps
  <2>3. CASE on_response(s)
    BY <1>2, <2>3, TakeKeeps
  <2>4. CASE ReplySent(s) \/ ReaderSeesEnd(s)
    <3>1. UNCHANGED <<link, unanswered, peer, wire, handling>>
      BY <2>4 DEF ReplySent, ReaderSeesEnd, calls
    <3>2. QED BY <3>1, QuietKeeps
  <2>5. QED BY <2>1, <2>2, <2>3, <2>4
<1>3. QED BY <1>1, <1>2

LEMMA OrderStep == IInv /\ OInv /\ [Next]_vars => OInv'
<1> SUFFICES ASSUME IInv, OInv, [Next]_vars PROVE OInv'
  OBVIOUS
<1>1. ASSUME NEW c \in Calls,
             \/ async_call(c) \/ async_call_resume(c) \/ async_call_send_fails(c)
             \/ wait_for_response(c) \/ wait_for_response_raises(c)
      PROVE  OInv'
  BY <1>1, CallKeeps
<1>2. ASSUME NEW s \in Sides,
             \/ on_request(s) \/ on_response(s) \/ MethodReturns(s) \/ ReplySent(s)
             \/ ReaderSeesEnd(s)
      PROVE  OInv'
  BY <1>2, ReaderKeeps
<1>3. CASE LinkDrops \/ UserCloses \/ ReaderFails \/ UNCHANGED vars
  <2>1. UNCHANGED <<unanswered, peer, wire, handling>> /\ (link' = "up" => link = "up")
    BY <1>3 DEF LinkDrops, UserCloses, ReaderFails, vars, calls, readers
  <2>2. QED BY <2>1, QuietKeeps
<1>4. QED BY <1>1, <1>2, <1>3 DEF Next

LEMMA OrderInvariance == SafeSpec => [](IInv /\ OInv)
<1>1. QED BY Initially, Starts, InductiveStep, OrderStep, PTL DEF SafeSpec

-----------------------------------------------------------------------------
(* What they say.                                                          *)

LEMMA OneOnWire ==
  ASSUME IInv, NEW s \in Sides, NEW type, NEW c
  PROVE  Cardinality(OnWire(s, type, c)) = IF Has(wire[s], type, c) THEN 1 ELSE 0
<1>1. DOMAIN wire[s] = 1..Len(wire[s])
  BY DEF IInv, Typed
<1>2. CASE Has(wire[s], type, c)
  <2>1. PICK i \in 1..Len(wire[s]) : wire[s][i].type = type /\ wire[s][i].of = c
    BY <1>2 DEF Has
  <2>2. OnWire(s, type, c) = {i}
    BY <1>1, <2>1 DEF OnWire, IInv, Single
  <2>3. QED BY <1>2, <2>2, FS_Singleton
<1>3. CASE ~Has(wire[s], type, c)
  <2>1. OnWire(s, type, c) = {}
    BY <1>1, <1>3 DEF OnWire, Has
  <2>2. QED BY <1>3, <2>1, FS_EmptySet
<1>4. QED BY <1>2, <1>3

LEMMA InvariantMeans == IInv /\ OInv => TypeOK /\ NothingVanishes
<1> SUFFICES ASSUME IInv, OInv PROVE TypeOK /\ NothingVanishes
  OBVIOUS
<1>1. TypeOK
  BY DEF IInv, OInv, Typed, Recorded, TypeOK
<1>2. ASSUME link = "up", NEW c \in Calls
      PROVE  /\ Has(wire[Other(caller[c])], "request", c)
                  <=> peer[c] = "asked" /\ handling[Other(caller[c])] # c
             /\ Has(wire[caller[c]], "response", c) <=> peer[c] = "answered"
  <2>1. caller[c] \in Sides /\ Other(caller[c]) \in Sides
    BY SidesFacts
  <2>2. \A s \in Sides : \A i \in 1..Len(wire[s]) : Fits(s, wire[s][i])
    BY DEF IInv, Carried
  <2>3. Has(wire[Other(caller[c])], "request", c)
            => peer[c] = "asked" /\ handling[Other(caller[c])] # c
    BY <2>1, <2>2 DEF Has, Fits
  <2>4. Has(wire[caller[c]], "response", c) => peer[c] = "answered"
    BY <2>1, <2>2 DEF Has, Fits
  <2>5. QED BY <1>2, <2>3, <2>4 DEF OInv, Present
<1>3. ASSUME link = "up", NEW c \in Calls
      PROVE  /\ Cardinality(OnWire(Other(caller[c]), "request", c)) =
                  IF peer[c] = "asked" /\ handling[Other(caller[c])] # c THEN 1 ELSE 0
             /\ Cardinality(OnWire(caller[c], "response", c)) =
                  IF peer[c] = "answered" THEN 1 ELSE 0
  <2>1. caller[c] \in Sides /\ Other(caller[c]) \in Sides
    BY SidesFacts
  <2>2. QED BY <1>2, <1>3, <2>1, OneOnWire
<1>4. QED BY <1>1, <1>3 DEF NothingVanishes

(* Every state of every instance has its type, and the history, which is   *)
(* shortened by each answer (Reply in on_request), is never short of one.  *)
THEOREM PeersTypeCorrect == SafeSpec => []TypeOK
<1>1. QED BY OrderInvariance, InvariantMeans, PTL

(* Whatever the calls, and however requests, answers and nested calls of   *)
(* both sides interleave (async_call, on_message, on_request): while the   *)
(* connection lasts an unanswered request is on its way or its method runs,*)
(* and an answer that is not read is on its way, each exactly once.        *)
THEOREM NothingIsLost == SafeSpec => []NothingVanishes
<1>1. QED BY OrderInvariance, InvariantMeans, PTL

(* However many calls are pending, and whatever their methods await, the   *)
(* one reader of a side (main_loop, reader) answers the requests in the    *)
(* order the other side's async_call sent them.                            *)
THEOREM AnswersKeepOrder == SafeSpec => AnswersInOrder
<1>1. ASSUME IInv, OInv, NEW c \in Calls, peer[c] = "asked", peer'[c] = "answered", [Next]_vars
      PROVE  c = Head(unanswered[caller[c]])
  <2>1. ASSUME NEW d \in Calls,
               \/ async_call(d) \/ async_call_resume(d) \/ async_call_send_fails(d)
               \/ wait_for_response(d) \/ wait_for_response_raises(d)
        PROVE  FALSE
    <3>1. peer' = peer \/ peer' = [peer EXCEPT ![d] = "asked"]
      BY <2>1 DEF async_call, async_call_resume, async_call_send_fails, wait_for_response,
                  wait_for_response_raises
    <3>2. QED BY <1>1, <3>1 DEF IInv, Typed
  <2>2. ASSUME NEW s \in Sides, on_request(s) \/ MethodReturns(s)
        PROVE  c = Head(unanswered[caller[c]])
    <3>1. link = "up" /\ ~(on_request(s) /\ kind[Head(wire[s]).id] \in {"recursive", "background"})
      BY <1>1, <2>2 DEF on_request, MethodReturns, Reply, calls
    <3>2. PICK d \in Own[Other(s)], body \in Payloads \cup {Anonymous} : \E rest :
             /\ Reply(s, d, body, rest)
             /\ unanswered[Other(s)] # <<>> /\ unanswered[Other(s)][1] = d
      BY <1>1, <2>2, <3>1, AnsweredIsFirst
    <3>3. peer' = [peer EXCEPT ![d] = "answered"]
      BY <3>1, <3>2 DEF Reply
    <3>4. c = d
      BY <1>1, <3>3 DEF IInv, Typed
    <3>5. caller[c] = Other(s)
      BY <3>4, SidesFacts
    <3>6. unanswered[Other(s)] \in Seq(Calls)
      BY <1>1, SidesFacts DEF OInv, Recorded
    <3>7. QED BY <3>2, <3>4, <3>5, <3>6, HeadTailProperties
  <2>3. ASSUME NEW s \in Sides, on_response(s) \/ ReplySent(s) \/ ReaderSeesEnd(s)
        PROVE  FALSE
    <3>1. peer' = peer \/ peer' = [peer EXCEPT ![Head(wire[s]).of] = "delivered"]
      BY <2>3 DEF on_response, Takes, ReplySent, ReaderSeesEnd, calls
    <3>2. QED BY <1>1, <3>1 DEF IInv, Typed
  <2>4. ASSUME LinkDrops \/ UserCloses \/ ReaderFails \/ UNCHANGED vars PROVE FALSE
    BY <1>1, <2>4 DEF LinkDrops, UserCloses, ReaderFails, vars, calls
  <2>5. QED BY <1>1, <2>1, <2>2, <2>3, <2>4 DEF Next
<1>2. IInv /\ OInv /\ [Next]_vars
        => [\A c \in Calls : (peer[c] = "asked" /\ peer'[c] = "answered")
                               => c = Head(unanswered[caller[c]])]_vars
  BY <1>1
<1>3. QED BY <1>2, OrderInvariance, PTL DEF SafeSpec, AnswersInOrder

-----------------------------------------------------------------------------
(* Why a method that calls its caller back has no success (the run         *)
(* peers_recursive shows one that never ends).                             *)

(* A saved response has been read.                                         *)
Heard ==
  \A c \in Calls : responses[c] # NoResponse \/ task[c] = "returned" => peer[c] = "delivered"

(* The nested call waits for the method, and its answer for the reader.    *)
Alone(b) ==
  LET s == Other(caller[b]) IN
    /\ handling[s] = b => peer[child[b]] # "delivered"
    /\ peer[b] = "unasked" \/ Has(wire[s], "request", b) => task[child[b]] = "idle"
    /\ answer[b] # Body(b, "ok")

Recursive == {c \in Calls : kind[c] = "recursive"}

RInv == Heard /\ \A b \in Recursive : Alone(b)

LEMMA RecursiveFacts ==
  ASSUME NEW b \in Recursive
  PROVE  /\ b \in Calls /\ child[b] \in Calls /\ child[b] # b /\ kind[b] = "recursive"
         /\ caller[child[b]] = Other(caller[b]) /\ Other(caller[b]) \in Sides
         /\ Body(b, "ok") \in Payloads /\ b # NoCall
<1>1. b \in Calls /\ kind[b] = "recursive" /\ child[b] \in Calls
  BY PeersAssumption DEF Recursive
<1>2. caller[child[b]] = Other(caller[b]) /\ b # NoCall
  BY <1>1, PeersAssumption
<1>3. QED BY <1>1, <1>2, SidesFacts, MessagesTyped

LEMMA RecursiveStarts == Init => RInv
<1> SUFFICES ASSUME Init PROVE RInv
  OBVIOUS
<1>1. Heard
  BY DEF Init, Heard
<1>2. ASSUME NEW b \in Recursive PROVE Alone(b)
  <2>1. handling[Other(caller[b])] # b /\ wire[Other(caller[b])] = <<>>
    BY RecursiveFacts DEF Init
  <2>2. task[child[b]] = "idle"
    BY RecursiveFacts DEF Init
  <2>3. answer[b] # Body(b, "ok")
    BY RecursiveFacts, PeersAssumption DEF Init
  <2>4. QED BY <2>1, <2>2, <2>3 DEF Alone
<1>3. QED BY <1>1, <1>2 DEF RInv

(* A request that waits to be read keeps the nested call from being made.  *)
LEMMA NotYetHandled ==
  ASSUME IInv, NEW b \in Recursive, Has(wire[Other(caller[b])], "request", b)
  PROVE  peer[b] = "asked" /\ handling[Other(caller[b])] # b
<1>1. Other(caller[b]) \in Sides
  BY RecursiveFacts
<1>2. PICK i \in 1..Len(wire[Other(caller[b])]) :
        wire[Other(caller[b])][i].type = "request" /\ wire[Other(caller[b])][i].of = b
  BY DEF Has
<1>3. Fits(Other(caller[b]), wire[Other(caller[b])][i])
  BY <1>1, <1>2 DEF IInv, Carried
<1>4. QED BY <1>2, <1>3 DEF Fits

LEMMA HasAppended ==
  ASSUME NEW w \in Seq(Messages), NEW m \in Messages, NEW c,
         Has(Append(w, m), "request", c), m.type # "request" \/ m.of # c
  PROVE  Has(w, "request", c)
<1>1. PICK i \in 1..Len(Append(w, m)) :
        Append(w, m)[i].type = "request" /\ Append(w, m)[i].of = c
  BY DEF Has
<1>2. /\ Len(w) \in Nat /\ Len(Append(w, m)) = Len(w) + 1
      /\ \A j \in 1..Len(w) : Append(w, m)[j] = w[j]
      /\ Append(w, m)[Len(w) + 1] = m
  BY Appended
<1>3. i # Len(w) + 1
  BY <1>1, <1>2
<1>4. i \in 1..Len(w)
  BY <1>1, <1>2, <1>3
<1>5. QED BY <1>1, <1>2, <1>4 DEF Has

LEMMA HadInTail ==
  ASSUME NEW w \in Seq(Messages), w # <<>>, NEW type, NEW c, Has(Tail(w), type, c)
  PROVE  Has(w, type, c)
<1>1. PICK i \in 1..Len(Tail(w)) : Tail(w)[i].type = type /\ Tail(w)[i].of = c
  BY DEF Has
<1>2. /\ Len(w) \in Nat \ {0} /\ Len(Tail(w)) = Len(w) - 1
      /\ Tail(w)[i] = w[i + 1]
  BY <1>1, Removed
<1>3. i + 1 \in 1..Len(w)
  BY <1>1, <1>2
<1>4. QED BY <1>1, <1>2, <1>3 DEF Has

(* A call is made, or ends.                                                *)
LEMMA CallAlone ==
  ASSUME IInv, RInv, NEW c \in Calls,
         \/ async_call(c) \/ async_call_resume(c) \/ async_call_send_fails(c)
         \/ wait_for_response(c) \/ wait_for_response_raises(c)
  PROVE  RInv'
<1>1. Heard'
  <2>1. /\ \A d \in Calls : responses'[d] # NoResponse => responses[d] # NoResponse
        /\ \A d \in Calls : task'[d] = "returned" =>
              task[d] = "returned" \/ responses[d] # NoResponse
    BY DEF async_call, async_call_resume, async_call_send_fails, wait_for_response, TakeResponse,
           clear_saved_call, wait_for_response_raises, SavePromise, chan, IInv, Typed
  <2>2. \A d \in Calls : peer[d] = "delivered" => peer'[d] = "delivered"
    <3>1. peer' = peer \/ (peer' = [peer EXCEPT ![c] = "asked"] /\ peer[c] = "unasked")
      BY DEF async_call, async_call_resume, async_call_send_fails, wait_for_response,
             wait_for_response_raises, IInv, Unasked
    <3>2. QED BY <3>1 DEF IInv, Typed
  <2>3. QED BY <2>1, <2>2 DEF RInv, Heard
<1>2. ASSUME NEW b \in Recursive PROVE Alone(b)'
  <2> DEFINE d == child[b]
  <2> DEFINE s == Other(caller[b])
  <2>1. /\ b \in Calls /\ d \in Calls /\ d # b /\ s \in Sides /\ caller[d] = s
        /\ kind[b] = "recursive" /\ b # NoCall
    BY RecursiveFacts
  <2>2. Alone(b)
    BY DEF RInv
  <2>3. handling' = handling /\ answer' = answer
    BY DEF async_call, async_call_resume, async_call_send_fails, wait_for_response,
           wait_for_response_raises, readers
  <2>4. handling[s] = b => peer[b] = "asked" /\ ~Has(wire[s], "request", b)
    BY <2>1, NotYetHandled DEF IInv, Busy
  <2>5. CASE c = d
    <3>1. task[d] # "idle" \/ handling[s] = b
      BY <2>1, <2>5 DEF async_call, async_call_resume, async_call_send_fails, wait_for_response,
             wait_for_response_raises, WaitIsOver, Ready
    <3>2. peer[b] # "unasked" /\ ~Has(wire[s], "request", b)
      BY <2>2, <2>4, <3>1 DEF Alone
    <3>3. peer'[b] = peer[b] /\ (peer'[d] = peer[d] \/ peer'[d] = "asked")
      BY <2>1, <2>5 DEF async_call, async_call_resume, async_call_send_fails, wait_for_response,
             wait_for_response_raises, IInv, Typed
    <3>4. wire'[s] = wire[s]
      <4>1. Other(s) # s
        BY <2>1, SidesFacts
      <4>2. wire' = wire \/ \E q : wire' = [wire EXCEPT ![Other(s)] = q]
        BY <2>1, <2>5 DEF async_call, async_call_resume, async_call_send_fails,
             wait_for_response, wait_for_response_raises
      <4>3. QED BY <2>1, <4>1, <4>2 DEF IInv, Typed
    <3>5. QED BY <2>2, <2>3, <3>2, <3>3, <3>4 DEF Alone, Has
  <2>6. CASE c # d
    <3>1. task'[d] = task[d] /\ peer'[d] = peer[d]
      BY <2>1, <2>6 DEF async_call, async_call_resume, async_call_send_fails, wait_for_response,
             TakeResponse, wait_for_response_raises, SavePromise, IInv, Typed
    <3>2. CASE c = b /\ async_call(c)
      <4>1. peer[b] = "unasked"
        BY <3>2 DEF async_call, IInv, Unasked
      <4>2. QED BY <2>2, <2>3, <3>1, <4>1 DEF Alone
    <3>3. CASE c # b /\ async_call(c)
      <4>1. peer'[b] = peer[b]
        BY <2>1, <3>3 DEF async_call, IInv, Typed
      <4>2. ASSUME Has(wire'[s], "request", b) PROVE Has(wire[s], "request", b)
        <5>1. wire'[s] = wire[s] \/ wire'[s] = Append(wire[s], RequestOf(c))
          BY <2>1, <3>3 DEF async_call, IInv, Typed
        <5>2. wire[s] \in Seq(Messages) /\ RequestOf(c) \in Messages /\ RequestOf(c).of # b
          BY <2>1, <3>3, MessagesTyped DEF IInv, Typed
        <5>3. CASE wire'[s] = wire[s]
          BY <4>2, <5>3
        <5>4. CASE wire'[s] = Append(wire[s], RequestOf(c))
          BY <4>2, <5>2, <5>4, HasAppended
        <5>5. QED BY <5>1, <5>3, <5>4
      <4>3. Has(wire[s], "request", b)' => Has(wire[s], "request", b)
        BY <4>2 DEF Has
      <4>4. QED BY <2>2, <2>3, <3>1, <4>1, <4>3 DEF Alone
    <3>4. CASE ~async_call(c)
      <4>1. peer' = peer /\ wire' = wire
        BY <3>4 DEF async_call_resume, async_call_send_fails, wait_for_response,
             wait_for_response_raises
      <4>2. QED BY <2>2, <2>3, <3>1, <4>1 DEF Alone, Has
    <3>5. QED BY <3>2, <3>3, <3>4
  <2>7. QED BY <2>5, <2>6
<1>3. QED BY <1>1, <1>2 DEF RInv

(* A saved response belongs to a call that has been made.                  *)
LEMMA SavedWasMade ==
  ASSUME IInv, Heard, NEW c \in Calls, responses[c] # NoResponse
  PROVE  task[c] # "idle"
BY DEF IInv, Unasked, Heard

(* The request of b is read: no nested call of it is made yet.             *)
LEMMA StartAlone ==
  ASSUME IInv, RInv, NEW s \in Sides, reader[s] = "reading",
         wire[s] # <<>>, Head(wire[s]).type = "request",
         wire' = [wire EXCEPT ![s] = Tail(wire[s])],
         handling' = [handling EXCEPT ![s] = Head(wire[s]).id],
         UNCHANGED calls
  PROVE  RInv'
<1>1. UNCHANGED <<task, responses, peer, answer>>
  BY DEF calls, chan
<1>2. Heard'
  BY <1>1 DEF RInv, Heard
<1>3. ASSUME NEW b \in Recursive PROVE Alone(b)'
  <2> DEFINE t == Other(caller[b])
  <2>1. b \in Calls /\ child[b] \in Calls /\ t \in Sides
    BY RecursiveFacts
  <2>2. Alone(b)
    BY DEF RInv
  <2>3. wire[s] \in Seq(Messages) /\ 1 \in 1..Len(wire[s]) /\ Head(wire[s]) = wire[s][1]
    BY Removed DEF IInv, Typed
  <2>4. handling'[t] = b => peer[child[b]] # "delivered"
    <3>1. CASE t = s /\ Head(wire[s]).id = b
      <4>1. Head(wire[s]).of = b
        BY <3>1, RequestRead
      <4>2. Has(wire[t], "request", b)
        BY <2>3, <3>1, <4>1 DEF Has
      <4>3. task[child[b]] = "idle"
        BY <2>2, <4>2 DEF Alone
      <4>4. QED BY <2>1, <4>3 DEF IInv, Unasked
    <3>2. CASE ~(t = s /\ Head(wire[s]).id = b)
      <4>1. handling'[t] = b => handling[t] = b
        BY <2>1, <3>2 DEF IInv, Typed
      <4>2. QED BY <2>2, <4>1 DEF Alone
    <3>3. QED BY <3>1, <3>2
  <2>5. Has(wire'[t], "request", b) => Has(wire[t], "request", b)
    <3>1. wire'[t] = wire[t] \/ (t = s /\ wire'[t] = Tail(wire[s]))
      BY <2>1 DEF IInv, Typed
    <3>2. QED BY <2>3, <3>1, HadInTail
  <2>6. Has(wire[t], "request", b)' => Has(wire[t], "request", b)
    BY <2>5 DEF Has
  <2>7. QED BY <1>1, <2>2, <2>4, <2>6 DEF Alone
<1>4. QED BY <1>2, <1>3 DEF RInv

(* A call is answered, with success if its method makes no nested call.    *)
LEMMA ReplyAlone ==
  ASSUME IInv, RInv, NEW t \in Sides, NEW c \in Own[Other(t)], peer[c] = "asked",
         NEW body \in Payloads \cup {Anonymous}, NEW rest, Rest(t, c, rest),
         Reply(t, c, body, rest),
         c \in Recursive => body # Body(c, "ok"),
         \/ UNCHANGED <<task, requests, responses, result>>
         \/ \E e \in Calls : responses[e] # NoResponse /\ TakeResponse(e)
  PROVE  RInv'
<1> DEFINE x == Other(t)
<1>1. c \in Calls /\ x \in Sides /\ x # t
  BY SidesFacts
<1>2. /\ \A d \in Calls : responses'[d] # NoResponse => responses[d] # NoResponse
      /\ \A d \in Calls : task'[d] = "returned" => task[d] = "returned" \/ responses[d] # NoResponse
      /\ \A d \in Calls : task[d] = "idle" => task'[d] = "idle"
  <2>1. CASE UNCHANGED <<task, requests, responses, result>>
    BY <2>1
  <2>2. ASSUME NEW e \in Calls, responses[e] # NoResponse, TakeResponse(e)
        PROVE  /\ \A d \in Calls : responses'[d] # NoResponse => responses[d] # NoResponse
               /\ \A d \in Calls : task'[d] = "returned"
                                     => task[d] = "returned" \/ responses[d] # NoResponse
               /\ \A d \in Calls : task[d] = "idle" => task'[d] = "idle"
    <3>1. task[e] # "idle"
      BY <2>2, SavedWasMade DEF RInv
    <3>2. /\ task' = [task EXCEPT ![e] = "returned"]
          /\ responses' = [responses EXCEPT ![e] = NoResponse]
      BY <2>2 DEF TakeResponse, clear_saved_call
    <3>3. QED BY <2>2, <3>1, <3>2 DEF IInv, Typed
  <2>3. QED BY <2>1, <2>2
<1>3. /\ \A d \in Calls : peer'[d] = "delivered" <=> peer[d] = "delivered"
      /\ \A d \in Calls : peer'[d] = "unasked" => peer[d] = "unasked"
  <2>1. peer' = peer \/ peer' = [peer EXCEPT ![c] = "answered"]
    BY DEF Reply
  <2>2. QED BY <1>1, <2>1 DEF IInv, Typed
<1>4. \A d \in Calls : answer'[d] = answer[d] \/ (d = c /\ answer'[d] = body)
  <2>1. answer' = answer \/ answer' = [answer EXCEPT ![c] = body]
    BY DEF Reply
  <2>2. QED BY <1>1, <2>1 DEF IInv, Typed
<1>5. \A s \in Sides : handling'[s] \in {handling[s], NoCall}
  BY DEF Reply, IInv, Typed
<1>6. ASSUME NEW s \in Sides, NEW b, Has(wire'[s], "request", b)
      PROVE  Has(wire[s], "request", b)
  <2>1. wire[s] \in Seq(Messages) /\ wire[t] \in Seq(Messages)
    BY DEF IInv, Typed
  <2>2. ResponseTo(c, body) \in Messages /\ ResponseTo(c, body).type = "response"
    BY <1>1, MessagesTyped
  <2>3. \/ s = t /\ wire'[s] = rest
        \/ s = x /\ wire'[s] \in {wire[s], Append(wire[s], ResponseTo(c, body))}
    BY <1>1, SidesFacts DEF Reply, IInv, Typed
  <2>4. CASE s = t /\ wire'[s] = rest
    <3>1. CASE wire[t] # <<>> /\ rest = Tail(wire[t])
      BY <1>6, <2>1, <2>4, <3>1, HadInTail
    <3>2. CASE rest = wire[t]
      BY <1>6, <2>4, <3>2
    <3>3. QED BY <3>1, <3>2 DEF Rest
  <2>5. CASE wire'[s] = Append(wire[s], ResponseTo(c, body))
    BY <1>6, <2>1, <2>2, <2>5, HasAppended
  <2>6. CASE wire'[s] = wire[s]
    BY <1>6, <2>6
  <2>7. QED BY <2>3, <2>4, <2>5, <2>6
<1>7. Heard'
  BY <1>2, <1>3 DEF RInv, Heard
<1>8. ASSUME NEW b \in Recursive PROVE Alone(b)'
  <2> DEFINE s == Other(caller[b])
  <2>1. b \in Calls /\ child[b] \in Calls /\ s \in Sides /\ b # NoCall
    BY RecursiveFacts
  <2>2. Alone(b)
    BY DEF RInv
  <2>3. handling'[s] = b => peer'[child[b]] # "delivered"
    BY <1>3, <1>5, <2>1, <2>2 DEF Alone
  <2>4. Has(wire[s], "request", b)' => Has(wire[s], "request", b)
    BY <1>6, <2>1 DEF Has
  <2>5. peer'[b] = "unasked" \/ Has(wire[s], "request", b)' => task'[child[b]] = "idle"
    BY <1>2, <1>3, <2>1, <2>2, <2>4 DEF Alone
  <2>6. answer'[b] # Body(b, "ok")
    BY <1>4, <2>1, <2>2 DEF Alone
  <2>7. QED BY <2>3, <2>5, <2>6 DEF Alone
<1>9. QED BY <1>7, <1>8 DEF RInv

(* A response is read, so no method is running on this side.               *)
LEMMA TakeAlone ==
  ASSUME IInv, RInv, NEW s \in Sides, on_response(s)
  PROVE  RInv'
<1> DEFINE m == Head(wire[s])
<1> DEFINE c == m.of
<1>1. /\ wire[s] \in Seq(Messages) /\ wire[s] # <<>> /\ m.type = "response"
      /\ reader[s] = "reading" /\ Takes(s, m, m.id, m.id \in requests)
  BY DEF on_response, Reads, IInv, Typed
<1>2. m = wire[s][1] /\ 1 \in 1..Len(wire[s])
  BY <1>1, Removed
<1>3. Fits(s, m)
  BY <1>2 DEF IInv, Carried
<1>4. c \in Own[s] /\ c \in Calls /\ peer[c] = "answered" /\ m.id \in {NoCall, c}
  BY <1>1, <1>3, SidesFacts DEF Fits
<1>5. NoCall \notin requests
  BY PeersAssumption DEF IInv, Typed
<1> HIDE DEF m
<1>6. /\ peer' = [peer EXCEPT ![c] = "delivered"]
      /\ wire' = [wire EXCEPT ![s] = Tail(wire[s])]
      /\ UNCHANGED <<task, answer, handling>>
      /\ responses' = responses \/ responses' = [responses EXCEPT ![c] = m.body]
  BY <1>1, <1>4, <1>5 DEF Takes, readers
<1> HIDE DEF c
<1>7. peer'[c] = "delivered" /\ \A d \in Calls : d # c => peer'[d] = peer[d]
  BY <1>4, <1>6 DEF IInv, Typed
<1>8. Heard'
  <2>1. \A d \in Calls : d # c => responses'[d] = responses[d]
    BY <1>6 DEF IInv, Typed
  <2>2. QED BY <1>6, <1>7, <2>1 DEF RInv, Heard
<1>9. ASSUME NEW b \in Recursive PROVE Alone(b)'
  <2> DEFINE t == Other(caller[b])
  <2>1. b \in Calls /\ child[b] \in Calls /\ t \in Sides /\ caller[child[b]] = t /\ b # NoCall
    BY RecursiveFacts
  <2>2. Alone(b)
    BY DEF RInv
  <2>3. handling[t] = b => child[b] # c
    <3>1. child[b] = c => t = s
      BY <1>4, <2>1 DEF Own
    <3>2. handling[s] = NoCall
      BY <1>1 DEF IInv, Busy
    <3>3. QED BY <2>1, <3>1, <3>2
  <2>4. handling'[t] = b => peer'[child[b]] # "delivered"
    BY <1>6, <1>7, <2>1, <2>2, <2>3 DEF Alone
  <2>5. Has(wire'[t], "request", b) => Has(wire[t], "request", b)
    <3>1. wire'[t] = wire[t] \/ (t = s /\ wire'[t] = Tail(wire[s]))
      BY <1>6, <2>1 DEF IInv, Typed
    <3>2. QED BY <1>1, <3>1, HadInTail
  <2>6. Has(wire[t], "request", b)' => Has(wire[t], "request", b)
    BY <2>5 DEF Has
  <2>7. peer'[b] = "unasked" => peer[b] = "unasked"
    BY <1>7, <2>1
  <2>8. QED BY <1>6, <2>2, <2>4, <2>6, <2>7 DEF Alone
<1>10. QED BY <1>8, <1>9 DEF RInv

LEMMA ReaderAlone ==
  ASSUME IInv, RInv, NEW s \in Sides,
         \/ on_request(s) \/ on_response(s) \/ MethodReturns(s) \/ ReplySent(s)
         \/ ReaderSeesEnd(s)
  PROVE  RInv'
<1>1. CASE on_request(s) /\ kind[Head(wire[s]).id] \in {"recursive", "background"}
  <2>1. /\ reader[s] = "reading" /\ wire[s] # <<>> /\ Head(wire[s]).type = "request"
        /\ wire' = [wire EXCEPT ![s] = Tail(wire[s])]
        /\ handling' = [handling EXCEPT ![s] = Head(wire[s]).id]
        /\ UNCHANGED calls
    BY <1>1 DEF on_request
  <2>2. QED BY <2>1, StartAlone
<1>2. CASE on_request(s) /\ kind[Head(wire[s]).id] \notin {"recursive", "background"}
  <2> DEFINE c == Head(wire[s]).id
  <2>1. c \in Own[Other(s)] /\ peer[c] = "asked" /\ Rest(s, c, Tail(wire[s])) /\ c \in Calls
    BY <1>2, RequestRead DEF on_request
  <2>2. PICK body \in Payloads \cup {Anonymous} :
          /\ Reply(s, c, body, Tail(wire[s]))
          /\ \/ UNCHANGED <<task, requests, responses, result>>
             \/ kind[c] = "fetch" /\ responses[child[c]] # NoResponse /\ TakeResponse(child[c])
    BY <1>2, RequestAnswered
  <2>3. c \notin Recursive
    BY <1>2 DEF Recursive
  <2> HIDE DEF c
  <2>4. kind[c] = "fetch" => child[c] \in Calls
    BY <2>1, PeersAssumption
  <2>5. QED BY <2>1, <2>2, <2>3, <2>4, ReplyAlone
<1>3. CASE MethodReturns(s)
  <2> DEFINE c == handling[s]
  <2> DEFINE is == IF kind[c] = "recursive" /\ task[child[c]] # "returned" THEN "error" ELSE "ok"
  <2>1. c \in Own[Other(s)] /\ c \in Calls /\ peer[c] = "asked" /\ Rest(s, c, wire[s])
    BY <1>3, SidesFacts DEF MethodReturns, IInv, Busy, Rest
  <2>2. Reply(s, c, Body(c, is), wire[s]) /\ UNCHANGED <<task, requests, responses, result>>
    BY <1>3 DEF MethodReturns, chan
  <2>3. Body(c, is) \in Payloads
    BY <2>1, MessagesTyped
  <2>4. c \in Recursive => Body(c, is) # Body(c, "ok")
    <3> SUFFICES ASSUME c \in Recursive PROVE Body(c, is) # Body(c, "ok")
      OBVIOUS
    <3>1. Other(caller[c]) = s /\ child[c] \in Calls
      BY <2>1, RecursiveFacts, SidesFacts DEF Own
    <3>2. peer[child[c]] # "delivered"
      BY <3>1 DEF RInv, Alone
    <3>3. task[child[c]] # "returned"
      BY <3>1, <3>2 DEF RInv, Heard
    <3>4. kind[c] = "recursive"
      BY DEF Recursive
    <3>5. QED BY <3>3, <3>4 DEF Body
  <2> HIDE DEF c, is
  <2>5. QED BY <2>1, <2>2, <2>3, <2>4, ReplyAlone
<1>4. CASE on_response(s)
  BY <1>4, TakeAlone
<1>5. CASE ReplySent(s) \/ ReaderSeesEnd(s)
  <2>1. UNCHANGED <<task, responses, peer, answer, handling, wire>>
    BY <1>5 DEF ReplySent, ReaderSeesEnd, calls, chan
  <2>2. QED BY <2>1 DEF RInv, Heard, Alone, Has
<1>6. QED BY <1>1, <1>2, <1>3, <1>4, <1>5

LEMMA RecursiveStep == IInv /\ RInv /\ [Next]_vars => RInv'
<1> SUFFICES ASSUME IInv, RInv, [Next]_vars PROVE RInv'
  OBVIOUS
<1>1. CASE LinkDrops \/ UserCloses \/ ReaderFails \/ UNCHANGED vars
  <2>1. UNCHANGED <<task, responses, peer, answer, handling, wire>>
    BY <1>1 DEF LinkDrops, UserCloses, ReaderFails, vars, calls, chan, readers
  <2>2. QED BY <2>1 DEF RInv, Heard, Alone, Has
<1>2. QED BY <1>1, CallAlone, ReaderAlone DEF Next

(* RpcChannel.__init__ lets a method make calls of its own, "call me as a  *)
(* response for me calling you", but the reader of its side awaits the     *)
(* method (on_message, on_request) and no one else reads the answer: of no *)
(* instance, and however the steps interleave, is such a method answered   *)
(* with a result: only with the error of a nested call that timed out, or  *)
(* never.                                                                  *)
THEOREM RecursiveCallsNeverSucceed ==
  SafeSpec => [](\A c \in Calls : kind[c] = "recursive" => answer[c] # Body(c, "ok"))
<1>1. RInv => \A c \in Calls : kind[c] = "recursive" => answer[c] # Body(c, "ok")
  BY DEF RInv, Alone, Recursive
<1>2. QED BY <1>1, Initially, InductiveStep, RecursiveStarts, RecursiveStep, PTL DEF SafeSpec

=============================================================================
