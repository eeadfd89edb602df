------------------------- MODULE RpcDispatchProofs -------------------------
(***************************************************************************)
(* Proofs about RpcDispatch, for any tree of dependencies.                 *)
(*                                                                         *)
(* The frames of solve_dependencies make a path in the tree (Chained), and *)
(* a frame without errors has solved the dependencies it is past           *)
(* (Advanced).  Whatever was called and has returned is in the cache       *)
(* (Stored), and what a cached use was solved to is what the cache holds   *)
(* (Agreed).  A frame also holds every error of the uses under the         *)
(* dependencies it is past (Gathered).                                     *)
(***************************************************************************)
EXTENDS RpcDispatch, SequenceTheorems, TLAPS

Solving == phase \in {"solving", "calling"}

Chained ==
  /\ Solving <=> stack # <<>>
  /\ stack # <<>> => stack[1].use = root
  /\ \A i \in 1..Len(stack) : stack[i].next \in 1..(Len(deps[stack[i].use]) + 1)
  /\ \A i \in 1..(Len(stack) - 1) :
       /\ stack[i].next <= Len(deps[stack[i].use])
       /\ stack[i + 1].use = deps[stack[i].use][stack[i].next]

Advanced ==
  \A i \in 1..Len(stack) : stack[i].bad = {} =>
    \A k \in 1..(stack[i].next - 1) : values[deps[stack[i].use][k]] # NoValue

Running ==
  phase = "calling" =>
    /\ runs # <<>> /\ runs[Len(runs)] = Top.use
    /\ Top.use \in Cached \ {root} => cache[callable[Top.use]] = NoValue

Stored ==
  /\ phase = "received" => runs = <<>>
  /\ Solving =>
       \A i \in 1..(IF phase = "calling" THEN Len(runs) - 1 ELSE Len(runs)) :
         runs[i] # root /\ cache[callable[runs[i]]] # NoValue

Agreed == \A u \in Cached : values[u] # NoValue => values[u] = cache[callable[u]]

IInv ==
  /\ TypeOK /\ Chained /\ Advanced /\ Running /\ Stored /\ Agreed
  /\ NothingRunsUnchecked /\ CachedCallsRunOnce /\ ReplyCarriesId

LEMMA Initially == Init => IInv
<1> SUFFICES ASSUME Init PROVE IInv
  OBVIOUS
<1> USE DEF Init
<1>1. TypeOK
  BY DEF TypeOK, Kinds
<1>2. Chained /\ Advanced /\ Running /\ Stored
  BY DEF Chained, Advanced, Running, Stored, Solving
<1>3. Agreed
  BY DispatchAssumption DEF Agreed
<1>4. NothingRunsUnchecked /\ CachedCallsRunOnce /\ ReplyCarriesId
  BY DEF NothingRunsUnchecked, CachedCallsRunOnce, ReplyCarriesId, Ran
<1>5. QED BY <1>1, <1>2, <1>3, <1>4 DEF IInv

-----------------------------------------------------------------------------
(* What the steps do to the stack.                                         *)

LEMMA DepsAreUses ==
  ASSUME NEW u \in Uses
  PROVE  /\ deps[u] \in Seq(Uses) /\ Len(deps[u]) \in Nat
         /\ \A k \in 1..Len(deps[u]) : deps[u][k] \in Uses \ {root}
BY DispatchAssumption

LEMMA TopIsAFrame ==
  ASSUME IInv, Solving
  PROVE  /\ Len(stack) \in Nat \ {0} /\ Top \in Frames
         /\ Len(stack) > 1 => Top.use # root
         /\ Len(stack) = 1 => Top.use = root
<1>1. stack \in Seq(Frames) /\ stack # <<>>
  BY DEF IInv, TypeOK, Chained
<1>2. Len(stack) \in Nat \ {0} /\ Top \in Frames
  BY <1>1 DEF Top
<1>3. ASSUME Len(stack) > 1 PROVE Top.use # root
  <2> DEFINE i == Len(stack) - 1
  <2>1. i \in 1..(Len(stack) - 1) /\ i + 1 = Len(stack) /\ i \in 1..Len(stack)
    BY <1>2, <1>3
  <2>2. stack[i] \in Frames
    BY <1>1, <2>1
  <2>3. stack[i].use \in Uses /\ stack[i].next \in 1..Len(deps[stack[i].use])
    BY <2>1, <2>2, DepsAreUses DEF IInv, Chained, Frames
  <2>4. Top.use = deps[stack[i].use][stack[i].next]
    BY <2>1 DEF IInv, Chained, Top
  <2>5. QED BY <2>3, <2>4, DepsAreUses
<1>4. QED BY <1>1, <1>2, <1>3 DEF IInv, Chained, Top

LEMMA Popped ==
  ASSUME stack \in Seq(Frames), Len(stack) > 1, NEW bad \in SUBSET (Uses \X Params), Pop(bad)
  PROVE  LET n == Len(stack) - 1 IN
         /\ n \in Nat \ {0} /\ stack' \in Seq(Frames) /\ Len(stack') = n
         /\ \A i \in 1..(n - 1) : stack'[i] = stack[i]
         /\ stack'[n].use = stack[n].use
         /\ stack'[n].next = stack[n].next + 1
         /\ stack'[n].bad = stack[n].bad \cup bad
<1> DEFINE n == Len(stack) - 1
           below == SubSeq(stack, 1, n)
           top == [use |-> stack[n].use, next |-> stack[n].next + 1, bad |-> stack[n].bad \cup bad]
<1>1. n \in Nat \ {0} /\ n \in 1..Len(stack)
  OBVIOUS
<1>2. below \in Seq(Frames) /\ Len(below) = n /\ \A i \in 1..n : below[i] = stack[i]
  BY <1>1
<1>3. stack[n] \in Frames
  BY <1>1
<1>4. top \in Frames
  BY <1>3 DEF Frames
<1>5. below[n] = stack[n] /\ Len(below) = n
  BY <1>1, <1>2
<1>6. stack' = [below EXCEPT ![n] = top]
  BY <1>5 DEF Pop
<1> HIDE DEF below, top
<1>7. stack' \in Seq(Frames) /\ Len(stack') = n
  BY <1>1, <1>2, <1>4, <1>6, ExceptSeq
<1>8. \A i \in 1..n : stack'[i] = IF i = n THEN top ELSE below[i]
  BY <1>1, <1>2, <1>4, <1>6, ExceptSeq
<1>9. \A i \in 1..(n - 1) : i \in 1..n /\ i # n
  BY <1>1
<1>10. \A i \in 1..(n - 1) : stack'[i] = stack[i]
  BY <1>2, <1>8, <1>9
<1>11. stack'[n] = top
  BY <1>1, <1>8
<1>12. QED BY <1>1, <1>7, <1>10, <1>11 DEF top

-----------------------------------------------------------------------------
(* The inductive step.                                                     *)

LEMMA SameBodyErrors ==
  ASSUME UNCHANGED request
  PROVE  \A u \in Uses : BodyErrors(u)' = BodyErrors(u)
BY DEF BodyErrors, Errs, Given, request

(* A reply, a delivery or a cancellation: the request is over.             *)
LEMMA EndStep ==
  ASSUME IInv, TypeOK', stack' = <<>>, phase' \notin {"received", "solving", "calling"},
         UNCHANGED <<request, values, cache, runs>>,
         reply' # NoReply /\ reply'.code # "INVALID_REQUEST" => reply'.id = message.id
  PROVE  IInv'
<1>1. Chained' /\ Advanced' /\ Running' /\ Stored'
  BY DEF Chained, Advanced, Running, Stored, Solving
<1>2. Agreed' /\ CachedCallsRunOnce' /\ ReplyCarriesId'
  BY DEF IInv, Agreed, CachedCallsRunOnce, ReplyCarriesId, request
<1>3. NothingRunsUnchecked'
  <2>1. Ran \subseteq Uses
    BY DEF IInv, TypeOK, Ran
  <2>2. QED BY <2>1, SameBodyErrors DEF IInv, NothingRunsUnchecked, Ran, request, Needs
<1>4. QED BY <1>1, <1>2, <1>3 DEF IInv

LEMMA Ending ==
  ASSUME IInv,
         \/ on_request_built_in \/ on_request_unknown \/ on_message_response
         \/ on_message_invalid \/ CallRaises \/ RejectParams \/ MethodReturns \/ Cancel
  PROVE  IInv'
<1> DEFINE Answer(id, code) == Send(id, code) /\ UNCHANGED <<request, values, cache, runs>>
<1>1. ASSUME NEW id, NEW code, Answer(id, code), id \in {NoId, message.id}, code \in Codes,
             code # "INVALID_REQUEST" => id = message.id,
             errors' \subseteq Uses \X Params
      PROVE  IInv'
  <2>1. message.id \in {"id", NoId}
    BY DEF IInv, TypeOK, Messages
  <2>2. TypeOK'
    BY <1>1, <2>1 DEF IInv, TypeOK, Send, request
  <2>3. QED BY <1>1, <2>2, EndStep DEF Send
<1>2. CASE on_message_response
  <2>1. stack = <<>>
    BY <1>2 DEF on_message_response, IInv, Chained, Solving
  <2>2. TypeOK'
    BY <1>2 DEF on_message_response, IInv, TypeOK, request, solving
  <2>3. QED BY <1>2, <2>1, <2>2, EndStep DEF on_message_response, solving, IInv, ReplyCarriesId
<1>3. CASE Cancel
  <2>1. TypeOK'
    BY <1>3 DEF Cancel, IInv, TypeOK, request
  <2>2. QED BY <1>3, <2>1, EndStep DEF Cancel, IInv, ReplyCarriesId
<1>4. CASE RejectParams
  <2>1. FrameErrors \subseteq Uses \X Params
    <3>1. Top \in Frames
      BY <1>4, TopIsAFrame DEF RejectParams, Solved, Solving
    <3>2. BodyErrors(Top.use) \subseteq Uses \X Params
      BY <3>1 DEF BodyErrors, Frames, Params
    <3>3. QED BY <3>1, <3>2 DEF FrameErrors, Frames
  <2>2. QED BY <1>4, <2>1, <1>1 DEF RejectParams, Codes
<1>5. CASE on_request_built_in \/ on_request_unknown \/ on_message_invalid \/ CallRaises \/ MethodReturns
  <2>1. errors' = errors /\ errors \subseteq Uses \X Params
    BY <1>5 DEF on_request_built_in, on_request_unknown, on_message_invalid, CallRaises,
       MethodReturns, IInv, TypeOK
  <2>2. QED BY <1>5, <2>1, <1>1 DEF on_request_built_in, on_request_unknown, on_message_invalid, CallRaises,
       MethodReturns, serialize_response, Codes
<1>6. QED BY <1>2, <1>3, <1>4, <1>5

LEMMA FrameTyped ==
  ASSUME NEW u \in Uses
  PROVE  /\ Frame(u) \in Frames
         /\ Frame(u).use = u /\ Frame(u).next = 1 /\ Frame(u).bad = {}
         /\ 1 \in 1..(Len(deps[u]) + 1)
BY DepsAreUses DEF Frame, Frames

(* Pushing a frame: the rest of the stack is as it was.                    *)
LEMMA PushStep ==
  ASSUME IInv, Solving, NEW u \in Uses, Top.next <= Len(deps[Top.use]),
         u = deps[Top.use][Top.next], stack' = Append(stack, Frame(u)),
         phase' = phase, values' = values
  PROVE  stack' \in Seq(Frames) /\ Chained' /\ Advanced'
<1> DEFINE n == Len(stack)
<1>1. stack \in Seq(Frames) /\ n \in Nat \ {0}
  BY TopIsAFrame DEF IInv, TypeOK
<1>2. /\ stack' \in Seq(Frames) /\ Len(stack') = n + 1
      /\ \A i \in 1..n : stack'[i] = stack[i]
      /\ stack'[n + 1] = Frame(u)
  BY <1>1, FrameTyped, AppendProperties
<1>3. Chained'
  <2>1. \A i \in 1..(n + 1) : stack'[i].next \in 1..(Len(deps[stack'[i].use]) + 1)
    BY <1>1, <1>2, FrameTyped DEF IInv, Chained
  <2>2. ASSUME NEW i \in 1..n
        PROVE  /\ stack'[i].next <= Len(deps[stack'[i].use])
               /\ stack'[i + 1].use = deps[stack'[i].use][stack'[i].next]
    <3>1. CASE i = n
      BY <1>1, <1>2, <3>1, FrameTyped DEF Top
    <3>2. CASE i \in 1..(n - 1)
      <4>1. i \in 1..n /\ i + 1 \in 1..n
        BY <1>1, <3>2
      <4>2. stack'[i] = stack[i] /\ stack'[i + 1] = stack[i + 1]
        BY <1>2, <4>1
      <4>3. QED BY <3>2, <4>2 DEF IInv, Chained
    <3>3. QED BY <1>1, <3>1, <3>2
  <2>3. stack' # <<>> /\ stack'[1].use = root
    BY <1>1, <1>2 DEF IInv, Chained
  <2>4. Len(stack') - 1 = n
    BY <1>1, <1>2
  <2>5. Solving' <=> stack' # <<>>
    BY <2>3 DEF Solving
  <2>6. /\ \A i \in 1..Len(stack') : stack'[i].next \in 1..(Len(deps[stack'[i].use]) + 1)
        /\ \A i \in 1..(Len(stack') - 1) :
             /\ stack'[i].next <= Len(deps[stack'[i].use])
             /\ stack'[i + 1].use = deps[stack'[i].use][stack'[i].next]
    BY <1>2, <2>1, <2>2, <2>4
  <2>7. QED BY <2>3, <2>5, <2>6 DEF Chained
<1>4. Advanced'
  <2> SUFFICES ASSUME NEW i \in 1..Len(stack'), stack'[i].bad = {},
                      NEW k \in 1..(stack'[i].next - 1)
               PROVE  values'[deps[stack'[i].use][k]] # NoValue
    BY Zenon DEF Advanced
  <2>1. CASE i \in 1..n
    <3>1. stack'[i] = stack[i]
      BY <1>2, <2>1
    <3>2. QED BY <2>1, <3>1 DEF IInv, Advanced
  <2>2. CASE i = n + 1
    <3>1. stack'[i].next = 1
      BY <1>2, <2>2, FrameTyped
    <3>2. 1..(stack'[i].next - 1) = {}
      BY <3>1
    <3>3. QED BY <3>2, Zenon
  <2>3. i \in 1..n \/ i = n + 1
    <3> HIDE DEF n
    <3>1. QED BY <1>1, <1>2
  <2>4. QED BY <2>1, <2>2, <2>3, Zenon
<1>5. QED BY <1>2, <1>3, <1>4

LEMMA DescendStep ==
  ASSUME IInv, Descend
  PROVE  IInv'
<1> DEFINE u == deps[Top.use][Top.next]
<1>1. Solving /\ phase' = "solving" /\ phase = "solving"
  BY DEF Descend, Solving
<1>2. Top.use \in Uses /\ Top.next \in 1..Len(deps[Top.use])
  BY <1>1, TopIsAFrame, DepsAreUses DEF Descend, IInv, Chained, Top, Frames
<1>3. u \in Uses
  BY <1>2, DepsAreUses
<1>4. stack' \in Seq(Frames) /\ Chained' /\ Advanced'
  BY <1>1, <1>2, <1>3, PushStep DEF Descend
<1>5. TypeOK'
  BY <1>4 DEF IInv, TypeOK, Descend, request
<1>6. Running' /\ Stored' /\ Agreed'
  BY <1>1 DEF IInv, Running, Stored, Agreed, Solving, Descend
<1>7. NothingRunsUnchecked' /\ CachedCallsRunOnce' /\ ReplyCarriesId'
  <2>1. Ran \subseteq Uses
    BY DEF IInv, TypeOK, Ran
  <2>2. QED BY <2>1, SameBodyErrors
    DEF IInv, NothingRunsUnchecked, CachedCallsRunOnce, ReplyCarriesId, Ran, Needs, Descend, request
<1>8. QED BY <1>4, <1>5, <1>6, <1>7 DEF IInv

LEMMA BeginStep ==
  ASSUME IInv, on_request_method
  PROVE  IInv'
<1>1. stack' = <<Frame(root)>> /\ Frame(root) \in Frames
  BY FrameTyped, DispatchAssumption DEF on_request_method
<1>2. stack' \in Seq(Frames) /\ Len(stack') = 1 /\ stack'[1] = Frame(root)
  BY <1>1
<1>3. TypeOK'
  BY <1>2 DEF IInv, TypeOK, on_request_method, request
<1>4. Chained' /\ Advanced'
  BY <1>2, FrameTyped, DispatchAssumption DEF Chained, Advanced, Solving, on_request_method
<1>5. Running' /\ Stored' /\ Agreed'
  BY DEF IInv, Running, Stored, Agreed, Solving, on_request_method
<1>6. NothingRunsUnchecked' /\ CachedCallsRunOnce' /\ ReplyCarriesId'
  BY DEF IInv, Stored, NothingRunsUnchecked, CachedCallsRunOnce, ReplyCarriesId, Ran,
     on_request_method, request
<1>7. QED BY <1>3, <1>4, <1>5, <1>6 DEF IInv

(* A callable is called: the method, or a dependency that is not cached.   *)
LEMMA CallStep ==
  ASSUME IInv, CallDependency \/ CallMethod
  PROVE  IInv'
<1>1. /\ phase = "solving" /\ Solving /\ phase' = "calling"
      /\ Top.next > Len(deps[Top.use]) /\ FrameErrors = {}
      /\ runs' = Append(runs, Top.use)
      /\ UNCHANGED <<request, stack, values, cache, errors, reply>>
  BY DEF CallDependency, CallMethod, Solved, Solving, Call, solving
<1>2. Top \in Frames /\ Top.use \in Uses /\ Len(stack) \in Nat \ {0}
  BY <1>1, TopIsAFrame DEF Frames
<1>3. /\ runs' \in Seq(Uses) /\ Len(runs') = Len(runs) + 1 /\ Len(runs) \in Nat
      /\ \A i \in 1..Len(runs) : runs'[i] = runs[i]
      /\ runs'[Len(runs) + 1] = Top.use
  BY <1>1, <1>2, AppendProperties DEF IInv, TypeOK
<1>4. TypeOK' /\ Chained' /\ Advanced' /\ Agreed' /\ ReplyCarriesId'
  BY <1>1, <1>3 DEF IInv, TypeOK, Chained, Advanced, Agreed, ReplyCarriesId, Solving, request
<1>5. Top.use \in Cached \ {root} => cache[callable[Top.use]] = NoValue
  BY <1>1, TopIsAFrame DEF CallDependency, CallMethod, Hit
<1>6. Running'
  BY <1>1, <1>3, <1>5 DEF Running, Top
<1>7. Stored'
  BY <1>1, <1>3 DEF IInv, Stored, Solving
<1>8. NothingRunsUnchecked'
  <2>1. Ran' = Ran \cup {Top.use} /\ Ran \subseteq Uses
    <3>1. DOMAIN runs = 1..Len(runs) /\ DOMAIN runs' = 1..(Len(runs) + 1)
      BY <1>3 DEF IInv, TypeOK
    <3>2. Ran \subseteq Uses
      BY DEF Ran, IInv, TypeOK
    <3>3. \A i \in 1..(Len(runs) + 1) : i \in 1..Len(runs) \/ i = Len(runs) + 1
      BY <1>3
    <3>4. QED BY <1>3, <3>1, <3>2, <3>3 DEF Ran
  <2>2. Top.bad = {} /\ BodyErrors(Top.use) = {}
    BY <1>1 DEF FrameErrors
  <2>3. \A d \in Needs(Top.use) : values[d] # NoValue
    <3>1. \A k \in 1..(Top.next - 1) : values[deps[Top.use][k]] # NoValue
      BY <1>2, <2>2 DEF IInv, Advanced, Top
    <3>2. 1..Len(deps[Top.use]) \subseteq 1..(Top.next - 1)
      BY <1>1, <1>2, DepsAreUses DEF Frames
    <3>3. DOMAIN deps[Top.use] = 1..Len(deps[Top.use])
      BY <1>2, DepsAreUses
    <3>4. QED BY <3>1, <3>2, <3>3 DEF Needs
  <2>4. \A u \in Uses : BodyErrors(u)' = BodyErrors(u)
    BY <1>1, SameBodyErrors DEF request
  <2>5. QED BY <1>1, <1>2, <2>1, <2>2, <2>3, <2>4 DEF IInv, NothingRunsUnchecked, Needs
<1>9. CachedCallsRunOnce'
  <2> SUFFICES ASSUME NEW i \in 1..(Len(runs) + 1), NEW j \in 1..(Len(runs) + 1),
                      i < j, runs'[j] \in Cached
               PROVE  callable[runs'[i]] # callable[runs'[j]]
    BY <1>3 DEF CachedCallsRunOnce
  <2>1. CASE j <= Len(runs)
    <3>1. i \in DOMAIN runs /\ j \in DOMAIN runs
      BY <1>3, <2>1 DEF IInv, TypeOK
    <3>2. runs'[i] = runs[i] /\ runs'[j] = runs[j]
      BY <1>3, <2>1
    <3>3. QED BY <3>1, <3>2 DEF IInv, CachedCallsRunOnce
  <2>2. CASE j = Len(runs) + 1
    <3>1. i \in 1..Len(runs) /\ runs'[i] = runs[i] /\ runs[i] \in Uses
      BY <1>3, <2>2 DEF IInv, TypeOK
    <3>2. runs[i] # root /\ cache[callable[runs[i]]] # NoValue
      BY <1>1, <3>1 DEF IInv, Stored
    <3>3. QED BY <1>3, <1>5, <2>2, <3>1, <3>2, DispatchAssumption
  <2>3. QED BY <1>3, <2>1, <2>2
<1>10. QED BY <1>4, <1>6, <1>7, <1>8, <1>9 DEF IInv

-----------------------------------------------------------------------------
(* A frame is left.                                                        *)

LEMMA PopStep ==
  ASSUME IInv, Solving, Len(stack) > 1, NEW bad \in SUBSET (Uses \X Params), Pop(bad),
         phase' = "solving", UNCHANGED <<request, errors, runs, reply>>,
         values' \in [Uses -> Nat \cup {NoValue}], cache' \in [Callables -> Nat \cup {NoValue}],
         \A u \in Uses : values[u] # NoValue => values'[u] # NoValue,
         bad = {} => values'[Top.use] # NoValue
  PROVE  /\ TypeOK' /\ Chained' /\ Advanced' /\ Running'
         /\ NothingRunsUnchecked' /\ CachedCallsRunOnce' /\ ReplyCarriesId'
<1> DEFINE n == Len(stack) - 1
<1>1. stack \in Seq(Frames) /\ n \in Nat \ {0} /\ n \in 1..(Len(stack) - 1)
  BY TopIsAFrame DEF IInv, TypeOK
<1>2. /\ stack' \in Seq(Frames) /\ Len(stack') = n
      /\ \A i \in 1..(n - 1) : stack'[i] = stack[i]
      /\ stack'[n].use = stack[n].use
      /\ stack'[n].next = stack[n].next + 1
      /\ stack'[n].bad = stack[n].bad \cup bad
  BY <1>1, Popped
<1>3. TypeOK'
  BY <1>2 DEF IInv, TypeOK, request
<1>4. /\ \A i \in 1..n : stack[i] \in Frames /\ stack[i].use \in Uses
      /\ \A i \in 1..n : stack'[i].use = stack[i].use
      /\ stack[n].next \in 1..Len(deps[stack[n].use])
      /\ Top.use = deps[stack[n].use][stack[n].next]
  <2>1. \A i \in 1..n : stack[i] \in Frames /\ stack[i].use \in Uses
    <3>1. \A i \in 1..n : i \in 1..Len(stack)
      BY <1>1
    <3>2. \A i \in 1..Len(stack) : stack[i] \in Frames
      BY <1>1
    <3>3. \A f \in Frames : f.use \in Uses
      BY DEF Frames
    <3>4. QED BY <3>1, <3>2, <3>3
  <2>2. \A i \in 1..n : stack'[i].use = stack[i].use
    BY <1>1, <1>2
  <2>3. n + 1 = Len(stack)
    BY <1>1
  <2>4. stack[n].next \in 1..(Len(deps[stack[n].use]) + 1) /\ stack[n].next <= Len(deps[stack[n].use])
    BY <1>1 DEF IInv, Chained
  <2>5. Top.use = deps[stack[n].use][stack[n].next]
    <3>1. Chained
      BY DEF IInv
    <3>2. stack[n + 1].use = deps[stack[n].use][stack[n].next]
      BY <1>1, <3>1 DEF Chained
    <3>3. QED BY <2>3, <3>2 DEF Top
  <2>6. n \in 1..n
    BY <1>1
  <2>7. Len(deps[stack[n].use]) \in Nat
    BY <2>1, <2>6, DepsAreUses
  <2>8. stack[n].next \in 1..Len(deps[stack[n].use])
    BY <2>4, <2>7
  <2>9. QED BY <2>1, <2>2, <2>5, <2>8
<1>5. Chained'
  <2>1. ASSUME NEW i \in 1..n
        PROVE  stack'[i].next \in 1..(Len(deps[stack'[i].use]) + 1)
    <3>1. CASE i = n
      BY <1>2, <1>4, <3>1, DepsAreUses
    <3>2. CASE i # n
      <4>1. stack'[i] = stack[i] /\ i \in 1..Len(stack)
        BY <1>1, <1>2, <3>2
      <4>2. QED BY <4>1 DEF IInv, Chained
    <3>3. QED BY <3>1, <3>2
  <2>2. ASSUME NEW i \in 1..(n - 1)
        PROVE  /\ stack'[i].next <= Len(deps[stack'[i].use])
               /\ stack'[i + 1].use = deps[stack'[i].use][stack'[i].next]
    <3>1. i \in 1..(Len(stack) - 1) /\ i + 1 \in 1..n
      BY <1>1
    <3>2. stack'[i] = stack[i] /\ stack'[i + 1].use = stack[i + 1].use
      BY <1>2, <1>4, <3>1
    <3>3. QED BY <3>1, <3>2 DEF IInv, Chained
  <2>3. stack' # <<>> /\ stack'[1].use = root
    BY <1>1, <1>2, <1>4 DEF IInv, Chained
  <2>4. QED BY <1>1, <1>2, <2>1, <2>2, <2>3 DEF Chained, Solving
<1>6. Advanced'
  <2> SUFFICES ASSUME NEW i \in 1..n, stack'[i].bad = {},
                      NEW k \in 1..(stack'[i].next - 1)
               PROVE  values'[deps[stack'[i].use][k]] # NoValue
    BY <1>2 DEF Advanced
  <2>1. ASSUME stack[i].bad = {}, k \in 1..(stack[i].next - 1)
        PROVE  values'[deps[stack[i].use][k]] # NoValue
    <3>1. i \in 1..Len(stack) /\ stack[i].next \in 1..(Len(deps[stack[i].use]) + 1)
      BY <1>1 DEF IInv, Chained
    <3>2. values[deps[stack[i].use][k]] # NoValue
      BY <2>1, <3>1 DEF IInv, Advanced
    <3>3. stack[i].use \in Uses /\ k \in 1..Len(deps[stack[i].use])
      BY <1>4, <2>1, <3>1, DepsAreUses
    <3>4. deps[stack[i].use][k] \in Uses
      BY <3>3, DepsAreUses
    <3>5. QED BY <3>2, <3>4
  <2>2. CASE i = n
    <3>1. bad = {} /\ stack[n].bad = {}
      BY <1>2, <2>2
    <3>2. CASE k = stack[n].next
      BY <1>4, <2>2, <3>1, <3>2
    <3>3. CASE k # stack[n].next
      BY <1>2, <1>4, <2>1, <2>2, <3>1, <3>3, SMTT(60)
    <3>4. QED BY <3>2, <3>3
  <2>3. CASE i # n
    <3>1. stack'[i] = stack[i]
      BY <1>1, <1>2, <2>3
    <3>2. QED BY <2>1, <3>1
  <2>4. QED BY <2>2, <2>3
<1>7. Running' /\ CachedCallsRunOnce' /\ ReplyCarriesId'
  BY DEF IInv, Running, CachedCallsRunOnce, ReplyCarriesId, request
<1>8. NothingRunsUnchecked'
  <2>1. Ran \subseteq Uses /\ Ran' = Ran
    BY DEF IInv, TypeOK, Ran
  <2>2. \A u \in Uses : \A d \in Needs(u) : d \in Uses
    BY DepsAreUses DEF Needs
  <2>3. \A u \in Uses : BodyErrors(u)' = BodyErrors(u)
    BY SameBodyErrors DEF request
  <2>4. QED BY <2>1, <2>2, <2>3 DEF IInv, NothingRunsUnchecked, Needs
<1>9. QED BY <1>3, <1>5, <1>6, <1>7, <1>8

LEMMA SkipStep ==
  ASSUME IInv, SkipDependency
  PROVE  IInv'
<1>1. /\ phase = "solving" /\ phase' = "solving" /\ Solving /\ Len(stack) > 1 /\ Pop(FrameErrors)
      /\ FrameErrors # {} /\ UNCHANGED <<request, values, cache, errors, runs, reply>>
  BY DEF SkipDependency, Solved, Solving
<1>2. FrameErrors \in SUBSET (Uses \X Params)
  <2>1. Top \in Frames
    BY <1>1, TopIsAFrame
  <2>2. BodyErrors(Top.use) \subseteq Uses \X Params
    BY <2>1 DEF BodyErrors, Frames, Params
  <2>3. QED BY <2>1, <2>2 DEF FrameErrors, Frames
<1>3. values' = values /\ values' \in [Uses -> Nat \cup {NoValue}]
      /\ cache' \in [Callables -> Nat \cup {NoValue}]
  BY <1>1 DEF IInv, TypeOK
<1>4. /\ TypeOK' /\ Chained' /\ Advanced' /\ Running'
      /\ NothingRunsUnchecked' /\ CachedCallsRunOnce' /\ ReplyCarriesId'
  BY <1>1, <1>2, <1>3, PopStep
<1>5. Stored' /\ Agreed'
  BY <1>1 DEF IInv, Stored, Agreed, Solving
<1>6. QED BY <1>4, <1>5 DEF IInv

LEMMA UseCachedStep ==
  ASSUME IInv, UseCached
  PROVE  IInv'
<1> DEFINE v == cache[callable[Top.use]]
<1>1. /\ phase = "solving" /\ phase' = "solving" /\ Solving /\ Len(stack) > 1 /\ Pop({})
      /\ values' = [values EXCEPT ![Top.use] = v] /\ Top.use \in Cached /\ v # NoValue
      /\ UNCHANGED <<request, cache, errors, runs, reply>>
  BY DEF UseCached, Solved, Solving, Hit
<1>2. Top.use \in Uses
  BY <1>1, TopIsAFrame DEF Frames
<1>3. /\ values' \in [Uses -> Nat \cup {NoValue}]
      /\ cache' \in [Callables -> Nat \cup {NoValue}]
      /\ values'[Top.use] = v
      /\ \A u \in Uses : u # Top.use => values'[u] = values[u]
  BY <1>1, <1>2, DispatchAssumption DEF IInv, TypeOK
<1>4. /\ TypeOK' /\ Chained' /\ Advanced' /\ Running'
      /\ NothingRunsUnchecked' /\ CachedCallsRunOnce' /\ ReplyCarriesId'
  BY <1>1, <1>3, PopStep
<1>5. Stored'
  BY <1>1 DEF IInv, Stored, Solving
<1>6. Agreed'
  BY <1>1, <1>3, DispatchAssumption DEF IInv, Agreed
<1>7. QED BY <1>4, <1>5, <1>6 DEF IInv

LEMMA ReturnStep ==
  ASSUME IInv, DependencyReturns
  PROVE  IInv'
<1> DEFINE u == Top.use
           v == Len(runs)
<1>1. /\ phase = "calling" /\ phase' = "solving" /\ Solving /\ Len(stack) > 1 /\ Pop({})
      /\ values' = [values EXCEPT ![u] = v] /\ cache' = Store(u, v)
      /\ UNCHANGED <<request, errors, runs, reply>>
  BY DEF DependencyReturns, Solving
<1>2. u \in Uses /\ u # root /\ v \in Nat /\ v # NoValue /\ callable[u] \in Callables
  <2>1. u \in Uses /\ u # root
    BY <1>1, TopIsAFrame DEF Frames
  <2>2. v \in Nat
    BY DEF IInv, TypeOK
  <2>3. QED BY <2>1, <2>2, DispatchAssumption
<1>3. /\ values' \in [Uses -> Nat \cup {NoValue}]
      /\ values'[u] = v /\ \A w \in Uses : w # u => values'[w] = values[w]
  BY <1>1, <1>2 DEF IInv, TypeOK
<1>4. /\ cache' \in [Callables -> Nat \cup {NoValue}]
      /\ cache'[callable[u]] # NoValue
      /\ cache[callable[u]] = NoValue => cache'[callable[u]] = v
      /\ \A c \in Callables : cache[c] # NoValue => cache'[c] = cache[c]
  BY <1>1, <1>2 DEF IInv, TypeOK, Store
<1>5. /\ TypeOK' /\ Chained' /\ Advanced' /\ Running'
      /\ NothingRunsUnchecked' /\ CachedCallsRunOnce' /\ ReplyCarriesId'
  BY <1>1, <1>2, <1>3, <1>4, PopStep
<1>6. Stored'
  <2> SUFFICES ASSUME NEW i \in 1..Len(runs)
               PROVE  runs[i] # root /\ cache'[callable[runs[i]]] # NoValue
    BY <1>1 DEF Stored, Solving
  <2>1. CASE i = Len(runs)
    BY <1>1, <1>2, <1>4, <2>1 DEF IInv, Running
  <2>2. CASE i \in 1..(Len(runs) - 1)
    <3>1. runs[i] # root /\ cache[callable[runs[i]]] # NoValue
      BY <1>1, <2>2 DEF IInv, Stored
    <3>2. runs[i] \in Uses
      BY DEF IInv, TypeOK
    <3>3. callable[runs[i]] \in Callables
      BY <3>2, DispatchAssumption
    <3>4. QED BY <1>4, <3>1, <3>3
  <2>3. QED BY <1>2, <2>1, <2>2
<1>7. Agreed'
  <2> SUFFICES ASSUME NEW w \in Cached, values'[w] # NoValue
               PROVE  values'[w] = cache'[callable[w]]
    BY DEF Agreed
  <2>1. w \in Uses /\ callable[w] \in Callables
    BY DispatchAssumption
  <2>2. CASE w = u
    BY <1>1, <1>2, <1>3, <1>4, <2>2 DEF IInv, Running
  <2>3. CASE w # u
    <3>1. values'[w] = values[w] /\ values[w] = cache[callable[w]]
      BY <1>3, <2>1, <2>3 DEF IInv, Agreed
    <3>2. QED BY <1>4, <2>1, <3>1
  <2>4. QED BY <2>2, <2>3
<1>8. QED BY <1>5, <1>6, <1>7 DEF IInv

LEMMA Invariance == Spec => []IInv
<1>1. IInv /\ [Next]_vars => IInv'
  <2> SUFFICES ASSUME IInv, [Next]_vars PROVE IInv'
    OBVIOUS
  <2>1. CASE UNCHANGED vars
    <3>1. UNCHANGED <<request, phase, stack, values, cache, errors, runs, reply>>
      BY <2>1 DEF vars, request, solving
    <3>2. TypeOK'
      BY <3>1 DEF IInv, TypeOK, request
    <3>3. Chained' /\ Advanced'
      BY <3>1 DEF IInv, Chained, Advanced, Solving
    <3>4. Running' /\ Stored' /\ Agreed'
      BY <3>1 DEF IInv, Running, Stored, Agreed, Solving, Top
    <3>5. NothingRunsUnchecked'
      BY <3>1 DEF IInv, NothingRunsUnchecked, Ran, Needs, BodyErrors, Errs, Given, request
    <3>6. CachedCallsRunOnce' /\ ReplyCarriesId'
      BY <3>1 DEF IInv, CachedCallsRunOnce, ReplyCarriesId, request
    <3>7. QED BY <3>2, <3>3, <3>4, <3>5, <3>6 DEF IInv
  <2>2. CASE Next
    BY <2>2, Ending, BeginStep, DescendStep, SkipStep, UseCachedStep, CallStep, ReturnStep DEF Next
  <2>3. QED BY <2>1, <2>2
<1>2. QED BY <1>1, Initially, PTL DEF Spec

-----------------------------------------------------------------------------
(* The errors that are gathered.                                           *)

(* The use u, what it needs, what they need and so on.                     *)
Closed(S) == \A u \in S : Needs(u) \subseteq S
Under(u) == {w \in Uses : \A S \in SUBSET Uses : u \in S /\ Closed(S) => w \in S}

ErrorsUnder(u) == UNION {BodyErrors(w) : w \in Under(u)}

(* A frame holds the errors of the dependencies it is past, all of them.   *)
Gathered ==
  \A i \in 1..Len(stack) : stack[i].bad =
    UNION {ErrorsUnder(deps[stack[i].use][k]) : k \in 1..(stack[i].next - 1)}

Clean == phase = "calling" => Top.next > Len(deps[Top.use]) /\ FrameErrors = {}

Reported == Gathered /\ Clean /\ AllErrorsReported

LEMMA NeedsAreUses ==
  ASSUME NEW u \in Uses
  PROVE  Needs(u) \subseteq Uses /\ Needs(u) = {deps[u][k] : k \in 1..Len(deps[u])}
BY DepsAreUses DEF Needs

(* What Under is for: the union over a tree, one level at a time, without  *)
(* an induction over the tree.                                             *)
LEMMA UnderUnfolds ==
  ASSUME NEW u \in Uses
  PROVE  Under(u) = {u} \cup UNION {Under(d) : d \in Needs(u)}
<1> DEFINE T == {u} \cup UNION {Under(d) : d \in Needs(u)}
<1>1. \A v \in Uses : v \in Under(v) /\ Closed(Under(v)) /\ Under(v) \subseteq Uses
  BY NeedsAreUses DEF Under, Closed
<1>2. T \subseteq Uses /\ Closed(T) /\ u \in T
  <2>1. T \subseteq Uses
    BY <1>1, NeedsAreUses
  <2>2. ASSUME NEW v \in T PROVE Needs(v) \subseteq T
    <3>1. CASE v = u
      BY <1>1, <3>1, NeedsAreUses
    <3>2. CASE \E d \in Needs(u) : v \in Under(d)
      <4>1. PICK d \in Needs(u) : v \in Under(d)
        BY <3>2
      <4>2. Needs(v) \subseteq Under(d)
        BY <1>1, <4>1, NeedsAreUses DEF Closed
      <4>3. QED BY <4>1, <4>2
    <3>3. QED BY <3>1, <3>2
  <2>3. QED BY <2>1, <2>2 DEF Closed
<1>3. Under(u) \subseteq T
  BY <1>2 DEF Under
<1>4. ASSUME NEW d \in Needs(u) PROVE Under(d) \subseteq Under(u)
  BY NeedsAreUses DEF Under, Closed
<1>5. QED BY <1>1, <1>3, <1>4

LEMMA RootHasAll == Under(root) = Uses
<1>1. root \in Under(root) /\ Closed(Under(root)) /\ Under(root) \subseteq Uses
  BY DispatchAssumption, NeedsAreUses DEF Under, Closed
<1>2. QED BY <1>1, UsesAssumption DEF Closed

(* When a frame is through, it holds the errors under its use.             *)
LEMMA FrameHasAll ==
  ASSUME IInv, Solving, Gathered, Top.next > Len(deps[Top.use])
  PROVE  FrameErrors = ErrorsUnder(Top.use)
<1> DEFINE u == Top.use
<1>1. Len(stack) \in Nat \ {0} /\ u \in Uses /\ Len(deps[u]) \in Nat
  BY TopIsAFrame, DepsAreUses DEF Frames
<1>2. Top.next - 1 = Len(deps[u])
  <2>1. Top.next \in 1..(Len(deps[u]) + 1)
    BY <1>1 DEF IInv, Chained, Top
  <2>2. QED BY <1>1, <2>1
<1>3. Top.bad = UNION {ErrorsUnder(deps[u][k]) : k \in 1..Len(deps[u])}
  BY <1>1, <1>2 DEF Gathered, Top
<1>4. Top.bad = UNION {ErrorsUnder(d) : d \in Needs(u)}
  BY <1>1, <1>3, NeedsAreUses
<1>5. ErrorsUnder(u) = BodyErrors(u) \cup UNION {ErrorsUnder(d) : d \in Needs(u)}
  BY <1>1, UnderUnfolds DEF ErrorsUnder
<1>6. QED BY <1>4, <1>5 DEF FrameErrors

LEMMA SameErrors ==
  ASSUME UNCHANGED request
  PROVE  \A u : ErrorsUnder(u)' = ErrorsUnder(u)
BY SameBodyErrors DEF ErrorsUnder, Under

LEMMA FrameErrorsTyped ==
  ASSUME IInv, Solving
  PROVE  FrameErrors \in SUBSET (Uses \X Params)
<1>1. Top \in Frames
  BY TopIsAFrame
<1>2. BodyErrors(Top.use) \subseteq Uses \X Params
  BY <1>1 DEF BodyErrors, Frames, Params
<1>3. QED BY <1>1, <1>2 DEF FrameErrors, Frames

LEMMA ReportedInitially == Init => Reported
BY DEF Init, Reported, Gathered, Clean, AllErrorsReported

(* A frame is left with what is under its use, which its caller adds.      *)
LEMMA GatheredPop ==
  ASSUME IInv, Solving, Gathered, Len(stack) > 1, Top.next > Len(deps[Top.use]),
         Pop(FrameErrors), UNCHANGED request
  PROVE  Gathered'
<1> DEFINE n == Len(stack) - 1
<1>1. stack \in Seq(Frames) /\ n \in Nat \ {0} /\ n \in 1..(Len(stack) - 1) /\ n + 1 = Len(stack)
  BY TopIsAFrame DEF IInv, TypeOK
<1>2. FrameErrors = ErrorsUnder(Top.use)
  BY FrameHasAll
<1>3. /\ Len(stack') = n /\ \A i \in 1..(n - 1) : stack'[i] = stack[i]
      /\ stack'[n].use = stack[n].use
      /\ stack'[n].next = stack[n].next + 1
      /\ stack'[n].bad = stack[n].bad \cup ErrorsUnder(Top.use)
  <2>1. FrameErrors \in SUBSET (Uses \X Params)
    BY FrameErrorsTyped
  <2>2. QED BY <1>1, <1>2, <2>1, Popped
<1>4. /\ stack[n].next \in 1..(Len(deps[stack[n].use]) + 1)
      /\ Top.use = deps[stack[n].use][stack[n].next]
      /\ stack[n].next \in Nat \ {0}
  <2>1. stack[n].next \in 1..(Len(deps[stack[n].use]) + 1) /\ stack[n] \in Frames
    BY <1>1 DEF IInv, Chained
  <2>2. Top.use = deps[stack[n].use][stack[n].next]
    BY <1>1 DEF IInv, Chained, Top
  <2>3. stack[n].next \in Nat
    BY <2>1 DEF Frames
  <2>4. QED BY <2>1, <2>2, <2>3
<1>5. ASSUME NEW i \in 1..n
      PROVE  stack'[i].bad =
               UNION {ErrorsUnder(deps[stack'[i].use][k]) : k \in 1..(stack'[i].next - 1)}
  <2>1. stack[i].bad = UNION {ErrorsUnder(deps[stack[i].use][k]) : k \in 1..(stack[i].next - 1)}
    BY <1>1 DEF Gathered
  <2>2. CASE i # n
    <3> HIDE DEF n
    <3>1. i \in 1..(n - 1)
      BY <1>1, <2>2
    <3>2. stack'[i] = stack[i]
      BY <1>3, <3>1
    <3>3. QED BY <2>1, <3>2
  <2>3. CASE i = n
    <3> DEFINE u == stack[n].use
               m == stack[n].next
    <3>1. 1..(stack'[n].next - 1) = (1..(m - 1)) \cup {m} /\ stack'[n].use = u
      BY <1>3, <1>4
    <3>2. stack[n].bad = UNION {ErrorsUnder(deps[u][k]) : k \in 1..(m - 1)}
      BY <2>1, <2>3
    <3>3. stack'[n].bad = stack[n].bad \cup ErrorsUnder(deps[u][m])
      BY <1>3, <1>4
    <3> HIDE DEF u, m, n
    <3>4. UNION {ErrorsUnder(deps[u][k]) : k \in (1..(m - 1)) \cup {m}}
            = (UNION {ErrorsUnder(deps[u][k]) : k \in 1..(m - 1)}) \cup ErrorsUnder(deps[u][m])
      OBVIOUS
    <3>5. QED BY <2>3, <3>1, <3>2, <3>3, <3>4
  <2>4. QED BY <2>2, <2>3
<1>6. QED BY <1>3, <1>5, SameErrors DEF Gathered

LEMMA GatheredPush ==
  ASSUME IInv, Gathered, Descend
  PROVE  Gathered'
<1> DEFINE n == Len(stack)
           u == deps[Top.use][Top.next]
<1>1. Solving /\ stack \in Seq(Frames) /\ n \in Nat \ {0} /\ Top \in Frames
  BY TopIsAFrame DEF Descend, Solving, IInv, TypeOK
<1>2. u \in Uses
  <2>1. Top.next \in 1..Len(deps[Top.use])
    BY <1>1, DepsAreUses DEF Descend, IInv, Chained, Top, Frames
  <2>2. QED BY <1>1, <2>1, DepsAreUses DEF Frames
<1>3. /\ Len(stack') = n + 1 /\ \A i \in 1..n : stack'[i] = stack[i]
      /\ stack'[n + 1] = Frame(u)
  BY <1>1, <1>2, FrameTyped, AppendProperties DEF Descend
<1>4. Frame(u).bad = {} /\ 1..(Frame(u).next - 1) = {}
  BY DEF Frame
<1>5. ASSUME NEW i \in 1..(n + 1)
      PROVE  stack'[i].bad =
               UNION {ErrorsUnder(deps[stack'[i].use][k]) : k \in 1..(stack'[i].next - 1)}
  <2>1. CASE i \in 1..n
    BY <1>3, <2>1 DEF Gathered
  <2>2. CASE i = n + 1
    BY <1>3, <1>4, <2>2
  <2>3. QED BY <1>1, <2>1, <2>2
<1>6. \A v : ErrorsUnder(v)' = ErrorsUnder(v)
  BY SameErrors DEF Descend, request
<1>7. \A i \in 1..Len(stack') : stack'[i].bad =
        UNION {ErrorsUnder(deps[stack'[i].use][k]) : k \in 1..(stack'[i].next - 1)}
  BY <1>3, <1>5
<1>8. \A i \in 1..Len(stack') :
        {ErrorsUnder(deps[stack[i].use][k])' : k \in 1..(stack'[i].next - 1)}
          = {ErrorsUnder(deps[stack'[i].use][k]) : k \in 1..(stack'[i].next - 1)}
  BY <1>6
<1>9. QED BY <1>7, <1>8 DEF Gathered

LEMMA ReportedStep ==
  ASSUME IInv, Reported, [Next]_vars
  PROVE  Reported'
<1>1. CASE SkipDependency \/ UseCached \/ DependencyReturns
  <2>1. /\ Solving /\ Len(stack) > 1 /\ Top.next > Len(deps[Top.use])
        /\ Pop(FrameErrors) /\ phase' = "solving" /\ UNCHANGED <<request, errors, reply>>
    BY <1>1 DEF SkipDependency, UseCached, DependencyReturns, Solved, Solving, Reported, Clean
  <2>2. Gathered'
    BY <2>1, GatheredPop DEF Reported, request
  <2>3. Clean' /\ AllErrorsReported'
    BY <2>1, SameBodyErrors DEF Reported, Clean, AllErrorsReported, request
  <2>4. QED BY <2>2, <2>3 DEF Reported
<1>2. CASE Descend
  <2>1. Clean' /\ AllErrorsReported'
    BY <1>2, SameBodyErrors DEF Descend, Reported, Clean, AllErrorsReported, request
  <2>2. QED BY <1>2, <2>1, GatheredPush DEF Reported
<1>3. CASE CallDependency \/ CallMethod
  <2>1. /\ Top.next > Len(deps[Top.use]) /\ FrameErrors = {}
        /\ UNCHANGED <<request, stack, errors, reply>>
    BY <1>3 DEF CallDependency, CallMethod, Solved, Call, solving
  <2>2. Gathered' /\ AllErrorsReported'
    BY <2>1, SameErrors, SameBodyErrors DEF Reported, Gathered, AllErrorsReported, request
  <2>3. Clean'
    BY <2>1 DEF Clean, FrameErrors, Top, BodyErrors, Errs, Given, request
  <2>4. QED BY <2>2, <2>3 DEF Reported
<1>4. CASE on_request_method
  <2>1. stack' = <<Frame(root)>> /\ phase' = "solving" /\ UNCHANGED <<request, errors, reply>>
    BY <1>4 DEF on_request_method
  <2>2. Gathered'
    BY <2>1 DEF Gathered, Frame
  <2>3. Clean' /\ AllErrorsReported'
    BY <2>1, SameBodyErrors DEF Reported, Clean, AllErrorsReported, request
  <2>4. QED BY <2>2, <2>3 DEF Reported
<1>5. CASE RejectParams
  <2>1. /\ Solving /\ Len(stack) = 1 /\ Top.next > Len(deps[Top.use])
        /\ errors' = FrameErrors /\ stack' = <<>> /\ phase' = "replied" /\ UNCHANGED request
    BY <1>5 DEF RejectParams, Solved, Solving, Send, request
  <2>2. errors' = UNION {BodyErrors(u) : u \in Uses}
    BY <2>1, TopIsAFrame, FrameHasAll, RootHasAll DEF Reported, ErrorsUnder
  <2>3. QED BY <2>1, <2>2, SameBodyErrors DEF Reported, Gathered, Clean, AllErrorsReported
<1>6. CASE on_request_built_in \/ on_request_unknown \/ on_message_invalid \/ CallRaises \/ MethodReturns
  BY <1>6 DEF on_request_built_in, on_request_unknown, on_message_invalid, CallRaises, MethodReturns,
              serialize_response, Send, Reported, Gathered, Clean, AllErrorsReported
<1>7. CASE on_message_response \/ Cancel
  <2>1. phase' # "calling" /\ (stack' = <<>> \/ stack' = stack) /\ UNCHANGED <<request, errors, reply>>
    BY <1>7 DEF on_message_response, Cancel, solving
  <2>2. QED BY <2>1, SameErrors, SameBodyErrors
            DEF Reported, Gathered, Clean, AllErrorsReported, request
<1>8. CASE UNCHANGED vars
  <2>1. UNCHANGED <<request, phase, stack, errors, reply>>
    BY <1>8 DEF vars, solving
  <2>2. Gathered' /\ AllErrorsReported'
    BY <2>1, SameErrors, SameBodyErrors DEF Reported, Gathered, AllErrorsReported, request
  <2>3. Clean'
    BY <2>1 DEF Reported, Clean, FrameErrors, Top, BodyErrors, Errs, Given, request
  <2>4. QED BY <2>2, <2>3 DEF Reported
<1>9. QED BY <1>1, <1>2, <1>3, <1>4, <1>5, <1>6, <1>7, <1>8 DEF Next

-----------------------------------------------------------------------------
(* The theorems.                                                           *)

(* Every variable keeps its type, the frames on the stack above all.       *)
THEOREM DispatchTypeCorrect == Spec => []TypeOK
<1>1. IInv => TypeOK
  BY DEF IInv
<1>2. QED BY <1>1, Invariance, PTL

(* Whatever a method depends on and however the body fits, null included,  *)
(* nothing is called with a parameter in error, or before its dependencies *)
(* are solved (solve_dependencies, app).                                   *)
THEOREM NothingSlipsThrough == Spec => []NothingRunsUnchecked
<1>1. IInv => NothingRunsUnchecked
  BY DEF IInv
<1>2. QED BY <1>1, Invariance, PTL

(* No use with use_cache calls what has been called for this request.      *)
THEOREM CacheSavesCalls == Spec => []CachedCallsRunOnce
<1>1. IInv => CachedCallsRunOnce
  BY DEF IInv
<1>2. QED BY <1>1, Invariance, PTL

(* All uses that share a callable through the cache see one value, those   *)
(* before and those behind an uncached call of it alike.                   *)
THEOREM CacheIsConsistent == Spec => []CachedUsesAgree
<1>1. IInv => CachedUsesAgree
  BY DEF IInv, Agreed, CachedUsesAgree
<1>2. QED BY <1>1, Invariance, PTL

(* A reply carries the id of its request, or says that the message was     *)
(* invalid and carries none (on_message, on_request).                      *)
THEOREM RepliesCarryTheId == Spec => []ReplyCarriesId
<1>1. IInv => ReplyCarriesId
  BY DEF IInv
<1>2. QED BY <1>1, Invariance, PTL

(* A rejected request is answered with the errors of all its uses, also of *)
(* those that were solved under a dependency that was skipped, whether its *)
(* params are a dictionary or null (solve_dependencies,                    *)
(* request_body_to_args).                                                  *)
THEOREM EveryErrorIsReported == Spec => []AllErrorsReported
<1>1. Reported => AllErrorsReported
  BY DEF Reported
<1>2. IInv /\ Reported /\ [Next]_vars => Reported'
  BY ReportedStep
<1>3. QED BY <1>1, <1>2, ReportedInitially, Invariance, PTL DEF Spec

=============================================================================
