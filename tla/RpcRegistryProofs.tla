------------------------- MODULE RpcRegistryProofs -------------------------
(***************************************************************************)
(* Proofs about RpcRegistry, for every set of classes and every signature  *)
(* of up to three parameters.                                              *)
(*                                                                         *)
(* Progress says what the body of a class has done so far: the functions   *)
(* before next are registered, and all are once it is loaded.  Accepted    *)
(* says that only accepted parameters are in fields, and that they have    *)
(* either the default's FieldInfo or the one of their own slot.            *)
(***************************************************************************)
EXTENDS RpcRegistry, TLAPS

Progress ==
  \A k \in Classes :
    /\ \A i \in DOMAIN functions[k] : i < next[k] => functions[k][i] \in registry
    /\ status[k] = "loaded" => next[k] > Len(functions[k])

PathsAreUnique == \A f, g \in registry : path[f] = path[g] => f = g

Accepted ==
  \A f \in Functions : \A j \in DOMAIN fields[f] :
    /\ Analysable(fields[f][j].param) /\ Placeable(fields[f][j].param)
    /\ fields[f][j].info \in {NoInfo, Analysed(fields[f][j].param, <<f, j>>)}

Complete == \A f \in registry : Len(fields[f]) = Len(declarations[f])

Short == \A f \in Functions : Len(fields[f]) <= Len(declarations[f])

IInv == TypeOK /\ Progress /\ PathsAreUnique /\ Accepted /\ Complete /\ Short

(* The function being decorated is one of the class's functions.           *)
LEMMA CurrentIsAFunction ==
  ASSUME TypeOK, NEW k \in Classes, Decorating(k)
  PROVE  /\ Current(k) \in Functions
         /\ next[k] \in DOMAIN functions[k]
<1>1. functions[k] \in Seq(Functions)
  BY RegistryAssumption
<1>2. next[k] \in Nat \ {0} /\ next[k] <= Len(functions[k])
  BY DEF TypeOK, Decorating
<1>3. QED BY <1>1, <1>2 DEF Current

(* The sequences of the constants.                                         *)
LEMMA ConstantSequences ==
  /\ \A k \in Classes : DOMAIN functions[k] = 1..Len(functions[k]) /\ Len(functions[k]) \in Nat
  /\ \A f \in Functions : Len(declarations[f]) \in Nat
<1>1. ASSUME NEW k \in Classes
      PROVE  DOMAIN functions[k] = 1..Len(functions[k]) /\ Len(functions[k]) \in Nat
  <2>1. functions[k] \in Seq(Functions) BY RegistryAssumption
  <2>2. QED BY <2>1
<1>2. ASSUME NEW f \in Functions PROVE Len(declarations[f]) \in Nat
  <2>1. declarations[f] \in Seq(SUBSET Params) BY RegistryAssumption
  <2>2. QED BY <2>1
<1>3. QED BY <1>1, <1>2

(* A declaration is a parameter, in one of three places.                   *)
LEMMA DeclaredIsAParam ==
  ASSUME NEW f \in Functions, NEW j \in Nat \ {0}, j <= Len(declarations[f]),
         NEW p \in declarations[f][j]
  PROVE  p \in Params /\ <<f, j>> \in Slots
<1>1. declarations[f] \in Seq(SUBSET Params) /\ Len(declarations[f]) <= 3
  BY RegistryAssumption
<1>2. j \in 1..Len(declarations[f]) /\ j \in 1..3
  BY <1>1
<1>3. declarations[f][j] \in SUBSET Params
  BY <1>1, <1>2
<1>4. QED BY <1>2, <1>3 DEF Slots

(* Analysing a parameter leaves every FieldInfo well formed.               *)
LEMMA ChangedIsTyped ==
  ASSUME TypeOK, NEW p \in Params, NEW slot \in Slots
  PROVE  Changed(p, slot) \in [Infos -> Contents]
<1> DEFINE from == IF Given(p) # {} THEN CHOOSE m \in Given(p) : TRUE ELSE slot
<1>1. from \in Infos
  BY DEF Given, IsField, Infos
<1>2. info[from].alias \in Names \cup {""} /\ info[from].embed \in BOOLEAN
  BY <1>1 DEF TypeOK, Contents
<1>3. p.name \in Names /\ p.type \in {"", "model", "field", "message"}
  BY DEF Params
<1>4. QED BY <1>2, <1>3 DEF Changed, TypeOK, Contents

(* It changes nobody's slot but its own.                                   *)
LEMMA ChangedElsewhere ==
  ASSUME NEW p \in Params, NEW slot \in Slots, NEW other \in Slots, other # slot,
         TypeOK
  PROVE  Changed(p, slot)[other] = info[other]
<1>1. Analysed(p, slot) # other
  BY RegistryAssumption DEF Analysed, IsField
<1>2. QED BY <1>1 DEF Changed, TypeOK, Infos

LEMMA Initially == Init => IInv
<1> SUFFICES ASSUME Init PROVE IInv
  OBVIOUS
<1>1. info \in [Infos -> Contents]
  BY RegistryAssumption DEF Init, Infos, Contents
<1>2. fields \in [Functions -> Seq(Rows)]
  <2>1. <<>> \in Seq(Rows)
    OBVIOUS
  <2>2. QED BY <2>1 DEF Init
<1>3. TypeOK
  <2>1. registry \subseteq Functions BY DEF Init
  <2>2. status \in [Classes -> {"new", "importing", "loaded", "failed"}] BY DEF Init
  <2>3. next \in [Classes -> Nat \ {0}]
    <3>1. next = [k \in Classes |-> 1] BY DEF Init
    <3>2. QED BY <3>1
  <2>4. QED BY <1>1, <1>2, <2>1, <2>2, <2>3 DEF TypeOK
<1>4. \A f \in Functions : fields[f] = <<>>
  BY DEF Init
<1>5. \A k \in Classes : next[k] = 1 /\ status[k] = "new"
  BY DEF Init
<1>6. Progress
  <2>1. ASSUME NEW k \in Classes, NEW i \in DOMAIN functions[k] PROVE ~(i < 1)
    BY ConstantSequences
  <2>2. QED BY <1>5, <2>1, ConstantSequences DEF Progress
<1>7. Accepted /\ Short
  BY <1>4, ConstantSequences DEF Accepted, Short
<1>8. QED BY <1>3, <1>6, <1>7 DEF IInv, PathsAreUnique, Complete, Init

-----------------------------------------------------------------------------
(* The steps of an import.                                                 *)

(* A step that only moves a class's status on, and what a failed analysis  *)
(* does to the FieldInfo objects.                                          *)
LEMMA StatusStep ==
  ASSUME IInv, UNCHANGED <<registry, next, fields>>, NEW k \in Classes,
         NEW s \in {"importing", "loaded", "failed"},
         s = "loaded" => next[k] > Len(functions[k]),
         status' = [status EXCEPT ![k] = s],
         info' \in [Infos -> Contents]
  PROVE  IInv'
<1>1. TypeOK'
  BY DEF IInv, TypeOK
<1>2. Progress'
  BY DEF IInv, Progress, TypeOK
<1>3. QED
  BY <1>1, <1>2 DEF IInv, PathsAreUnique, Accepted, Complete, Short

LEMMA ImportStep ==
  ASSUME IInv, NEW k \in Classes, Import(k) \/ PathIsTaken(k) \/ Loaded(k)
  PROVE  IInv'
<1>1. info' \in [Infos -> Contents]
  BY DEF IInv, TypeOK, Import, PathIsTaken, Loaded
<1>2. CASE Import(k) BY <1>1, <1>2, StatusStep DEF Import
<1>3. CASE PathIsTaken(k) BY <1>1, <1>3, StatusStep DEF PathIsTaken
<1>4. CASE Loaded(k) BY <1>1, <1>4, StatusStep DEF Loaded
<1>5. QED BY <1>2, <1>3, <1>4

LEMMA FailStep ==
  ASSUME IInv, NEW k \in Classes, AnalysisFails(k)
  PROVE  IInv'
<1> DEFINE f == Current(k)  j == Len(fields[f]) + 1
           typed == [Infos -> Contents]
<1>1. f \in Functions
  BY CurrentIsAFunction DEF IInv, AnalysisFails
<1>2. j \in Nat \ {0}
  <2>1. fields[f] \in Seq(Rows) BY <1>1 DEF IInv, TypeOK
  <2>2. QED BY <2>1
<1>3. PICK p \in declarations[f][j] : j <= Len(declarations[f]) /\ info' = Touched(p, <<f, j>>)
  BY DEF AnalysisFails
<1>4. p \in Params /\ <<f, j>> \in Slots
  BY <1>1, <1>2, <1>3, DeclaredIsAParam
<1>5. Changed(p, <<f, j>>) \in typed
  BY <1>4, ChangedIsTyped DEF IInv
<1>6. [info EXCEPT ![p.default].type = p.type] \in typed
  <2>1. p.type \in {"", "model", "field", "message"} BY <1>4 DEF Params
  <2>2. QED BY <2>1 DEF IInv, TypeOK, Contents
<1>7. info' \in typed
  BY <1>3, <1>5, <1>6 DEF Touched, IInv, TypeOK
<1>8. QED BY <1>7, StatusStep DEF AnalysisFails

LEMMA AnalyseStep ==
  ASSUME IInv, NEW k \in Classes, Analyse(k)
  PROVE  IInv'
<1> DEFINE f == Current(k)  j == Len(fields[f]) + 1
<1>1. f \in Functions /\ f \notin registry
  BY CurrentIsAFunction DEF IInv, Analyse, Taken
<1>2. j \in Nat \ {0} /\ fields[f] \in Seq(Rows)
  <2>1. fields[f] \in Seq(Rows) BY <1>1 DEF IInv, TypeOK
  <2>2. QED BY <2>1
<1>3. PICK p \in declarations[f][j] :
        /\ j <= Len(declarations[f])
        /\ Analysable(p) /\ Placeable(p)
        /\ info' = IF HasField(p) THEN Changed(p, <<f, j>>) ELSE info
        /\ fields' = [fields EXCEPT ![f] = Append(@,
             [param |-> p, info |-> IF UsesBody(p) THEN Analysed(p, <<f, j>>) ELSE NoInfo])]
  BY DEF Analyse
<1> DEFINE d == [param |-> p, info |-> IF UsesBody(p) THEN Analysed(p, <<f, j>>) ELSE NoInfo]
<1>4. p \in Params /\ <<f, j>> \in Slots
  BY <1>1, <1>2, <1>3, DeclaredIsAParam
<1>5. d \in Rows
  BY <1>4 DEF Analysed, IsField, Infos, Rows
<1>6. fields' = [fields EXCEPT ![f] = Append(fields[f], d)]
  BY <1>1, <1>3 DEF IInv, TypeOK
<1>7. UNCHANGED <<registry, status, next>>
  BY DEF Analyse
<1>8. TypeOK'
  <2>1. fields' \in [Functions -> Seq(Rows)]
    <3>1. Append(fields[f], d) \in Seq(Rows) BY <1>2, <1>5
    <3>2. QED BY <1>6, <3>1 DEF IInv, TypeOK
  <2>2. info' \in [Infos -> Contents]
    BY <1>3, <1>4, ChangedIsTyped DEF IInv, TypeOK
  <2>3. QED BY <1>7, <2>1, <2>2 DEF IInv, TypeOK
<1>9. fields'[f] = Append(fields[f], d) /\ \A g \in Functions \ {f} : fields'[g] = fields[g]
  BY <1>1, <1>6 DEF IInv, TypeOK
<1>10. Len(fields'[f]) = j /\ fields'[f][j] = d /\ DOMAIN fields'[f] = 1..j
       /\ \A i \in 1..(j - 1) : i \in DOMAIN fields[f] /\ fields'[f][i] = fields[f][i]
  BY <1>2, <1>5, <1>9
<1>11. Accepted'
  <2>1. ASSUME NEW i \in 1..j
        PROVE  /\ Analysable(fields'[f][i].param) /\ Placeable(fields'[f][i].param)
               /\ fields'[f][i].info \in {NoInfo, Analysed(fields'[f][i].param, <<f, i>>)}
    <3>1. CASE i = j BY <1>3, <1>10, <3>1
    <3>2. CASE i # j
      <4>1. i \in 1..(j - 1) BY <1>2, <3>2
      <4>2. QED BY <1>1, <1>10, <4>1 DEF IInv, Accepted
    <3>3. QED BY <3>1, <3>2
  <2>2. QED BY <1>9, <1>10, <2>1 DEF IInv, Accepted
<1>12. Short' /\ Complete'
  BY <1>1, <1>3, <1>7, <1>9, <1>10 DEF IInv, Short, Complete, TypeOK
<1>13. Progress' /\ PathsAreUnique'
  BY <1>7 DEF IInv, Progress, PathsAreUnique
<1>14. QED BY <1>8, <1>11, <1>12, <1>13 DEF IInv

(* get_body_field changes only the FieldInfo objects of its function.      *)
LEMMA BodyFieldElsewhere ==
  ASSUME NEW f, NEW i \in Infos, i \notin BodyInfos(f)
  PROVE  get_body_field(f)[i] = info[i]
BY DEF get_body_field

LEMMA RegisterStep ==
  ASSUME IInv, NEW k \in Classes, Register(k)
  PROVE  IInv'
<1> DEFINE f == Current(k)
<1>1. f \in Functions /\ next[k] \in DOMAIN functions[k] /\ ~Taken(f)
  BY CurrentIsAFunction DEF IInv, Register
<1>2. /\ registry' = registry \cup {f} /\ next' = [next EXCEPT ![k] = @ + 1]
      /\ UNCHANGED <<status, fields>> /\ info' = get_body_field(f)
      /\ Len(fields[f]) = Len(declarations[f])
      /\ status[k] = "importing"
  BY DEF Register, Decorating
<1>3. info' \in [Infos -> Contents]
  <2>1. ASSUME NEW i \in Infos
        PROVE  info[i] \in Contents /\ [info[i] EXCEPT !.embed = TRUE] \in Contents
    BY DEF IInv, TypeOK, Contents
  <2>2. QED BY <1>2, <2>1 DEF get_body_field
<1>4. TypeOK'
  BY <1>1, <1>2, <1>3 DEF IInv, TypeOK
<1>5. Progress'
  <2>1. ASSUME NEW c \in Classes, NEW i \in DOMAIN functions[c], i < next'[c]
        PROVE  functions[c][i] \in registry'
    <3>1. CASE c = k
      <4>1. i \in Nat /\ next[k] \in Nat /\ i < next[k] + 1
        BY <1>2, <2>1, <3>1, ConstantSequences DEF IInv, TypeOK
      <4>2. i < next[k] \/ i = next[k]
        BY <4>1
      <4>3. CASE i < next[k] BY <1>2, <3>1, <4>3 DEF IInv, Progress
      <4>4. CASE i = next[k] BY <1>2, <3>1, <4>4 DEF Current
      <4>5. QED BY <4>2, <4>3, <4>4
    <3>2. CASE c # k BY <1>2, <2>1, <3>2 DEF IInv, Progress, TypeOK
    <3>3. QED BY <3>1, <3>2
  <2>2. ASSUME NEW c \in Classes, status'[c] = "loaded" PROVE next'[c] > Len(functions[c])
    BY <1>2, <2>2 DEF IInv, Progress, TypeOK
  <2>3. QED BY <2>1, <2>2 DEF Progress
<1>6. PathsAreUnique'
  BY <1>1, <1>2 DEF IInv, PathsAreUnique, Taken
<1>7. Accepted' /\ Short' /\ Complete'
  BY <1>2 DEF IInv, Accepted, Short, Complete
<1>8. QED BY <1>4, <1>5, <1>6, <1>7 DEF IInv

LEMMA Stuttering ==
  ASSUME IInv, UNCHANGED vars
  PROVE  IInv'
BY DEF IInv, TypeOK, Progress, PathsAreUnique, Accepted, Complete, Short, vars

LEMMA Invariance == Spec => []IInv
<1>1. IInv /\ [Next]_vars => IInv'
  <2> SUFFICES ASSUME IInv, [Next]_vars PROVE IInv'
    OBVIOUS
  <2>1. ASSUME NEW k \in Classes, Import(k) \/ PathIsTaken(k) \/ Loaded(k) PROVE IInv'
    BY <2>1, ImportStep
  <2>2. ASSUME NEW k \in Classes, Analyse(k) PROVE IInv'
    BY <2>2, AnalyseStep
  <2>3. ASSUME NEW k \in Classes, AnalysisFails(k) PROVE IInv'
    BY <2>3, FailStep
  <2>4. ASSUME NEW k \in Classes, Register(k) PROVE IInv'
    BY <2>4, RegisterStep
  <2>5. CASE UNCHANGED vars
    BY <2>5, Stuttering
  <2>6. QED BY <2>1, <2>2, <2>3, <2>4, <2>5 DEF Next
<1>2. QED BY <1>1, Initially, PTL DEF Spec

-----------------------------------------------------------------------------
(* The theorems.                                                           *)

(* Every variable of the registry keeps its type.                          *)
THEOREM RegistryTypeCorrect == Spec => []TypeOK
<1>1. IInv => TypeOK
  BY DEF IInv
<1>2. QED BY <1>1, Invariance, PTL

(* A methods class that was imported without an error serves each of its   *)
(* functions, and no other's under the same path (on_request, get_method,  *)
(* decorator), unless the path is a built-in's or the name begins with _.  *)
THEOREM LoadedClassesAreServed == Spec => []LoadedServesItsOwn
<1>1. IInv => LoadedServesItsOwn
  <2> SUFFICES ASSUME IInv, NEW k \in Classes, status[k] = "loaded",
                      NEW i \in DOMAIN functions[k], path[functions[k][i]] \notin BuiltIns
               PROVE  on_request(k, path[functions[k][i]]) = {functions[k][i]}
    BY DEF LoadedServesItsOwn
  <2>1. i < next[k]
    BY ConstantSequences DEF IInv, Progress, TypeOK
  <2>2. functions[k][i] \in registry
    BY <2>1 DEF IInv, Progress
  <2>3. name[functions[k][i]] \in attributes[k]
    BY RegistryAssumption
  <2>4. QED BY <2>2, <2>3 DEF IInv, PathsAreUnique, get_method, on_request
<1>2. QED BY <1>1, Invariance, PTL

(* No method is in the registry whose signature was not accepted as a      *)
(* whole, whichever imports have failed (get_dependant, decorator).        *)
THEOREM MethodsAreWhole == Spec => []OnlyWholeMethods
<1>1. IInv => OnlyWholeMethods
  BY DEF IInv, Complete, Accepted, TypeOK, OnlyWholeMethods
<1>2. QED BY <1>1, Invariance, PTL

(* What is declared after a method was registered does not change how it   *)
(* reads a parameter with a FieldInfo of its own (analyze_param copies).   *)
THEOREM ReadingStays == Spec => ReadingIsStable
<1> DEFINE Stays == \A f \in registry : \A j \in DOMAIN fields[f] :
             LET d == fields[f][j] IN OwnField(d) => info'[d.info] = info[d.info]
<1>1. IInv /\ [Next]_vars => [Stays]_vars
  <2> SUFFICES ASSUME IInv, Next, NEW f \in registry, NEW j \in DOMAIN fields[f],
                      OwnField(fields[f][j])
               PROVE  info'[fields[f][j].info] = info[fields[f][j].info]
    BY DEF Stays
  <2>1. f \in Functions /\ fields[f] \in Seq(Rows) /\ Len(declarations[f]) <= 3
        /\ Len(fields[f]) = Len(declarations[f])
    BY RegistryAssumption DEF IInv, TypeOK, Complete
  <2>2. j \in 1..3
    BY <2>1, ConstantSequences
  <2>3. fields[f][j].info = <<f, j>> /\ <<f, j>> \in Slots /\ <<f, j>> \in Infos
    BY <2>1, <2>2 DEF IInv, Accepted, OwnField, Analysed, Slots, Infos
  <2>4. PICK k \in Classes : \/ Import(k) \/ PathIsTaken(k) \/ Loaded(k)
                            \/ Analyse(k) \/ AnalysisFails(k) \/ Register(k)
    BY DEF Next
  <2>5. CASE Import(k) \/ PathIsTaken(k) \/ Loaded(k)
    BY <2>5, <2>3 DEF Import, PathIsTaken, Loaded
  <2> DEFINE g == Current(k)  i == Len(fields[g]) + 1
  <2>6. Decorating(k) => g \in Functions /\ i \in Nat \ {0}
    <3> SUFFICES ASSUME Decorating(k) PROVE g \in Functions /\ i \in Nat \ {0}
      OBVIOUS
    <3>1. g \in Functions BY CurrentIsAFunction DEF IInv
    <3>2. fields[g] \in Seq(Rows) BY <3>1 DEF IInv, TypeOK
    <3>3. QED BY <3>1, <3>2
  <2>7. Decorating(k) /\ ~Taken(g) => g # f
    BY DEF Taken
  <2>8. CASE Analyse(k) \/ AnalysisFails(k)
    <3>1. g # f /\ g \in Functions /\ i \in Nat \ {0}
      BY <2>6, <2>7, <2>8 DEF Analyse, AnalysisFails
    <3>2. PICK p \in declarations[g][i] :
            /\ i <= Len(declarations[g])
            /\ \/ info' = info \/ info' = Changed(p, <<g, i>>)
               \/ IsField(p.default) /\ info' = [info EXCEPT ![p.default].type = p.type]
      BY <2>8 DEF Analyse, AnalysisFails, Touched
    <3>3. p \in Params /\ <<g, i>> \in Slots /\ <<f, j>> # <<g, i>>
      BY <3>1, <3>2, DeclaredIsAParam
    <3>4. CASE info' = Changed(p, <<g, i>>)
      BY <2>3, <3>3, <3>4, ChangedElsewhere DEF IInv
    <3>5. CASE IsField(p.default) /\ info' = [info EXCEPT ![p.default].type = p.type]
      <4>1. p.default # <<f, j>>
        BY <2>3, <3>5, RegistryAssumption DEF IsField
      <4>2. QED BY <2>3, <3>5, <4>1 DEF IInv, TypeOK
    <3>6. QED BY <2>3, <3>2, <3>4, <3>5
  <2>9. CASE Register(k)
    <3>1. g # f /\ g \in Functions
      BY <2>6, <2>7, <2>9 DEF Register
    <3>2. ASSUME NEW h \in DOMAIN fields[g] PROVE fields[g][h].info # <<f, j>> \/ fields[g][h].info = NoInfo
      <4>1. fields[g][h].info \in {NoInfo, Analysed(fields[g][h].param, <<g, h>>)}
        BY <3>1 DEF IInv, Accepted
      <4>2. Analysed(fields[g][h].param, <<g, h>>) # <<f, j>>
        BY <2>3, <3>1, RegistryAssumption DEF Analysed, IsField
      <4>3. QED BY <4>1, <4>2
    <3>3. <<f, j>> \notin BodyInfos(g)
      BY <3>2 DEF BodyInfos
    <3>4. info' = get_body_field(g)
      BY <2>9 DEF Register
    <3>5. QED BY <2>3, <3>3, <3>4, BodyFieldElsewhere
  <2>10. QED BY <2>4, <2>5, <2>8, <2>9
<1>2. QED BY <1>1, Invariance, PTL DEF Spec, ReadingIsStable

=============================================================================
