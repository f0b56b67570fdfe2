-------------------------- MODULE TestBenchProofs ---------------------------
(***************************************************************************)
(* The test bench, for any stages of any DLLs: what goes on follows the    *)
(* stages, what the dialog tells is so, the guard deletes what has ended   *)
(* and waits for what will end, and an earlier result that counts as done  *)
(* is good.                                                                *)
(***************************************************************************)
EXTENDS TestBench, FiniteSetTheorems, SequenceTheorems, FunctionTheorems,
        WellFoundedInduction, TLAPS

(***************************************************************************)
(* Stages and DLLs.                                                        *)
(***************************************************************************)
LEMMA StagesAre ==
  /\ Len(Stages) \in Nat \ {0} /\ DOMAIN Stages = 1 .. Len(Stages)
  /\ \A k \in DOMAIN Stages : /\ Len(Stages[k]) \in Nat \ {0}
                              /\ DOMAIN Stages[k] = 1 .. Len(Stages[k])
<1> DEFINE Some == Seq(STRING) \ {<<>>}
<1>1. Stages \in Seq(Some) /\ Stages # <<>>
  BY TestBenchAssumption
<1>2. Len(Stages) \in Nat \ {0} /\ DOMAIN Stages = 1 .. Len(Stages)
  <2> HIDE DEF Some
  <2> QED
    BY <1>1, EmptySeq, LenProperties
<1>3. \A k \in DOMAIN Stages : Stages[k] \in Some
  <2> HIDE DEF Some
  <2> QED
    BY <1>1, <1>2, ElementOfSeq
<1>4. ASSUME NEW k \in DOMAIN Stages
      PROVE  Len(Stages[k]) \in Nat \ {0} /\ DOMAIN Stages[k] = 1 .. Len(Stages[k])
  <2>1. Stages[k] \in Seq(STRING) /\ Stages[k] # <<>>
    BY <1>3
  <2> QED
    BY <2>1, EmptySeq, LenProperties
<1> QED
  BY <1>2, <1>4

LEMMA SomeStages ==
  /\ Len(Stages) \in Nat \ {0}
  /\ 0 \in 0 .. Len(Stages) /\ \A n \in 1 .. Len(Stages) : n \in 0 .. Len(Stages)
  /\ \A n \in 0 .. Len(Stages) : n \in Nat /\ (n = 0 \/ n >= 1)
<1> DEFINE N == Len(Stages)
<1>1. N \in Nat \ {0}
  BY StagesAre
<1> HIDE DEF N
<1>2. /\ N \in Nat \ {0} /\ 0 \in 0 .. N /\ \A n \in 1 .. N : n \in 0 .. N
      /\ \A n \in 0 .. N : n \in Nat /\ (n = 0 \/ n >= 1)
  BY <1>1
<1> QED
  BY <1>2 DEF N

(* A DLL is of one stage, whose number Id is.                              *)
LEMMA IdOf ==
  ASSUME NEW d \in Dlls
  PROVE  Id(d) \in 1 .. Len(Stages) /\ d \in ToSet(Stages[Id(d)])
<1>1. \E k \in DOMAIN Stages : d \in ToSet(Stages[k])
  BY DEF Dlls
<1> QED
  BY <1>1, StagesAre DEF Id

LEMMA IdOfDll ==
  ASSUME NEW k \in DOMAIN Stages, NEW d \in ToSet(Stages[k])
  PROVE  d \in Dlls /\ Id(d) = k
<1>1. d \in Dlls
  BY DEF Dlls
<1>2. d \in ToSet(Stages[Id(d)]) /\ Id(d) \in DOMAIN Stages
  BY <1>1, IdOf, StagesAre
<1> QED
  BY <1>1, <1>2, TestBenchAssumption

(* Whatever numbers there are, one is the least.                           *)
LEMMA LeastOne ==
  ASSUME NEW S \in SUBSET Nat, S # {}
  PROVE  \E m \in S : \A n \in S : m <= n
<1> DEFINE R == {ss \in Nat \X Nat : ss[1] < ss[2]}
<1>1. IsWellFoundedOn(R, Nat)
  BY NatLessThanWellFounded DEF OpToRel
<1>2. PICK x \in S : \A y \in S : ~(<<y, x>> \in R)
  <2> HIDE DEF R
  <2> QED
    BY <1>1, WFMin
<1>3. ASSUME NEW n \in S PROVE x <= n
  <2>1. n \in Nat /\ x \in Nat /\ ~(<<n, x>> \in R)
    BY <1>2
  <2>2. ~(n < x)
    BY <2>1
  <2> QED
    BY <2>1, <2>2
<1> QED
  BY <1>3

(* What a function takes on a finite set is finite.                        *)
LEMMA RangeFinite ==
  ASSUME NEW S, IsFiniteSet(S), NEW f, f = [x \in S |-> f[x]]
  PROVE  IsFiniteSet({f[x] : x \in S})
<1> DEFINE T == {f[x] : x \in S}
<1>1. f \in Surjection(S, T)
  BY Fun_IsSurj
<1> QED
  BY <1>1, FS_Surjection

LEMMA IdIn == \A d \in Dlls : Id(d) \in 1 .. Len(Stages) /\ Id(d) \in Nat /\ Id(d) >= 1
<1> SUFFICES ASSUME NEW d \in Dlls PROVE Id(d) \in 1 .. Len(Stages) /\ Id(d) \in Nat /\ Id(d) >= 1
  OBVIOUS
<1> DEFINE N == Len(Stages)
           k == Id(d)
<1>1. k \in 1 .. N /\ N \in Nat
  BY IdOf, StagesAre
<1> HIDE DEF N, k
<1>2. k \in 1 .. N /\ k \in Nat /\ k >= 1
  BY <1>1
<1> QED
  BY <1>2 DEF N, k

LEMMA DllsFinite == IsFiniteSet(Dlls)
<1> DEFINE Of == [k \in DOMAIN Stages |-> ToSet(Stages[k])]
<1>1. IsFiniteSet(DOMAIN Stages)
  BY StagesAre, FS_Interval
<1>2. ASSUME NEW k \in DOMAIN Stages PROVE IsFiniteSet(Of[k])
  <2>1. IsFiniteSet(DOMAIN Stages[k])
    BY StagesAre, FS_Interval
  <2> DEFINE At == [i \in DOMAIN Stages[k] |-> Stages[k][i]]
  <2>2. IsFiniteSet({At[i] : i \in DOMAIN Stages[k]})
    BY <2>1, RangeFinite
  <2> QED
    BY <2>2 DEF ToSet
<1>3. IsFiniteSet({Of[k] : k \in DOMAIN Stages})
  BY <1>1, RangeFinite
<1>4. \A T \in {Of[k] : k \in DOMAIN Stages} : IsFiniteSet(T)
  BY <1>2
<1>5. IsFiniteSet(UNION {Of[k] : k \in DOMAIN Stages})
  <2> HIDE DEF Of
  <2> QED
    BY <1>3, <1>4, FS_UNION
<1> QED
  BY <1>5 DEF Dlls
-----------------------------------------------------------------------------
(***************************************************************************)
(* Paths: a DLL of each of the first stages, in their order.               *)
(***************************************************************************)
LEMMA PathIs ==
  ASSUME NEW p
  PROVE  p \in Paths <=> /\ p \in Seq(Dlls) /\ Len(p) \in 1 .. Len(Stages)
                         /\ \A i \in 1 .. Len(p) : Id(p[i]) = i
<1>1. DOMAIN Stages = 1 .. Len(Stages) /\ Len(Stages) \in Nat
  BY StagesAre
<1>2. ASSUME p \in Paths
      PROVE  p \in Seq(Dlls) /\ Len(p) \in 1 .. Len(Stages) /\ \A i \in 1 .. Len(p) : Id(p[i]) = i
  <2>1. PICK n \in 1 .. Len(Stages) : p \in [1 .. n -> Dlls] /\ \A i \in 1 .. n : Id(p[i]) = i
    BY <1>1, <1>2 DEF Paths
  <2>2. p \in Seq(Dlls) /\ Len(p) = n
    BY <1>1, <2>1, IsASeq
  <2> QED
    BY <2>1, <2>2
<1>3. ASSUME p \in Seq(Dlls), Len(p) \in 1 .. Len(Stages), \A i \in 1 .. Len(p) : Id(p[i]) = i
      PROVE  p \in Paths
  <2>1. p \in [1 .. Len(p) -> Dlls]
    BY <1>3, LenProperties
  <2> QED
    BY <1>1, <1>3, <2>1 DEF Paths
<1> QED
  BY <1>2, <1>3

(* The last DLL of a path is of the stage of its length.                   *)
LEMMA LastOf ==
  ASSUME NEW p \in Paths
  PROVE  /\ Len(p) \in 1 .. Len(Stages) /\ Len(p) \in Nat \ {0} /\ p # None
         /\ Len(p) = 1 \/ Len(p) > 1
         /\ Last(p) \in Dlls /\ Id(Last(p)) = Len(p) /\ p \in PathsOf(Last(p))
<1>1. /\ p \in Seq(Dlls) /\ Len(p) \in 1 .. Len(Stages)
      /\ \A i \in 1 .. Len(p) : Id(p[i]) = i
  BY PathIs
<1>2. Len(Stages) \in Nat
  BY StagesAre
<1>3. Len(p) \in 1 .. Len(p) /\ p # None
  BY <1>1, <1>2, EmptySeq DEF None
<1>4. Len(p) \in Nat \ {0} /\ (Len(p) = 1 \/ Len(p) > 1)
  <2> DEFINE n == Len(p)
  <2>1. n \in Nat \ {0}
    BY <1>1, <1>2
  <2> HIDE DEF n
  <2>2. n \in Nat \ {0} /\ (n = 1 \/ n > 1)
    BY <2>1
  <2> QED
    BY <2>2 DEF n
<1> QED
  BY <1>1, <1>3, <1>4, ElementOfSeq DEF Last, PathsOf

LEMMA LenOf ==
  ASSUME NEW p \in Paths
  PROVE  /\ Len(p) = 1 \/ Len(p) > 1
         /\ Len(p) > 1 => Len(p) # 1
         /\ Len(p) = 2 => Len(p) > 1
         /\ Len(p) > 2 \/ Len(p) = 2 \/ Len(p) = 1
<1> DEFINE n == Len(p)
<1>1. n \in Nat \ {0}
  BY LastOf
<1> HIDE DEF n
<1>2. (n = 1 \/ n > 1) /\ (n > 1 => n # 1) /\ (n = 2 => n > 1) /\ (n > 2 \/ n = 2 \/ n = 1)
  BY <1>1
<1> QED
  BY <1>2 DEF n

LEMMA FrontOf ==
  ASSUME NEW p \in Paths, Len(p) > 1
  PROVE  /\ Front(p) \in Paths /\ Len(Front(p)) = Len(p) - 1
         /\ \A i \in 1 .. Len(p) - 1 : Front(p)[i] = p[i]
<1>1. /\ p \in Seq(Dlls) /\ Len(p) \in 1 .. Len(Stages)
      /\ \A i \in 1 .. Len(p) : Id(p[i]) = i
  BY PathIs
<1>2. Len(Stages) \in Nat
  BY StagesAre
<1>3. /\ Front(p) \in Seq(Dlls) /\ Len(Front(p)) = Len(p) - 1
      /\ \A i \in 1 .. Len(p) - 1 : Front(p)[i] = p[i]
  <2>1. 1 \in 1 .. Len(p) + 1 /\ Len(p) - 1 \in 0 .. Len(p) /\ Len(p) - 1 >= 1
    BY <1>1, <1>2
  <2> DEFINE n == Len(p) - 1
  <2>2. /\ SubSeq(p, 1, n) \in Seq(Dlls)
        /\ Len(SubSeq(p, 1, n)) = IF 1 <= n THEN n - 1 + 1 ELSE 0
        /\ \A i \in 1 .. n - 1 + 1 : SubSeq(p, 1, n)[i] = p[1 + i - 1]
    <3>1. n \in Int /\ 1 \in Int /\ \A i \in 1 .. n : p[i] \in Dlls
      BY <1>1, <2>1, ElementOfSeq
    <3> HIDE DEF n
    <3> QED
      BY <3>1, SubSeqProperties
  <2> QED
    BY <1>1, <1>2, <2>1, <2>2 DEF Front
<1> QED
  BY <1>1, <1>2, <1>3, PathIs
-----------------------------------------------------------------------------
(***************************************************************************)
(* ExecutionJudge.  The rule for a path looks at the path before it only,  *)
(* so there is a function that keeps to the rule for all of them.          *)
(***************************************************************************)
Rule(deletes, stays, p) ==
  /\ file[p].there
  /\ Newer(p) \/ ~deletes \/ (Len(p) > 1 /\ ~stays[Front(p)])

KeepsTo(deletes, stays, n) ==
  /\ stays \in [Paths -> BOOLEAN]
  /\ \A p \in Paths : Len(p) <= n => stays[p] = Rule(deletes, stays, p)

LEMMA RuleHasFunction ==
  ASSUME NEW deletes
  PROVE  \E stays : stays = [p \in Paths |-> Rule(deletes, stays, p)]
<1> DEFINE Kept(n) == \E stays : KeepsTo(deletes, stays, n)
           Bad == {n \in Nat : ~Kept(n)}
<1>1. Kept(0)
  <2> DEFINE none == [p \in Paths |-> FALSE]
  <2>1. \A p \in Paths : ~(Len(p) <= 0)
    BY LastOf, StagesAre
  <2>2. KeepsTo(deletes, none, 0)
    BY <2>1 DEF KeepsTo
  <2> QED
    BY <2>2
<1>2. ASSUME NEW n \in Nat, Kept(n)
      PROVE  Kept(n + 1)
  <2>1. PICK f : KeepsTo(deletes, f, n)
    BY <1>2
  <2> DEFINE g == [p \in Paths |-> IF Len(p) = n + 1 THEN Rule(deletes, f, p) ELSE f[p]]
  <2>2. g \in [Paths -> BOOLEAN]
    BY <2>1 DEF KeepsTo, Rule, Newer
  <2>3. ASSUME NEW p \in Paths, Len(p) <= n + 1
        PROVE  g[p] = Rule(deletes, g, p)
    <3>1. Len(p) \in Nat
      BY LastOf, StagesAre
    <3>2. Len(p) > 1 => Front(p) \in Paths /\ Len(Front(p)) # n + 1
      BY <2>3, <3>1, FrontOf
    <3>3. Len(p) > 1 => g[Front(p)] = f[Front(p)]
      BY <3>2
    <3>4. Rule(deletes, g, p) <=> Rule(deletes, f, p)
      <4> HIDE DEF g
      <4> QED
        BY <3>3 DEF Rule
    <3>5. CASE Len(p) = n + 1
      BY <3>4, <3>5 DEF Rule
    <3>6. CASE Len(p) # n + 1
      <4>1. f[p] = Rule(deletes, f, p) /\ g[p] = f[p]
        BY <2>1, <2>3, <3>1, <3>6 DEF KeepsTo
      <4> QED
        BY <3>4, <4>1 DEF Rule
    <3> QED
      BY <3>5, <3>6
  <2> QED
    BY <2>2, <2>3 DEF KeepsTo
<1>3. Bad = {}
  <2> SUFFICES ASSUME Bad # {} PROVE FALSE
    OBVIOUS
  <2>1. PICK m \in Bad : \A n \in Bad : m <= n
    <3> HIDE DEF Bad
    <3> QED
      BY LeastOne DEF Bad
  <2>2. m \in Nat /\ ~Kept(m)
    OBVIOUS
  <2>3. m # 0
    BY <1>1, <2>2
  <2>4. m - 1 \in Nat /\ ~(m <= m - 1)
    BY <2>2, <2>3
  <2>5. Kept(m - 1)
    BY <2>1, <2>4
  <2>6. Kept((m - 1) + 1)
    BY <1>2, <2>4, <2>5
  <2> QED
    BY <2>2, <2>6
<1>4. PICK f : KeepsTo(deletes, f, Len(Stages))
  BY <1>3, StagesAre
<1>5. \A p \in Paths : f[p] = Rule(deletes, f, p)
  BY <1>4, LastOf, StagesAre DEF KeepsTo
<1> QED
  BY <1>4, <1>5 DEF KeepsTo

(* What ExecutionJudge leaves on the disk keeps to its rule.               *)
LEMMA StaysByRule ==
  ASSUME NEW p \in Paths
  PROVE  p \in Stays <=>
           /\ file[p].there
           /\ Newer(p) \/ (Len(p) > 1 /\ Front(p) \notin Stays)
<1>1. PICK f : f = [q \in Paths |-> Rule(TRUE, f, q)]
  BY RuleHasFunction
<1> DEFINE stays == CHOOSE g : g = [q \in Paths |-> Rule(TRUE, g, q)]
<1>2. stays = [q \in Paths |-> Rule(TRUE, stays, q)]
  BY <1>1
<1>3. Stays = {q \in Paths : stays[q]}
  BY DEF Stays, StaysFrom, Rule
<1> HIDE DEF stays
<1>4. \A q \in Paths : q \in Stays <=> Rule(TRUE, stays, q)
  BY <1>2, <1>3
<1> QED
  BY <1>2, <1>3, <1>4, FrontOf DEF Rule
-----------------------------------------------------------------------------
(***************************************************************************)
(* Types.                                                                  *)
(***************************************************************************)
(* A thread that works is in the guard's list, which nothing else empties, *)
(* and its DLL's tag says that it runs.                                    *)
RunInv ==
  /\ \A d \in Dlls : at[d] \in {"load", "next", "test"} => d \in vThread /\ nRun[d] = 1
  /\ \A d \in Dlls : at[d] = "drop" => nRun[d] # 1
  /\ WaitsForTheLiving

LEMMA AddedInBound ==
  ASSUME TypeOK, NEW new \in SUBSET Dlls, NEW ok \in SUBSET new,
         failed + Cardinality(new \ ok) <= MaxFailed
  PROVE  /\ failed + Cardinality(new \ ok) \in 0 .. MaxFailed
         /\ failed > 0 => failed + Cardinality(new \ ok) > 0
         /\ ok # new => failed + Cardinality(new \ ok) > 0
<1>1. IsFiniteSet(new \ ok)
  BY DllsFinite, FS_Subset
<1>2. Cardinality(new \ ok) \in Nat /\ (Cardinality(new \ ok) = 0 <=> new \ ok = {})
  BY <1>1, FS_CardinalityType, FS_EmptySet
<1>3. failed \in 0 .. MaxFailed /\ MaxFailed \in Nat
  BY TestBenchAssumption DEF TypeOK
<1> QED
  BY <1>2, <1>3

LEMMA TypeInit == Init => TypeOK
<1>1. 0 \in 0 .. Len(Stages) /\ 0 \in 0 .. MaxFailed
  BY SomeStages, TestBenchAssumption
<1>2. NoFile \in Files
  BY DEF NoFile, Files
<1> SUFFICES ASSUME Init PROVE TypeOK
  OBVIOUS
<1>3. file \in [Paths -> Files] /\ nRun \in [Dlls -> {-1, 0, 1}]
  BY <1>2 DEF Init
<1>4. result \in [Paths -> {"todo", "ok", "zero", "bad"}] /\ reused \subseteq Paths
  BY DEF Init
<1>5. oldId \in 0 .. Len(Stages) /\ failed \in 0 .. MaxFailed
  <2>1. oldId = 0 /\ failed = 0
    BY DEF Init
  <2> QED
    BY <1>1, <2>1, Zenon
<1>6. /\ at \in [Dlls -> {"none", "load", "drop", "next", "test"}]
      /\ on \in [Dlls -> Paths \cup {None}]
      /\ \A d \in Dlls : IF at[d] = "test" THEN on[d] \in PathsOf(d) ELSE on[d] = None
  BY DEF Init
<1>7. /\ vThread \subseteq Dlls /\ bRunning \in BOOLEAN /\ guard \in {"off", "reap", "add"}
      /\ shown \in {"execute", "stop"} /\ said \in {"", "done", "stopped"} /\ hurt \in BOOLEAN
  BY DEF Init
<1> QED
  BY <1>3, <1>4, <1>5, <1>6, <1>7 DEF TypeOK

LEMMA ThreadKeepsTypes ==
  ASSUME TypeOK, NEW d \in Dlls, Thread(d)
  PROVE  TypeOK'
<1> USE DEF TypeOK
<1>1. \A p \in PathsOf(d) : p \in Paths /\ p # None
  BY LastOf DEF PathsOf
<1>2. UNCHANGED <<oldId, vThread, failed, bRunning, guard, shown, said, reused>>
  BY DEF Thread, box, dialog
<1>3. CASE Load(d)
  BY <1>2, <1>3 DEF Load
<1>4. CASE Drop(d)
  BY <1>2, <1>4 DEF Drop
<1>5. CASE Begin(d)
  <2>1. PICK p \in PathsOf(d) :
          /\ at[d] = "next" /\ result[p] = "todo"
          /\ \/ result' = [result EXCEPT ![p] = "bad"] /\ UNCHANGED <<file, at, on>>
             \/ /\ file' = [file EXCEPT ![p] =
                     [there |-> TRUE, whole |-> FALSE, fresh |-> FALSE,
                      own |-> @.there => @.own,
                      input |-> IsFirst(p) /\ (@.there => @.input)]]
                /\ at' = [at EXCEPT ![d] = "test"] /\ on' = [on EXCEPT ![d] = p]
                /\ UNCHANGED result
          /\ UNCHANGED <<nRun, hurt>>
    BY <1>5 DEF Begin
  <2> DEFINE r == [there |-> TRUE, whole |-> FALSE, fresh |-> FALSE,
                   own |-> file[p].there => file[p].own,
                   input |-> IsFirst(p) /\ (file[p].there => file[p].input)]
  <2>2. file' \in [Paths -> Files]
    <3>1. r \in Files
      BY DEF Files, IsFirst
    <3>2. file' = file \/ file' = [file EXCEPT ![p] = r]
      BY <2>1
    <3> HIDE DEF r
    <3> QED
      BY <1>1, <3>1, <3>2
  <2>3. result' \in [Paths -> {"todo", "ok", "zero", "bad"}]
    BY <1>1, <2>1
  <2>4. at' \in [Dlls -> {"none", "load", "drop", "next", "test"}] /\ on' \in [Dlls -> Paths \cup {None}]
    BY <1>1, <2>1
  <2>5. \A e \in Dlls : IF at'[e] = "test" THEN on'[e] \in PathsOf(e) ELSE on'[e] = None
    BY <1>1, <2>1
  <2> QED
    BY <1>2, <2>1, <2>2, <2>3, <2>4, <2>5
<1>6. CASE Finish(d)
  <2>1. on[d] \in Paths
    BY <1>1, <1>6 DEF Finish
  <2> DEFINE from == IF Len(on[d]) = 1 THEN [whole |-> TRUE, fresh |-> TRUE]
                     ELSE file[Front(on[d])]
  <2>2. file' = [file EXCEPT ![on[d]].whole = from.whole, ![on[d]].fresh = from.fresh]
    BY <1>6 DEF Finish
  <2>5. from.whole \in BOOLEAN /\ from.fresh \in BOOLEAN
    <3>1. Len(on[d]) # 1 => Len(on[d]) > 1
      BY <2>1, LastOf, Zenon
    <3>2. Len(on[d]) # 1 => Front(on[d]) \in Paths
      BY <2>1, <3>1, FrontOf
    <3>3. file[on[d]] \in Files /\ (Len(on[d]) # 1 => file[Front(on[d])] \in Files)
      BY <2>1, <3>2
    <3> QED
      BY <3>3 DEF Files
  <2> HIDE DEF from
  <2>3. file' \in [Paths -> Files]
    <3>1. PICK p \in Paths : p = on[d]
      BY <2>1
    <3> DEFINE r == [file[p] EXCEPT !.whole = from.whole, !.fresh = from.fresh]
    <3>2. file[p] \in Files
      OBVIOUS
    <3>3. r \in Files
      BY <2>5, <3>2 DEF Files
    <3>4. file' = [file EXCEPT ![p] = r]
      BY <2>2, <3>1, <3>2 DEF Files
    <3> HIDE DEF r
    <3> QED
      BY <3>3, <3>4
  <2>4. result' \in [Paths -> {"todo", "ok", "zero", "bad"}]
    BY <1>6, <2>1 DEF Finish
  <2> QED
    BY <1>2, <1>6, <2>3, <2>4 DEF Finish
<1>7. CASE FailTest(d)
  BY <1>2, <1>7 DEF FailTest
<1>8. CASE EndRun(d)
  BY <1>2, <1>8 DEF EndRun
<1> QED
  BY <1>3, <1>4, <1>5, <1>6, <1>7, <1>8 DEF Thread

LEMMA TypeStep == TypeOK /\ RunInv /\ [Next]_vars => TypeOK'
<1> SUFFICES ASSUME TypeOK, RunInv, [Next]_vars PROVE TypeOK'
  OBVIOUS
<1> USE DEF TypeOK
<1>1. CASE Execute
  <2>1. file' \in [Paths -> Files]
    BY <1>1 DEF Execute, Files, NoFile
  <2>2. reused' \subseteq Paths
    BY <1>1 DEF Execute, Counts, Stays, StaysFrom
  <2>3. oldId' \in 0 .. Len(Stages)
    <3>1. oldId' = 0
      BY <1>1 DEF Execute
    <3> QED
      BY <3>1, SomeStages, Zenon
  <2> QED
    BY <1>1, <2>1, <2>2, <2>3 DEF Execute
<1>2. CASE StopTest
  BY <1>2 DEF StopTest
<1>3. CASE OnTimer
  BY <1>3 DEF OnTimer, box, history
<1>4. CASE Reap
  <2>1. oldId' \in 0 .. Len(Stages)
    <3>1. \A d \in vThread : Id(d) \in 1 .. Len(Stages)
      BY IdOf
    <3> QED
      <4>1. oldId' = oldId \/ \E d \in vThread : oldId' = Id(d)
        BY <1>4 DEF Reap
      <4>2. oldId \in 0 .. Len(Stages)
        OBVIOUS
      <4> QED
        BY <3>1, <4>1, <4>2, SomeStages, Zenon
  <2> QED
    BY <1>4, <2>1 DEF Reap, dialog, history
<1>5. CASE Add
  <2>1. CASE ~Empty \/ oldId = Len(Stages)
    BY <1>5, <2>1 DEF Add, dialog
  <2>2. CASE ~(~Empty \/ oldId = Len(Stages))
    <3> DEFINE new == {d \in Dlls : Id(d) = oldId + 1}
    <3>1. PICK ok \in SUBSET new :
            /\ failed + Cardinality(new \ ok) <= MaxFailed
            /\ failed' = failed + Cardinality(new \ ok) /\ hurt' = (hurt \/ ok # new)
            /\ nRun' = [d \in Dlls |-> IF d \in new THEN 1 ELSE nRun[d]]
            /\ vThread' = vThread \cup ok
            /\ at' = [d \in Dlls |-> IF d \in ok THEN "load" ELSE at[d]]
            /\ UNCHANGED bRunning
      BY <1>5, <2>2 DEF Add
    <3>2. UNCHANGED <<file, result, oldId, on, shown, said, reused>> /\ guard' = "reap"
      BY <1>5 DEF Add, dialog
    <3>3. failed' \in 0 .. MaxFailed
      BY <3>1, AddedInBound
    <3>4. \A d \in Dlls : at[d] # "test"
      BY <2>2 DEF RunInv, Empty
    <3> QED
      BY <3>1, <3>2, <3>3, <3>4
  <2> QED
    BY <2>1, <2>2
<1>6. CASE Destory
  BY <1>6 DEF Destory, Left, dialog, history
<1>7. CASE ReplaceInput
  <2>1. file' \in [Paths -> Files]
    BY <1>7 DEF ReplaceInput, Files
  <2> QED
    BY <1>7, <2>1 DEF ReplaceInput, box, dialog
<1>8. ASSUME NEW d \in Dlls, ReplaceDll(d)
      PROVE  TypeOK'
  <2>1. file' \in [Paths -> Files]
    BY <1>8 DEF ReplaceDll, Files
  <2> QED
    BY <1>8, <2>1 DEF ReplaceDll, box, dialog
<1>9. CASE UNCHANGED vars
  BY <1>9 DEF vars, box, dialog, history
<1> QED
  BY <1>1, <1>2, <1>3, <1>4, <1>5, <1>6, <1>7, <1>8, <1>9, ThreadKeepsTypes DEF Next, Guard
-----------------------------------------------------------------------------
(***************************************************************************)
(* The course of a test.                                                   *)
(***************************************************************************)
(* The guard's threads are of one stage, that of oldId or, until the next  *)
(* turn, the one after it.                                                 *)
StageInv ==
  /\ guard = "off" => vThread = {}
  /\ \A d, e \in vThread : Id(d) = Id(e)
  /\ \A d \in vThread : Id(d) = oldId \/ (guard = "reap" /\ Id(d) = oldId + 1)

(* The guard has come to the stage of the DLL.                             *)
Begun(d) == Id(d) <= oldId \/ \E e \in vThread : Id(e) = Id(d)
Todo(d) == \E p \in PathsOf(d) : result[p] = "todo"

BegunInv ==
  guard # "off" => \A d \in Dlls :
    /\ ~Begun(d) => at[d] = "none" /\ nRun[d] # -1
    /\ Begun(d) /\ nRun[d] = 0 => ~Todo(d)

(* Why the guard leaves by itself: after the last stage.                   *)
EndInv ==
  /\ guard # "off" \/ shown = "stop" =>
       \A d \in Dlls : nRun[d] = 1 => d \in vThread \/ failed > 0
  /\ guard # "off" /\ shown = "stop" /\ ~bRunning =>
       guard = "reap" /\ oldId = Len(Stages) /\ vThread = {}

(* The guard may still start threads then, but they find nothing to do.    *)
DoneInv == said = "done" => \A d \in Dlls : at[d] # "test" /\ (nRun[d] # -1 => ~Todo(d))

CourseInv ==
  TypeOK /\ RunInv /\ StageInv /\ BegunInv /\ EndInv /\ DoneInv /\ EndedIsComplete

(* What a step of a DLL's thread changes.                                  *)
ThreadMoves(d) ==
  /\ UNCHANGED <<bRunning, guard, oldId, vThread, shown, said, failed, reused>>
  /\ at[d] # "none"
  /\ \A e \in Dlls \ {d} : at'[e] = at[e] /\ nRun'[e] = nRun[e] /\ on'[e] = on[e]
  /\ \A p \in Paths : result'[p] = "todo" => result[p] = "todo"
  /\ at'[d] \in {"load", "next", "test"} =>
       at[d] \in {"load", "next", "test"} /\ nRun'[d] = nRun[d]
  /\ at'[d] = "drop" => nRun'[d] = -1
  /\ at'[d] = "none" => nRun'[d] \in {0, -1} \/ (at[d] = "drop" /\ nRun'[d] = nRun[d])
  /\ at'[d] = "test" => at[d] = "next" /\ Todo(d)
  /\ nRun'[d] = nRun[d] \/ (nRun'[d] = -1 /\ at[d] = "load") \/ (nRun'[d] = 0 /\ ~Todo(d)')
  /\ nRun'[d] = -1 => nRun[d] = -1 \/ hurt'
  /\ hurt => hurt'

LEMMA ThreadIsMove ==
  ASSUME TypeOK, NEW d \in Dlls, Thread(d)
  PROVE  ThreadMoves(d)
<1>1. /\ at \in [Dlls -> {"none", "load", "drop", "next", "test"}]
      /\ nRun \in [Dlls -> {-1, 0, 1}] /\ on \in [Dlls -> Paths \cup {None}]
      /\ result \in [Paths -> {"todo", "ok", "zero", "bad"}]
      /\ at[d] = "test" => on[d] \in Paths
  BY DEF TypeOK, PathsOf
<1>2. UNCHANGED <<oldId, vThread, failed, bRunning, guard, shown, said, reused>>
  BY DEF Thread, box, dialog
<1>3. CASE Load(d)
  BY <1>1, <1>2, <1>3 DEF Load, ThreadMoves
<1>4. CASE Drop(d)
  BY <1>1, <1>2, <1>4 DEF Drop, ThreadMoves
<1>5. CASE Begin(d)
  <2>1. \A p \in PathsOf(d) : p \in Paths
    BY DEF PathsOf
  <2> QED
    BY <1>1, <1>2, <1>5, <2>1 DEF Begin, ThreadMoves, Todo
<1>6. CASE Finish(d)
  BY <1>1, <1>2, <1>6 DEF Finish, ThreadMoves
<1>7. CASE FailTest(d)
  BY <1>1, <1>2, <1>7 DEF FailTest, ThreadMoves
<1>8. CASE EndRun(d)
  BY <1>1, <1>2, <1>8 DEF EndRun, AllTested, ThreadMoves, Todo, PathsOf
<1> QED
  BY <1>3, <1>4, <1>5, <1>6, <1>7, <1>8 DEF Thread

LEMMA ThreadKeepsCourse ==
  ASSUME CourseInv, NEW d \in Dlls, Thread(d)
  PROVE  CourseInv'
<1>1. ThreadMoves(d) /\ TypeOK /\ TypeOK'
  BY ThreadIsMove, ThreadKeepsTypes DEF CourseInv
<1>2. UNCHANGED <<bRunning, guard, oldId, vThread, shown, said, failed>>
  BY <1>1 DEF ThreadMoves
<1>3. \A e \in Dlls : (Begun(e)' <=> Begun(e)) /\ (Todo(e)' => Todo(e))
  BY <1>1 DEF ThreadMoves, Begun, Todo, PathsOf
<1>4. /\ nRun \in [Dlls -> {-1, 0, 1}] /\ nRun' \in [Dlls -> {-1, 0, 1}]
      /\ at \in [Dlls -> {"none", "load", "drop", "next", "test"}]
      /\ at' \in [Dlls -> {"none", "load", "drop", "next", "test"}]
      /\ vThread \subseteq Dlls
  BY <1>1 DEF TypeOK
<1>5. RunInv'
  BY <1>1, <1>2, <1>4 DEF CourseInv, RunInv, WaitsForTheLiving, Ended, ThreadMoves
<1>6. StageInv'
  BY <1>2 DEF CourseInv, StageInv
<1>7. at[d] \in {"load", "next", "test"} => d \in vThread /\ nRun[d] = 1 /\ guard # "off" /\ Begun(d)
  BY <1>4 DEF CourseInv, RunInv, StageInv, Begun
<1>8. BegunInv'
  <2> SUFFICES ASSUME guard # "off", NEW e \in Dlls
               PROVE  /\ ~Begun(e) => at'[e] = "none" /\ nRun'[e] # -1
                      /\ Begun(e) /\ nRun'[e] = 0 => ~Todo(e)'
    BY <1>2, <1>3 DEF BegunInv
  <2>1. CASE e = d
    BY <1>1, <1>3, <1>4, <1>7, <2>1 DEF CourseInv, BegunInv, ThreadMoves
  <2>2. CASE e # d
    BY <1>1, <1>3, <2>2 DEF CourseInv, BegunInv, ThreadMoves
  <2> QED
    BY <2>1, <2>2
<1>9. \A e \in Dlls : nRun'[e] = 1 => nRun[e] = 1
  BY <1>1 DEF ThreadMoves
<1>10. EndInv'
  BY <1>2, <1>9 DEF CourseInv, EndInv
<1>11. DoneInv'
  <2> SUFFICES ASSUME said = "done", NEW e \in Dlls
               PROVE  at'[e] # "test" /\ (nRun'[e] # -1 => ~Todo(e)')
    BY <1>2 DEF DoneInv
  <2>1. at[e] # "test" /\ (nRun[e] # -1 => ~Todo(e))
    BY DEF CourseInv, DoneInv
  <2>2. CASE e = d
    BY <1>1, <1>3, <1>4, <1>7, <2>1, <2>2 DEF ThreadMoves
  <2>3. CASE e # d
    BY <1>1, <1>3, <2>1, <2>3 DEF ThreadMoves
  <2> QED
    BY <2>2, <2>3
<1>12. EndedIsComplete'
  <2> SUFFICES ASSUME guard = "off", shown = "stop", NEW e \in Dlls
               PROVE  (nRun'[e] = 0 => ~Todo(e)') /\ (nRun'[e] = 1 => failed > 0)
    BY <1>2 DEF EndedIsComplete, Todo
  <2>1. (nRun[e] = 0 => ~Todo(e)) /\ (nRun[e] = 1 => failed > 0)
    BY DEF CourseInv, EndedIsComplete, Todo
  <2>2. CASE e = d
    BY <1>1, <1>3, <2>1, <2>2 DEF ThreadMoves
  <2>3. CASE e # d
    BY <1>1, <1>3, <2>1, <2>3 DEF ThreadMoves
  <2> QED
    BY <2>2, <2>3
<1> QED
  BY <1>1, <1>5, <1>6, <1>8, <1>10, <1>11, <1>12 DEF CourseInv

LEMMA AddIs ==
  ASSUME TypeOK, Add
  PROVE  /\ guard = "add" /\ guard' = "reap"
         /\ UNCHANGED <<file, result, oldId, on, shown, said, reused>>
         /\ \/ vThread # {} /\ UNCHANGED <<nRun, bRunning, vThread, at, failed, hurt>>
            \/ /\ vThread = {} /\ oldId = Len(Stages) /\ ~bRunning'
               /\ UNCHANGED <<nRun, vThread, at, failed, hurt>>
            \/ /\ vThread = {} /\ UNCHANGED bRunning
               /\ \A d \in Dlls : /\ Id(d) = oldId + 1 => nRun'[d] = 1
                                  /\ Id(d) # oldId + 1 => nRun'[d] = nRun[d]
               /\ \A d \in vThread' : d \in Dlls /\ Id(d) = oldId + 1 /\ at'[d] = "load"
               /\ \A d \in Dlls \ vThread' : at'[d] = at[d]
               /\ \A d \in Dlls : Id(d) = oldId + 1 => d \in vThread' \/ (failed' > 0 /\ hurt')
               /\ failed > 0 => failed' > 0
               /\ hurt => hurt'
               /\ failed' > 0 => failed > 0 \/ hurt'
<1>1. guard = "add" /\ guard' = "reap" /\ UNCHANGED <<file, result, oldId, on, shown, said, reused>>
  BY DEF Add, dialog
<1>2. CASE ~Empty
  BY <1>1, <1>2 DEF Add, Empty
<1>3. CASE Empty /\ oldId = Len(Stages)
  BY <1>1, <1>3 DEF Add, Empty
<1>4. CASE Empty /\ oldId # Len(Stages)
  <2> DEFINE new == {d \in Dlls : Id(d) = oldId + 1}
  <2>1. PICK ok \in SUBSET new :
          /\ failed + Cardinality(new \ ok) <= MaxFailed
          /\ failed' = failed + Cardinality(new \ ok) /\ hurt' = (hurt \/ ok # new)
          /\ nRun' = [d \in Dlls |-> IF d \in new THEN 1 ELSE nRun[d]]
          /\ vThread' = vThread \cup ok
          /\ at' = [d \in Dlls |-> IF d \in ok THEN "load" ELSE at[d]]
          /\ UNCHANGED bRunning
    BY <1>4 DEF Add
  <2>2. (ok # new => failed' > 0) /\ (failed > 0 => failed' > 0)
    <3> HIDE DEF new
    <3>1. new \in SUBSET Dlls
      BY DEF new
    <3> QED
      BY <2>1, <3>1, AddedInBound
  <2>3. ok = new => failed' = failed
    <3>1. Cardinality({}) = 0 /\ failed \in 0 .. MaxFailed /\ MaxFailed \in Nat
      BY FS_EmptySet, TestBenchAssumption DEF TypeOK
    <3>2. ok = new => new \ ok = {}
      OBVIOUS
    <3> HIDE DEF new
    <3> QED
      BY <2>1, <3>1, <3>2
  <2>4. vThread = {} /\ vThread' = ok
    BY <1>4, <2>1 DEF Empty
  <2> QED
    BY <1>1, <2>1, <2>2, <2>3, <2>4
<1> QED
  BY <1>2, <1>3, <1>4

LEMMA AddKeepsCourse ==
  ASSUME CourseInv, TypeOK', Add
  PROVE  CourseInv'
<1>1. /\ TypeOK
      /\ nRun \in [Dlls -> {-1, 0, 1}] /\ nRun' \in [Dlls -> {-1, 0, 1}]
      /\ vThread \subseteq Dlls /\ oldId \in Nat
      /\ guard = "add" /\ guard' = "reap" /\ (shown = "stop" => bRunning)
      /\ UNCHANGED <<result, oldId, shown, said>>
  <2>1. TypeOK /\ oldId \in 0 .. Len(Stages)
    BY DEF CourseInv, TypeOK
  <2>2. oldId \in Nat
    BY <2>1, SomeStages, Zenon
  <2>3. guard = "add" /\ guard' = "reap" /\ UNCHANGED <<result, oldId, shown, said>>
    BY <2>1, AddIs
  <2>4. shown = "stop" => bRunning
    BY <2>3 DEF CourseInv, EndInv
  <2> QED
    BY <2>1, <2>2, <2>3, <2>4 DEF TypeOK
<1>2. \A d \in Dlls : Id(d) \in Nat
  BY IdIn
<1>3. \A d \in Dlls : Todo(d)' = Todo(d)
  BY <1>1 DEF Todo
<1>4. EndedIsComplete'
  BY <1>1 DEF EndedIsComplete
<1>5. CASE vThread # {} /\ UNCHANGED <<nRun, bRunning, vThread, at, failed, hurt>>
  <2>1. RunInv' /\ StageInv'
    BY <1>1, <1>5 DEF CourseInv, RunInv, WaitsForTheLiving, Ended, StageInv
  <2>2. \A d \in Dlls : Begun(d)' = Begun(d)
    BY <1>1, <1>5 DEF Begun
  <2>3. BegunInv' /\ EndInv' /\ DoneInv'
    BY <1>1, <1>3, <1>5, <2>2 DEF CourseInv, BegunInv, EndInv, DoneInv
  <2> QED
    BY <1>4, <2>1, <2>3 DEF CourseInv
<1>6. CASE /\ vThread = {} /\ oldId = Len(Stages) /\ ~bRunning'
           /\ UNCHANGED <<nRun, vThread, at, failed, hurt>>
  <2>1. RunInv' /\ StageInv'
    BY <1>1, <1>6 DEF CourseInv, RunInv, WaitsForTheLiving, Ended, StageInv
  <2>2. \A d \in Dlls : Begun(d)' = Begun(d)
    BY <1>1, <1>6 DEF Begun
  <2>3. BegunInv' /\ EndInv' /\ DoneInv'
    BY <1>1, <1>3, <1>6, <2>2 DEF CourseInv, BegunInv, EndInv, DoneInv
  <2> QED
    BY <1>4, <2>1, <2>3 DEF CourseInv
<1>7. CASE /\ vThread = {} /\ UNCHANGED bRunning
           /\ \A d \in Dlls : /\ Id(d) = oldId + 1 => nRun'[d] = 1
                              /\ Id(d) # oldId + 1 => nRun'[d] = nRun[d]
           /\ \A d \in vThread' : d \in Dlls /\ Id(d) = oldId + 1 /\ at'[d] = "load"
           /\ \A d \in Dlls \ vThread' : at'[d] = at[d]
           /\ \A d \in Dlls : Id(d) = oldId + 1 => d \in vThread' \/ (failed' > 0 /\ hurt')
           /\ failed > 0 => failed' > 0
           /\ hurt => hurt'
           /\ failed' > 0 => failed > 0 \/ hurt'
  <2>1. \A d \in Dlls : ~Begun(d) <=> Id(d) > oldId
    BY <1>1, <1>2, <1>7 DEF Begun
  <2>2. \A d \in Dlls : Id(d) = oldId + 1 => at[d] = "none" /\ nRun[d] # -1
    BY <1>1, <1>2, <2>1 DEF CourseInv, BegunInv
  <2>3. \A d \in Dlls : at[d] \notin {"load", "next", "test"}
    BY <1>7 DEF CourseInv, RunInv
  <2>4. RunInv'
    BY <1>1, <1>7, <2>2, <2>3 DEF CourseInv, RunInv, WaitsForTheLiving
  <2>5. StageInv'
    BY <1>1, <1>7 DEF StageInv
  <2>6. BegunInv'
    <3>1. \A d \in Dlls : /\ Begun(d) => nRun'[d] = nRun[d]
                          /\ Begun(d)' => Begun(d) \/ Id(d) = oldId + 1
                          /\ ~Begun(d)' => ~Begun(d) /\ d \notin vThread'
      BY <1>1, <1>2, <1>7, <2>1 DEF Begun
    <3>2. \A d \in Dlls : ~Begun(d)' => at'[d] = "none" /\ nRun'[d] # -1
      BY <1>1, <1>7, <3>1 DEF CourseInv, BegunInv
    <3>3. \A d \in Dlls : Begun(d)' /\ nRun'[d] = 0 => ~Todo(d)'
      BY <1>1, <1>3, <1>7, <3>1 DEF CourseInv, BegunInv
    <3> QED
      BY <3>2, <3>3 DEF BegunInv
  <2>7. EndInv'
    <3>1. \A d \in Dlls : nRun'[d] = 1 => d \in vThread' \/ failed' > 0
      BY <1>1, <1>7 DEF CourseInv, EndInv
    <3> QED
      BY <1>1, <1>7, <3>1 DEF EndInv
  <2>8. DoneInv'
    BY <1>1, <1>3, <1>7, <2>2 DEF CourseInv, DoneInv
  <2> QED
    BY <1>4, <2>4, <2>5, <2>6, <2>7, <2>8 DEF CourseInv
<1> QED
  BY <1>1, <1>5, <1>6, <1>7, AddIs

LEMMA GuardKeepsCourse ==
  ASSUME CourseInv, TypeOK', Reap \/ Destory
  PROVE  CourseInv'
<1>1. /\ TypeOK
      /\ nRun \in [Dlls -> {-1, 0, 1}] /\ at \in [Dlls -> {"none", "load", "drop", "next", "test"}]
      /\ vThread \subseteq Dlls /\ oldId \in 0 .. Len(Stages)
      /\ UNCHANGED <<nRun, result, bRunning, shown, said, failed>>
  BY DEF CourseInv, TypeOK, Reap, Destory, dialog
<1>2. \A d \in Dlls : Id(d) \in Nat
  BY IdIn
<1>3. oldId \in Nat
  BY <1>1, SomeStages, Zenon
<1>4. \A d \in Dlls : Todo(d)' = Todo(d)
  BY <1>1 DEF Todo
<1>5. CASE Reap
  <2>1. /\ guard = "reap" /\ guard' = "add" /\ bRunning /\ at' = at
        /\ vThread' = {d \in vThread : nRun[d] = 1}
        /\ vThread = {} => oldId' = oldId
        /\ vThread # {} => \E c \in vThread : oldId' = Id(c)
    BY <1>5 DEF Reap, Ended
  <2>2. RunInv'
    BY <1>1, <2>1 DEF CourseInv, RunInv, WaitsForTheLiving, Ended
  <2>3. StageInv'
    BY <2>1 DEF CourseInv, StageInv
  <2>4. \A d \in Dlls : Begun(d)' <=> Begun(d)
    <3>1. CASE vThread = {}
      BY <1>1, <2>1, <3>1 DEF Begun
    <3>2. CASE vThread # {}
      <4>1. PICK c \in vThread : oldId' = Id(c)
        BY <2>1, <3>2
      <4>2. \A e \in vThread : Id(e) = Id(c)
        BY DEF CourseInv, StageInv
      <4>3. Id(c) \in {oldId, oldId + 1} /\ c \in Dlls /\ Id(c) \in Nat
        BY <1>1, <1>2 DEF CourseInv, StageInv
      <4>4. \A d \in Dlls : Begun(d) <=> Id(d) <= oldId \/ Id(d) = Id(c)
        BY <4>2 DEF Begun
      <4>5. \A d \in Dlls : Begun(d)' <=> Id(d) <= Id(c)
        BY <1>1, <1>2, <2>1, <4>1, <4>2, <4>3 DEF Begun
      <4> QED
        BY <1>2, <1>3, <4>3, <4>4, <4>5
    <3> QED
      BY <3>1, <3>2
  <2>5. BegunInv'
    BY <1>1, <1>4, <2>1, <2>4 DEF CourseInv, BegunInv
  <2>6. EndInv'
    BY <1>1, <2>1 DEF CourseInv, EndInv
  <2>7. DoneInv' /\ EndedIsComplete'
    BY <1>1, <1>4, <2>1 DEF CourseInv, DoneInv, EndedIsComplete
  <2> QED
    BY <2>2, <2>3, <2>5, <2>6, <2>7 DEF CourseInv
<1>6. CASE Destory
  <2>1. /\ guard = "reap" /\ guard' = "off" /\ ~bRunning /\ vThread' = {}
        /\ at' = [d \in Dlls |-> IF d \in vThread THEN "none" ELSE at[d]]
    BY <1>6 DEF Destory
  <2>2. RunInv' /\ StageInv' /\ BegunInv'
    BY <1>1, <2>1 DEF CourseInv, RunInv, WaitsForTheLiving, StageInv, BegunInv
  <2>3. EndInv' /\ DoneInv'
    BY <1>1, <1>4, <2>1 DEF CourseInv, EndInv, DoneInv
  <2>4. EndedIsComplete'
    <3> SUFFICES ASSUME shown = "stop", NEW d \in Dlls
                 PROVE  (nRun[d] = 0 => ~Todo(d)) /\ (nRun[d] = 1 => failed > 0)
      BY <1>1, <1>4 DEF EndedIsComplete, Todo
    <3>1. oldId = Len(Stages) /\ vThread = {}
      BY <2>1 DEF CourseInv, EndInv
    <3>2. Begun(d)
      <4> DEFINE N == Len(Stages)
                 k == Id(d)
      <4>1. k \in 1 .. N /\ N \in Nat
        BY IdOf, SomeStages
      <4> HIDE DEF N, k
      <4>2. k <= N
        BY <4>1
      <4> QED
        BY <3>1, <4>2 DEF Begun, N, k
    <3> QED
      BY <2>1, <3>1, <3>2 DEF CourseInv, BegunInv, EndInv
  <2> QED
    BY <2>2, <2>3, <2>4 DEF CourseInv
<1> QED
  BY <1>5, <1>6

LEMMA CourseInit == Init => CourseInv
<1> SUFFICES ASSUME Init PROVE CourseInv
  OBVIOUS
<1>1. TypeOK
  BY TypeInit
<1>2. RunInv /\ StageInv /\ BegunInv /\ EndInv /\ DoneInv /\ EndedIsComplete
  BY DEF Init, RunInv, WaitsForTheLiving, StageInv, BegunInv, EndInv, DoneInv, EndedIsComplete
<1> QED
  BY <1>1, <1>2 DEF CourseInv

LEMMA CourseStep == CourseInv /\ [Next]_vars => CourseInv'
<1> SUFFICES ASSUME CourseInv, [Next]_vars PROVE CourseInv'
  OBVIOUS
<1>1. TypeOK /\ TypeOK'
  BY TypeStep DEF CourseInv
<1>2. nRun \in [Dlls -> {-1, 0, 1}]
  BY <1>1 DEF TypeOK
<1>3. CASE Execute
  <2>1. \A d \in Dlls : at'[d] = "none" /\ nRun'[d] = 0
    BY <1>3 DEF Execute
  <2>5. oldId' = 0 /\ vThread' = {}
    BY <1>3 DEF Execute
  <2>6. guard' = "reap" /\ bRunning' = TRUE /\ said' = ""
    BY <1>3 DEF Execute
  <2>2. \A d \in Dlls : ~Begun(d)'
    <3>1. \A d \in Dlls : ~(Id(d) <= 0)
      BY IdIn
    <3> QED
      BY <2>5, <3>1 DEF Begun
  <2>3. RunInv' /\ StageInv'
    BY <2>1, <2>5, <2>6 DEF RunInv, WaitsForTheLiving, StageInv
  <2>4. BegunInv'
    BY <2>1, <2>2 DEF BegunInv
  <2>7. EndInv'
    <3>1. \A d \in Dlls : ~(nRun'[d] = 1)
      BY <2>1
    <3>2. ~(~bRunning')
      BY <2>6, Zenon
    <3> QED
      BY <3>1, <3>2, Zenon DEF EndInv
  <2>8. DoneInv' /\ EndedIsComplete'
    BY <2>6 DEF DoneInv, EndedIsComplete
  <2> QED
    BY <1>1, <2>3, <2>4, <2>7, <2>8 DEF CourseInv
<1>4. CASE StopTest
  <2>1. /\ UNCHANGED <<nRun, result, guard, oldId, vThread, at, failed>>
        /\ shown = "stop" /\ shown' = "execute" /\ said' = "stopped"
    BY <1>4 DEF StopTest
  <2>2. \A d \in Dlls : Begun(d)' = Begun(d) /\ Todo(d)' = Todo(d)
    BY <2>1 DEF Begun, Todo
  <2>3. RunInv' /\ StageInv' /\ BegunInv'
    BY <2>1, <2>2 DEF CourseInv, RunInv, WaitsForTheLiving, Ended, StageInv, BegunInv
  <2>4. EndInv' /\ DoneInv' /\ EndedIsComplete'
    BY <2>1 DEF CourseInv, EndInv, DoneInv, EndedIsComplete
  <2> QED
    BY <1>1, <2>3, <2>4 DEF CourseInv
<1>5. CASE OnTimer
  <2>1. /\ UNCHANGED <<nRun, result, guard, oldId, vThread, at, failed, bRunning>>
        /\ shown = "stop" /\ shown' = "execute" /\ \A d \in Dlls : Progress(d) # 0
    BY <1>5 DEF OnTimer, box
  <2>2. \A d \in Dlls : Begun(d)' = Begun(d) /\ Todo(d)' = Todo(d)
    BY <2>1 DEF Begun, Todo
  <2>3. RunInv' /\ StageInv' /\ BegunInv'
    BY <2>1, <2>2 DEF CourseInv, RunInv, WaitsForTheLiving, Ended, StageInv, BegunInv
  <2>4. EndInv' /\ EndedIsComplete'
    BY <2>1 DEF CourseInv, EndInv, EndedIsComplete
  <2>5. \A d \in Dlls : nRun[d] # 1 /\ (nRun[d] # -1 => ~Todo(d))
    BY <2>1 DEF Progress, ProgressFrom, Todo
  <2>6. DoneInv'
    BY <2>1, <2>2, <2>5 DEF CourseInv, RunInv, DoneInv
  <2> QED
    BY <1>1, <2>3, <2>4, <2>6 DEF CourseInv
<1>6. CASE ReplaceInput \/ (\E d \in Dlls : ReplaceDll(d)) \/ UNCHANGED vars
  <2>1. UNCHANGED <<nRun, result, guard, oldId, vThread, at, failed, bRunning, shown, said>>
    BY <1>6 DEF ReplaceInput, ReplaceDll, vars, box, dialog
  <2>2. \A d \in Dlls : Begun(d)' = Begun(d) /\ Todo(d)' = Todo(d)
    BY <2>1 DEF Begun, Todo
  <2>3. RunInv' /\ StageInv' /\ BegunInv'
    BY <2>1, <2>2 DEF CourseInv, RunInv, WaitsForTheLiving, Ended, StageInv, BegunInv
  <2>4. EndInv' /\ DoneInv' /\ EndedIsComplete'
    BY <2>1, <2>2 DEF CourseInv, EndInv, DoneInv, EndedIsComplete
  <2> QED
    BY <1>1, <2>3, <2>4 DEF CourseInv
<1>7. CASE \E d \in Dlls : Thread(d)
  BY <1>7, ThreadKeepsCourse
<1>8. CASE Guard
  BY <1>1, <1>8, AddKeepsCourse, GuardKeepsCourse DEF Guard
<1> QED
  BY <1>3, <1>4, <1>5, <1>6, <1>7, <1>8 DEF Next

LEMMA CourseHolds == Spec => []CourseInv
BY CourseInit, CourseStep, PTL DEF Spec

(***************************************************************************)
(* The threads that work are in the guard's list, and those are all of one *)
(* stage.                                                                  *)
(***************************************************************************)
LEMMA CourseGivesStages == CourseInv => StagesRight
<1> SUFFICES ASSUME CourseInv PROVE StagesRight
  OBVIOUS
<1>1. TypeOK /\ EndedIsComplete /\ at \in [Dlls -> {"none", "load", "drop", "next", "test"}]
  BY DEF CourseInv, TypeOK
<1>2. StagesInOrder
  <2> SUFFICES ASSUME NEW d \in Dlls, NEW e \in Dlls,
                      at[d] \in {"next", "test"}, Id(e) < Id(d)
               PROVE  at[e] \in {"none", "drop"}
    BY DEF StagesInOrder
  <2>1. d \in vThread /\ (at[e] \notin {"none", "drop"} => e \in vThread)
    BY <1>1 DEF CourseInv, RunInv
  <2>2. Id(e) # Id(d)
    BY IdIn
  <2> QED
    BY <2>1, <2>2 DEF CourseInv, StageInv
<1>3. DoneMeansDone
  BY DEF CourseInv, DoneInv, DoneMeansDone
<1> QED
  BY <1>1, <1>2, <1>3 DEF StagesRight

LEMMA CourseGivesThreads == CourseInv => ThreadsLeave
<1> SUFFICES ASSUME CourseInv PROVE ThreadsLeave
  OBVIOUS
<1>1. at \in [Dlls -> {"none", "load", "drop", "next", "test"}] /\ RunInv
  BY DEF CourseInv, TypeOK
<1> QED
  BY <1>1 DEF RunInv, ThreadsLeave, DeletedWhenOver

(***************************************************************************)
(* Whatever fails and whenever a test is stopped: stages in order, done    *)
(* means done, and a guard that has ended by itself has tested everything  *)
(* (TestDllBox.cpp:69-145, AutoBinDlg.cpp:479-530).                        *)
(***************************************************************************)
THEOREM BenchStagesRight == Spec => []StagesRight
BY CourseHolds, CourseGivesStages, PTL

(***************************************************************************)
(* No thread object is deleted while its thread works, and the guard waits *)
(* only for threads that run or have told their end (TestDllBox.cpp:72-94).*)
(***************************************************************************)
THEOREM BenchThreadsLeave == Spec => []ThreadsLeave
BY CourseHolds, CourseGivesThreads, PTL
-----------------------------------------------------------------------------
(***************************************************************************)
(* Which earlier results count, as long as nothing was hurt.               *)
(***************************************************************************)
Tested(p) == \E d \in Dlls : on[d] = p

(* Every failure leaves its mark, so that the guard has run to its end.    *)
HurtInv ==
  /\ failed > 0 \/ (\E d \in Dlls : nRun[d] = -1) => hurt
  /\ guard # "off" /\ ~bRunning /\ ~hurt =>
       guard = "reap" /\ vThread = {} /\ oldId = Len(Stages)

(* A result that was told is there, and was told after the one it is of;   *)
(* between two tests, what is on the disk is what was told.                *)
ResultOk(p) ==
  /\ result[p] # "bad"
  /\ Tested(p) => result[p] = "todo" /\ file[p].there
  /\ result[p] \in {"ok", "zero"} => file[p].there
  /\ guard = "off" /\ file[p].there => result[p] # "todo"
  /\ Len(p) > 1 /\ Tested(p) => file[Front(p)].there
  /\ Len(p) = 2 /\ result[p] # "todo" => result[Front(p)] # "todo"

WholeOk(p) == file[p].there /\ ~Tested(p) => file[p].whole

(* What is newer than its DLL, and whose input is newer than its own DLL   *)
(* and the input file, was made from them all.                             *)
FreshOk(p) ==
  file[p].there /\ ~Tested(p) /\ file[p].own =>
    /\ Len(p) = 1 /\ file[p].input => file[p].fresh
    /\ /\ Len(p) = 2 /\ result[p] # "todo"
       /\ file[Front(p)].there /\ file[Front(p)].own /\ file[Front(p)].input
       => file[p].fresh

ReusedOk(p) ==
  /\ result[p] # "todo" /\ file[p].there /\ file[p].whole
  /\ file[p].fresh \/ p[1] # Stages[1][1] \/ Len(p) > 2

GoodNow ==
  /\ \A p \in Paths : ResultOk(p) /\ WholeOk(p) /\ FreshOk(p)
  /\ \A p \in reused : ReusedOk(p)

GoodInv == HurtInv /\ (~hurt => GoodNow)

(* Before a DLL tests, everything of the stages before it was told.        *)
LEMMA EarlierTold ==
  ASSUME CourseInv, HurtInv, ~hurt, NEW d \in Dlls, at[d] \in {"next", "test"},
         NEW q \in Paths, Len(q) < Id(d)
  PROVE  result[q] # "todo" /\ ~Tested(q)
<1> DEFINE e == Last(q)
<1>1. e \in Dlls /\ Id(e) = Len(q) /\ q \in PathsOf(e) /\ q # None
  BY LastOf
<1>2. /\ TypeOK /\ RunInv /\ StageInv /\ BegunInv /\ EndInv
      /\ nRun \in [Dlls -> {-1, 0, 1}] /\ at \in [Dlls -> {"none", "load", "drop", "next", "test"}]
      /\ vThread \subseteq Dlls /\ oldId \in 0 .. Len(Stages)
  BY DEF CourseInv, TypeOK
<1>3. oldId \in Nat /\ Id(d) \in Nat /\ Id(e) \in Nat
  BY <1>1, <1>2, IdIn, SomeStages, Zenon
<1>4. Id(e) < Id(d)
  BY <1>1
<1> HIDE DEF e
<1>5. d \in vThread /\ guard # "off" /\ Id(d) \in {oldId, oldId + 1}
  BY <1>2 DEF RunInv, StageInv
<1>6. e \notin vThread
  BY <1>2, <1>3, <1>4, <1>5 DEF StageInv
<1>7. Begun(e)
  BY <1>3, <1>4, <1>5 DEF Begun
<1>8. nRun[e] = 0
  BY <1>1, <1>2, <1>5, <1>6 DEF EndInv, HurtInv
<1>9. ~Todo(e)
  BY <1>1, <1>2, <1>5, <1>7, <1>8 DEF BegunInv
<1>10. ASSUME NEW x \in Dlls, on[x] = q PROVE FALSE
  <2>1. at[x] = "test" /\ q \in PathsOf(x)
    BY <1>1, <1>2, <1>10 DEF TypeOK
  <2>2. x = e
    BY <1>1, <2>1 DEF PathsOf
  <2> QED
    BY <1>1, <1>2, <1>6, <2>1, <2>2 DEF RunInv
<1> QED
  BY <1>1, <1>9, <1>10 DEF Todo, Tested

LEMMA HurtStep ==
  ASSUME CourseInv, HurtInv, [Next]_vars
  PROVE  HurtInv' /\ (hurt => hurt')
<1>1. TypeOK /\ nRun \in [Dlls -> {-1, 0, 1}]
  BY DEF CourseInv, TypeOK
<1>2. CASE Execute
  <2>1. /\ \A d \in Dlls : nRun'[d] = 0
        /\ UNCHANGED <<failed, hurt>> /\ bRunning' = TRUE
    BY <1>2 DEF Execute
  <2>2. ~(~bRunning')
    BY <2>1, Zenon
  <2>3. ~\E d \in Dlls : nRun'[d] = -1
    BY <2>1
  <2> QED
    BY <2>1, <2>2, <2>3, Zenon DEF HurtInv
<1>3. CASE StopTest
  BY <1>3 DEF StopTest, HurtInv
<1>4. CASE OnTimer
  BY <1>4 DEF OnTimer, HurtInv, box, history
<1>5. CASE Reap
  BY <1>5 DEF Reap, HurtInv, dialog, history
<1>6. CASE Add
  <2>1. guard = "add" /\ guard' = "reap" /\ UNCHANGED oldId
    BY <1>1, <1>6, AddIs
  <2>2. ~bRunning => hurt
    BY <2>1 DEF HurtInv
  <2>3. CASE vThread # {} /\ UNCHANGED <<nRun, bRunning, vThread, at, failed, hurt>>
    BY <2>1, <2>2, <2>3 DEF HurtInv
  <2>4. CASE /\ vThread = {} /\ oldId = Len(Stages) /\ ~bRunning'
             /\ UNCHANGED <<nRun, vThread, at, failed, hurt>>
    BY <2>1, <2>4 DEF HurtInv
  <2>5. CASE /\ vThread = {} /\ UNCHANGED bRunning
             /\ \A d \in Dlls : /\ Id(d) = oldId + 1 => nRun'[d] = 1
                                /\ Id(d) # oldId + 1 => nRun'[d] = nRun[d]
             /\ hurt => hurt'
             /\ failed' > 0 => failed > 0 \/ hurt'
    <3>1. (\E d \in Dlls : nRun'[d] = -1) => hurt'
      BY <1>1, <2>5 DEF HurtInv
    <3>2. failed' > 0 => hurt'
      BY <2>5 DEF HurtInv
    <3>3. ~bRunning' => hurt'
      BY <2>2, <2>5
    <3> QED
      BY <2>5, <3>1, <3>2, <3>3 DEF HurtInv
  <2> QED
    BY <1>1, <1>6, <2>3, <2>4, <2>5, AddIs
<1>7. CASE Destory
  BY <1>7 DEF Destory, HurtInv, dialog, history
<1>8. ASSUME NEW d \in Dlls, Thread(d) PROVE HurtInv' /\ (hurt => hurt')
  <2>1. ThreadMoves(d)
    BY <1>1, <1>8, ThreadIsMove
  <2>2. /\ UNCHANGED <<bRunning, guard, oldId, vThread, failed>> /\ (hurt => hurt')
        /\ \A e \in Dlls : nRun'[e] = -1 => nRun[e] = -1 \/ hurt'
    BY <2>1 DEF ThreadMoves
  <2> QED
    BY <2>2 DEF HurtInv
<1>9. CASE ReplaceInput \/ (\E d \in Dlls : ReplaceDll(d)) \/ UNCHANGED vars
  <2>1. UNCHANGED <<nRun, guard, oldId, vThread, failed, bRunning, hurt>>
    BY <1>9 DEF ReplaceInput, ReplaceDll, vars, box, history
  <2> QED
    BY <2>1 DEF HurtInv
<1> QED
  BY <1>2, <1>3, <1>4, <1>5, <1>6, <1>7, <1>8, <1>9 DEF Next, Guard

LEMMA GoodUntouched ==
  ASSUME GoodNow, UNCHANGED <<file, result, on, reused>>, guard' = "off" => guard = "off"
  PROVE  GoodNow'
<1>1. \A p \in Paths : /\ Tested(p)' = Tested(p)
                       /\ ResultOk(p) => ResultOk(p)'
  BY DEF Tested, ResultOk
<1>2. \A p \in Paths : (WholeOk(p) => WholeOk(p)') /\ (FreshOk(p) => FreshOk(p)')
  BY <1>1 DEF WholeOk, FreshOk
<1>3. \A p \in reused' : ReusedOk(p)'
  BY DEF GoodNow, ReusedOk
<1> QED
  BY <1>1, <1>2, <1>3 DEF GoodNow

(* A step of a thread that touches the result p only: p must be good after *)
(* it, and what is made from p must not have been told yet, or see nothing.*)
Touches(p) ==
  /\ p \notin reused /\ UNCHANGED <<reused, guard>>
  /\ \A q \in Paths \ {p} : /\ file'[q] = file[q] /\ result'[q] = result[q]
                            /\ Tested(q)' = Tested(q)
  /\ file'[p].there
  /\ \/ result[p] = "todo" /\ result'[p] = "todo"
     \/ /\ result'[p] # "todo"
        /\ file'[p].own = file[p].own /\ file'[p].input = file[p].input /\ file[p].there

LEMMA GoodTouched ==
  ASSUME GoodNow, reused \subseteq Paths, NEW p \in Paths, Touches(p),
         ResultOk(p)', WholeOk(p)', FreshOk(p)'
  PROVE  GoodNow'
<1>1. ASSUME NEW q \in Paths, q # p
      PROVE  ResultOk(q)' /\ WholeOk(q)' /\ FreshOk(q)'
  <2>1. /\ file'[q] = file[q] /\ result'[q] = result[q] /\ Tested(q)' = Tested(q) /\ guard' = guard
        /\ ResultOk(q) /\ WholeOk(q) /\ FreshOk(q)
    BY <1>1 DEF Touches, GoodNow
  <2>2. Len(q) = 2 => Len(q) > 1
    OBVIOUS
  <2>3. CASE Len(q) > 1
    <3> DEFINE g == Front(q)
    <3>1. g \in Paths
      BY <2>3, FrontOf
    <3>2. \/ file'[g] = file[g] /\ result'[g] = result[g]
          \/ g = p
      BY <3>1 DEF Touches
    <3> HIDE DEF g
    <3>3. file[g].there => file'[g].there
      BY <3>2 DEF Touches
    <3>4. result[g] # "todo" => result'[g] # "todo"
      BY <3>2 DEF Touches, GoodNow
    <3>5. result[g] # "todo" =>
            (file'[g].there /\ file'[g].own /\ file'[g].input
             => file[g].there /\ file[g].own /\ file[g].input)
      BY <3>2 DEF Touches
    <3>6. ResultOk(q)'
      BY <2>1, <3>3, <3>4 DEF ResultOk, g
    <3>7. FreshOk(q)'
      BY <2>1, <2>2, <3>5 DEF FreshOk, ResultOk, g
    <3> QED
      BY <2>1, <3>6, <3>7 DEF WholeOk
  <2>4. CASE ~(Len(q) > 1)
    BY <2>1, <2>2, <2>4 DEF ResultOk, WholeOk, FreshOk
  <2> QED
    BY <2>3, <2>4
<1>2. ASSUME NEW q \in reused' PROVE ReusedOk(q)'
  <2>1. q \in reused /\ q # p
    BY <1>2 DEF Touches
  <2>2. ReusedOk(q) /\ file'[q] = file[q] /\ result'[q] = result[q]
    BY <2>1 DEF Touches, GoodNow
  <2> QED
    BY <2>2 DEF ReusedOk
<1> QED
  BY <1>1, <1>2 DEF GoodNow

LEMMA ThreadKeepsGood ==
  ASSUME CourseInv, CourseInv', HurtInv, ~hurt, ~hurt', GoodNow, NEW d \in Dlls, Thread(d)
  PROVE  GoodNow'
<1>1. /\ TypeOK /\ TypeOK' /\ reused \subseteq Paths
      /\ UNCHANGED <<reused, guard>>
  BY DEF CourseInv, TypeOK, Thread, box
<1>2. CASE Load(d) \/ Drop(d) \/ EndRun(d)
  <2>1. UNCHANGED <<file, result, on, reused>> /\ (guard' = "off" => guard = "off")
    BY <1>1, <1>2 DEF Load, Drop, EndRun
  <2> QED
    BY <2>1, GoodUntouched
<1>3. CASE Begin(d)
  <2>1. PICK p \in PathsOf(d) :
          /\ at[d] = "next" /\ result[p] = "todo"
          /\ IF Len(p) > 1 /\ ~file[Front(p)].there
             THEN result' = [result EXCEPT ![p] = "bad"] /\ UNCHANGED <<file, at, on>>
             ELSE /\ file' = [file EXCEPT ![p] =
                       [there |-> TRUE, whole |-> FALSE, fresh |-> FALSE,
                        own |-> @.there => @.own,
                        input |-> IsFirst(p) /\ (@.there => @.input)]]
                  /\ at' = [at EXCEPT ![d] = "test"] /\ on' = [on EXCEPT ![d] = p]
                  /\ UNCHANGED result
          /\ UNCHANGED <<nRun, hurt>>
    BY <1>3 DEF Begin
  <2>2. p \in Paths /\ Len(p) = Id(d) /\ p # None
    BY LastOf DEF PathsOf
  <2>3. Len(p) > 1 => /\ Front(p) \in Paths /\ Len(Front(p)) < Id(d)
                      /\ result[Front(p)] # "todo" /\ file[Front(p)].there
    <3> SUFFICES ASSUME Len(p) > 1
                 PROVE  /\ Front(p) \in Paths /\ Len(Front(p)) < Id(d)
                        /\ result[Front(p)] # "todo" /\ file[Front(p)].there
      OBVIOUS
    <3>1. Front(p) \in Paths /\ Len(Front(p)) < Id(d)
      <4> DEFINE n == Len(p)
                 m == Len(Front(p))
      <4>1. m = n - 1 /\ n \in Nat /\ n = Id(d)
        BY <2>2, FrontOf, LastOf
      <4> HIDE DEF n, m
      <4>2. m < Id(d)
        BY <4>1
      <4> QED
        BY <2>2, <4>2, FrontOf DEF m
    <3>2. result[Front(p)] # "todo"
      BY <2>1, <3>1, EarlierTold
    <3>3. result[Front(p)] \in {"ok", "zero"}
      BY <1>1, <3>1, <3>2 DEF GoodNow, ResultOk, TypeOK
    <3> QED
      BY <3>1, <3>2, <3>3 DEF GoodNow, ResultOk
  <2>4. /\ file' = [file EXCEPT ![p] =
              [there |-> TRUE, whole |-> FALSE, fresh |-> FALSE,
               own |-> @.there => @.own,
               input |-> IsFirst(p) /\ (@.there => @.input)]]
        /\ at' = [at EXCEPT ![d] = "test"] /\ on' = [on EXCEPT ![d] = p]
        /\ UNCHANGED result
    BY <2>1, <2>3
  <2>5. /\ \A q \in Paths \ {p} : file'[q] = file[q]
        /\ file'[p].there
    BY <1>1, <2>2, <2>4 DEF TypeOK
  <2>6. on[d] = None /\ on'[d] = p /\ \A e \in Dlls \ {d} : on'[e] = on[e]
    BY <1>1, <2>1, <2>4 DEF TypeOK
  <2>7. Tested(p)' /\ \A q \in Paths \ {p} : Tested(q)' = Tested(q)
    <3>1. \A q \in Paths : q # None
      BY LastOf
    <3> QED
      BY <2>6, <3>1 DEF Tested
  <2>8. guard # "off"
    BY <1>1, <2>1 DEF CourseInv, RunInv, StageInv
  <2>9. Touches(p)
    <3>1. p \notin reused
      BY <2>1 DEF GoodNow, ReusedOk
    <3> QED
      BY <1>1, <2>1, <2>4, <2>5, <2>7, <3>1 DEF Touches
  <2>10. ResultOk(p)'
    <3>1. Len(p) > 1 => file'[Front(p)].there
      BY <2>3, <2>5
    <3> QED
      BY <1>1, <2>1, <2>4, <2>5, <2>7, <2>8, <3>1 DEF ResultOk
  <2>11. WholeOk(p)' /\ FreshOk(p)'
    BY <2>7 DEF WholeOk, FreshOk
  <2> QED
    BY <1>1, <2>2, <2>9, <2>10, <2>11, GoodTouched
<1>4. CASE Finish(d)
  <2>15. at[d] = "test" /\ on[d] \in PathsOf(d)
    BY <1>1, <1>4 DEF Finish, TypeOK
  <2>16. PICK p \in PathsOf(d) : p = on[d]
    BY <2>15
  <2>1. /\ at[d] = "test" /\ p \in PathsOf(d) /\ p \in Paths /\ p # None /\ Len(p) = Id(d)
    <3>1. p \in Paths /\ d = Last(p)
      BY DEF PathsOf
    <3> QED
      BY <2>15, <3>1, LastOf
  <2>2. result'[p] \in {"ok", "zero"} /\ \A q \in Paths \ {p} : result'[q] = result[q]
    <3>1. PICK r \in {"ok", "zero"} : result' = [result EXCEPT ![p] = r]
      BY <1>4, <2>16 DEF Finish
    <3> QED
      BY <1>1, <2>1, <3>1 DEF TypeOK
  <2>3. /\ \A q \in Paths \ {p} : file'[q] = file[q]
        /\ file'[p].there = file[p].there /\ file'[p].own = file[p].own
        /\ file'[p].input = file[p].input
        /\ Len(p) = 1 => file'[p].whole = TRUE /\ file'[p].fresh = TRUE
        /\ Len(p) > 1 => /\ file'[p].whole = file[Front(p)].whole
                         /\ file'[p].fresh = file[Front(p)].fresh
    <3> DEFINE from == IF Len(p) = 1 THEN [whole |-> TRUE, fresh |-> TRUE] ELSE file[Front(p)]
    <3>1. file' = [file EXCEPT ![p].whole = from.whole, ![p].fresh = from.fresh]
      BY <1>4, <2>16 DEF Finish
    <3>2. /\ Len(p) = 1 => from.whole = TRUE /\ from.fresh = TRUE
          /\ Len(p) > 1 => from = file[Front(p)]
      <4>1. Len(p) > 1 => Len(p) # 1
        BY <2>1, LenOf
      <4> QED
        BY <4>1
    <3> HIDE DEF from
    <3>3. file \in [Paths -> Files]
      BY <1>1 DEF TypeOK
    <3>4. /\ \A q \in Paths \ {p} : file'[q] = file[q]
          /\ file'[p].there = file[p].there /\ file'[p].own = file[p].own
          /\ file'[p].input = file[p].input
          /\ file'[p].whole = from.whole /\ file'[p].fresh = from.fresh
      BY <2>1, <3>1, <3>3 DEF Files
    <3> QED
      BY <3>2, <3>4
  <2>4. on'[d] = None /\ \A e \in Dlls \ {d} : on'[e] = on[e] /\ on[e] # p
    <3>1. on'[d] = None /\ \A e \in Dlls \ {d} : on'[e] = on[e]
      BY <1>1, <1>4 DEF Finish, TypeOK
    <3>2. ASSUME NEW e \in Dlls, on[e] = p PROVE e = d
      <4>1. p \in PathsOf(e)
        BY <1>1, <2>1, <3>2 DEF TypeOK
      <4> QED
        BY <2>1, <4>1 DEF PathsOf
    <3> QED
      BY <3>1, <3>2
  <2>5. Tested(p) /\ ~Tested(p)' /\ \A q \in Paths \ {p} : Tested(q)' = Tested(q)
    <3>1. \A q \in Paths : q # None
      BY LastOf
    <3> QED
      BY <2>1, <2>4, <2>16, <3>1 DEF Tested
  <2>6. result[p] = "todo" /\ file[p].there /\ p \notin reused
    BY <2>1, <2>5 DEF GoodNow, ResultOk, ReusedOk
  <2>7. guard # "off"
    BY <1>1, <2>1 DEF CourseInv, RunInv, StageInv
  <2>8. Touches(p)
    BY <1>1, <2>2, <2>3, <2>5, <2>6 DEF Touches
  <2>9. /\ Len(p) = 1 \/ Len(p) > 1
        /\ Len(p) > 1 => Len(p) # 1
        /\ Len(p) = 2 => Len(p) > 1
        /\ Len(p) = 1 => Len(p) # 2
    BY <2>1, LenOf
  <2>10. Len(p) > 1 =>
           /\ Front(p) \in Paths /\ Front(p) # p /\ Len(Front(p)) < Id(d)
           /\ Len(p) = 2 => Len(Front(p)) = 1
           /\ result[Front(p)] # "todo" /\ ~Tested(Front(p)) /\ file[Front(p)].there
    <3> SUFFICES ASSUME Len(p) > 1
                 PROVE  /\ Front(p) \in Paths /\ Front(p) # p /\ Len(Front(p)) < Id(d)
                        /\ Len(p) = 2 => Len(Front(p)) = 1
                        /\ result[Front(p)] # "todo" /\ ~Tested(Front(p)) /\ file[Front(p)].there
      OBVIOUS
    <3>1. /\ Front(p) \in Paths /\ Front(p) # p /\ Len(Front(p)) < Id(d)
          /\ Len(p) = 2 => Len(Front(p)) = 1
      <4> DEFINE n == Len(p)
                 m == Len(Front(p))
      <4>1. m = n - 1 /\ n \in Nat /\ n = Id(d)
        BY <2>1, FrontOf, LastOf
      <4> HIDE DEF n, m
      <4>2. m < Id(d) /\ m # n /\ (n = 2 => m = 1)
        BY <4>1
      <4> QED
        BY <2>1, <4>2, FrontOf DEF m, n
    <3>2. result[Front(p)] # "todo" /\ ~Tested(Front(p))
      BY <2>1, <3>1, EarlierTold
    <3>3. file[Front(p)].there
      BY <2>1, <2>5 DEF GoodNow, ResultOk
    <3> QED
      BY <3>1, <3>2, <3>3
  <2>11. Len(p) > 1 => /\ file'[Front(p)] = file[Front(p)] /\ result'[Front(p)] = result[Front(p)]
                       /\ ResultOk(Front(p)) /\ WholeOk(Front(p)) /\ FreshOk(Front(p))
    BY <2>2, <2>3, <2>10 DEF GoodNow
  <2>12. ResultOk(p)'
    BY <1>1, <2>2, <2>3, <2>5, <2>6, <2>7, <2>10, <2>11 DEF ResultOk
  <2>13. WholeOk(p)'
    BY <2>3, <2>9, <2>10, <2>11 DEF WholeOk
  <2>14. FreshOk(p)'
    <3>1. CASE Len(p) = 1
      BY <2>3, <2>9, <3>1 DEF FreshOk
    <3>2. CASE Len(p) > 1
      BY <2>3, <2>9, <2>10, <2>11, <3>2 DEF FreshOk
    <3> QED
      BY <2>9, <3>1, <3>2
  <2> QED
    BY <1>1, <2>1, <2>8, <2>12, <2>13, <2>14, GoodTouched
<1>5. ~FailTest(d)
  BY DEF FailTest
<1> QED
  BY <1>2, <1>3, <1>4, <1>5 DEF Thread

LEMMA FirstPaths ==
  ASSUME NEW p \in Paths
  PROVE  /\ Len(p) = 1 => /\ Last(p) = p[1] /\ ToSet(p) = {p[1]}
                          /\ p[1] = Stages[1][1] => IsFirst(p)
         /\ Len(p) = 2 => /\ Front(p) \in Paths /\ Len(Front(p)) = 1 /\ Front(p)[1] = p[1]
                          /\ Last(p) = p[2] /\ ToSet(p) = {p[1], p[2]}
<1>1. p \in Seq(Dlls)
  BY PathIs
<1>2. DOMAIN p = 1 .. Len(p)
  BY <1>1, LenProperties
<1>3. ASSUME Len(p) = 1
      PROVE  /\ Last(p) = p[1] /\ ToSet(p) = {p[1]}
             /\ p[1] = Stages[1][1] => IsFirst(p)
  <2>1. DOMAIN p = {1}
    BY <1>2, <1>3
  <2>2. p = <<p[1]>>
    BY <1>1, <1>3
  <2> QED
    BY <1>3, <2>1, <2>2 DEF Last, ToSet, IsFirst
<1>4. ASSUME Len(p) = 2
      PROVE  /\ Front(p) \in Paths /\ Len(Front(p)) = 1 /\ Front(p)[1] = p[1]
             /\ Last(p) = p[2] /\ ToSet(p) = {p[1], p[2]}
  <2>1. DOMAIN p = {1, 2}
    BY <1>2, <1>4
  <2>2. Len(p) > 1
    BY <1>4, LenOf
  <2>3. Front(p) \in Paths /\ Len(Front(p)) = 1 /\ Front(p)[1] = p[1]
    <3> DEFINE n == Len(p) - 1
    <3>1. n = 1
      BY <1>4
    <3>2. Front(p) \in Paths /\ Len(Front(p)) = n /\ \A i \in 1 .. n : Front(p)[i] = p[i]
      BY <2>2, FrontOf
    <3> HIDE DEF n
    <3> QED
      BY <3>1, <3>2
  <2> QED
    BY <1>4, <2>1, <2>3 DEF Last, ToSet
<1> QED
  BY <1>3, <1>4

LEMMA ExecuteKeepsGood ==
  ASSUME CourseInv, GoodNow, Execute
  PROVE  GoodNow'
<1>1. /\ guard = "off" /\ guard' = "reap" /\ on' = on /\ reused' = Counts
      /\ \A d \in Dlls : on[d] = None
      /\ \A p \in Paths : file'[p] = IF p \in Stays THEN file[p] ELSE NoFile
      /\ \A p \in Paths : result'[p] = IF p \in Counts THEN "ok" ELSE "todo"
  BY DEF Execute, CourseInv, TypeOK
<1>2. \A p \in Paths : ~Tested(p) /\ ~Tested(p)'
  <2>1. \A p \in Paths : p # None
    BY LastOf
  <2> QED
    BY <1>1, <2>1 DEF Tested
<1>3. \A p \in Stays : p \in Paths /\ file[p].there
  BY StaysByRule DEF Stays, StaysFrom
<1>4. ~NoFile.there
  BY DEF NoFile
<1>5. ASSUME NEW p \in Counts
      PROVE  /\ p \in Stays /\ p \in Paths /\ Newer(p) /\ file'[p] = file[p] /\ result'[p] = "ok"
             /\ file[p].there /\ file[p].whole /\ result[p] # "todo"
             /\ Len(p) = 1 /\ p[1] = Stages[1][1] => file[p].fresh
             /\ Len(p) = 2 =>
                  /\ Front(p) \in Counts
                  /\ file[Front(p)].there /\ file[Front(p)].own
                  /\ p[1] = Stages[1][1] => file[p].fresh
  <2>1. p \in Stays /\ p \in Paths /\ Newer(p) /\ file[p].there
    BY <1>3 DEF Counts
  <2>2. file'[p] = file[p] /\ result'[p] = "ok"
    BY <1>1, <2>1
  <2>3. ResultOk(p) /\ WholeOk(p) /\ FreshOk(p)
    BY <2>1 DEF GoodNow
  <2>4. file[p].whole /\ result[p] # "todo" /\ file[p].own
    BY <1>1, <1>2, <2>1, <2>3 DEF ResultOk, WholeOk, Newer
  <2>5. Len(p) = 1 /\ p[1] = Stages[1][1] => file[p].fresh
    BY <1>2, <2>1, <2>3, <2>4, FirstPaths DEF FreshOk, Newer
  <2>6. ASSUME Len(p) = 2
        PROVE  /\ Front(p) \in Counts /\ file[Front(p)].there /\ file[Front(p)].own
               /\ p[1] = Stages[1][1] => file[p].fresh
    <3> DEFINE g == Front(p)
    <3>1. Len(p) > 1
      BY <2>1, <2>6, LenOf
    <3>2. g \in Stays /\ g \in Paths /\ Len(g) = 1 /\ g[1] = p[1]
      BY <2>1, <2>6, <3>1, FirstPaths DEF Counts
    <3> HIDE DEF g
    <3>3. ~(Len(g) > 1)
      BY <3>2, LenOf
    <3>4. file[g].there /\ Newer(g)
      BY <3>2, <3>3, StaysByRule
    <3>5. g \in Counts
      BY <3>2, <3>3, <3>4 DEF Counts
    <3>6. file[g].own /\ (g[1] = Stages[1][1] => file[g].input)
      BY <3>2, <3>4, FirstPaths DEF Newer
    <3> QED
      BY <1>2, <2>1, <2>3, <2>4, <2>6, <3>2, <3>4, <3>5, <3>6 DEF FreshOk, g
  <2> QED
    BY <2>1, <2>2, <2>4, <2>5, <2>6
<1>6. ASSUME NEW p \in Paths
      PROVE  ResultOk(p)' /\ WholeOk(p)' /\ FreshOk(p)'
  <2>1. ResultOk(p)'
    <3>1. result'[p] # "todo" => p \in Counts
      BY <1>1, <1>6
    <3>2. Len(p) = 2 /\ result'[p] # "todo" => result'[Front(p)] # "todo"
      BY <1>5, <3>1
    <3> QED
      BY <1>1, <1>2, <1>5, <1>6, <3>1, <3>2 DEF ResultOk
  <2>2. WholeOk(p) /\ FreshOk(p)
    BY <1>6 DEF GoodNow
  <2>3. file'[p].there => file'[p] = file[p] /\ file[p].there
    BY <1>1, <1>3, <1>4, <1>6
  <2>4. WholeOk(p)'
    BY <1>2, <1>6, <2>2, <2>3 DEF WholeOk
  <2>5. FreshOk(p)'
    <3>1. Len(p) = 2 /\ result'[p] # "todo" =>
            result[p] # "todo" /\ file'[Front(p)] = file[Front(p)]
      BY <1>1, <1>5, <1>6
    <3> QED
      BY <1>2, <1>6, <2>2, <2>3, <3>1 DEF FreshOk
  <2> QED
    BY <2>1, <2>4, <2>5
<1>7. ASSUME NEW p \in reused'
      PROVE  ReusedOk(p)'
  <2>1. p \in Counts
    BY <1>1, <1>7
  <2>2. Len(p) > 2 \/ Len(p) = 2 \/ Len(p) = 1
    BY <1>5, <2>1, LenOf
  <2> QED
    BY <1>5, <2>1, <2>2 DEF ReusedOk
<1> QED
  BY <1>6, <1>7 DEF GoodNow

(* What is replaced makes what was made from it look old.                  *)
LEMMA ReplaceKeepsGood ==
  ASSUME CourseInv, GoodNow, ReplaceInput \/ \E d \in Dlls : ReplaceDll(d)
  PROVE  GoodNow'
<1>1. /\ reused' = {} /\ UNCHANGED <<result, on, guard>> /\ file \in [Paths -> Files]
  BY DEF ReplaceInput, ReplaceDll, box, CourseInv, TypeOK
<1>2. \A p \in Paths : Tested(p)' = Tested(p)
  BY <1>1 DEF Tested
<1>3. /\ \A p \in Paths : file'[p].there = file[p].there /\ file'[p].whole = file[p].whole
      /\ \/ \A p \in Paths : ~file'[p].input
         \/ \E d \in Dlls : \A p \in Paths :
              /\ file'[p].input = file[p].input
              /\ file'[p].own => file[p].own /\ Last(p) # d
              /\ file[p].fresh /\ d \notin ToSet(p) => file'[p].fresh
  <2>1. ASSUME ReplaceInput, NEW p \in Paths
        PROVE  file'[p].there = file[p].there /\ file'[p].whole = file[p].whole /\ ~file'[p].input
    BY <1>1, <2>1 DEF ReplaceInput, Files
  <2>2. ASSUME NEW d \in Dlls, ReplaceDll(d), NEW p \in Paths
        PROVE  /\ file'[p].there = file[p].there /\ file'[p].whole = file[p].whole
               /\ file'[p].input = file[p].input
               /\ file'[p].own => file[p].own /\ Last(p) # d
               /\ file[p].fresh /\ d \notin ToSet(p) => file'[p].fresh
    <3> DEFINE fresh == file[p].fresh /\ d \notin ToSet(p)
               own == file[p].own /\ Last(p) # d
    <3>1. file'[p] = [file[p] EXCEPT !.fresh = fresh, !.own = own]
      BY <2>2 DEF ReplaceDll
    <3>2. file[p] \in Files
      BY <1>1, <2>2
    <3>3. /\ file'[p].there = file[p].there /\ file'[p].whole = file[p].whole
          /\ file'[p].input = file[p].input
          /\ file'[p].own = own /\ file'[p].fresh = fresh
      <4> HIDE DEF fresh, own
      <4> QED
        BY <3>1, <3>2 DEF Files
    <3> QED
      BY <3>3
  <2> QED
    BY <2>1, <2>2
<1>4. ASSUME NEW p \in Paths
      PROVE  ResultOk(p)' /\ WholeOk(p)' /\ FreshOk(p)'
  <2>1. ResultOk(p) /\ WholeOk(p) /\ FreshOk(p)
    BY DEF GoodNow
  <2>2. Len(p) > 1 => Front(p) \in Paths
    BY FrontOf
  <2>3. ResultOk(p)'
    BY <1>1, <1>2, <1>3, <2>1, <2>2 DEF ResultOk
  <2>4. WholeOk(p)'
    BY <1>2, <1>3, <2>1 DEF WholeOk
  <2>5. Len(p) = 2 => Front(p) \in Paths /\ Len(Front(p)) = 1
    BY FirstPaths
  <2>6. FreshOk(p)'
    <3>1. CASE \A q \in Paths : ~file'[q].input
      BY <2>5, <3>1 DEF FreshOk
    <3>2. ASSUME NEW d \in Dlls,
                 \A q \in Paths :
                   /\ file'[q].input = file[q].input
                   /\ file'[q].own => file[q].own /\ Last(q) # d
                   /\ file[q].fresh /\ d \notin ToSet(q) => file'[q].fresh
          PROVE  FreshOk(p)'
      <4>1. Len(p) = 1 /\ file'[p].own => d \notin ToSet(p)
        BY <3>2, FirstPaths
      <4>2. ASSUME Len(p) = 2, file'[p].own, file'[Front(p)].own
            PROVE  d \notin ToSet(p)
        <5> DEFINE g == Front(p)
        <5>1. g \in Paths /\ Len(g) = 1 /\ g[1] = p[1] /\ Last(p) = p[2] /\ ToSet(p) = {p[1], p[2]}
          BY <4>2, FirstPaths
        <5> HIDE DEF g
        <5>2. Last(g) = g[1]
          BY <5>1, FirstPaths
        <5>3. Last(p) # d /\ Last(g) # d
          BY <3>2, <4>2, <5>1 DEF g
        <5> QED
          BY <5>1, <5>2, <5>3
      <4>3. Len(p) = 2 => /\ file'[Front(p)].input = file[Front(p)].input
                          /\ file'[Front(p)].own => file[Front(p)].own
                          /\ file'[Front(p)].there = file[Front(p)].there
        BY <1>3, <2>5, <3>2
      <4> QED
        BY <1>1, <1>2, <1>3, <2>1, <3>2, <4>1, <4>2, <4>3 DEF FreshOk
    <3> QED
      BY <1>3, <3>1, <3>2
  <2> QED
    BY <2>3, <2>4, <2>6
<1> QED
  BY <1>1, <1>4 DEF GoodNow

(* A guard that was not stopped leaves nothing untold.                     *)
LEMMA DestoryKeepsGood ==
  ASSUME CourseInv, HurtInv, ~hurt, GoodNow, Destory
  PROVE  GoodNow'
<1>1. /\ guard = "reap" /\ vThread = {} /\ oldId = Len(Stages) /\ guard' = "off"
      /\ UNCHANGED <<file, result, reused>> /\ nRun \in [Dlls -> {-1, 0, 1}]
  BY DEF Destory, HurtInv, history, CourseInv, TypeOK
<1>2. \A d \in Dlls : on'[d] = on[d]
  BY <1>1 DEF Destory, Left
<1>3. ASSUME NEW p \in Paths PROVE result[p] # "todo"
  <2> DEFINE d == Last(p)
  <2>1. d \in Dlls /\ p \in PathsOf(d)
    BY LastOf
  <2> HIDE DEF d
  <2>2. Begun(d)
    <3> DEFINE N == Len(Stages)
               k == Id(d)
    <3>1. k \in 1 .. N /\ N \in Nat
      BY <2>1, IdOf, SomeStages
    <3> HIDE DEF N, k
    <3>2. k <= N
      BY <3>1
    <3> QED
      BY <1>1, <3>2 DEF Begun, N, k
  <2>3. nRun[d] = 0
    BY <1>1, <2>1 DEF CourseInv, EndInv, HurtInv
  <2> QED
    BY <1>1, <2>1, <2>2, <2>3 DEF CourseInv, BegunInv, Todo
<1>4. \A p \in Paths : Tested(p)' = Tested(p)
  BY <1>2 DEF Tested
<1>5. \A p \in Paths : ResultOk(p)' /\ WholeOk(p)' /\ FreshOk(p)'
  BY <1>1, <1>3, <1>4 DEF GoodNow, ResultOk, WholeOk, FreshOk
<1>6. \A p \in reused' : ReusedOk(p)'
  BY <1>1 DEF GoodNow, ReusedOk
<1> QED
  BY <1>5, <1>6 DEF GoodNow

LEMMA GoodInit == Init => GoodInv
<1> SUFFICES ASSUME Init PROVE GoodInv
  OBVIOUS
<1>1. \A p \in Paths : ~file[p].there /\ ~Tested(p) /\ result[p] = "todo"
  <2>1. \A p \in Paths : p # None
    BY LastOf
  <2> QED
    BY <2>1 DEF Init, NoFile, Tested
<1>2. GoodNow
  BY <1>1 DEF Init, GoodNow, ResultOk, WholeOk, FreshOk
<1>3. HurtInv
  <2>1. failed = 0 /\ guard = "off" /\ \A d \in Dlls : nRun[d] = 0
    BY DEF Init
  <2>2. ~(failed > 0) /\ ~\E d \in Dlls : nRun[d] = -1
    BY <2>1
  <2> QED
    BY <2>1, <2>2 DEF HurtInv
<1> QED
  BY <1>2, <1>3 DEF GoodInv

LEMMA GoodStep == CourseInv /\ CourseInv' /\ GoodInv /\ [Next]_vars => GoodInv'
<1> SUFFICES ASSUME CourseInv, CourseInv', GoodInv, [Next]_vars PROVE GoodInv'
  OBVIOUS
<1>1. HurtInv /\ HurtInv' /\ (hurt => hurt')
  BY HurtStep DEF GoodInv
<1> SUFFICES ASSUME ~hurt' PROVE GoodNow'
  BY <1>1 DEF GoodInv
<1>2. ~hurt /\ GoodNow
  BY <1>1 DEF GoodInv
<1>3. CASE Execute
  BY <1>2, <1>3, ExecuteKeepsGood
<1>4. CASE StopTest \/ OnTimer \/ Reap \/ Add \/ UNCHANGED vars
  <2>1. UNCHANGED <<file, result, on, reused>> /\ (guard' = "off" => guard = "off")
    BY <1>4 DEF StopTest, OnTimer, Reap, Add, vars, box, history
  <2> QED
    BY <1>2, <2>1, GoodUntouched
<1>5. CASE Destory
  BY <1>1, <1>2, <1>5, DestoryKeepsGood
<1>6. CASE ReplaceInput \/ \E d \in Dlls : ReplaceDll(d)
  BY <1>2, <1>6, ReplaceKeepsGood
<1>7. CASE \E d \in Dlls : Thread(d)
  BY <1>1, <1>2, <1>7, ThreadKeepsGood
<1> QED
  BY <1>3, <1>4, <1>5, <1>6, <1>7 DEF Next, Guard

(***************************************************************************)
(* Whatever was replaced between the tests, an earlier result that         *)
(* ExecutionJudge takes for done is whole, and was made from what is there *)
(* now but for the two exceptions (FlowCtrl.cpp:297-357).                  *)
(***************************************************************************)
THEOREM BenchReusedIsGood == Spec => []ReusedIsGood
<1>1. GoodInv => ReusedIsGood
  BY DEF GoodInv, GoodNow, ReusedOk, ReusedIsGood
<1> QED
  BY <1>1, GoodInit, GoodStep, CourseHolds, PTL DEF Spec
=============================================================================
