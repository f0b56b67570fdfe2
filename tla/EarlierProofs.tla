---------------------------- MODULE EarlierProofs ---------------------------
(***************************************************************************)
(* The earlier programs, for all values of the constants.  The prototype:  *)
(* how it ends (ProtoExit), how it polls (ProtoPoll), what becomes of its  *)
(* frames (ProtoFrames).  The first version: its ring and semaphore        *)
(* (SemRing), its store queue (StoreQueue), its family of processes        *)
(* (Family) and its results (FlightLoop).                                  *)
(*                                                                         *)
(* Each module is proved by itself and then for the behaviours of Earlier, *)
(* in which one of the modules moves and the others stay.                  *)
(***************************************************************************)
EXTENDS Earlier, Sequences, FiniteSetTheorems, SequenceTheorems, WellFoundedInduction,
        TLAPS

ExitBehaviour == PE!Init /\ [][PE!Next]_(PE!vars)
PollBehaviour == PP!Init /\ [][PP!Next]_(PP!vars)
FramesBehaviour == PF!Init /\ [][PF!Next]_(PF!vars)
RingBehaviour == Init /\ [][Next]_vars
FamilyBehaviour == FA!Init /\ [][FA!Next]_(FA!vars)
LoopBehaviour == FL!Init /\ [][FL!Next]_(FL!vars)
StoreBehaviour == SQ!Init /\ [][SQ!Next]_(SQ!vars)

(***************************************************************************)
(* Whatever moves, a behaviour is one of each module.                      *)
(***************************************************************************)
LEMMA ExitImplemented == AnySpec => ExitBehaviour
<1>1. AnyInit => PE!Init
  BY DEF AnyInit
<1>2. [AnyNext]_AnyVars => [PE!Next]_(PE!vars)
  BY DEF AnyNext, AnyVars, peVars, PE!vars
<1> QED
  BY <1>1, <1>2, PTL DEF AnySpec, ExitBehaviour

LEMMA PollImplemented == AnySpec => PollBehaviour
<1>1. AnyInit => PP!Init
  BY DEF AnyInit
<1>2. [AnyNext]_AnyVars => [PP!Next]_(PP!vars)
  BY DEF AnyNext, AnyVars, ppVars, PP!vars
<1> QED
  BY <1>1, <1>2, PTL DEF AnySpec, PollBehaviour

LEMMA FramesImplemented == AnySpec => FramesBehaviour
<1>1. AnyInit => PF!Init
  BY DEF AnyInit
<1>2. [AnyNext]_AnyVars => [PF!Next]_(PF!vars)
  BY DEF AnyNext, AnyVars, pfVars, PF!vars, PF!readVars, PF!listVars, PF!procVars,
         PF!storeVars
<1> QED
  BY <1>1, <1>2, PTL DEF AnySpec, FramesBehaviour

LEMMA RingImplemented == AnySpec => RingBehaviour
<1>1. AnyInit => Init
  BY DEF AnyInit
<1>2. [AnyNext]_AnyVars => [Next]_vars
  BY DEF AnyNext, AnyVars, vars
<1> QED
  BY <1>1, <1>2, PTL DEF AnySpec, RingBehaviour

LEMMA StoreImplemented == AnySpec => StoreBehaviour
<1>1. AnyInit => SQ!Init
  BY DEF AnyInit
<1>2. [AnyNext]_AnyVars => [SQ!Next]_(SQ!vars)
  BY DEF AnyNext, AnyVars, sqVars, SQ!vars
<1> QED
  BY <1>1, <1>2, PTL DEF AnySpec, StoreBehaviour

LEMMA FamilyImplemented == AnySpec => FamilyBehaviour
<1>1. AnyInit => FA!Init
  BY DEF AnyInit
<1>2. [AnyNext]_AnyVars => [FA!Next]_(FA!vars)
  BY DEF AnyNext, AnyVars, faVars, FA!vars, FA!parent, FA!waits, FA!kids
<1> QED
  BY <1>1, <1>2, PTL DEF AnySpec, FamilyBehaviour

LEMMA LoopImplemented == AnySpec => LoopBehaviour
<1>1. AnyInit => FL!Init
  BY DEF AnyInit
<1>2. [AnyNext]_AnyVars => [FL!Next]_(FL!vars)
  BY DEF AnyNext, AnyVars, flVars, FL!vars, FL!child, FL!rcm, FL!sender
<1> QED
  BY <1>1, <1>2, PTL DEF AnySpec, LoopBehaviour
-----------------------------------------------------------------------------
(***************************************************************************)
(* ProtoExit.  Before the threads start main holds the lock, so a handler  *)
(* in it stays where it is; after that a handler has cleared the flags.    *)
(***************************************************************************)
StartInv ==
  /\ ~PE!Started =>
       /\ peICond = "wait" /\ peReader = "none" /\ ~peCancelled
       /\ \A t \in PE!Threads \ {"main"} : peHandler[t] = "none"
       /\ peHandler["main"] # "signal"
  /\ PE!Started => peReader # "none"

ToldInv ==
  /\ PE!Started => \A t \in PE!Threads : peHandler[t] # "none" => ~peRunning
  /\ peICond = "all" => ~peRunning
  /\ peICond = "read" => peReader \in {"signal", "gone"}
  /\ peMain \in {"unmap", "exit"} => peICond # "wait"
  /\ ~peMapped => peMain = "exit"

(* After the sleep the reader is out of its loop, unless it was late.      *)
SleepInv ==
  /\ ~peLate /\ PE!Started
  /\ peICond = "all" \/ \E t \in PE!Threads : peHandler[t] \in {"lock", "signal"}
  => peReader \in {"notify", "signal", "gone"}

ExitInv ==
  PE!TypeOK /\ StartInv /\ ToldInv /\ SleepInv /\ PE!NobodyForgotten /\ PE!FaultsOnlyLate

LEMMA ExitInitInv == PE!ProtoExitAssumption /\ PE!Init => ExitInv
<1> SUFFICES ASSUME PE!ProtoExitAssumption, PE!Init PROVE ExitInv
  OBVIOUS
<1> USE DEF PE!ProtoExitAssumption, PE!Init, PE!Started, PE!Threads
<1>1. PE!TypeOK
  <2>1. {peRunning, peCancelled, peMapped, peEarly, peLate} \subseteq BOOLEAN
    OBVIOUS
  <2>2. peHandler \in [PE!Threads -> {"none", "sleep", "lock", "signal"}]
    OBVIOUS
  <2>3. peSignals \in 0 .. MaxSignals /\ peFrames \in 0 .. MaxFrames
    OBVIOUS
  <2> QED
    BY <2>1, <2>2, <2>3 DEF PE!TypeOK
<1>2. StartInv /\ ToldInv /\ SleepInv /\ PE!NobodyForgotten /\ PE!FaultsOnlyLate
  BY DEF StartInv, ToldInv, SleepInv, PE!NobodyForgotten, PE!FaultsOnlyLate
<1> QED
  BY <1>1, <1>2 DEF ExitInv

LEMMA MainKeepsExit == ASSUME PE!ProtoExitAssumption, ExitInv, PE!MainStep PROVE ExitInv'
<1> USE DEF ExitInv, PE!TypeOK, StartInv, ToldInv, SleepInv, PE!NobodyForgotten,
            PE!FaultsOnlyLate, PE!Started, PE!Threads, PE!MainGoes, PE!Runs
<1>1. CASE PE!StartAllThread
  BY <1>1 DEF PE!StartAllThread
<1>2. CASE PE!EnableFpga
  BY <1>2 DEF PE!EnableFpga
<1>3. CASE PE!Monitor
  BY <1>3 DEF PE!Monitor
<1>4. CASE PE!Woken
  BY <1>4 DEF PE!Woken
<1>5. CASE PE!DestoryMMap
  BY <1>5 DEF PE!DestoryMMap
<1>6. CASE PE!Exit
  BY <1>6 DEF PE!Exit
<1> QED
  BY <1>1, <1>2, <1>3, <1>4, <1>5, <1>6 DEF PE!MainStep

LEMMA ReaderKeepsExit ==
  ASSUME PE!ProtoExitAssumption, ExitInv, PE!ReaderStep \/ PE!Polled PROVE ExitInv'
<1> USE DEF ExitInv, PE!TypeOK, StartInv, ToldInv, SleepInv, PE!NobodyForgotten,
            PE!FaultsOnlyLate, PE!Started, PE!Threads, PE!Runs, PE!Notify, PE!Wake
<1>1. CASE PE!Open
  BY <1>1 DEF PE!Open
<1>2. CASE PE!ReaderNotifies
  BY <1>2 DEF PE!ReaderNotifies
<1>3. CASE PE!ReaderSignals
  BY <1>3 DEF PE!ReaderSignals
<1>4. CASE PE!Loop
  BY <1>4 DEF PE!Loop
<1>5. CASE PE!ReadImg
  BY <1>5 DEF PE!ReadImg
<1>6. CASE PE!Polled
  BY <1>6 DEF PE!Polled, PE!ProtoExitAssumption
<1> QED
  BY <1>1, <1>2, <1>3, <1>4, <1>5, <1>6 DEF PE!ReaderStep

LEMMA HandlerKeepsExit ==
  ASSUME PE!ProtoExitAssumption, ExitInv, NEW t \in PE!Threads,
         PE!Sigint(t) \/ PE!HandlerStep(t)
  PROVE  ExitInv'
<1> USE DEF ExitInv, PE!TypeOK, StartInv, ToldInv, SleepInv, PE!NobodyForgotten,
            PE!FaultsOnlyLate, PE!Started, PE!Threads, PE!Notify, PE!Wake
<1>1. CASE PE!Sigint(t)
  <2> USE <1>1 DEF PE!Sigint, PE!ProtoExitAssumption
  <2>1. peRunning' \in BOOLEAN /\ peEarly' \in BOOLEAN
    OBVIOUS
  <2>2. PE!Started => ~peRunning'
    OBVIOUS
  <2>3. ~peRunning => ~peRunning'
    OBVIOUS
  <2>4. peHandler' = [peHandler EXCEPT ![t] = "sleep"]
    OBVIOUS
  <2>5. peSignals' \in 0 .. MaxSignals
    OBVIOUS
  <2>6. PE!TypeOK'
    BY <2>1, <2>4, <2>5
  <2>7. StartInv' /\ ToldInv'
    BY <2>2, <2>3, <2>4
  <2>8. SleepInv' /\ (PE!NobodyForgotten /\ PE!FaultsOnlyLate)'
    BY <2>3, <2>4
  <2> QED
    BY <2>6, <2>7, <2>8
<1>2. CASE PE!Slept(t)
  <2> USE <1>2 DEF PE!Slept, PE!WakesUp
  <2>1. PE!TypeOK'
    OBVIOUS
  <2>2. StartInv' /\ ToldInv'
    OBVIOUS
  <2>3. SleepInv'
    OBVIOUS
  <2>4. (PE!NobodyForgotten /\ PE!FaultsOnlyLate)'
    OBVIOUS
  <2> QED
    BY <2>1, <2>2, <2>3, <2>4
<1>3. CASE PE!HandlerNotifies(t)
  BY <1>3 DEF PE!HandlerNotifies
<1>4. CASE PE!HandlerSignals(t)
  BY <1>4 DEF PE!HandlerSignals
<1> QED
  BY <1>1, <1>2, <1>3, <1>4 DEF PE!HandlerStep

LEMMA ExitHolds ==
  ExitBehaviour => [](PE!TypeOK /\ PE!NobodyForgotten /\ PE!FaultsOnlyLate)
<1>1. PE!ProtoExitAssumption
  BY EarlierAssumption
<1>2. PE!Init => ExitInv
  BY <1>1, ExitInitInv
<1>3. ExitInv /\ [PE!Next]_(PE!vars) => ExitInv'
  <2> SUFFICES ASSUME ExitInv, [PE!Next]_(PE!vars) PROVE ExitInv'
    OBVIOUS
  <2>1. CASE PE!Next
    BY <1>1, <2>1, MainKeepsExit, ReaderKeepsExit, HandlerKeepsExit DEF PE!Next
  <2>2. CASE UNCHANGED PE!vars
    BY <2>2 DEF PE!vars, ExitInv, PE!TypeOK, StartInv, ToldInv, SleepInv,
                PE!NobodyForgotten, PE!FaultsOnlyLate, PE!Started
  <2> QED
    BY <2>1, <2>2
<1>4. ExitInv => PE!TypeOK /\ PE!NobodyForgotten /\ PE!FaultsOnlyLate
  BY DEF ExitInv
<1> QED
  BY <1>2, <1>3, <1>4, PTL DEF ExitBehaviour
-----------------------------------------------------------------------------
(***************************************************************************)
(* A nonempty set of natural numbers has a least one.                      *)
(***************************************************************************)
LEMMA HasLeast ==
  ASSUME NEW S \in SUBSET Nat, S # {}
  PROVE  \E m \in S : \A n2 \in S : m <= n2
<1> DEFINE R == {ss \in Nat \X Nat : ss[1] < ss[2]}
<1>1. IsWellFoundedOn(R, Nat)
  BY NatLessThanWellFounded DEF OpToRel
<1>2. PICK x \in S : \A y \in S : ~(<<y, x>> \in R)
  <2> HIDE DEF R
  <2> QED
    BY <1>1, WFMin
<1>3. ASSUME NEW n2 \in S PROVE x <= n2
  <2>1. n2 \in Nat /\ x \in Nat /\ ~(<<n2, x>> \in R)
    BY <1>2
  <2>2. ~(n2 < x)
    BY <2>1
  <2> QED
    BY <2>1, <2>2
<1> QED
  BY <1>3

(***************************************************************************)
(* ProtoPoll.  Until an image is opened while the flag's file is closed,   *)
(* that file gets the least number each time, so both numbers the reader   *)
(* knows are this one; a flag that was read is acknowledged before the     *)
(* next poll.                                                              *)
(***************************************************************************)
Least == CHOOSE k \in Fds : \A l \in Fds : k <= l

SameFdInv ==
  ~ppRaced =>
    /\ ppStFd = Least /\ ppPFd = Least
    /\ ppReader = "open" => ppFile[Least] = "none"

FreshInv == ~ppRaced /\ ppFlag /\ ~ppFresh => ppReader \in {"img", "good", "bad"}

SpoiltInv == ppSpoiled => ppRaced

PollInv == PP!TypeOK /\ PP!NoFileLeft /\ SameFdInv /\ FreshInv /\ SpoiltInv

(* ProtoPoll's own copies of two operators of FiniteSets.                  *)
LEMMA SameOperators ==
  ASSUME NEW S
  PROVE  (PP!IsFiniteSet(S) <=> IsFiniteSet(S)) /\ PP!Cardinality(S) = Cardinality(S)
<1>1. PP!IsFiniteSet(S) <=> IsFiniteSet(S)
  BY DEF PP!IsFiniteSet, IsFiniteSet
<1>2. PP!Cardinality(S) = Cardinality(S)
  BY Zenon DEF PP!Cardinality, Cardinality
<1> QED
  BY <1>1, <1>2

LEMMA FdFacts ==
  /\ Fds \in SUBSET Nat /\ IsFiniteSet(Fds) /\ Fds # {}
  /\ Cardinality(Fds) \in Nat /\ Cardinality(Fds) >= 4
<1>1. PP!ProtoPollAssumption
  BY EarlierAssumption
<1>2. Fds \subseteq Nat /\ IsFiniteSet(Fds) /\ Cardinality(Fds) >= 4
  BY <1>1, SameOperators DEF PP!ProtoPollAssumption
<1>3. Cardinality(Fds) \in Nat
  BY <1>2, FS_CardinalityType
<1>4. Fds # {}
  BY <1>2, FS_EmptySet
<1> QED
  BY <1>2, <1>3, <1>4

LEMMA LeastFd == Least \in Fds /\ \A l \in Fds : Least <= l
<1>2. \E k \in Fds : \A l \in Fds : k <= l
  BY FdFacts, HasLeast
<1> QED
  BY <1>2 DEF Least

(* A number is free: the files open are the flag's and one image at most.  *)
LEMMA LowestIsFree ==
  ASSUME PP!TypeOK, PP!NoFileLeft
  PROVE  PP!Lowest \in PP!Free /\ \A l \in PP!Free : PP!Lowest <= l
<1>1. IsFiniteSet(ppImgFd) /\ Cardinality(ppImgFd) <= 1 /\ Cardinality(ppImgFd) \in Nat
  <2>1. IsFiniteSet(Fds) /\ ppImgFd \in SUBSET Fds /\ Cardinality(ppImgFd) <= 1
    BY FdFacts, SameOperators DEF PP!TypeOK
  <2>2. IsFiniteSet(ppImgFd)
    BY <2>1, FS_Subset
  <2> QED
    BY <2>1, <2>2, FS_CardinalityType
<1>2. IsFiniteSet(ppImgFd \cup {ppStFd}) /\ Cardinality(ppImgFd \cup {ppStFd}) <= 2
  BY <1>1, FS_AddElement
<1>3. PP!Free # {}
  <2> SUFFICES ASSUME PP!Free = {} PROVE FALSE
    OBVIOUS
  <2>1. Fds \subseteq ppImgFd \cup {ppStFd}
    BY DEF PP!Free, PP!NoFileLeft, PP!TypeOK
  <2>2. Cardinality(Fds) <= Cardinality(ppImgFd \cup {ppStFd})
    BY <2>1, <1>2, FS_Subset
  <2>3. Cardinality(ppImgFd \cup {ppStFd}) \in Nat
    BY <1>2, FS_CardinalityType
  <2> QED
    BY <1>2, <2>2, <2>3, FdFacts
<1>4. PP!Free \in SUBSET Nat
  BY FdFacts DEF PP!Free
<1>5. \E k \in PP!Free : \A l \in PP!Free : k <= l
  BY <1>3, <1>4, HasLeast
<1> QED
  BY <1>5 DEF PP!Lowest

LEMMA PollInitInv == PP!Init => PollInv
<1> SUFFICES ASSUME PP!Init PROVE PollInv
  OBVIOUS
<1>1. ppStFd = Least /\ Least \in Fds
  BY LeastFd DEF PP!Init, Least
<1>2. PP!Cardinality(ppImgFd) <= 1
  <2>1. ppImgFd = {} /\ Cardinality({}) = 0
    BY FS_EmptySet DEF PP!Init
  <2> QED
    BY <2>1, SameOperators
<1>3. PP!TypeOK
  <2>1. ppFile \in [Fds -> {"flag", "image", "none"}]
    BY <1>1 DEF PP!Init
  <2>2. {ppFlag, ppFresh, ppRaced, ppSpoiled} \subseteq BOOLEAN
    BY DEF PP!Init
  <2>3. {ppStFd, ppPFd} \subseteq Fds /\ ppImgFd \subseteq Fds
    BY <1>1 DEF PP!Init
  <2> QED
    BY <1>2, <2>1, <2>2, <2>3 DEF PP!Init, PP!TypeOK
<1>4. PP!NoFileLeft
  BY <1>1 DEF PP!Init, PP!NoFileLeft
<1>5. SameFdInv /\ FreshInv /\ SpoiltInv
  BY <1>1 DEF PP!Init, SameFdInv, FreshInv, SpoiltInv
<1> QED
  BY <1>3, <1>4, <1>5 DEF PollInv

LEMMA ReaderKeepsPoll == ASSUME PollInv, PP!ReaderStep PROVE PollInv'
<1> USE DEF PP!Goes
<1>1. CASE PP!Top
  BY <1>1 DEF PP!Top, PollInv, PP!TypeOK, PP!NoFileLeft, SameFdInv, FreshInv, SpoiltInv
<1>2. CASE PP!Poll
  BY <1>2 DEF PP!Poll, PollInv, PP!TypeOK, PP!NoFileLeft, SameFdInv, FreshInv, SpoiltInv
<1>3. CASE PP!Close
  <2>1. PP!TypeOK'
    BY <1>3 DEF PP!Close, PollInv, PP!TypeOK
  <2>2. PP!NoFileLeft'
    BY <1>3 DEF PP!Close, PollInv, PP!TypeOK, PP!NoFileLeft
  <2>3. SameFdInv'
    BY <1>3, LeastFd DEF PP!Close, PollInv, PP!TypeOK, SameFdInv
  <2>4. FreshInv' /\ SpoiltInv'
    BY <1>3 DEF PP!Close, PollInv, FreshInv, SpoiltInv
  <2> QED
    BY <2>1, <2>2, <2>3, <2>4 DEF PollInv
<1>4. CASE PP!Reopen
  <2>1. PP!Lowest \in PP!Free /\ \A l \in PP!Free : PP!Lowest <= l
    BY LowestIsFree DEF PollInv
  <2>2. PP!Lowest \in Fds /\ ppFile[PP!Lowest] = "none"
    BY <2>1 DEF PP!Free
  <2>3. PP!TypeOK'
    BY <1>4, <2>2 DEF PP!Reopen, PollInv, PP!TypeOK
  <2>4. PP!NoFileLeft'
    BY <1>4, <2>2 DEF PP!Reopen, PollInv, PP!TypeOK, PP!NoFileLeft
  <2>5. ASSUME ~ppRaced PROVE PP!Lowest = Least
    <3>1. Least \in PP!Free
      BY <1>4, <2>5, LeastFd DEF PP!Reopen, PollInv, SameFdInv, PP!Free
    <3>2. PP!Lowest <= Least /\ Least <= PP!Lowest
      BY <3>1, <2>1, <2>2, LeastFd
    <3>3. PP!Lowest \in Nat /\ Least \in Nat
      BY <2>2, LeastFd, FdFacts
    <3> QED
      BY <3>2, <3>3
  <2>6. SameFdInv'
    BY <1>4, <2>5 DEF PP!Reopen, PollInv, SameFdInv
  <2>7. FreshInv' /\ SpoiltInv'
    BY <1>4 DEF PP!Reopen, PollInv, FreshInv, SpoiltInv
  <2> QED
    BY <2>3, <2>4, <2>6, <2>7 DEF PollInv
<1>5. CASE PP!ReadFlg
  BY <1>5 DEF PP!ReadFlg, PollInv, PP!TypeOK, PP!NoFileLeft, SameFdInv, FreshInv, SpoiltInv
<1>6. CASE PP!ReadImg
  BY <1>6 DEF PP!ReadImg, PollInv, PP!TypeOK, PP!NoFileLeft, SameFdInv, FreshInv, SpoiltInv
<1>7. CASE PP!Good \/ PP!Bad
  <2>1. PICK fd \in {ppStFd, ppPFd} : PP!WriteFlg(fd)
    BY <1>7 DEF PP!Good, PP!Bad
  <2>2. ppReader \in {"good", "bad"} /\ ppReader' = "top"
    BY <1>7 DEF PP!Good, PP!Bad
  <2>3. ~ppRaced => ppFile[fd] = "flag"
    BY <2>1, <2>2, LeastFd DEF PollInv, SameFdInv, PP!NoFileLeft
  <2>4. ppFlag' \in BOOLEAN /\ ppSpoiled' \in BOOLEAN
    BY <2>1 DEF PP!WriteFlg
  <2>5. (~ppRaced => ~ppFlag') /\ (ppSpoiled' => ppSpoiled \/ ppRaced)
    BY <2>1, <2>3 DEF PP!WriteFlg
  <2> QED
    BY <2>1, <2>2, <2>4, <2>5 DEF PP!WriteFlg, PollInv, PP!TypeOK, PP!NoFileLeft, SameFdInv,
                                  FreshInv, SpoiltInv
<1> QED
  BY <1>1, <1>2, <1>3, <1>4, <1>5, <1>6, <1>7 DEF PP!ReaderStep

LEMMA OthersKeepPoll ==
  ASSUME PollInv, PP!OpenImg \/ PP!CloseImg \/ PP!Frame PROVE PollInv'
<1>1. CASE PP!OpenImg
  <2>1. PP!Lowest \in Fds /\ ppFile[PP!Lowest] = "none"
    BY LowestIsFree DEF PollInv, PP!Free
  <2>2. ppRaced' \in BOOLEAN /\ (~ppRaced' => ~ppRaced /\ ppReader # "open")
    BY <1>1 DEF PP!OpenImg, PP!OpensImg
  <2>3. ppImgFd' = {PP!Lowest} /\ PP!Cardinality({PP!Lowest}) <= 1
    <3>1. Cardinality({PP!Lowest}) = 1
      BY FS_Singleton
    <3> QED
      BY <1>1, <3>1, SameOperators DEF PP!OpenImg, PP!OpensImg
  <2> HIDE DEF PP!Lowest
  <2>4. PP!TypeOK'
    <3>1. ppFile' \in [Fds -> {"flag", "image", "none"}]
      BY <1>1, <2>1 DEF PP!OpenImg, PP!OpensImg, PollInv, PP!TypeOK
    <3>2. ppImgFd' \subseteq Fds
      BY <2>1, <2>3
    <3>3. UNCHANGED <<ppReader, ppStFd, ppPFd, ppFlag, ppFresh, ppSpoiled>>
      BY <1>1 DEF PP!OpenImg, PP!OpensImg
    <3>4. {ppFlag, ppFresh, ppRaced, ppSpoiled}' \subseteq BOOLEAN
      BY <2>2, <3>3 DEF PollInv, PP!TypeOK
    <3> QED
      BY <2>3, <3>1, <3>2, <3>3, <3>4 DEF PollInv, PP!TypeOK
  <2>5. PP!NoFileLeft'
    BY <1>1, <2>1, <2>3 DEF PP!OpenImg, PP!OpensImg, PollInv, PP!TypeOK, PP!NoFileLeft
  <2>6. SameFdInv' /\ FreshInv' /\ SpoiltInv'
    BY <1>1, <2>2 DEF PP!OpenImg, PP!OpensImg, PollInv, SameFdInv, FreshInv, SpoiltInv
  <2> QED
    BY <2>4, <2>5, <2>6 DEF PollInv
<1>2. CASE PP!CloseImg
  <2>1. ppImgFd' = {} /\ PP!Cardinality({}) <= 1
    <3>1. Cardinality({}) = 0
      BY FS_EmptySet
    <3> QED
      BY <1>2, <3>1, SameOperators DEF PP!CloseImg
  <2>2. PP!TypeOK'
    <3>1. ppFile' \in [Fds -> {"flag", "image", "none"}]
      BY <1>2 DEF PP!CloseImg, PollInv, PP!TypeOK
    <3>2. ppImgFd' \subseteq Fds
      BY <1>2 DEF PP!CloseImg
    <3>3. UNCHANGED <<ppReader, ppStFd, ppPFd, ppFlag, ppFresh, ppRaced, ppSpoiled>>
      BY <1>2 DEF PP!CloseImg
    <3> QED
      BY <2>1, <3>1, <3>2, <3>3 DEF PollInv, PP!TypeOK
  <2>3. PP!NoFileLeft'
    BY <1>2 DEF PP!CloseImg, PollInv, PP!TypeOK, PP!NoFileLeft
  <2>4. SameFdInv'
    BY <1>2, LeastFd DEF PP!CloseImg, PollInv, PP!TypeOK, SameFdInv
  <2>5. FreshInv' /\ SpoiltInv'
    BY <1>2 DEF PP!CloseImg, PollInv, FreshInv, SpoiltInv
  <2> QED
    BY <2>2, <2>3, <2>4, <2>5 DEF PollInv
<1>3. CASE PP!Frame
  BY <1>3 DEF PP!Frame, PollInv, PP!TypeOK, PP!NoFileLeft, SameFdInv, FreshInv, SpoiltInv
<1> QED
  BY <1>1, <1>2, <1>3

LEMMA PollHolds == PollBehaviour => [](PP!TypeOK /\ PP!NoFileLeft /\ PP!HarmOnlyByRace)
<1>1. PollInv /\ [PP!Next]_(PP!vars) => PollInv'
  <2> SUFFICES ASSUME PollInv, [PP!Next]_(PP!vars) PROVE PollInv'
    OBVIOUS
  <2>1. CASE PP!Next
    BY <2>1, ReaderKeepsPoll, OthersKeepPoll DEF PP!Next
  <2>2. CASE UNCHANGED PP!vars
    BY <2>2 DEF PP!vars, PollInv, PP!TypeOK, PP!NoFileLeft, SameFdInv, FreshInv, SpoiltInv
  <2> QED
    BY <2>1, <2>2
<1>2. PollInv => PP!TypeOK /\ PP!NoFileLeft /\ PP!HarmOnlyByRace
  <2> SUFFICES ASSUME PollInv PROVE PP!HarmOnlyByRace
    BY DEF PollInv
  <2>1. ~ppRaced /\ ppReader = "poll" => ppFile[ppPFd] # "image"
    BY LeastFd DEF PollInv, SameFdInv, PP!NoFileLeft
  <2> QED
    BY <2>1 DEF PollInv, FreshInv, SpoiltInv, PP!HarmOnlyByRace
<1> QED
  BY <1>1, <1>2, PollInitInv, PTL DEF PollBehaviour
-----------------------------------------------------------------------------
(***************************************************************************)
(* ProtoFrames, the list.  As long as the pool is not lapped, every frame  *)
(* that waits, is processed or is being read has a node of its own.        *)
(***************************************************************************)
W(i) == PF!NodeOf(pfWaiting[i])
NextOf(i) == IF i < Len(pfWaiting) THEN W(i + 1) ELSE PF!None
Reading == pfReader \in {"read", "enter"}
Row == [img : 0 .. MaxReads, next : PF!Nodes \cup {PF!None}]

ListTypes ==
  /\ pfReads \in 0 .. MaxReads /\ pfReader \in {"next", "read", "enter", "gone"}
  /\ pfNode \in [PF!Nodes -> Row]
  /\ pfHead \in PF!Nodes \cup {PF!None} /\ pfTail \in PF!Nodes \cup {PF!None}
  /\ pfPNode \in PF!Nodes \cup {PF!None}
  /\ pfProc \in {"top", "wait", "run", "gone"}
  /\ pfWaiting \in Seq(1 .. MaxReads)
  /\ pfLapped \in BOOLEAN /\ pfRunning \in BOOLEAN
  /\ pfHead # PF!None => pfTail # PF!None
  /\ pfProc = "run" <=> pfPNode # PF!None
  /\ Reading => pfReads > 0

(* The list itself, from head to tail.                                     *)
LinkInv ==
  /\ pfHead = (IF pfWaiting = <<>> THEN PF!None ELSE W(1))
  /\ pfWaiting # <<>> => pfTail = W(Len(pfWaiting))
  /\ \A i \in DOMAIN pfWaiting :
       pfNode[W(i)].img = pfWaiting[i] /\ pfNode[W(i)].next = NextOf(i)
  /\ \A i, j \in DOMAIN pfWaiting : W(i) = W(j) => i = j

(* The nodes in use beside it.                                             *)
OwnerInv ==
  /\ pfProc = "run" =>
       /\ pfNode[pfPNode].img > 0 /\ PF!NodeOf(pfNode[pfPNode].img) = pfPNode
       /\ \A i \in DOMAIN pfWaiting : W(i) # pfPNode
  /\ Reading =>
       /\ \A i \in DOMAIN pfWaiting : W(i) # PF!NodeOf(pfReads)
       /\ pfPNode # PF!NodeOf(pfReads)
       /\ pfNode[PF!NodeOf(pfReads)].next = PF!None
  /\ pfReader = "enter" => pfNode[PF!NodeOf(pfReads)].img = pfReads

ListInv == ~pfLapped => LinkInv /\ OwnerInv

listState == <<pfReads, pfReader, pfNode, pfHead, pfTail, pfProc, pfPNode, pfWaiting,
               pfLapped>>

LEMMA PoolFacts ==
  /\ Pool \in Nat \ {0} /\ Ring \in Nat \ {0} /\ MaxReads \in Nat
  /\ \A n2 \in Int : PF!NodeOf(n2) \in PF!Nodes
  /\ PF!None \notin PF!Nodes
<1>1. PF!ProtoFramesAssumption
  BY EarlierAssumption
<1>2. Pool \in Nat \ {0} /\ Ring \in Nat \ {0} /\ MaxReads \in Nat
  BY <1>1 DEF PF!ProtoFramesAssumption
<1>3. ASSUME NEW n2 \in Int PROVE PF!NodeOf(n2) \in PF!Nodes
  BY <1>2 DEF PF!NodeOf, PF!Nodes
<1>4. PF!None \notin PF!Nodes
  BY <1>2 DEF PF!None, PF!Nodes
<1> QED
  BY <1>2, <1>3, <1>4

LEMMA ListInit == PF!Init => ListTypes /\ ListInv
<1> SUFFICES ASSUME PF!Init PROVE ListTypes /\ ListInv
  OBVIOUS
<1>1. PF!Destroyed \in Row
  BY PoolFacts DEF PF!Destroyed, Row
<1>2. pfNode \in [PF!Nodes -> Row]
  BY <1>1 DEF PF!Init
<1>3. ListTypes
  <2>1. pfReads \in 0 .. MaxReads /\ pfWaiting \in Seq(1 .. MaxReads)
    BY PoolFacts DEF PF!Init
  <2>2. pfLapped \in BOOLEAN /\ pfRunning \in BOOLEAN /\ ~Reading
    BY DEF PF!Init, Reading
  <2> QED
    BY <1>2, <2>1, <2>2 DEF PF!Init, ListTypes
<1>4. ListInv
  BY DEF PF!Init, ListInv, LinkInv, OwnerInv, Reading
<1> QED
  BY <1>3, <1>4

(* VisionNode::Instance.                                                   *)
LEMMA InstanceList ==
  ASSUME ListTypes, ListInv, PF!Instance PROVE ListTypes' /\ ListInv'
<1> DEFINE s == PF!NodeOf(pfReads + 1)
<1>1. pfReads' = pfReads + 1 /\ pfReads' \in 1 .. MaxReads
  BY PoolFacts DEF PF!Instance, ListTypes
<1>2. s \in PF!Nodes /\ PF!NodeOf(pfReads') = s
  BY <1>1, PoolFacts DEF ListTypes
<1> HIDE DEF s
<1>3. PF!Destroyed \in Row
  BY PoolFacts DEF PF!Destroyed, Row
<1>4. pfNode' = [pfNode EXCEPT ![s] = PF!Destroyed]
  BY <1>2 DEF PF!Instance
<1>5. UNCHANGED <<pfHead, pfTail, pfProc, pfPNode, pfWaiting, pfRunning>> /\ pfReader' = "read"
  BY DEF PF!Instance, PF!procVars
<1>6. pfLapped' \in BOOLEAN
  BY DEF PF!Instance
<1>7. ~pfLapped' => ~pfLapped /\ \A f \in PF!Outstanding : PF!NodeOf(f) # s
  BY <1>2 DEF PF!Instance
<1>8. ListTypes'
  BY <1>1, <1>2, <1>3, <1>4, <1>5, <1>6 DEF ListTypes, Reading
<1>9. ASSUME ~pfLapped' PROVE LinkInv' /\ OwnerInv'
  <2>1. LinkInv /\ OwnerInv
    BY <1>7, <1>9 DEF ListInv
  <2>2. \A i \in DOMAIN pfWaiting : W(i) # s /\ W(i) \in PF!Nodes
    BY <1>7, <1>9, PoolFacts DEF PF!Outstanding, W, ListTypes
  <2>3. pfPNode # s
    <3>1. CASE pfProc = "run"
      <4>1. pfNode[pfPNode].img \in PF!Outstanding
        BY <3>1 DEF PF!Outstanding
      <4> QED
        BY <3>1, <4>1, <1>7, <1>9, <2>1 DEF OwnerInv
    <3>2. CASE pfProc # "run"
      BY <3>2, <1>2, PoolFacts DEF ListTypes
    <3> QED
      BY <3>1, <3>2
  <2>4. \A q \in PF!Nodes : q # s => pfNode'[q] = pfNode[q]
    BY <1>4 DEF ListTypes
  <2>5. LinkInv'
    <3>1. \A i \in DOMAIN pfWaiting : pfNode'[W(i)] = pfNode[W(i)]
      BY <2>2, <2>4
    <3> QED
      BY <1>5, <2>1, <3>1 DEF LinkInv, W, NextOf
  <2>6. OwnerInv'
    <3>1. pfProc = "run" => pfNode'[pfPNode] = pfNode[pfPNode]
      BY <2>3, <2>4 DEF ListTypes
    <3>2. pfNode'[s].next = PF!None
      BY <1>2, <1>4 DEF ListTypes, PF!Destroyed
    <3> QED
      BY <1>2, <1>5, <2>1, <2>2, <2>3, <3>1, <3>2 DEF OwnerInv, W, Reading
  <2> QED
    BY <2>5, <2>6
<1> QED
  BY <1>8, <1>9 DEF ListInv

(* ReadImg.                                                                *)
LEMMA ReadList == ASSUME ListTypes, ListInv, PF!ReadImg PROVE ListTypes' /\ ListInv'
<1> DEFINE s == PF!NodeOf(pfReads)
<1>1. pfReads \in 1 .. MaxReads /\ s \in PF!Nodes /\ pfReader = "read" /\ Reading
  BY PoolFacts DEF PF!ReadImg, ListTypes, Reading
<1>2. UNCHANGED <<pfReads, pfHead, pfTail, pfProc, pfPNode, pfWaiting, pfRunning, pfLapped>>
  BY DEF PF!ReadImg, PF!procVars
<1>3. PICK r \in Row : pfNode' = [pfNode EXCEPT ![s] = r] /\
        \/ pfReader' = "enter" /\ r.img = pfReads /\ r.next = pfNode[s].next
        \/ pfReader' = "next"
  <2>1. PF!Destroyed \in Row
    BY PoolFacts DEF PF!Destroyed, Row
  <2>2. pfNode[s] \in Row
    BY <1>1 DEF ListTypes
  <2>3. [pfNode[s] EXCEPT !.img = pfReads] \in Row
    BY <2>2, <1>1 DEF Row
  <2>4. [pfNode[s] EXCEPT !.img = pfReads].img = pfReads
        /\ [pfNode[s] EXCEPT !.img = pfReads].next = pfNode[s].next
    BY <2>2 DEF Row
  <2> QED
    BY <2>1, <2>2, <2>3, <2>4 DEF PF!ReadImg
<1> HIDE DEF s
<1>4. ListTypes'
  <2>1. pfNode' \in [PF!Nodes -> Row]
    BY <1>1, <1>3 DEF ListTypes
  <2>2. pfReader' \in {"next", "enter"} /\ (Reading' => pfReads' > 0)
    BY <1>1, <1>2, <1>3
  <2> QED
    BY <1>2, <2>1, <2>2 DEF ListTypes
<1>5. ASSUME ~pfLapped PROVE LinkInv' /\ OwnerInv'
  <2>1. LinkInv /\ OwnerInv
    BY <1>5 DEF ListInv
  <2>2. \A q \in PF!Nodes : q # s => pfNode'[q] = pfNode[q]
    BY <1>3 DEF ListTypes
  <2>3. \A i \in DOMAIN pfWaiting : W(i) # s /\ W(i) \in PF!Nodes
    BY <1>1, <2>1, PoolFacts DEF OwnerInv, W, ListTypes, s
  <2>4. pfPNode # s /\ pfNode[s].next = PF!None
    BY <1>1, <2>1 DEF OwnerInv, s
  <2>5. LinkInv'
    <3>1. \A i \in DOMAIN pfWaiting : pfNode'[W(i)] = pfNode[W(i)]
      BY <2>2, <2>3
    <3> QED
      BY <1>2, <2>1, <3>1 DEF LinkInv, W, NextOf
  <2>6. OwnerInv'
    <3>1. pfProc = "run" => pfNode'[pfPNode] = pfNode[pfPNode]
      BY <2>2, <2>4 DEF ListTypes
    <3>2. pfReader' = "enter" => pfNode'[s].next = PF!None /\ pfNode'[s].img = pfReads
      BY <1>1, <1>3, <2>4 DEF ListTypes
    <3>3. Reading' => pfReader' = "enter"
      BY <1>3 DEF Reading
    <3>4. W(1)' = W(1) /\ \A i \in DOMAIN pfWaiting : W(i)' = W(i)
      BY <1>2 DEF W
    <3> QED
      BY <1>2, <2>1, <2>3, <2>4, <3>1, <3>2, <3>3, <3>4 DEF OwnerInv, s
  <2> QED
    BY <2>5, <2>6
<1> QED
  BY <1>2, <1>4, <1>5 DEF ListInv

(* A frame that is read whole gets behind the last one.                    *)
LEMMA EnterList == ASSUME ListTypes, ListInv, PF!Enter PROVE ListTypes' /\ ListInv'
<1> DEFINE s == PF!NodeOf(pfReads)
<1>0. PICK len \in Nat : len = Len(pfWaiting)
  BY DEF ListTypes
<1>1. pfReads \in 1 .. MaxReads /\ s \in PF!Nodes /\ pfReader = "enter" /\ Reading
  BY PoolFacts DEF PF!Enter, ListTypes, Reading
<1>2. UNCHANGED <<pfReads, pfProc, pfPNode, pfRunning, pfLapped>>
      /\ pfReader' = "next" /\ pfProc # "run"
  BY DEF PF!Enter, PF!procVars
<1>3. pfWaiting' = Append(pfWaiting, pfReads)
  BY DEF PF!Enter
<1>4. IF pfHead = PF!None
      THEN pfHead' = s /\ pfTail' = s /\ pfNode' = pfNode
      ELSE pfNode' = [pfNode EXCEPT ![pfTail].next = s] /\ pfTail' = s /\ pfHead' = pfHead
  BY DEF PF!Enter, PF!Linked
<1>5. pfWaiting' \in Seq(1 .. MaxReads) /\ Len(pfWaiting') = len + 1
      /\ pfWaiting'[len + 1] = pfReads /\ \A i \in 1 .. len : pfWaiting'[i] = pfWaiting[i]
  BY <1>0, <1>1, <1>3 DEF ListTypes
<1>6. DOMAIN pfWaiting = 1 .. len /\ DOMAIN pfWaiting' = 1 .. len + 1
      /\ (pfWaiting = <<>> <=> len = 0) /\ pfWaiting' # <<>>
  BY <1>0, <1>5 DEF ListTypes
<1>7. pfHead # PF!None => pfTail \in PF!Nodes
  BY DEF ListTypes
<1> HIDE DEF s
<1>8. ListTypes'
  <2>1. pfNode' \in [PF!Nodes -> Row]
    <3>1. CASE pfHead = PF!None
      BY <3>1, <1>4 DEF ListTypes
    <3>2. CASE pfHead # PF!None
      <4>1. [pfNode[pfTail] EXCEPT !.next = s] \in Row
        BY <3>2, <1>1, <1>7 DEF ListTypes, Row
      <4> QED
        BY <3>2, <1>4, <4>1 DEF ListTypes
    <3> QED
      BY <3>1, <3>2
  <2>2. pfHead' \in PF!Nodes \cup {PF!None} /\ pfTail' = s
    BY <1>1, <1>4 DEF ListTypes
  <2>3. s # PF!None
    BY <1>1, PoolFacts
  <2> QED
    BY <1>1, <1>2, <1>5, <2>1, <2>2, <2>3 DEF ListTypes, Reading
<1>9. ASSUME ~pfLapped PROVE LinkInv' /\ OwnerInv'
  <2>1. LinkInv /\ OwnerInv
    BY <1>9 DEF ListInv
  <2>2. \A i \in 1 .. len : W(i)' = W(i) /\ W(i) \in PF!Nodes /\ W(i) # s
    BY <1>1, <1>5, <1>6, <2>1, PoolFacts DEF OwnerInv, W, ListTypes, s
  <2>3. W(len + 1)' = s
    BY <1>5 DEF W, s
  <2>4. pfNode[s].img = pfReads /\ pfNode[s].next = PF!None
    BY <1>1, <2>1 DEF OwnerInv, s
  <2>5. pfHead = PF!None <=> len = 0
    BY <1>5, <1>6, <2>1, <2>2, PoolFacts DEF LinkInv
  <2>6. len # 0 => pfHead = W(1) /\ pfTail = W(len)
    BY <1>0, <1>6, <2>1 DEF LinkInv
  <2>7. \A i \in 1 .. len : pfNode'[W(i)].img = pfNode[W(i)].img
    <3>1. CASE pfHead = PF!None
      BY <3>1, <1>4
    <3>2. CASE pfHead # PF!None
      BY <3>2, <1>4, <1>7, <2>2 DEF ListTypes, Row
    <3> QED
      BY <3>1, <3>2
  <2>8. \A i \in 1 .. len : pfNode'[W(i)].next = IF i = len THEN s ELSE pfNode[W(i)].next
    <3> SUFFICES ASSUME NEW i \in 1 .. len
                 PROVE  pfNode'[W(i)].next = IF i = len THEN s ELSE pfNode[W(i)].next
      OBVIOUS
    <3>1. pfHead # PF!None /\ pfTail = W(len) /\ W(i) \in PF!Nodes /\ W(len) \in PF!Nodes
      BY <1>5, <2>2, <2>5, <2>6
    <3>2. pfNode' = [pfNode EXCEPT ![W(len)].next = s]
      BY <1>4, <3>1
    <3>3. CASE i = len
      BY <3>1, <3>2, <3>3 DEF ListTypes, Row
    <3>4. CASE i # len
      <4>1. W(i) # W(len)
        BY <1>5, <1>6, <2>1, <3>4 DEF LinkInv
      <4> QED
        BY <3>1, <3>2, <3>4, <4>1 DEF ListTypes
    <3> QED
      BY <3>3, <3>4
  <2>9. pfNode'[s] = pfNode[s]
    <3>1. CASE pfHead = PF!None
      BY <3>1, <1>4
    <3>2. CASE pfHead # PF!None
      <4>1. pfTail # s
        BY <3>2, <1>5, <2>2, <2>5, <2>6
      <4> QED
        BY <3>2, <1>1, <1>4, <1>7, <4>1 DEF ListTypes
    <3> QED
      BY <3>1, <3>2
  <2>10. \A i \in 1 .. len : NextOf(i)' = IF i = len THEN s ELSE NextOf(i)
    BY <1>0, <1>5, <2>2, <2>3 DEF NextOf
  <2>11. NextOf(len + 1)' = PF!None
    BY <1>5 DEF NextOf
  <2>12. LinkInv'
    <3>1. pfHead' = W(1)'
      BY <1>4, <1>5, <2>2, <2>3, <2>5, <2>6
    <3>2. pfTail' = W(len + 1)'
      BY <1>4, <2>3
    <3>3. ASSUME NEW i \in 1 .. len + 1
          PROVE  pfNode'[W(i)'].img = pfWaiting'[i] /\ pfNode'[W(i)'].next = NextOf(i)'
      <4>1. CASE i = len + 1
        BY <4>1, <1>5, <2>3, <2>4, <2>9, <2>11
      <4>2. CASE i \in 1 .. len
        <5>1. pfNode[W(i)].img = pfWaiting[i] /\ pfNode[W(i)].next = NextOf(i)
          BY <4>2, <1>6, <2>1 DEF LinkInv
        <5> QED
          BY <4>2, <5>1, <1>5, <2>2, <2>7, <2>8, <2>10
      <4> QED
        BY <1>5, <4>1, <4>2
    <3>4. ASSUME NEW i \in 1 .. len + 1, NEW j \in 1 .. len + 1, W(i)' = W(j)' PROVE i = j
      <4>1. CASE i \in 1 .. len /\ j \in 1 .. len
        BY <3>4, <4>1, <1>6, <2>1, <2>2 DEF LinkInv
      <4>2. CASE i = len + 1 \/ j = len + 1
        BY <3>4, <4>2, <1>5, <2>2, <2>3
      <4> QED
        BY <1>5, <4>1, <4>2
    <3> QED
      BY <1>5, <1>6, <3>1, <3>2, <3>3, <3>4 DEF LinkInv
  <2>13. OwnerInv'
    BY <1>2 DEF OwnerInv, Reading
  <2> QED
    BY <2>12, <2>13
<1> QED
  BY <1>2, <1>8, <1>9 DEF ListInv

(* The end of read_vision: nobody reads, nothing waits.                    *)
LEMMA DrainList == ASSUME ListTypes, ListInv, PF!Drain PROVE ListTypes' /\ ListInv'
<1>1. pfReader' = "gone" /\ pfHead' = PF!None /\ pfWaiting' = <<>> /\ pfProc # "run"
      /\ UNCHANGED <<pfReads, pfTail, pfProc, pfPNode, pfRunning, pfLapped>>
  BY DEF PF!Drain, PF!procVars
<1>2. PF!Destroyed \in Row
  BY PoolFacts DEF PF!Destroyed, Row
<1>3. pfNode' \in [PF!Nodes -> Row]
  BY <1>2 DEF PF!Drain, ListTypes
<1>4. ListTypes'
  BY <1>1, <1>3 DEF ListTypes, Reading
<1>5. LinkInv' /\ OwnerInv'
  BY <1>1 DEF LinkInv, OwnerInv, Reading
<1> QED
  BY <1>4, <1>5 DEF ListInv

(* The processing thread takes the head.                                   *)
LEMMA TakeList == ASSUME ListTypes, ListInv, PF!Take PROVE ListTypes' /\ ListInv'
<1> DEFINE h == pfHead
<1>0. PICK len \in Nat : len = Len(pfWaiting)
  BY DEF ListTypes
<1>1. h \in PF!Nodes /\ pfProc = "wait" /\ pfProc' = "run" /\ pfPNode' = h
      /\ pfHead' = pfNode[h].next
      /\ UNCHANGED <<pfReads, pfReader, pfTail, pfRunning, pfLapped>>
  BY DEF PF!Take, PF!readVars, ListTypes
<1>2. pfNode' = [pfNode EXCEPT ![h].next = PF!None]
  BY DEF PF!Take
<1>3. pfWaiting' = IF pfWaiting = <<>> THEN pfWaiting ELSE Tail(pfWaiting)
  BY DEF PF!Take
<1>4. pfNode[h].next \in PF!Nodes \cup {PF!None} /\ pfTail # PF!None /\ h # PF!None
  BY <1>1 DEF ListTypes, Row, PF!Take
<1>5. pfNode' \in [PF!Nodes -> Row] /\ pfNode'[h].img = pfNode[h].img
      /\ pfNode'[h].next = PF!None
  <2>1. [pfNode[h] EXCEPT !.next = PF!None] \in Row
    BY <1>1 DEF ListTypes, Row
  <2> QED
    BY <2>1, <1>1, <1>2 DEF ListTypes, Row
<1>6. \A q \in PF!Nodes : q # h => pfNode'[q] = pfNode[q]
  BY <1>1, <1>2 DEF ListTypes
<1>7. pfWaiting' \in Seq(1 .. MaxReads)
  <2>1. pfWaiting # <<>> => Tail(pfWaiting) \in Seq(1 .. MaxReads)
    BY DEF ListTypes
  <2> QED
    BY <1>3, <2>1 DEF ListTypes
<1>8. ListTypes'
  BY <1>1, <1>4, <1>5, <1>7 DEF ListTypes, Reading
<1>9. ASSUME ~pfLapped PROVE LinkInv' /\ OwnerInv'
  <2>1. LinkInv /\ OwnerInv
    BY <1>9 DEF ListInv
  <2>2. pfWaiting # <<>> /\ h = W(1)
    BY <1>4, <2>1 DEF LinkInv
  <2>3. len \in Nat \ {0} /\ DOMAIN pfWaiting = 1 .. len
    BY <1>0, <2>2 DEF ListTypes
  <2>4. Len(pfWaiting') = len - 1 /\ DOMAIN pfWaiting' = 1 .. len - 1
        /\ \A i \in 1 .. len - 1 : pfWaiting'[i] = pfWaiting[i + 1]
    BY <1>0, <1>3, <2>2, <2>3 DEF ListTypes
  <2> HIDE DEF h
  <2>5. \A i \in 1 .. len - 1 : W(i)' = W(i + 1)
    BY <2>4 DEF W
  <2>6. \A i \in 1 .. len : W(i) \in PF!Nodes /\ pfWaiting[i] \in 1 .. MaxReads
    BY <2>3, PoolFacts DEF W, ListTypes
  <2>7. \A i \in 1 .. len - 1 : W(i + 1) # h
    BY <2>1, <2>2, <2>3 DEF LinkInv
  <2>8. \A i \in 1 .. len - 1 : NextOf(i)' = NextOf(i + 1)
    BY <1>0, <2>3, <2>4, <2>5 DEF NextOf
  <2>9. ASSUME NEW i \in 1 .. len - 1
        PROVE  pfNode'[W(i)'].img = pfWaiting'[i] /\ pfNode'[W(i)'].next = NextOf(i)'
    <3>1. i + 1 \in 1 .. len
      BY <2>3
    <3>2. pfNode'[W(i + 1)] = pfNode[W(i + 1)]
      BY <1>6, <2>6, <2>7, <3>1
    <3>3. pfNode[W(i + 1)].img = pfWaiting[i + 1] /\ pfNode[W(i + 1)].next = NextOf(i + 1)
      BY <2>1, <2>3, <3>1 DEF LinkInv
    <3> QED
      BY <2>4, <2>5, <2>8, <3>2, <3>3
  <2>10. pfHead' = IF len = 1 THEN PF!None ELSE W(1)'
    <3>1. pfNode[h].next = NextOf(1)
      BY <2>1, <2>2, <2>3 DEF LinkInv
    <3>2. NextOf(1) = IF len = 1 THEN PF!None ELSE W(2)
      BY <1>0, <2>3 DEF NextOf
    <3>3. len # 1 => W(1)' = W(2)
      BY <2>3, <2>5
    <3> QED
      BY <1>1, <3>1, <3>2, <3>3 DEF h
  <2>11. LinkInv'
    <3>1. pfWaiting' = <<>> <=> len = 1
      BY <1>7, <2>3, <2>4
    <3>2. len # 1 => pfTail' = W(len - 1)'
      <4>1. len # 1 => W(len - 1)' = W(len)
        BY <2>3, <2>5
      <4> QED
        BY <1>0, <1>1, <2>1, <2>2, <4>1 DEF LinkInv
    <3>3. \A i, j \in 1 .. len - 1 : W(i)' = W(j)' => i = j
      <4> SUFFICES ASSUME NEW i \in 1 .. len - 1, NEW j \in 1 .. len - 1, W(i)' = W(j)'
                   PROVE  i = j
        OBVIOUS
      <4>1. W(i + 1) = W(j + 1) /\ i + 1 \in 1 .. len /\ j + 1 \in 1 .. len
        BY <2>3, <2>5
      <4>2. i + 1 = j + 1
        BY <2>1, <2>3, <4>1 DEF LinkInv
      <4> QED
        BY <4>2
    <3> QED
      BY <2>4, <2>9, <2>10, <3>1, <3>2, <3>3 DEF LinkInv
  <2>12. OwnerInv'
    <3>1. pfNode'[h].img = pfWaiting[1]
      BY <1>5, <2>1, <2>2, <2>3 DEF LinkInv
    <3>2. PF!NodeOf(pfWaiting[1]) = h /\ pfWaiting[1] > 0
      BY <2>2, <2>3, <2>6 DEF W
    <3>3. \A i \in 1 .. len - 1 : W(i)' # h
      BY <2>5, <2>7
    <3>4. Reading => /\ \A i \in 1 .. len - 1 : W(i)' # PF!NodeOf(pfReads)
                     /\ h # PF!NodeOf(pfReads)
      BY <2>1, <2>2, <2>3, <2>5 DEF OwnerInv
    <3>5. Reading => pfNode'[PF!NodeOf(pfReads)] = pfNode[PF!NodeOf(pfReads)]
      <4>1. PF!NodeOf(pfReads) \in PF!Nodes
        BY PoolFacts DEF ListTypes
      <4> QED
        BY <1>6, <3>4, <4>1
    <3>6. Reading' = Reading /\ (pfReader' = "enter" => Reading)
      BY <1>1 DEF Reading
    <3> QED
      BY <1>1, <2>1, <2>4, <3>1, <3>2, <3>3, <3>4, <3>5, <3>6 DEF OwnerInv, h
  <2> QED
    BY <2>11, <2>12
<1> QED
  BY <1>1, <1>8, <1>9 DEF ListInv

(* The images leave the node that was processed.                           *)
LEMMA ProcessList == ASSUME ListTypes, ListInv, PF!Process PROVE ListTypes' /\ ListInv'
<1>1. pfPNode \in PF!Nodes /\ pfProc = "run" /\ pfProc' = "top" /\ pfPNode' = PF!None
      /\ UNCHANGED <<pfReads, pfReader, pfHead, pfTail, pfWaiting, pfRunning, pfLapped>>
  BY DEF PF!Process, PF!readVars, ListTypes
<1>2. pfNode' = [pfNode EXCEPT ![pfPNode] = PF!Destroyed]
  BY DEF PF!Process
<1>3. PF!Destroyed \in Row
  BY PoolFacts DEF PF!Destroyed, Row
<1>4. ListTypes'
  <2>1. pfNode' \in [PF!Nodes -> Row]
    BY <1>2, <1>3 DEF ListTypes
  <2> QED
    BY <1>1, <2>1 DEF ListTypes, Reading
<1>5. ASSUME ~pfLapped PROVE LinkInv' /\ OwnerInv'
  <2>1. LinkInv /\ OwnerInv
    BY <1>5 DEF ListInv
  <2>2. \A q \in PF!Nodes : q # pfPNode => pfNode'[q] = pfNode[q]
    BY <1>2 DEF ListTypes
  <2>3. \A i \in DOMAIN pfWaiting : W(i) # pfPNode /\ W(i) \in PF!Nodes /\ W(i)' = W(i)
    BY <1>1, <2>1, PoolFacts DEF OwnerInv, W, ListTypes
  <2>4. LinkInv'
    <3>1. \A i \in DOMAIN pfWaiting : pfNode'[W(i)] = pfNode[W(i)]
      BY <2>2, <2>3
    <3> QED
      BY <1>1, <2>1, <3>1 DEF LinkInv, W, NextOf
  <2>5. OwnerInv'
    <3>1. PF!NodeOf(pfReads) \in PF!Nodes /\ PF!NodeOf(pfReads) # PF!None
      BY PoolFacts DEF ListTypes
    <3>2. Reading => pfNode'[PF!NodeOf(pfReads)] = pfNode[PF!NodeOf(pfReads)]
      BY <2>1, <2>2, <3>1 DEF OwnerInv
    <3>3. Reading' = Reading /\ (pfReader = "enter" => Reading)
      BY <1>1 DEF Reading
    <3> QED
      BY <1>1, <2>1, <2>3, <3>1, <3>2, <3>3 DEF OwnerInv
  <2> QED
    BY <2>4, <2>5
<1> QED
  BY <1>1, <1>4, <1>5 DEF ListInv

LEMMA OthersList ==
  ASSUME ListTypes, ListInv,
         PF!ProcTop \/ PF!StoreTop \/ PF!Fetch \/ PF!OutFile \/ PF!Interrupt
           \/ UNCHANGED PF!vars
  PROVE  ListTypes' /\ ListInv'
<1>1. UNCHANGED <<pfReads, pfReader, pfNode, pfHead, pfTail, pfPNode, pfWaiting, pfLapped>>
  BY DEF PF!ProcTop, PF!StoreTop, PF!Fetch, PF!FetchFrom, PF!OutFile, PF!Interrupt,
         PF!vars, PF!readVars, PF!listVars, PF!procVars, PF!storeVars
<1>2. pfProc' = pfProc \/ (pfProc # "run" /\ pfProc' \in {"wait", "gone"})
  BY DEF PF!ProcTop, PF!StoreTop, PF!Fetch, PF!FetchFrom, PF!OutFile, PF!Interrupt,
         PF!vars, PF!readVars, PF!listVars, PF!procVars, PF!storeVars
<1>3. pfRunning' = pfRunning \/ pfRunning' = FALSE
  BY DEF PF!ProcTop, PF!StoreTop, PF!Fetch, PF!FetchFrom, PF!OutFile, PF!Interrupt,
         PF!vars, PF!readVars, PF!listVars, PF!procVars, PF!storeVars
<1>4. ListTypes'
  BY <1>1, <1>2, <1>3 DEF ListTypes, Reading
<1>5. ListInv'
  BY <1>1, <1>2 DEF ListInv, LinkInv, OwnerInv, Reading, W, NextOf
<1> QED
  BY <1>4, <1>5

LEMMA ListStep ==
  ASSUME ListTypes, ListInv, [PF!Next]_(PF!vars) PROVE ListTypes' /\ ListInv'
  BY InstanceList, ReadList, EnterList, DrainList, TakeList, ProcessList, OthersList
     DEF PF!Next

(***************************************************************************)
(* ListIsWhole speaks of the nodes reached from the head one by one.       *)
(***************************************************************************)
LEMMA ListIsWholeHolds == ASSUME ListTypes, ListInv PROVE PF!ListIsWhole
<1> SUFFICES ASSUME ~pfLapped PROVE PF!ListIsWhole
  BY DEF PF!ListIsWhole
<1>0. PICK len \in Nat : len = Len(pfWaiting)
  BY DEF ListTypes
<1>1. LinkInv /\ OwnerInv
  BY DEF ListInv
<1>2. DOMAIN pfWaiting = 1 .. len /\ (pfWaiting = <<>> <=> len = 0)
  BY <1>0 DEF ListTypes
<1>3. \A i \in 1 .. len : W(i) \in PF!Nodes
  BY <1>2, PoolFacts DEF W, ListTypes
<1>4. len <= Pool
  <2>1. IsFiniteSet(PF!Nodes) /\ Cardinality(PF!Nodes) = Pool
    <3>1. Pool - 1 \in Int /\ 0 \in Int
      BY PoolFacts
    <3>2. IsFiniteSet(0 .. Pool - 1)
          /\ Cardinality(0 .. Pool - 1) = IF 0 > Pool - 1 THEN 0 ELSE (Pool - 1) - 0 + 1
      BY <3>1, FS_Interval
    <3> QED
      BY <3>2, PoolFacts DEF PF!Nodes
  <2>2. IsFiniteSet(1 .. len) /\ Cardinality(1 .. len) = len
    <3>1. IsFiniteSet(1 .. len)
          /\ Cardinality(1 .. len) = IF 1 > len THEN 0 ELSE len - 1 + 1
      BY FS_Interval
    <3> QED
      BY <3>1
  <2> DEFINE f == [i \in 1 .. len |-> W(i)]
  <2>3. f \in Injection(1 .. len, PF!Nodes)
    <3>1. f \in [1 .. len -> PF!Nodes]
      BY <1>3
    <3>2. \A i, j \in 1 .. len : f[i] = f[j] => i = j
      BY <1>1, <1>2 DEF LinkInv
    <3> QED
      BY <3>1, <3>2 DEF Injection, IsInjective
  <2> HIDE DEF f
  <2>4. Cardinality(1 .. len) <= Cardinality(PF!Nodes)
    BY <2>1, <2>3, FS_Injection
  <2> QED
    BY <2>1, <2>2, <2>4
<1> DEFINE w == [k \in 0 .. Pool |-> IF k < len THEN W(k + 1) ELSE PF!None]
           Follows(at) ==
             at = [k \in 0 .. Pool |->
                     IF k = 0 THEN pfHead
                     ELSE IF at[k - 1] = PF!None THEN PF!None ELSE pfNode[at[k - 1]].next]
<1>5. Follows(w)
  <2> SUFFICES ASSUME NEW k \in 0 .. Pool
               PROVE  w[k] = IF k = 0 THEN pfHead
                             ELSE IF w[k - 1] = PF!None THEN PF!None
                                  ELSE pfNode[w[k - 1]].next
    OBVIOUS
  <2>1. CASE k = 0
    BY <2>1, <1>0, <1>1, <1>2, PoolFacts DEF LinkInv
  <2>2. CASE k \in 1 .. len
    <3>1. w[k - 1] = W(k) /\ W(k) # PF!None
      BY <2>2, <1>3, <1>4, PoolFacts
    <3>2. pfNode[W(k)].next = IF k < len THEN W(k + 1) ELSE PF!None
      BY <2>2, <1>0, <1>1, <1>2 DEF LinkInv, NextOf
    <3> QED
      BY <2>2, <3>1, <3>2
  <2>3. CASE k > len
    <3>1. k \in Nat /\ k <= Pool /\ Pool \in Nat
      BY PoolFacts
    <3>2. k - 1 \in 0 .. Pool /\ ~(k - 1 < len) /\ ~(k < len) /\ k # 0
      BY <2>3, <3>1
    <3>3. w[k] = PF!None /\ w[k - 1] = PF!None
      BY <3>2
    <3> HIDE DEF w
    <3> QED
      BY <3>2, <3>3
  <2> QED
    BY <2>1, <2>2, <2>3
<1>6. Follows(PF!Reached)
  <2>1. \E at : Follows(at)
    BY <1>5
  <2>2. PF!Reached = CHOOSE at : Follows(at)
    BY Zenon DEF PF!Reached
  <2> HIDE DEF Follows
  <2> QED
    BY <2>1, <2>2
<1>7. \A k \in 0 .. Pool : PF!Reached[k] = w[k]
  <2> DEFINE Bad == {k \in 0 .. Pool : PF!Reached[k] # w[k]}
  <2> SUFFICES ASSUME Bad # {} PROVE FALSE
    OBVIOUS
  <2>1. PICK m \in Bad : \A k \in Bad : m <= k
    <3>1. Bad \in SUBSET Nat
      BY PoolFacts
    <3> HIDE DEF Bad
    <3> QED
      BY <3>1, HasLeast
  <2>2. m \in 0 .. Pool /\ PF!Reached[m] # w[m]
    BY <2>1
  <2>3. m # 0 => PF!Reached[m - 1] = w[m - 1]
    BY <2>1, <2>2, PoolFacts
  <2> HIDE DEF w, Bad
  <2>4. \A at : Follows(at) =>
          at[m] = IF m = 0 THEN pfHead
                  ELSE IF at[m - 1] = PF!None THEN PF!None ELSE pfNode[at[m - 1]].next
    BY <2>2
  <2>5. w[m] = PF!Reached[m]
    <3> HIDE DEF Follows
    <3> QED
      BY <1>5, <1>6, <2>3, <2>4
  <2> QED
    BY <2>2, <2>5
<1>8. PF!Reached[len] = PF!None
  BY <1>4, <1>7, PoolFacts
<1>9. ASSUME NEW i \in 1 .. len
      PROVE  PF!Reached[i - 1] = PF!NodeOf(pfWaiting[i])
             /\ pfNode[PF!Reached[i - 1]].img = pfWaiting[i]
  <2>1. PF!Reached[i - 1] = W(i)
    BY <1>4, <1>7, PoolFacts
  <2> QED
    BY <2>1, <1>1, <1>2 DEF LinkInv, W
<1>10. pfProc = "run" => pfNode[pfPNode].img # 0
  BY <1>1 DEF OwnerInv
<1> QED
  BY <1>0, <1>2, <1>4, <1>8, <1>9, <1>10 DEF PF!ListIsWhole
-----------------------------------------------------------------------------
(***************************************************************************)
(* ProtoFrames, the indices: also after a lap, when links are lost and     *)
(* nodes come twice, no more frames are processed than were read.  Every   *)
(* frame entered gives the list one link or its head, and every frame      *)
(* taken uses one up.                                                      *)
(***************************************************************************)
Links == {s \in PF!Nodes : pfNode[s].next # PF!None}
One(b) == IF b THEN 1 ELSE 0

CountInv ==
  /\ pfFileIndex \in Nat
  /\ pfFileIndex + One(pfProc = "run") + One(pfHead # PF!None) + One(Reading)
       + Cardinality(Links) <= pfReads

LEMMA LinksFinite ==
  /\ IsFiniteSet(Links) /\ Cardinality(Links) \in Nat
  /\ \A S : S \subseteq Links => IsFiniteSet(S) /\ Cardinality(S) \in Nat
                                 /\ Cardinality(S) <= Cardinality(Links)
<1>1. IsFiniteSet(PF!Nodes)
  <2>1. Pool - 1 \in Int /\ 0 \in Int
    BY PoolFacts
  <2> QED
    BY <2>1, FS_Interval DEF PF!Nodes
<1>2. Links \in SUBSET PF!Nodes
  BY DEF Links
<1>3. IsFiniteSet(Links) /\ Cardinality(Links) \in Nat
  BY <1>1, <1>2, FS_Subset, FS_CardinalityType
<1>4. ASSUME NEW S \in SUBSET Links
      PROVE  IsFiniteSet(S) /\ Cardinality(S) \in Nat /\ Cardinality(S) <= Cardinality(Links)
  BY <1>3, FS_Subset, FS_CardinalityType
<1> QED
  BY <1>3, <1>4

LEMMA CountInit == PF!Init => CountInv
<1> SUFFICES ASSUME PF!Init PROVE CountInv
  OBVIOUS
<1>1. Links = {}
  BY DEF PF!Init, Links, PF!Destroyed
<1>2. Cardinality(Links) = 0
  BY <1>1, FS_EmptySet
<1> QED
  BY <1>2 DEF PF!Init, CountInv, One, Reading

LEMMA CountStep ==
  ASSUME ListTypes, CountInv, [PF!Next]_(PF!vars) PROVE CountInv'
<1> DEFINE c == Cardinality(Links)
           d == Cardinality(Links')
           s == PF!NodeOf(pfReads)
<1>1. c \in Nat /\ IsFiniteSet(Links) /\ (Links' \subseteq Links => d \in Nat /\ d <= c)
  BY LinksFinite
<1>2. pfReads \in Nat /\ s \in PF!Nodes
  BY PoolFacts DEF ListTypes
<1>3. pfFileIndex \in Nat
      /\ pfFileIndex + One(pfProc = "run") + One(pfHead # PF!None) + One(Reading) + c <= pfReads
  BY DEF CountInv
<1>4. SUFFICES /\ pfFileIndex' \in Nat
               /\ pfFileIndex' + One(pfProc' = "run") + One(pfHead' # PF!None) + One(Reading')
                    + d <= pfReads'
  BY DEF CountInv, One
<1> HIDE DEF c, d
<1>5. CASE PF!Instance
  <2>1. UNCHANGED <<pfFileIndex, pfProc, pfHead>> /\ pfReads' = pfReads + 1 /\ ~Reading /\ Reading'
    BY <1>5 DEF PF!Instance, PF!procVars, Reading
  <2>2. Links' \subseteq Links
    <3>1. PF!NodeOf(pfReads') \in PF!Nodes
      BY <1>2, <2>1, PoolFacts
    <3> QED
      BY <1>5, <3>1 DEF PF!Instance, Links, PF!Destroyed, ListTypes
  <2> QED
    BY <1>1, <1>2, <1>3, <2>1, <2>2 DEF One
<1>6. CASE PF!ReadImg
  <2>1. UNCHANGED <<pfFileIndex, pfProc, pfHead, pfReads>> /\ Reading
    BY <1>6 DEF PF!ReadImg, PF!procVars, Reading
  <2>2. Links' \subseteq Links
    <3>1. \A q \in PF!Nodes : pfNode[q] \in Row
      BY DEF ListTypes
    <3> QED
      BY <1>2, <1>6, <3>1 DEF PF!ReadImg, Links, PF!Destroyed, ListTypes, Row
  <2> QED
    BY <1>1, <1>2, <1>3, <2>1, <2>2 DEF One
<1>7. CASE PF!Enter
  <2>1. UNCHANGED <<pfFileIndex, pfProc, pfReads>> /\ Reading /\ ~Reading'
    BY <1>7 DEF PF!Enter, PF!procVars, Reading
  <2>2. CASE pfHead = PF!None
    <3>1. Links' \subseteq Links
      BY <1>7, <2>2 DEF PF!Enter, PF!Linked, Links
    <3> QED
      BY <1>1, <1>2, <1>3, <2>1, <2>2, <3>1 DEF One
  <2>3. CASE pfHead # PF!None
    <3>1. pfHead' = pfHead /\ pfNode' = [pfNode EXCEPT ![pfTail].next = s]
      BY <1>7, <2>3 DEF PF!Enter, PF!Linked
    <3>2. Links' \in SUBSET (Links \cup {pfTail})
      BY <3>1 DEF Links, ListTypes
    <3>3. IsFiniteSet(Links \cup {pfTail}) /\ Cardinality(Links \cup {pfTail}) <= c + 1
      BY <1>1, FS_AddElement DEF c
    <3>4. d \in Nat /\ d <= Cardinality(Links \cup {pfTail})
      BY <3>2, <3>3, FS_Subset, FS_CardinalityType DEF d
    <3>5. Cardinality(Links \cup {pfTail}) \in Nat
      BY <3>3, FS_CardinalityType
    <3>6. d <= c + 1
      BY <1>1, <3>3, <3>4, <3>5
    <3> QED
      BY <1>1, <1>2, <1>3, <2>1, <2>3, <3>1, <3>4, <3>6 DEF One
  <2> QED
    BY <2>2, <2>3
<1>8. CASE PF!Drain
  <2>1. UNCHANGED <<pfFileIndex, pfProc, pfReads>> /\ ~Reading /\ ~Reading'
        /\ pfHead' = PF!None
    BY <1>8 DEF PF!Drain, PF!procVars, Reading
  <2>2. Links' \subseteq Links
    BY <1>8 DEF PF!Drain, Links, PF!Destroyed
  <2> QED
    BY <1>1, <1>2, <1>3, <2>1, <2>2 DEF One
<1>9. CASE PF!Take
  <2>1. UNCHANGED <<pfFileIndex, pfReads, pfReader>> /\ pfProc # "run" /\ pfProc' = "run"
        /\ pfHead \in PF!Nodes /\ pfHead # PF!None /\ pfHead' = pfNode[pfHead].next
    BY <1>9 DEF PF!Take, PF!readVars, ListTypes
  <2>2. pfNode' = [pfNode EXCEPT ![pfHead].next = PF!None]
    BY <1>9 DEF PF!Take
  <2>3. Reading' <=> Reading
    BY <2>1 DEF Reading
  <2>4. Links' = Links \ {pfHead}
    BY <2>1, <2>2 DEF Links, ListTypes, Row
  <2>5. CASE pfHead' = PF!None
    BY <1>1, <1>2, <1>3, <2>1, <2>3, <2>4, <2>5 DEF One
  <2>6. CASE pfHead' # PF!None
    <3>1. pfHead \in Links
      BY <2>1, <2>6 DEF Links
    <3>2. d = c - 1
      BY <1>1, <2>4, <3>1, FS_RemoveElement DEF c, d
    <3> QED
      BY <1>1, <1>2, <1>3, <2>1, <2>3, <3>2 DEF One
  <2> QED
    BY <2>5, <2>6
<1>10. CASE PF!Process
  <2>1. UNCHANGED <<pfReads, pfReader, pfHead>> /\ pfProc = "run" /\ pfProc' # "run"
        /\ pfFileIndex' = pfFileIndex + 1
    BY <1>10 DEF PF!Process, PF!readVars
  <2>2. Reading' <=> Reading
    BY <2>1 DEF Reading
  <2>3. Links' \subseteq Links
    BY <1>10 DEF PF!Process, Links, PF!Destroyed, ListTypes
  <2> QED
    BY <1>1, <1>2, <1>3, <2>1, <2>2, <2>3 DEF One
<1>11. CASE PF!ProcTop \/ PF!StoreTop \/ PF!Fetch \/ PF!OutFile \/ PF!Interrupt
              \/ UNCHANGED PF!vars
  <2>1. UNCHANGED <<pfFileIndex, pfReads, pfReader, pfHead, pfNode>>
    BY <1>11 DEF PF!ProcTop, PF!StoreTop, PF!Fetch, PF!FetchFrom, PF!OutFile, PF!Interrupt,
         PF!vars, PF!readVars, PF!listVars, PF!procVars, PF!storeVars
  <2>2. pfProc' = "run" <=> pfProc = "run"
    BY <1>11 DEF PF!ProcTop, PF!StoreTop, PF!Fetch, PF!FetchFrom, PF!OutFile, PF!Interrupt,
         PF!vars, PF!readVars, PF!listVars, PF!procVars, PF!storeVars
  <2>3. (Reading' <=> Reading) /\ Links' = Links
    BY <2>1 DEF Reading, Links
  <2> QED
    BY <1>1, <1>2, <1>3, <2>1, <2>2, <2>3 DEF One
<1> QED
  BY <1>5, <1>6, <1>7, <1>8, <1>9, <1>10, <1>11 DEF PF!Next

(* So the next index is a record's, while a frame is processed.            *)
LEMMA IndexBound ==
  ASSUME ListTypes, CountInv
  PROVE  /\ pfFileIndex \in 0 .. MaxReads
         /\ pfProc = "run" => pfFileIndex < MaxReads
<1>1. Cardinality(Links) \in Nat
  BY LinksFinite
<1>2. pfReads \in Nat /\ pfReads <= MaxReads /\ MaxReads \in Nat
  BY PoolFacts DEF ListTypes
<1>3. pfFileIndex + One(pfProc = "run") <= pfReads /\ pfFileIndex \in Nat
  BY <1>1, <1>2 DEF CountInv, One
<1> QED
  BY <1>2, <1>3 DEF One
-----------------------------------------------------------------------------
(***************************************************************************)
(* ProtoFrames, the records.  Dist counts the slots from uStorePos on: the *)
(* newest record is Ring - 1 away, and the index tells how far.            *)
(***************************************************************************)
DistFrom(pos, s) == IF s >= pos THEN s - pos ELSE s - pos + Ring
Dist(s) == DistFrom(pfStorePos, s)

RecordTypes ==
  /\ pfRing \in [PF!Slots -> PF!Records \cup {PF!NoRecord}]
  /\ pfP \in PF!Records \cup {PF!NoRecord}
  /\ pfStorePos \in PF!Slots /\ pfFetchPos \in PF!Slots
  /\ pfOut \in Seq(PF!Records)
  /\ pfStore \in {"top", "wait", "write", "gone"}
  /\ pfFileIndex \in 0 .. MaxReads

IndexInv == \A s \in PF!Kept : pfRing[s].index = pfFileIndex - Ring + Dist(s)

(* As long as nothing was overwritten the records lie from uFetchPos to    *)
(* uStorePos, and are younger than those that were taken.                  *)
OrderInv ==
  pfDropped = {} =>
    /\ IF pfRing[pfFetchPos] = PF!NoRecord THEN PF!Kept = {} /\ pfFetchPos = pfStorePos
       ELSE PF!Kept = {s \in PF!Slots : Dist(s) >= Dist(pfFetchPos)}
    /\ \A w \in PF!Written, s \in PF!Kept : w < pfRing[s].index

Late == IF pfDropped = {} THEN 0 ELSE Ring

OutInv ==
  /\ pfStore = "write" <=> pfP # PF!NoRecord
  /\ PF!LinesInOrder
  /\ \A i, j \in DOMAIN pfOut : pfOut[i].index = pfOut[j].index => i = j
  /\ pfP # PF!NoRecord =>
       \A i \in DOMAIN pfOut :
         pfOut[i].index # pfP.index /\ pfOut[i].index < pfP.index + Late

(* OneFate without its last conjunct, which OutInv implies.                *)
FateInv ==
  /\ PF!InRing \cup PF!Written \cup pfDropped = 0 .. pfFileIndex - 1
  /\ PF!InRing \cap PF!Written = {} /\ PF!InRing \cap pfDropped = {}
  /\ PF!Written \cap pfDropped = {}

RecordInv == IndexInv /\ OrderInv /\ OutInv /\ FateInv

LEMMA RecordFacts ==
  /\ \A r \in PF!Records : r.index \in 0 .. MaxReads /\ r.index # PF!None /\ r # PF!NoRecord
  /\ PF!NoRecord.index = PF!None /\ PF!None = -1
<1>1. PF!NoRecord.index = PF!None /\ PF!None = -1
  BY DEF PF!NoRecord, PF!None
<1>2. \A r \in PF!Records : r.index \in 0 .. MaxReads
  BY DEF PF!Records
<1> QED
  BY <1>1, <1>2, PoolFacts

LEMMA DistFacts ==
  ASSUME NEW pos \in PF!Slots
  PROVE  /\ \A s \in PF!Slots : DistFrom(pos, s) \in 0 .. Ring - 1
         /\ \A s, t \in PF!Slots : DistFrom(pos, s) = DistFrom(pos, t) => s = t
         /\ DistFrom(pos, pos) = 0
         /\ \A s \in PF!Slots : DistFrom(pos, s) = 0 => s = pos
         /\ PF!Next1(pos) \in PF!Slots
         /\ \A s \in PF!Slots :
              DistFrom(PF!Next1(pos), s) =
                IF s = pos THEN Ring - 1 ELSE DistFrom(pos, s) - 1
         /\ \A s \in PF!Slots :
              DistFrom(pos, PF!Next1(s)) =
                IF DistFrom(pos, s) = Ring - 1 THEN 0 ELSE DistFrom(pos, s) + 1
  BY PoolFacts DEF DistFrom, PF!Slots, PF!Next1

LEMMA RecordInit == PF!Init => RecordTypes /\ RecordInv
<1> SUFFICES ASSUME PF!Init PROVE RecordTypes /\ RecordInv
  OBVIOUS
<1>1. RecordTypes
  <2>1. pfStorePos \in PF!Slots /\ pfFetchPos \in PF!Slots
    BY PoolFacts DEF PF!Init, PF!Slots
  <2>2. pfFileIndex \in 0 .. MaxReads /\ pfOut \in Seq(PF!Records)
    BY PoolFacts DEF PF!Init
  <2> QED
    BY <2>1, <2>2 DEF PF!Init, RecordTypes
<1>2. PF!Kept = {}
  BY DEF PF!Init, PF!Kept
<1>3. PF!InRing = {} /\ PF!Written = {}
  BY <1>2, RecordFacts DEF PF!Init, PF!InRing, PF!Written
<1>4. 0 .. pfFileIndex - 1 = {}
  BY DEF PF!Init
<1>5. IndexInv /\ FateInv
  BY <1>2, <1>3, <1>4 DEF PF!Init, IndexInv, FateInv
<1>6. OrderInv
  BY <1>1, <1>2, <1>3 DEF PF!Init, OrderInv, RecordTypes
<1>7. OutInv
  BY DEF PF!Init, OutInv, PF!LinesInOrder
<1> QED
  BY <1>1, <1>5, <1>6, <1>7 DEF RecordInv

(* append_vision_queue overwrites the oldest record, if one is there.      *)
LEMMA ProcessRecords ==
  ASSUME ListTypes, RecordTypes, RecordInv, pfFileIndex < MaxReads, PF!Process
  PROVE  RecordTypes' /\ RecordInv'
<1> DEFINE pos == pfStorePos
           old == pfRing[pos]
           new == [img |-> pfNode[pfPNode].img, index |-> pfFileIndex]
<1>1. pos \in PF!Slots /\ pfPNode \in PF!Nodes /\ pfFileIndex \in Nat /\ pfFetchPos \in PF!Slots
  BY DEF PF!Process, ListTypes, RecordTypes
<1>2. new \in PF!Records /\ new.index = pfFileIndex
  <2>1. pfNode[pfPNode].img \in 0 .. MaxReads
    BY <1>1 DEF ListTypes, Row
  <2> QED
    BY <2>1 DEF RecordTypes, PF!Records
<1>3. old \in PF!Records \cup {PF!NoRecord}
  BY <1>1 DEF RecordTypes
<1>4. pfRing' = [pfRing EXCEPT ![pos] = new]
      /\ pfDropped' = pfDropped \cup ({old.index} \ {PF!None})
      /\ pfStorePos' = PF!Next1(pos) /\ pfFileIndex' = pfFileIndex + 1
      /\ UNCHANGED <<pfStore, pfP, pfFetchPos, pfOut>>
  BY DEF PF!Process, PF!storeVars
<1> HIDE DEF pos, old, new
<1>5. \A s \in PF!Slots : pfRing'[s] = IF s = pos THEN new ELSE pfRing[s]
  BY <1>1, <1>4 DEF RecordTypes
<1>6. RecordTypes'
  <2>1. pfRing' \in [PF!Slots -> PF!Records \cup {PF!NoRecord}]
    BY <1>2, <1>4 DEF RecordTypes
  <2>2. pfStorePos' \in PF!Slots
    BY <1>1, <1>4, DistFacts
  <2>3. pfFileIndex' \in 0 .. MaxReads
    BY <1>1, <1>4, PoolFacts
  <2> QED
    BY <1>4, <2>1, <2>2, <2>3 DEF RecordTypes
<1>7. PF!Kept' = PF!Kept \cup {pos}
  BY <1>1, <1>2, <1>5, RecordFacts DEF PF!Kept
<1>8. \A s \in PF!Slots : Dist(s)' = IF s = pos THEN Ring - 1 ELSE Dist(s) - 1
  BY <1>1, <1>4, DistFacts DEF Dist, pos
<1>9. \A s \in PF!Slots : Dist(s) \in 0 .. Ring - 1 /\ (Dist(s) = 0 <=> s = pos)
  BY <1>1, DistFacts DEF Dist, pos
<1>10. Ring \in Nat \ {0}
  BY PoolFacts
<1>11. IndexInv'
  <2> SUFFICES ASSUME NEW s \in PF!Kept'
               PROVE  pfRing'[s].index = pfFileIndex' - Ring + Dist(s)'
    BY DEF IndexInv
  <2>1. s \in PF!Slots
    BY <1>1, <1>7 DEF PF!Kept
  <2>2. CASE s = pos
    BY <2>1, <2>2, <1>1, <1>2, <1>4, <1>5, <1>8, <1>10
  <2>3. CASE s # pos
    <3>1. pfRing[s].index = pfFileIndex - Ring + Dist(s)
      BY <2>3, <1>7 DEF RecordInv, IndexInv
    <3> QED
      BY <2>1, <2>3, <3>1, <1>1, <1>4, <1>5, <1>8, <1>9, <1>10
  <2> QED
    BY <2>2, <2>3
<1>12. PF!InRing' = (PF!InRing \ {old.index}) \cup {pfFileIndex}
  <2>1. ASSUME NEW s \in PF!Kept, s # pos PROVE pfRing[s].index # old.index
    <3>1. pfRing[s].index = pfFileIndex - Ring + Dist(s) /\ s \in PF!Slots
          /\ pfRing[s] \in PF!Records
      BY DEF RecordInv, IndexInv, PF!Kept, RecordTypes
    <3>2. CASE old = PF!NoRecord
      BY <3>1, <3>2, RecordFacts
    <3>3. CASE old # PF!NoRecord
      <4>1. old.index = pfFileIndex - Ring + 0
        BY <3>3, <1>1, <1>9 DEF RecordInv, IndexInv, PF!Kept, old
      <4>2. Dist(s) \in 1 .. Ring - 1
        BY <2>1, <3>1, <1>9, <1>10
      <4> QED
        BY <3>1, <4>1, <4>2, <1>1, <1>10
    <3> QED
      BY <3>2, <3>3
  <2>2. PF!InRing' = {pfRing'[s].index : s \in PF!Kept'}
    BY DEF PF!InRing
  <2>3. PF!InRing = {pfRing[s].index : s \in PF!Kept}
    BY DEF PF!InRing
  <2>4. \A s \in PF!Kept : s \in PF!Slots
    BY DEF PF!Kept
  <2>5. ASSUME NEW x \in PF!InRing' PROVE x \in (PF!InRing \ {old.index}) \cup {pfFileIndex}
    <3>1. PICK s \in PF!Kept \cup {pos} : x = pfRing'[s].index
      BY <2>2, <1>7
    <3>2. CASE s = pos
      BY <3>1, <3>2, <1>1, <1>2, <1>5
    <3>3. CASE s # pos
      BY <3>1, <3>3, <2>1, <2>3, <2>4, <1>5
    <3> QED
      BY <3>2, <3>3
  <2>6. ASSUME NEW x \in (PF!InRing \ {old.index}) \cup {pfFileIndex} PROVE x \in PF!InRing'
    <3>1. CASE x = pfFileIndex
      BY <3>1, <2>2, <1>1, <1>2, <1>5, <1>7
    <3>2. CASE x # pfFileIndex
      <4>1. PICK s \in PF!Kept : x = pfRing[s].index /\ x # old.index
        BY <3>2, <2>6, <2>3
      <4>2. s # pos
        BY <4>1 DEF old
      <4> QED
        BY <4>1, <4>2, <2>2, <2>4, <1>5, <1>7
    <3> QED
      BY <3>1, <3>2
  <2> QED
    BY <2>5, <2>6
<1>13. PF!Written' = PF!Written
  BY <1>4 DEF PF!Written
<1>14. old.index = PF!None \/ old.index \in PF!InRing
  BY <1>1, <1>3, RecordFacts DEF PF!InRing, PF!Kept, old
<1>15. FateInv'
  <2>1. FateInv
    BY DEF RecordInv
  <2>2. \A x \in PF!InRing \cup PF!Written \cup pfDropped :
          x \in 0 .. pfFileIndex - 1 /\ x # pfFileIndex /\ x # PF!None
    BY <2>1, <1>1, RecordFacts DEF FateInv
  <2>3. 0 .. pfFileIndex' - 1 = (0 .. pfFileIndex - 1) \cup {pfFileIndex}
    BY <1>1, <1>4
  <2>4. PF!InRing' \cup PF!Written' \cup pfDropped' = 0 .. pfFileIndex' - 1
    BY <2>1, <2>2, <2>3, <1>4, <1>12, <1>13, <1>14 DEF FateInv
  <2>5. /\ PF!InRing' \cap PF!Written' = {} /\ PF!InRing' \cap pfDropped' = {}
        /\ PF!Written' \cap pfDropped' = {}
    BY <2>1, <2>2, <1>4, <1>12, <1>13, <1>14 DEF FateInv
  <2> QED
    BY <2>4, <2>5 DEF FateInv
<1>16. \A w \in PF!Written : w \in Nat /\ w < pfFileIndex
  BY <1>1 DEF RecordInv, FateInv
<1>17. OrderInv'
  <2> SUFFICES ASSUME pfDropped' = {}
               PROVE  /\ IF pfRing'[pfFetchPos'] = PF!NoRecord
                         THEN PF!Kept' = {} /\ pfFetchPos' = pfStorePos'
                         ELSE PF!Kept' = {s \in PF!Slots : Dist(s)' >= Dist(pfFetchPos)'}
                      /\ \A w \in PF!Written', s \in PF!Kept' : w < pfRing'[s].index
    BY DEF OrderInv
  <2>1. pfDropped = {} /\ old = PF!NoRecord
    BY <1>3, <1>4, RecordFacts
  <2>2. IF pfRing[pfFetchPos] = PF!NoRecord THEN PF!Kept = {} /\ pfFetchPos = pos
        ELSE PF!Kept = {s \in PF!Slots : Dist(s) >= Dist(pfFetchPos)}
    BY <2>1 DEF RecordInv, OrderInv, pos
  <2>3. Dist(pfFetchPos)' = IF pfFetchPos = pos THEN Ring - 1 ELSE Dist(pfFetchPos) - 1
    <3>1. Dist(pfFetchPos)' = DistFrom(pfStorePos', pfFetchPos)
      BY <1>4 DEF Dist
    <3>2. \A s \in PF!Slots : DistFrom(pfStorePos', s) = IF s = pos THEN Ring - 1
                                                         ELSE Dist(s) - 1
      BY <1>8 DEF Dist
    <3> QED
      BY <1>1, <3>1, <3>2
  <2>4. pfRing'[pfFetchPos] # PF!NoRecord
        /\ PF!Kept' = {s \in PF!Slots : Dist(s)' >= Dist(pfFetchPos)'}
    <3>1. CASE pfRing[pfFetchPos] = PF!NoRecord
      <4>1. PF!Kept' = {pos} /\ pfRing'[pfFetchPos] = new /\ Dist(pfFetchPos)' = Ring - 1
        BY <3>1, <2>2, <2>3, <1>1, <1>5, <1>7
      <4>2. \A s \in PF!Slots : Dist(s)' >= Ring - 1 <=> s = pos
        BY <1>8, <1>9, <1>10
      <4> QED
        BY <4>1, <4>2, <1>1, <1>2, RecordFacts
    <3>2. CASE pfRing[pfFetchPos] # PF!NoRecord
      <4>1. pfFetchPos # pos
        BY <3>2, <2>1 DEF old
      <4>2. Dist(pfFetchPos)' = Dist(pfFetchPos) - 1 /\ Dist(pfFetchPos) \in 1 .. Ring - 1
        BY <4>1, <2>3, <1>1, <1>9, <1>10
      <4>3. \A s \in PF!Slots :
              Dist(s)' >= Dist(pfFetchPos)' <=> s = pos \/ Dist(s) >= Dist(pfFetchPos)
        BY <4>2, <1>8, <1>9, <1>10
      <4>4. pfRing'[pfFetchPos] # PF!NoRecord
        BY <3>2, <4>1, <1>1, <1>5
      <4>5. PF!Kept' = {s \in PF!Slots : Dist(s) >= Dist(pfFetchPos)} \cup {pos}
        BY <3>2, <2>2, <1>7
      <4> QED
        BY <4>3, <4>4, <4>5, <1>1
    <3> QED
      BY <3>1, <3>2
  <2>5. ASSUME NEW w \in PF!Written', NEW s \in PF!Kept' PROVE w < pfRing'[s].index
    <3>1. w \in PF!Written /\ w \in Nat /\ w < pfFileIndex
      BY <1>13, <1>16
    <3>2. CASE s = pos
      BY <3>1, <3>2, <1>1, <1>2, <1>5
    <3>3. CASE s # pos
      <4>1. s \in PF!Kept /\ s \in PF!Slots
        BY <3>3, <1>7 DEF PF!Kept
      <4> QED
        BY <3>1, <3>3, <4>1, <2>1, <1>5 DEF RecordInv, OrderInv
    <3> QED
      BY <3>2, <3>3
  <2> QED
    BY <2>4, <2>5, <1>4
<1>18. OutInv'
  <2>1. OutInv
    BY DEF RecordInv
  <2>2. Late \in Nat /\ Late' \in Nat /\ Late <= Late'
    BY <1>4, <1>10 DEF Late
  <2>3. \A i \in DOMAIN pfOut : pfOut[i].index \in Nat
    BY RecordFacts DEF RecordTypes
  <2>4. PF!LinesInOrder'
    <3>1. \A i, j \in DOMAIN pfOut : i < j => pfOut[i].index < pfOut[j].index + Late
      BY <2>1 DEF OutInv, PF!LinesInOrder, Late
    <3>2. \A i, j \in DOMAIN pfOut : i < j => pfOut[i].index < pfOut[j].index + Late'
      BY <2>2, <2>3, <3>1
    <3> QED
      BY <3>2, <1>4 DEF PF!LinesInOrder, Late
  <2>5. pfP # PF!NoRecord => pfP.index \in Nat
    BY RecordFacts DEF RecordTypes
  <2>6. pfP # PF!NoRecord =>
          \A i \in DOMAIN pfOut :
            pfOut[i].index # pfP.index /\ pfOut[i].index < pfP.index + Late'
    BY <2>1, <2>2, <2>3, <2>5 DEF OutInv
  <2> QED
    BY <1>4, <2>1, <2>4, <2>6 DEF OutInv
<1> QED
  BY <1>6, <1>11, <1>15, <1>17, <1>18 DEF RecordInv

(* The storing thread takes the record at uFetchPos.                       *)
LEMMA FetchRecords ==
  ASSUME RecordTypes, RecordInv, PF!Fetch PROVE RecordTypes' /\ RecordInv'
<1> DEFINE f == pfFetchPos
           r == pfRing[f]
<1>1. f \in PF!Slots /\ r \in PF!Records /\ r # PF!NoRecord /\ f \in PF!Kept
  BY DEF PF!Fetch, PF!FetchFrom, RecordTypes, PF!Kept
<1>2. pfP = PF!NoRecord /\ pfP' = r /\ pfStore' = "write" /\ pfFetchPos' = PF!Next1(f)
      /\ pfRing' = [pfRing EXCEPT ![f] = PF!NoRecord]
      /\ UNCHANGED <<pfStorePos, pfFileIndex, pfDropped, pfOut>>
  BY DEF PF!Fetch, PF!FetchFrom, PF!procVars, RecordInv, OutInv
<1> HIDE DEF f, r
<1>3. \A s \in PF!Slots : pfRing'[s] = IF s = f THEN PF!NoRecord ELSE pfRing[s]
  BY <1>1, <1>2 DEF RecordTypes
<1>4. PF!Kept' = PF!Kept \ {f}
  BY <1>1, <1>3 DEF PF!Kept
<1>5. RecordTypes'
  <2>1. pfFetchPos' \in PF!Slots
    BY <1>1, <1>2, DistFacts
  <2>2. pfRing' \in [PF!Slots -> PF!Records \cup {PF!NoRecord}]
    BY <1>2 DEF RecordTypes
  <2> QED
    BY <1>1, <1>2, <2>1, <2>2 DEF RecordTypes
<1>6. pfStorePos \in PF!Slots /\ pfFileIndex \in Nat /\ Ring \in Nat \ {0}
  BY PoolFacts DEF RecordTypes
<1>7. \A s \in PF!Slots : Dist(s)' = Dist(s) /\ Dist(s) \in 0 .. Ring - 1
  BY <1>2, <1>6, DistFacts DEF Dist
<1>8. \A s, t \in PF!Slots : Dist(s) = Dist(t) => s = t
  BY <1>6, DistFacts DEF Dist
<1>9. \A s \in PF!Kept : s \in PF!Slots /\ pfRing[s].index = pfFileIndex - Ring + Dist(s)
  BY DEF RecordInv, IndexInv, PF!Kept
<1>10. \A s \in PF!Kept : s # f => pfRing[s].index # r.index
  BY <1>1, <1>6, <1>7, <1>8, <1>9 DEF r
<1>11. IndexInv'
  BY <1>2, <1>3, <1>4, <1>7, <1>9 DEF IndexInv
<1>12. PF!InRing' = PF!InRing \ {r.index}
  <2>1. PF!InRing' = {pfRing'[s].index : s \in PF!Kept'}
    BY DEF PF!InRing
  <2>2. PF!InRing = {pfRing[s].index : s \in PF!Kept}
    BY DEF PF!InRing
  <2>3. \A s \in PF!Kept' : pfRing'[s] = pfRing[s] /\ s \in PF!Kept /\ s # f
    BY <1>3, <1>4, <1>9
  <2>4. ASSUME NEW x \in PF!InRing' PROVE x \in PF!InRing \ {r.index}
    BY <2>1, <2>2, <2>3, <1>10
  <2>5. ASSUME NEW x \in PF!InRing, x # r.index PROVE x \in PF!InRing'
    <3>1. PICK s \in PF!Kept : x = pfRing[s].index
      BY <2>2
    <3>2. s \in PF!Kept'
      BY <2>5, <3>1, <1>4 DEF r
    <3> QED
      BY <3>1, <3>2, <2>1, <2>3
  <2> QED
    BY <2>4, <2>5
<1>13. r.index \in PF!InRing /\ r.index # PF!None /\ r.index \in Nat
  BY <1>1, RecordFacts DEF PF!InRing, r
<1>14. PF!Written' = PF!Written \cup {r.index}
  <2>1. PF!Written = {pfOut[i].index : i \in DOMAIN pfOut}
    BY <1>2, RecordFacts DEF PF!Written
  <2>2. PF!Written' = {pfOut[i].index : i \in DOMAIN pfOut} \cup ({r.index} \ {PF!None})
    BY <1>2 DEF PF!Written
  <2> QED
    BY <2>1, <2>2, <1>13
<1>15. FateInv'
  BY <1>2, <1>12, <1>13, <1>14 DEF RecordInv, FateInv
<1>16. \A w \in PF!Written : w \in Nat /\ w < pfFileIndex
  BY <1>6 DEF RecordInv, FateInv
<1>17. OrderInv'
  <2> SUFFICES ASSUME pfDropped = {}
               PROVE  /\ IF pfRing'[pfFetchPos'] = PF!NoRecord
                         THEN PF!Kept' = {} /\ pfFetchPos' = pfStorePos'
                         ELSE PF!Kept' = {s \in PF!Slots : Dist(s)' >= Dist(pfFetchPos)'}
                      /\ \A w \in PF!Written', s \in PF!Kept' : w < pfRing'[s].index
    BY <1>2 DEF OrderInv
  <2> DEFINE g == PF!Next1(f)
  <2>1. PF!Kept = {s \in PF!Slots : Dist(s) >= Dist(f)}
        /\ \A w \in PF!Written, s \in PF!Kept : w < pfRing[s].index
    BY <1>1 DEF RecordInv, OrderInv, f, r
  <2>2. g \in PF!Slots /\ Dist(g) = IF Dist(f) = Ring - 1 THEN 0 ELSE Dist(f) + 1
    BY <1>1, <1>6, DistFacts DEF Dist
  <2>3. Dist(pfFetchPos)' = Dist(g)
    BY <1>2 DEF Dist
  <2> HIDE DEF g
  <2>4. PF!Kept' = {s \in PF!Slots : Dist(s) > Dist(f)}
    <3>1. \A s \in PF!Slots : Dist(s) > Dist(f) <=> Dist(s) >= Dist(f) /\ s # f
      BY <1>1, <1>7, <1>8
    <3> QED
      BY <2>1, <3>1, <1>4
  <2>5. CASE Dist(f) = Ring - 1
    <3>1. PF!Kept' = {}
      BY <2>4, <2>5, <1>6, <1>7
    <3>2. pfRing'[g] = PF!NoRecord
      BY <3>1, <2>2 DEF PF!Kept
    <3>3. g = pfStorePos
      BY <2>2, <2>5, <1>6, DistFacts DEF Dist
    <3> QED
      BY <3>1, <3>2, <3>3, <1>2 DEF g
  <2>6. CASE Dist(f) # Ring - 1
    <3>1. PF!Kept' = {s \in PF!Slots : Dist(s)' >= Dist(pfFetchPos)'}
      BY <2>2, <2>3, <2>4, <2>6, <1>1, <1>7
    <3>2. g \in PF!Kept'
      BY <2>2, <2>4, <2>6, <1>1, <1>7
    <3>3. pfRing'[g] # PF!NoRecord
      BY <3>2 DEF PF!Kept
    <3>4. ASSUME NEW w \in PF!Written', NEW s \in PF!Kept' PROVE w < pfRing'[s].index
      <4>1. s \in PF!Kept /\ s \in PF!Slots /\ Dist(s) > Dist(f) /\ pfRing'[s] = pfRing[s]
        BY <2>4, <1>3, <1>4, <1>9
      <4>2. CASE w \in PF!Written
        BY <4>1, <4>2, <2>1
      <4>3. CASE w = r.index
        BY <4>1, <4>3, <1>1, <1>6, <1>7, <1>9 DEF r
      <4> QED
        BY <4>2, <4>3, <1>14
    <3> QED
      BY <3>1, <3>3, <3>4, <1>2 DEF g
  <2> QED
    BY <2>5, <2>6
<1>18. OutInv'
  <2>1. OutInv
    BY DEF RecordInv
  <2>2. ASSUME NEW i \in DOMAIN pfOut
        PROVE  pfOut[i].index # r.index /\ pfOut[i].index < r.index + Late
    <3>1. pfOut[i].index \in PF!Written
      BY DEF PF!Written
    <3>2. pfOut[i].index # r.index
      BY <3>1, <1>13 DEF RecordInv, FateInv
    <3>3. pfOut[i].index \in Nat /\ pfOut[i].index < pfFileIndex
      BY <3>1, <1>16
    <3>4. CASE pfDropped = {}
      BY <3>1, <3>3, <3>4, <1>1, <1>13 DEF RecordInv, OrderInv, Late, r
    <3>5. CASE pfDropped # {}
      <4>1. r.index = pfFileIndex - Ring + Dist(f) /\ Dist(f) >= 0 /\ Dist(f) \in Nat
        BY <1>1, <1>7, <1>9 DEF r
      <4> QED
        BY <3>2, <3>3, <3>5, <4>1, <1>6 DEF Late
    <3> QED
      BY <3>2, <3>4, <3>5
  <2>3. PF!LinesInOrder'
    BY <1>2, <2>1 DEF OutInv, PF!LinesInOrder
  <2>4. Late' = Late
    BY <1>2 DEF Late
  <2> QED
    BY <1>1, <1>2, <2>1, <2>2, <2>3, <2>4 DEF OutInv
<1> QED
  BY <1>5, <1>11, <1>15, <1>17, <1>18 DEF RecordInv

(* OutImg writes it.                                                       *)
LEMMA OutFileRecords ==
  ASSUME RecordTypes, RecordInv, PF!OutFile PROVE RecordTypes' /\ RecordInv'
<1>0. PICK len \in Nat : len = Len(pfOut)
  BY DEF RecordTypes
<1>1. pfP \in PF!Records /\ pfP # PF!NoRecord
  BY DEF PF!OutFile, RecordTypes, RecordInv, OutInv
<1>2. pfOut' = Append(pfOut, pfP) /\ pfP' = PF!NoRecord /\ pfStore' = "top"
      /\ UNCHANGED <<pfRing, pfStorePos, pfFetchPos, pfFileIndex, pfDropped>>
  BY DEF PF!OutFile, PF!procVars
<1>3. pfOut' \in Seq(PF!Records) /\ DOMAIN pfOut = 1 .. len /\ DOMAIN pfOut' = 1 .. len + 1
      /\ pfOut'[len + 1] = pfP /\ \A i \in 1 .. len : pfOut'[i] = pfOut[i]
  BY <1>0, <1>1, <1>2 DEF RecordTypes
<1>4. RecordTypes'
  BY <1>2, <1>3 DEF RecordTypes
<1>5. PF!Kept' = PF!Kept /\ PF!InRing' = PF!InRing
  BY <1>2 DEF PF!Kept, PF!InRing
<1>6. PF!Written' = PF!Written
  <2>1. PF!Written = {pfOut[i].index : i \in 1 .. len} \cup {pfP.index}
    BY <1>1, <1>3, RecordFacts DEF PF!Written
  <2>2. PF!Written' = {pfOut'[i].index : i \in 1 .. len + 1}
    BY <1>2, <1>3, RecordFacts DEF PF!Written
  <2>3. ASSUME NEW x \in PF!Written PROVE x \in PF!Written'
    <3>1. CASE x = pfP.index
      BY <3>1, <2>2, <1>3
    <3>2. CASE x # pfP.index
      <4>1. PICK i \in 1 .. len : x = pfOut[i].index
        BY <3>2, <2>1, <2>3
      <4>2. i \in 1 .. len + 1
        OBVIOUS
      <4> QED
        BY <4>1, <4>2, <2>2, <1>3
    <3> QED
      BY <3>1, <3>2
  <2>4. ASSUME NEW x \in PF!Written' PROVE x \in PF!Written
    <3>1. PICK i \in 1 .. len + 1 : x = pfOut'[i].index
      BY <2>2, <2>4
    <3>2. CASE i = len + 1
      BY <3>1, <3>2, <2>1, <1>3
    <3>3. CASE i \in 1 .. len
      BY <3>1, <3>3, <2>1, <1>3
    <3> QED
      BY <3>2, <3>3
  <2> QED
    BY <2>3, <2>4
<1>7. IndexInv' /\ FateInv' /\ OrderInv'
  BY <1>2, <1>5, <1>6 DEF RecordInv, IndexInv, FateInv, OrderInv, Dist
<1>8. OutInv'
  <2>1. \A i \in 1 .. len : pfOut[i].index # pfP.index /\ pfOut[i].index < pfP.index + Late
    BY <1>1, <1>3 DEF RecordInv, OutInv
  <2>2. \A i, j \in 1 .. len : i < j => pfOut[i].index < pfOut[j].index + Late
    BY <1>3 DEF RecordInv, OutInv, PF!LinesInOrder, Late
  <2>3. \A i, j \in 1 .. len : pfOut[i].index = pfOut[j].index => i = j
    BY <1>3 DEF RecordInv, OutInv
  <2>4. PF!LinesInOrder'
    <3>1. ASSUME NEW i \in 1 .. len + 1, NEW j \in 1 .. len + 1, i < j
          PROVE  pfOut'[i].index < pfOut'[j].index + Late
      <4>1. i \in 1 .. len
        BY <3>1
      <4>2. CASE j = len + 1
        BY <4>1, <4>2, <2>1, <1>3
      <4>3. CASE j \in 1 .. len
        BY <3>1, <4>1, <4>3, <2>2, <1>3
      <4> QED
        BY <4>2, <4>3
    <3> QED
      BY <3>1, <1>2, <1>3 DEF PF!LinesInOrder, Late
  <2>5. ASSUME NEW i \in 1 .. len + 1, NEW j \in 1 .. len + 1,
               pfOut'[i].index = pfOut'[j].index
        PROVE  i = j
    <3>1. CASE i \in 1 .. len /\ j \in 1 .. len
      BY <3>1, <2>3, <2>5, <1>3
    <3>2. CASE i = len + 1 \/ j = len + 1
      BY <3>2, <2>1, <2>5, <1>3
    <3> QED
      BY <3>1, <3>2
  <2> QED
    BY <2>4, <2>5, <1>2, <1>3 DEF OutInv
<1> QED
  BY <1>4, <1>7, <1>8 DEF RecordInv

LEMMA OthersRecords ==
  ASSUME RecordTypes, RecordInv,
         PF!Instance \/ PF!ReadImg \/ PF!Enter \/ PF!Drain \/ PF!ProcTop \/ PF!Take
           \/ PF!StoreTop \/ PF!Interrupt \/ UNCHANGED PF!vars
  PROVE  RecordTypes' /\ RecordInv'
<1>1. UNCHANGED <<pfRing, pfStorePos, pfFetchPos, pfFileIndex, pfDropped, pfOut, pfP>>
  BY DEF PF!Instance, PF!ReadImg, PF!Enter, PF!Drain, PF!ProcTop, PF!Take, PF!StoreTop,
         PF!Interrupt, PF!vars, PF!procVars, PF!storeVars
<1>2. pfStore' = pfStore \/ (pfStore # "write" /\ pfStore' \in {"wait", "gone"})
  BY DEF PF!Instance, PF!ReadImg, PF!Enter, PF!Drain, PF!ProcTop, PF!Take, PF!StoreTop,
         PF!Interrupt, PF!vars, PF!procVars, PF!storeVars
<1>3. RecordTypes'
  BY <1>1, <1>2 DEF RecordTypes
<1>4. PF!Kept' = PF!Kept /\ PF!InRing' = PF!InRing /\ PF!Written' = PF!Written
  BY <1>1 DEF PF!Kept, PF!InRing, PF!Written
<1>5. IndexInv' /\ FateInv' /\ OrderInv'
  BY <1>1, <1>4 DEF RecordInv, IndexInv, FateInv, OrderInv, Dist
<1>6. OutInv'
  BY <1>1, <1>2 DEF RecordInv, OutInv, PF!LinesInOrder, Late
<1> QED
  BY <1>3, <1>5, <1>6 DEF RecordInv

LEMMA RecordStep ==
  ASSUME ListTypes, CountInv, RecordTypes, RecordInv, [PF!Next]_(PF!vars)
  PROVE  RecordTypes' /\ RecordInv'
<1>1. PF!Process => pfFileIndex < MaxReads
  BY IndexBound DEF PF!Process
<1> QED
  BY <1>1, ProcessRecords, FetchRecords, OutFileRecords, OthersRecords DEF PF!Next

LEMMA FramesHolds ==
  FramesBehaviour =>
    [](PF!TypeOK /\ PF!ListIsWhole /\ PF!OneFate /\ PF!LinesInOrder /\ PF!SleepsOnlyAfterDrop)
<1> DEFINE Inv == ListTypes /\ ListInv /\ CountInv /\ RecordTypes /\ RecordInv
<1>1. PF!Init => Inv
  BY ListInit, CountInit, RecordInit
<1>2. Inv /\ [PF!Next]_(PF!vars) => Inv'
  BY ListStep, CountStep, RecordStep
<1>3. Inv => PF!TypeOK
  BY DEF ListTypes, RecordTypes, PF!TypeOK, Row
<1>4. Inv => PF!ListIsWhole
  BY ListIsWholeHolds
<1>5. Inv => PF!OneFate /\ PF!LinesInOrder
  BY DEF RecordInv, FateInv, OutInv, PF!OneFate
<1>6. Inv => PF!SleepsOnlyAfterDrop
  BY DEF RecordInv, OrderInv, PF!SleepsOnlyAfterDrop
<1> HIDE DEF Inv
<1> QED
  BY <1>1, <1>2, <1>3, <1>4, <1>5, <1>6, PTL DEF FramesBehaviour
-----------------------------------------------------------------------------
(***************************************************************************)
(* visionProc: until the pool of nodes is lapped the list is the frames    *)
(* that wait; every record is written once or overwritten, and out of      *)
(* order only after that; main goes past Monitor only when all were told,  *)
(* the reader reads unmapped memory only when the two seconds did not do;  *)
(* and polling uses up no file numbers, and harms only if an image was     *)
(* opened while the flag's file was closed.                                *)
(***************************************************************************)
THEOREM EarlierPrototypeHolds == AnySpec => []PrototypeHolds
<1>1. PF!TypeOK /\ PF!ListIsWhole /\ PF!OneFate /\ PF!LinesInOrder /\ PF!SleepsOnlyAfterDrop
      /\ PE!TypeOK /\ PE!NobodyForgotten /\ PE!FaultsOnlyLate
      /\ PP!TypeOK /\ PP!NoFileLeft /\ PP!HarmOnlyByRace
      => PrototypeHolds
  BY DEF PrototypeHolds
<1> QED
  BY <1>1, FramesImplemented, FramesHolds, ExitImplemented, ExitHolds, PollImplemented,
     PollHolds, PTL
-----------------------------------------------------------------------------
(***************************************************************************)
(* SemRing.  What a process has noted for it is what it holds, or one less *)
(* if a start of the other cleared it; not for both, and not while clean.  *)
(***************************************************************************)
Hold(p) == IF Inside(p) THEN 1 ELSE 0
Shares(p) == Up(p) /\ Using(p)

SemInv ==
  /\ \A p \in Procs : my[p] <= sem.id
  /\ sem.id <= starts
  /\ \A p \in Procs : Shares(p) => adj[p] \in {Hold(p) - 1, Hold(p)}
  /\ Shares("writer") /\ Shares("reader") =>
       adj["writer"] = Hold("writer") \/ adj["reader"] = Hold("reader")

CleanInv ==
  clean =>
    /\ \A p \in Procs : Shares(p) => adj[p] = Hold(p)
    /\ Up("writer") /\ Up("reader") => Using("writer") /\ Using("reader")

(* The first process makes the head, and only the reader takes from cnt.   *)
HeadInv ==
  /\ pc["reader"] = "load" => head.cnt > 0
  /\ pc["reader"] = "count" => tmp["reader"] > 0
  /\ \A p \in Procs : pc[p] \notin {"off", "enterInit", "init"} => head.magic
  /\ ~head.magic => head = NewHead /\ last = n

(* A position is behind the last slot only until the wrap.                 *)
Busy(p) == pc[p] \in {"load", "count", "wrap"}

PosInv ==
  /\ "store" \notin skipped => head.store <= Num /\ (head.store = Num => Busy("writer"))
  /\ "fetch" \notin skipped => head.fetch <= Num /\ (head.fetch = Num => Busy("reader"))

(* While clean the ring holds the items from last + 1 to n, and cnt is     *)
(* their number but for the operation that has not counted yet.            *)
Loaded(p) == IF pc[p] \in {"load", "count"} THEN 1 ELSE 0
Slot(x) == IF x < Num THEN x ELSE x - Num

RingInv ==
  clean =>
    /\ n - last \in 0 .. Num
    /\ head.store \in 0 .. Num /\ head.fetch \in 0 .. Num
    /\ head.store = Num => Busy("writer")
    /\ head.fetch = Num => Busy("reader")
    /\ \A p \in Procs : pc[p] = "count" => tmp[p] = head.cnt
    /\ head.cnt = n - last - Loaded("writer") + Loaded("reader")
    /\ Slot(head.store) = Slot(Slot(head.fetch) + (n - last))
    /\ \A k \in 0 .. n - last - 1 : buf[Slot(Slot(head.fetch) + k)] = last + 1 + k

MemTypes ==
  /\ head \in [magic : BOOLEAN, fetch : Nat, store : Nat, cnt : Nat]
  /\ buf \in [0 .. Num - 1 -> 0 .. MaxItems] /\ \A i \in 0 .. Num - 1 : buf[i] <= n
  /\ tmp \in [Procs -> Nat]
  /\ n \in 0 .. MaxItems /\ last \in 0 .. n
  /\ skipped \subseteq {"store", "fetch"}

Steps == {"off", "enterInit", "init", "idle", "enter", "work", "load", "count", "wrap",
          "leave"}

SemTypes ==
  /\ sem.id \in Nat /\ sem.there \in BOOLEAN /\ sem.val \in 0 .. 2
  /\ sem = [id |-> sem.id, there |-> sem.there, val |-> sem.val]
  /\ adj \in [Procs -> -1 .. 1]
  /\ pc \in [Procs -> Steps]
  /\ my \in [Procs -> Nat]
  /\ starts \in 0 .. MaxStarts /\ clean \in BOOLEAN

LEMMA OtherProc ==
  /\ Procs = {"writer", "reader"} /\ "writer" # "reader"
  /\ Other("writer") = "reader" /\ Other("reader") = "writer"
  /\ \A p \in Procs : Other(p) \in Procs /\ Other(p) # p /\ \A q \in Procs : q # p => q = Other(p)
<1>1. "writer" # "reader"
  OBVIOUS
<1>2. \A p \in Procs : \E q \in Procs : q # p
  BY <1>1 DEF Procs
<1>3. \A p \in Procs : Other(p) \in Procs /\ Other(p) # p
  BY <1>2 DEF Other
<1> QED
  BY <1>1, <1>3 DEF Procs

SemAll == SemTypes /\ SemInv /\ CleanInv /\ SemaphoreBalanced

LEMMA SemInit == SemRingAssumption /\ Init => SemAll
<1> SUFFICES ASSUME SemRingAssumption, Init PROVE SemAll
  OBVIOUS
<1> USE DEF Init, SemRingAssumption
<1>1. SemTypes
  <2>1. pc \in [Procs -> Steps] /\ my \in [Procs -> Nat] /\ adj \in [Procs -> -1 .. 1]
    BY DEF Steps
  <2>2. sem.id = 0 /\ sem.there = FALSE /\ sem.val = 0
    OBVIOUS
  <2>3. starts \in 0 .. MaxStarts /\ clean \in BOOLEAN
    OBVIOUS
  <2> QED
    BY <2>1, <2>2, <2>3 DEF SemTypes
<1>2. ~sem.there /\ sem.id = 0 /\ \A p \in Procs : my[p] = 0 /\ ~Up(p)
  BY DEF Up
<1>3. SemInv /\ CleanInv /\ SemaphoreBalanced
  BY <1>2, OtherProc DEF SemInv, CleanInv, SemaphoreBalanced, Shares
<1> QED
  BY <1>1, <1>3 DEF SemAll

LEMMA StartSem ==
  ASSUME SemRingAssumption, SemAll, NEW p \in Procs, Start(p) PROVE SemAll'
<1> USE SemRingAssumption DEF SemAll, SemTypes, SemRingAssumption
<1>1. /\ sem'.there = TRUE /\ sem'.val = 1 /\ adj' = [q \in Procs |-> 0]
      /\ sem'.id = (IF sem.there THEN sem.id ELSE sem.id + 1)
      /\ my' = [my EXCEPT ![p] = sem'.id] /\ pc' = [pc EXCEPT ![p] = "enterInit"]
      /\ starts' = starts + 1
      /\ sem' = [id |-> sem'.id, there |-> sem'.there, val |-> sem'.val]
      /\ pc[p] = "off" /\ starts < MaxStarts
      /\ clean' = (clean /\ ~Inside(Other(p)) /\ (Up(Other(p)) => Using(Other(p))))
  BY DEF Start
<1>2. clean' \in BOOLEAN
  BY <1>1
<1>3. SemTypes'
  <2>1. pc' \in [Procs -> Steps]
    BY <1>1 DEF Steps
  <2>2. sem'.id \in Nat
    BY <1>1
  <2>3. my' \in [Procs -> Nat] /\ adj' \in [Procs -> -1 .. 1]
    BY <1>1, <2>2
  <2>4. starts' \in 0 .. MaxStarts
    BY <1>1
  <2>5. sem'.there \in BOOLEAN /\ sem'.val \in 0 .. 2
    <3>1. sem'.there \in BOOLEAN
      BY <1>1, Zenon
    <3>2. sem'.val = 1
      BY <1>1
    <3> QED
      BY <3>1, <3>2
  <2>6. sem' = [id |-> sem'.id, there |-> sem'.there, val |-> sem'.val]
    BY <1>1
  <2> QED
    BY <1>2, <2>1, <2>2, <2>3, <2>4, <2>5, <2>6
<1>4. ~Inside(p)' /\ adj'[p] = 0 /\ Using(p)' /\ Up(p)'
  BY <1>1 DEF Inside, Using, Up
<1>5. PICK q \in Procs : q = Other(p) /\ q # p /\ Procs = {p, q}
  BY OtherProc
<1>6. /\ pc'[q] = pc[q] /\ my'[q] = my[q] /\ adj'[q] = 0
      /\ (Inside(q)' <=> Inside(q)) /\ (Up(q)' <=> Up(q))
      /\ (Using(q)' => Using(q) \/ ~sem.there)
  BY <1>1, <1>5 DEF Inside, Up, Using
<1>7. Using(q)' => Using(q)
  BY <1>1, <1>5, <1>6 DEF Using, SemInv
<1>8. SemInv'
  <2>1. \A r \in Procs : my'[r] <= sem'.id
    BY <1>1, <1>5, <1>6 DEF SemInv
  <2>2. sem'.id <= starts'
    BY <1>1 DEF SemInv
  <2>3. Hold(p)' = 0 /\ Hold(q)' \in {0, 1}
    BY <1>4 DEF Hold
  <2> QED
    BY <2>1, <2>2, <2>3, <1>4, <1>5, <1>6, OtherProc DEF SemInv
<1>9. CleanInv'
  <2> SUFFICES ASSUME clean' PROVE CleanInv'
    BY DEF CleanInv
  <2>1. clean /\ ~Inside(q) /\ (Up(q) => Using(q))
    BY <1>1, <1>5
  <2>2. Hold(p)' = 0 /\ Hold(q)' = 0
    BY <2>1, <1>4, <1>6 DEF Hold
  <2>3. Up(q)' => Using(q)'
    BY <2>1, <1>1, <1>6 DEF Using
  <2> QED
    BY <2>2, <2>3, <1>4, <1>5, <1>6, OtherProc DEF CleanInv
<1>10. SemaphoreBalanced'
  BY <1>1, OtherProc DEF SemaphoreBalanced
<1> QED
  BY <1>3, <1>8, <1>9, <1>10

(* A step of a process that is up and lets it hold d more.                 *)
LEMMA HoldStep ==
  ASSUME SemRingAssumption, SemAll, NEW p \in Procs, NEW x \in Steps, NEW d \in -1 .. 1,
         Up(p), x # "off", pc' = [pc EXCEPT ![p] = x],
         my' = my, starts' = starts, clean' = clean,
         Hold(p)' = Hold(p) + d, Using(p) => sem.val >= d,
         sem' = IF Using(p) THEN [sem EXCEPT !.val = @ - d] ELSE sem,
         adj' = IF Using(p) THEN [adj EXCEPT ![p] = @ + d] ELSE adj
  PROVE  SemAll'
<1> USE DEF SemAll
<1>1. sem'.id = sem.id /\ (sem'.there <=> sem.there)
  BY DEF SemTypes
<1>2. \A r \in Procs : my'[r] = my[r] /\ (Using(r)' <=> Using(r))
  BY <1>1 DEF Using
<1>3. PICK q \in Procs : q = Other(p) /\ q # p /\ Procs = {p, q}
  BY OtherProc
<1>4. /\ pc'[q] = pc[q] /\ (Up(q)' <=> Up(q)) /\ (Inside(q)' <=> Inside(q))
      /\ Hold(q)' = Hold(q) /\ Up(p)'
  BY <1>3 DEF Up, Inside, Hold, SemTypes
<1>5. adj'[q] = adj[q]
  BY <1>3 DEF SemTypes
<1>6. \A r \in Procs : Hold(r) \in {0, 1} /\ Hold(r)' \in {0, 1}
  BY DEF Hold
<1>7. adj[p] \in -1 .. 1 /\ adj[q] \in -1 .. 1
  BY DEF SemTypes
<1>8. Using(p) => adj'[p] = adj[p] + d /\ sem'.val = sem.val - d
  BY DEF SemTypes
<1>9. ~Using(p) => adj' = adj /\ sem' = sem
  OBVIOUS
<1>10. SemInv'
  <2>1. \A r \in Procs : my'[r] <= sem'.id
    BY <1>1, <1>2 DEF SemInv
  <2>2. sem'.id <= starts'
    BY <1>1 DEF SemInv
  <2>3. \A r \in Procs : Shares(r)' <=> Shares(r)
    BY <1>2, <1>3, <1>4 DEF Shares
  <2>4. Shares(p) => adj'[p] - Hold(p)' = adj[p] - Hold(p)
    BY <1>6, <1>7, <1>8 DEF Shares
  <2>5. \A r \in Procs : Shares(r)' => adj'[r] \in {Hold(r)' - 1, Hold(r)'}
    BY <2>3, <2>4, <1>3, <1>4, <1>5, <1>6, <1>7, <1>8 DEF SemInv, Shares
  <2>6. Shares("writer")' /\ Shares("reader")' =>
          adj'["writer"] = Hold("writer")' \/ adj'["reader"] = Hold("reader")'
    <3>1. Shares(p) /\ Shares(q) => adj[p] = Hold(p) \/ adj[q] = Hold(q)
      BY <1>3, OtherProc DEF SemInv
    <3>2. Shares(p)' /\ Shares(q)' => adj'[p] = Hold(p)' \/ adj'[q] = Hold(q)'
      BY <3>1, <2>3, <2>4, <1>3, <1>4, <1>5, <1>6, <1>7, <1>8 DEF Shares
    <3> QED
      BY <3>2, <1>3, OtherProc
  <2> QED
    BY <2>1, <2>2, <2>5, <2>6 DEF SemInv
<1>11. CleanInv'
  <2> SUFFICES ASSUME clean' PROVE CleanInv'
    BY DEF CleanInv
  <2>1. \A r \in Procs : Shares(r)' => adj'[r] = Hold(r)'
    BY <1>2, <1>3, <1>4, <1>5, <1>6, <1>7, <1>8 DEF CleanInv, Shares
  <2>2. Up("writer")' /\ Up("reader")' => Using("writer")' /\ Using("reader")'
    BY <1>2, <1>3, <1>4, OtherProc DEF CleanInv
  <2> QED
    BY <2>1, <2>2 DEF CleanInv
<1>12. sem.there =>
         sem.val + (IF Using(p) THEN adj[p] ELSE 0)
                 + (IF Up(q) /\ Using(q) THEN adj[q] ELSE 0) = 1
  BY <1>3, <1>7, OtherProc DEF SemaphoreBalanced, SemTypes
<1>13. sem'.val \in Nat /\ (Using(p) => adj'[p] \in -1 .. 1)
  BY <1>6, <1>7, <1>8, <1>9, <1>10, <1>2, <1>4 DEF SemTypes, SemInv, Shares
<1>14. sem'.there =>
         sem'.val + (IF Using(p)' THEN adj'[p] ELSE 0)
                  + (IF Up(q)' /\ Using(q)' THEN adj'[q] ELSE 0) = 1
  <2>1. CASE Using(p)
    BY <2>1, <1>1, <1>2, <1>3, <1>4, <1>5, <1>7, <1>8, <1>12 DEF SemTypes
  <2>2. CASE ~Using(p)
    BY <2>2, <1>1, <1>2, <1>3, <1>4, <1>5, <1>7, <1>9, <1>12 DEF SemTypes
  <2> QED
    BY <2>1, <2>2
<1>15. SemaphoreBalanced'
  <2>1. adj'[p] \in Int /\ adj'[q] \in Int
    BY <1>5, <1>7, <1>8, <1>9
  <2> QED
    BY <2>1, <1>3, <1>4, <1>13, <1>14, OtherProc DEF SemaphoreBalanced
<1>16. sem'.val <= 2
  <2>1. CASE Using(p)
    <3>1. sem'.there /\ Using(p)' /\ Shares(p)'
      BY <2>1, <1>1, <1>2, <1>4 DEF Using, Shares
    <3>2. adj'[p] >= -1 /\ (Shares(q)' => adj'[q] >= -1 /\ adj'[p] + adj'[q] >= -1)
      BY <3>1, <1>3, <1>5, <1>6, <1>7, <1>13, <1>10, OtherProc DEF SemInv
    <3> QED
      BY <3>1, <3>2, <1>5, <1>7, <1>13, <1>14, <2>1 DEF Shares
  <2>2. CASE ~Using(p)
    BY <2>2, <1>9 DEF SemTypes
  <2> QED
    BY <2>1, <2>2
<1>17. SemTypes'
  <2>1. pc' \in [Procs -> Steps]
    BY DEF SemTypes
  <2>2. adj' \in [Procs -> -1 .. 1]
    BY <1>9, <1>13 DEF SemTypes
  <2>3. sem'.id \in Nat /\ sem'.val \in 0 .. 2
    BY <1>1, <1>13, <1>16 DEF SemTypes
  <2>4. sem'.there \in BOOLEAN
    BY Zenon DEF SemTypes
  <2>5. sem' = [id |-> sem'.id, there |-> sem'.there, val |-> sem'.val]
    BY DEF SemTypes
  <2> QED
    BY <2>1, <2>2, <2>3, <2>4, <2>5 DEF SemTypes
<1> QED
  BY <1>10, <1>11, <1>15, <1>17

LEMMA SameSem ==
  ASSUME SemRingAssumption, SemAll, NEW p \in Procs, NEW x \in Steps,
         Up(p), x # "off", pc' = [pc EXCEPT ![p] = x], Inside(p)' <=> Inside(p),
         my' = my, starts' = starts, clean' = clean, sem' = sem, adj' = adj
  PROVE  SemAll'
<1>1. Hold(p)' = Hold(p) + 0
  BY DEF Hold
<1>2. sem' = IF Using(p) THEN [sem EXCEPT !.val = @ - 0] ELSE sem
  BY DEF SemAll, SemTypes
<1>3. adj' = IF Using(p) THEN [adj EXCEPT ![p] = @ + 0] ELSE adj
  BY DEF SemAll, SemTypes
<1>4. 0 \in -1 .. 1 /\ (Using(p) => sem.val >= 0)
  BY DEF SemAll, SemTypes
<1> QED
  BY <1>1, <1>2, <1>3, <1>4, HoldStep, Zenon

LEMMA EnterSem == ASSUME SemRingAssumption, SemAll, NEW p \in Procs, Enter(p) PROVE SemAll'
<1> DEFINE x == IF pc[p] = "enterInit" THEN "init" ELSE "work"
<1>1. x \in Steps /\ Up(p) /\ x # "off"
  BY DEF Steps, Enter, Up
<1>2. pc' = [pc EXCEPT ![p] = x] /\ my' = my /\ starts' = starts /\ clean' = clean
  BY DEF Enter
<1>3. Hold(p)' = Hold(p) + 1
  BY DEF Enter, SemAll, SemTypes, Hold, Inside
<1>4. 1 \in -1 .. 1 /\ (Using(p) => sem.val >= 1)
  BY DEF Enter, P, SemAll, SemTypes
<1>5. sem' = IF Using(p) THEN [sem EXCEPT !.val = @ - 1] ELSE sem
  BY DEF Enter, P
<1>6. adj' = IF Using(p) THEN [adj EXCEPT ![p] = @ + 1] ELSE adj
  BY DEF Enter, P
<1> HIDE DEF x
<1> QED
  BY <1>1, <1>2, <1>3, <1>4, <1>5, <1>6, HoldStep, Zenon

LEMMA LeaveSem == ASSUME SemRingAssumption, SemAll, NEW p \in Procs, Leave(p) PROVE SemAll'
<1>1. "idle" \in Steps /\ Up(p)
  BY DEF Steps, Leave, Up
<1>2. pc' = [pc EXCEPT ![p] = "idle"] /\ my' = my /\ starts' = starts /\ clean' = clean
  BY DEF Leave
<1>3. Hold(p)' = Hold(p) + (-1)
  BY DEF Leave, SemAll, SemTypes, Hold, Inside
<1>4. sem' = IF Using(p) THEN [sem EXCEPT !.val = @ - (-1)] ELSE sem
  BY DEF Leave, V, SemAll, SemTypes
<1>5. adj' = IF Using(p) THEN [adj EXCEPT ![p] = @ + (-1)] ELSE adj
  BY DEF Leave, V, SemAll, SemTypes
<1>6. -1 \in -1 .. 1 /\ (Using(p) => sem.val >= -1)
  BY DEF SemAll, SemTypes
<1> QED
  BY <1>1, <1>2, <1>3, <1>4, <1>5, <1>6, HoldStep, Zenon

LEMMA InsideSem ==
  ASSUME SemRingAssumption, SemAll, NEW p \in Procs,
         \/ Call(p) \/ InitMem(p) \/ Load(p) \/ Count(p) \/ Wrap(p)
         \/ p = "writer" /\ Write
         \/ p = "reader" /\ Read
  PROVE  SemAll'
<1>1. my' = my /\ starts' = starts /\ clean' = clean /\ sem' = sem /\ adj' = adj
  BY DEF Call, InitMem, Load, Count, Wrap, Write, Read
<1>2. PICK x \in Steps : /\ pc' = [pc EXCEPT ![p] = x] /\ x # "off" /\ Up(p)
                         /\ (x = "enter" => pc[p] = "idle")
                         /\ (x # "enter" =>
                               Inside(p) /\ x \in {"load", "count", "wrap", "leave"})
  BY DEF Call, InitMem, Load, Count, Wrap, Write, Read, Steps, Up, Inside
<1>3. Inside(p)' <=> Inside(p)
  BY <1>2 DEF Inside, SemAll, SemTypes
<1> QED
  BY <1>1, <1>2, <1>3, SameSem

(* A process that ends: with what the kernel adds, or with the semaphore.  *)
LEMMA GoneSem ==
  ASSUME SemRingAssumption, SemAll, NEW p \in Procs, Crash(p) \/ Destory(p) PROVE SemAll'
<1> USE DEF SemAll
<1>1. /\ my' = my /\ starts' = starts /\ Up(p)
      /\ pc' = [pc EXCEPT ![p] = "off"] /\ adj' = [adj EXCEPT ![p] = 0]
  BY DEF Crash, Destory, Torn, Up
<1>2. sem' = Undone(p) \/ sem' = IF Using(p) THEN [sem EXCEPT !.there = FALSE] ELSE sem
  BY DEF Crash, Destory
<1>3. sem'.id = sem.id /\ (sem'.there => sem.there)
  BY <1>2 DEF Undone, SemTypes
<1>4. \A r \in Procs : my'[r] = my[r] /\ (Using(r)' => Using(r))
  BY <1>1, <1>3 DEF Using
<1>5. PICK q \in Procs : q = Other(p) /\ q # p /\ Procs = {p, q}
  BY OtherProc
<1>6. /\ pc'[q] = pc[q] /\ (Up(q)' <=> Up(q)) /\ (Inside(q)' <=> Inside(q))
      /\ Hold(q)' = Hold(q) /\ ~Up(p)' /\ adj'[q] = adj[q]
  BY <1>1, <1>5 DEF Up, Inside, Hold, SemTypes
<1>7. SemInv'
  <2>1. \A r \in Procs : my'[r] <= sem'.id
    BY <1>3, <1>4 DEF SemInv
  <2>2. sem'.id <= starts'
    BY <1>1, <1>3 DEF SemInv
  <2>3. ~Shares(p)' /\ (Shares(q)' => Shares(q))
    BY <1>4, <1>6 DEF Shares
  <2> QED
    BY <2>1, <2>2, <2>3, <1>5, <1>6, OtherProc DEF SemInv
<1>8. CleanInv'
  <2> SUFFICES ASSUME clean' PROVE CleanInv'
    BY DEF CleanInv
  <2>1. clean \/ ~Up(q)
    BY <1>5 DEF Crash, Destory, Torn
  <2> QED
    BY <2>1, <1>4, <1>5, <1>6, OtherProc DEF CleanInv, Shares
<1>9. sem.there =>
         sem.val + (IF Using(p) THEN adj[p] ELSE 0)
                 + (IF Up(q) /\ Using(q) THEN adj[q] ELSE 0) = 1
  <2>1. adj[p] \in Int /\ adj[q] \in Int /\ sem.val \in Int
    BY DEF SemTypes
  <2>2. CASE p = "writer" /\ q = "reader"
    BY <1>1, <2>1, <2>2 DEF SemaphoreBalanced
  <2>3. CASE p = "reader" /\ q = "writer"
    BY <1>1, <2>1, <2>3 DEF SemaphoreBalanced
  <2> QED
    BY <2>2, <2>3, <1>5, OtherProc
<1>10. sem'.val \in 0 .. 2 /\ (sem'.there => sem'.val + (IF Up(q) /\ Using(q) THEN adj[q] ELSE 0) = 1)
  <2>1. CASE sem' = sem /\ ~Using(p)
    BY <2>1, <1>9 DEF SemTypes
  <2>2. CASE sem' = [sem EXCEPT !.there = FALSE]
    BY <2>2 DEF SemTypes
  <2>3. CASE Using(p) /\ sem' = [sem EXCEPT !.val = @ + adj[p]]
    <3>1. sem.there /\ sem'.val = sem.val + adj[p]
      BY <2>3 DEF Using, SemTypes
    <3>2. adj[p] \in -1 .. 1 /\ adj[q] \in -1 .. 1
      BY DEF SemTypes
    <3> QED
      BY <3>1, <3>2, <1>9, <2>3 DEF SemTypes
  <2> QED
    BY <2>1, <2>2, <2>3, <1>2 DEF Undone
<1>11. SemaphoreBalanced'
  <2>1. sem'.there => (Using(q)' <=> Using(q))
    BY <1>3, <1>1 DEF Using
  <2>2. adj[q] \in Int /\ sem'.val \in Int
    BY <1>10 DEF SemTypes
  <2> QED
    BY <2>1, <2>2, <1>5, <1>6, <1>10, OtherProc DEF SemaphoreBalanced
<1>12. SemTypes'
  <2>1. pc' \in [Procs -> Steps] /\ adj' \in [Procs -> -1 .. 1] /\ my' \in [Procs -> Nat]
    BY <1>1 DEF SemTypes, Steps
  <2>2. sem'.id \in Nat
    BY <1>3 DEF SemTypes
  <2>3. sem'.there \in BOOLEAN
    BY <1>2 DEF Undone, SemTypes
  <2>4. sem' = [id |-> sem'.id, there |-> sem'.there, val |-> sem'.val]
    BY <1>2 DEF Undone, SemTypes
  <2>5. clean' \in BOOLEAN
    BY DEF Crash, Destory, Torn, SemTypes
  <2>6. starts' \in 0 .. MaxStarts
    BY <1>1 DEF SemTypes
  <2> QED
    BY <2>1, <2>2, <2>3, <2>4, <2>5, <2>6, <1>10 DEF SemTypes
<1> QED
  BY <1>7, <1>8, <1>11, <1>12

LEMMA SemStep == ASSUME SemRingAssumption, SemAll, [Next]_vars PROVE SemAll'
<1>1. CASE Next
  <2>1. PICK p \in Procs :
          Start(p) \/ Call(p) \/ Enter(p) \/ Step(p) \/ Crash(p) \/ Destory(p)
    BY <1>1 DEF Next
  <2> QED
    BY <2>1, StartSem, EnterSem, LeaveSem, InsideSem, GoneSem DEF Step
<1>2. CASE UNCHANGED vars
  BY <1>2 DEF vars, SemAll, SemTypes, SemInv, CleanInv, SemaphoreBalanced, Shares, Up,
     Using, Hold, Inside
<1> QED
  BY <1>1, <1>2

LEMMA Alone ==
  ASSUME SemAll, clean, NEW p \in Procs, NEW q \in Procs, p # q, Inside(p) PROVE ~Inside(q)
<1> SUFFICES ASSUME Inside(q) PROVE FALSE
  OBVIOUS
<1>1. Inside("writer") /\ Inside("reader")
  BY OtherProc
<1>2. \A r \in Procs : Inside(r) => Up(r) /\ Hold(r) = 1
  BY DEF Inside, Up, Hold
<1>3. \A r \in Procs : Up(r) /\ Using(r) /\ adj[r] = 1
  BY <1>1, <1>2, OtherProc DEF SemAll, CleanInv, Shares
<1> QED
  BY <1>3, OtherProc DEF SemAll, SemTypes, SemaphoreBalanced, Using

RingAll == MemTypes /\ HeadInv /\ PosInv /\ RingInv

LEMMA MemInit == SemRingAssumption /\ Init => RingAll
<1> SUFFICES ASSUME SemRingAssumption, Init PROVE RingAll
  OBVIOUS
<1> USE DEF Init, SemRingAssumption
<1>1. head \in [magic : BOOLEAN, fetch : Nat, store : Nat, cnt : Nat]
  BY DEF NewHead
<1>2. head.fetch = 0 /\ head.store = 0 /\ head.cnt = 0 /\ n = 0 /\ last = 0
  BY DEF NewHead
<1>3. MemTypes
  BY <1>1 DEF MemTypes, NewBuf
<1>4. \A p \in Procs : pc[p] = "off"
  OBVIOUS
<1>5. HeadInv /\ PosInv
  BY <1>2, <1>4, OtherProc DEF HeadInv, PosInv
<1>6. RingInv
  BY <1>2, <1>4, OtherProc DEF RingInv, Slot, Loaded
<1> QED
  BY <1>3, <1>5, <1>6 DEF RingAll

(* Steps outside the ring.                                                 *)
Past(p) == pc[p] \notin {"off", "enterInit", "init"}

LEMMA QuietMem ==
  ASSUME SemRingAssumption, RingAll, UNCHANGED mem, clean' => clean,
         \A p \in Procs : \/ pc'[p] = pc[p]
                          \/ /\ ~Busy(p) /\ ~Busy(p)'
                             /\ Past(p)' => head.magic
  PROVE  RingAll'
<1> USE DEF RingAll, mem
<1>1. MemTypes'
  BY DEF MemTypes
<1>2. \A p \in Procs : (Busy(p)' <=> Busy(p)) /\ Loaded(p)' = Loaded(p)
                       /\ (pc'[p] = "load" <=> pc[p] = "load")
                       /\ (pc'[p] = "count" <=> pc[p] = "count")
  BY DEF Busy, Loaded
<1>3. HeadInv'
  BY <1>2, OtherProc DEF HeadInv, Past
<1>4. PosInv'
  BY <1>2, OtherProc DEF PosInv
<1>5. RingInv'
  BY <1>2, OtherProc DEF RingInv
<1> QED
  BY <1>1, <1>3, <1>4, <1>5

LEMMA OutsideMem ==
  ASSUME SemRingAssumption, SemAll, RingAll, NEW p \in Procs,
         Start(p) \/ Call(p) \/ Enter(p) \/ Leave(p) \/ (InitMem(p) /\ head.magic)
  PROVE  RingAll'
<1>1. UNCHANGED mem
  BY DEF Start, Call, Enter, Leave, InitMem, mem
<1>2. clean' => clean
  BY DEF Start, Call, Enter, Leave, InitMem
<1>3. \A q \in Procs : q # p => pc'[q] = pc[q]
  BY DEF Start, Call, Enter, Leave, InitMem, SemAll, SemTypes
<1>4. ~Busy(p) /\ ~Busy(p)' /\ (Past(p)' => Past(p) \/ head.magic)
  BY DEF Start, Call, Enter, Leave, InitMem, SemAll, SemTypes, Busy, Past
<1>5. Past(p) => head.magic
  BY DEF RingAll, HeadInv, Past
<1> QED
  BY <1>1, <1>2, <1>3, <1>4, <1>5, QuietMem

LEMMA InitMemMem ==
  ASSUME SemRingAssumption, SemAll, RingAll, NEW p \in Procs, InitMem(p), ~head.magic
  PROVE  RingAll'
<1> USE DEF RingAll, SemRingAssumption
<1>1. head' = [NewHead EXCEPT !.magic = TRUE] /\ last = n
  BY DEF InitMem, HeadInv
<1>2. /\ head' \in [magic : BOOLEAN, fetch : Nat, store : Nat, cnt : Nat]
      /\ head'.magic /\ head'.fetch = 0 /\ head'.store = 0 /\ head'.cnt = 0
  BY <1>1 DEF NewHead
<1>3. /\ buf' = buf /\ tmp' = tmp /\ n' = n /\ last' = last /\ skipped' = skipped
      /\ clean' = clean
  BY DEF InitMem
<1>4. MemTypes'
  BY <1>2, <1>3 DEF MemTypes
<1>5. \A q \in Procs : pc[q] \in {"off", "enterInit", "init"}
  BY DEF HeadInv
<1>6. \A q \in Procs : pc'[q] \in {"off", "enterInit", "init", "leave"}
  BY <1>5 DEF InitMem, SemAll, SemTypes
<1>7. HeadInv' /\ PosInv'
  BY <1>2, <1>3, <1>6, OtherProc DEF HeadInv, PosInv
<1>8. RingInv'
  BY <1>1, <1>2, <1>3, <1>6, OtherProc DEF RingInv, Slot, Loaded, MemTypes
<1> QED
  BY <1>4, <1>7, <1>8

LEMMA GoneMem ==
  ASSUME SemRingAssumption, SemAll, RingAll, NEW p \in Procs, Crash(p) \/ Destory(p)
  PROVE  RingAll'
<1> USE DEF RingAll, SemRingAssumption
<1>1. PICK q \in Procs : q = Other(p) /\ q # p /\ Procs = {p, q}
  BY OtherProc
<1>2. pc'[p] = "off" /\ pc'[q] = pc[q] /\ tmp' = tmp /\ n' = n
  BY <1>1 DEF Crash, Destory, Torn, SemAll, SemTypes
<1>3. CASE Torn(p) /\ UNCHANGED <<head, buf, last>>
  <2>1. clean' = (clean /\ ~Busy(p)) /\ UNCHANGED <<head, buf, last>>
        /\ skipped' = IF Busy(p) /\ head[Pos(p)] = Num THEN skipped \cup {Pos(p)}
                      ELSE skipped
    BY <1>3 DEF Torn, Busy
  <2>2. MemTypes'
    BY <1>2, <2>1 DEF MemTypes, Pos
  <2>3. ~Busy(p)' /\ (Busy(q)' <=> Busy(q)) /\ Loaded(p)' = 0 /\ Loaded(q)' = Loaded(q)
    BY <1>2 DEF Busy, Loaded
  <2>4. HeadInv'
    BY <1>1, <1>2, <2>1, OtherProc DEF HeadInv
  <2>5. PosInv'
    <3>1. CASE p = "writer" /\ q = "reader"
      BY <3>1, <2>1, <2>3 DEF PosInv, Pos
    <3>2. CASE p = "reader" /\ q = "writer"
      BY <3>2, <2>1, <2>3 DEF PosInv, Pos
    <3> QED
      BY <3>1, <3>2, <1>1, OtherProc
  <2>6. RingInv'
    <3> SUFFICES ASSUME clean' PROVE RingInv'
      BY DEF RingInv
    <3>1. clean /\ ~Busy(p) /\ Loaded(p) = 0
      BY <2>1 DEF Busy, Loaded
    <3>2. \A r \in Procs : (Busy(r)' <=> Busy(r)) /\ Loaded(r)' = Loaded(r)
                           /\ (pc'[r] = "count" => pc[r] = "count")
      BY <3>1, <2>3, <1>1, <1>2
    <3> QED
      BY <3>1, <3>2, <2>1, <1>2, OtherProc DEF RingInv
  <2> QED
    BY <2>2, <2>4, <2>5, <2>6
<1>4. CASE ~Up(q) /\ head' = NewHead /\ buf' = NewBuf /\ last' = n /\ skipped' = {}
  <2>1. /\ head' \in [magic : BOOLEAN, fetch : Nat, store : Nat, cnt : Nat]
        /\ head'.fetch = 0 /\ head'.store = 0 /\ head'.cnt = 0
    BY <1>4 DEF NewHead
  <2>2. MemTypes'
    BY <1>2, <1>4, <2>1 DEF MemTypes, NewBuf
  <2>3. \A r \in Procs : pc'[r] = "off"
    BY <1>1, <1>2, <1>4 DEF Up
  <2>4. HeadInv' /\ PosInv'
    BY <2>1, <2>3, <1>2, <1>4, OtherProc DEF HeadInv, PosInv
  <2>5. RingInv'
    BY <2>1, <2>3, <1>2, <1>4, OtherProc DEF RingInv, Slot, Loaded, MemTypes
  <2> QED
    BY <2>2, <2>4, <2>5
<1> QED
  BY <1>1, <1>3, <1>4 DEF Crash, Destory

LEMMA SlotFacts ==
  ASSUME SemRingAssumption
  PROVE  /\ \A f \in 0 .. Num : Slot(f) \in 0 .. Num - 1
         /\ \A f \in 0 .. Num - 1, k \in 0 .. Num : Slot(f + k) \in 0 .. Num - 1
         /\ \A f \in 0 .. Num - 1, k, l \in 0 .. Num - 1 : Slot(f + k) = Slot(f + l) => k = l
         /\ \A f \in 0 .. Num - 1 : Slot(f) = f /\ Slot(f + 1) \in 0 .. Num - 1
         /\ Slot(Num) = 0
         /\ \A f \in 0 .. Num - 1, k \in 0 .. Num - 1 : Slot(Slot(f + 1) + k) = Slot(f + k + 1)
         /\ \A f \in 0 .. Num - 1, k \in 0 .. Num - 1 : Slot(Slot(f + k) + 1) = Slot(f + k + 1)
  BY DEF SemRingAssumption, Slot

(* A call of the writer is one of the items of the bound.                  *)
BoundInv == pc["writer"] \in {"enter", "work"} => n < MaxItems

LEMMA BoundStep == ASSUME SemTypes, BoundInv, [Next]_vars PROVE BoundInv'
<1>1. CASE UNCHANGED vars
  BY <1>1 DEF vars, BoundInv
<1>2. ASSUME NEW p \in Procs, Start(p) \/ Call(p) \/ Enter(p) \/ Crash(p) \/ Destory(p)
      PROVE  BoundInv'
  BY <1>2, OtherProc DEF BoundInv, SemTypes, Start, Call, Enter, Crash, Destory, Torn, mem
<1>3. ASSUME NEW p \in Procs, Step(p) PROVE BoundInv'
  <2>1. n' = n \/ pc'["writer"] \notin {"enter", "work"}
    BY <1>3, OtherProc DEF Step, InitMem, Load, Count, Wrap, Leave, Write, Read, mem, SemTypes
  <2>2. pc'["writer"] \in {"enter", "work"} => pc["writer"] = pc'["writer"]
    BY <1>3, OtherProc DEF Step, InitMem, Load, Count, Wrap, Leave, Write, Read, mem, SemTypes
  <2> QED
    BY <2>1, <2>2 DEF BoundInv
<1> QED
  BY <1>1, <1>2, <1>3 DEF Next

LEMMA WriteMem == ASSUME SemRingAssumption, SemAll, RingAll, BoundInv, Write PROVE RingAll'
<1> USE DEF RingAll, SemRingAssumption
<1>1. /\ pc["writer"] = "work" /\ pc'["reader"] = pc["reader"]
      /\ tmp' = tmp /\ last' = last /\ clean' = clean /\ skipped' = skipped
  BY OtherProc DEF Write, SemAll, SemTypes
<1>2. CASE head.cnt = Num
  <2>1. UNCHANGED mem /\ pc'["writer"] = "leave"
    BY <1>1, <1>2, OtherProc DEF Write, mem, SemAll, SemTypes
  <2>2. head.magic
    BY <1>1, OtherProc DEF HeadInv
  <2>3. \A q \in Procs : \/ pc'[q] = pc[q]
                         \/ ~Busy(q) /\ ~Busy(q)' /\ (Past(q)' => head.magic)
    BY <1>1, <2>1, <2>2, OtherProc DEF Busy
  <2> QED
    BY <1>1, <2>1, <2>3, QuietMem
<1>3. CASE head.cnt # Num
  <2>1. /\ head' = [head EXCEPT !.store = @ + 1] /\ n' = n + 1 /\ pc'["writer"] = "load"
        /\ buf' = [i \in DOMAIN buf |-> IF i = head.store THEN n + 1 ELSE buf[i]]
    BY <1>1, <1>3, OtherProc DEF Write, SemAll, SemTypes
  <2>2. /\ head'.store = head.store + 1 /\ head'.fetch = head.fetch /\ head'.cnt = head.cnt
        /\ (head'.magic <=> head.magic)
        /\ head' \in [magic : BOOLEAN, fetch : Nat, store : Nat, cnt : Nat]
    BY <2>1 DEF MemTypes
  <2>3. n < MaxItems
    BY <1>1 DEF BoundInv
  <2>4. MemTypes'
    BY <1>1, <2>1, <2>2, <2>3 DEF MemTypes
  <2>5. head.magic
    BY <1>1, OtherProc DEF HeadInv
  <2>6. HeadInv'
    BY <1>1, <2>1, <2>2, <2>5, OtherProc DEF HeadInv
  <2>7. PosInv'
    BY <1>1, <2>1, <2>2, OtherProc DEF PosInv, Busy, MemTypes
  <2>8. RingInv'
    <3> SUFFICES ASSUME clean' PROVE RingInv'
      BY DEF RingInv
    <3>1. clean /\ Inside("writer") /\ ~Inside("reader")
      BY <1>1, Alone, OtherProc DEF Inside
    <3>2. ~Busy("reader") /\ ~Busy("writer") /\ Loaded("reader") = 0 /\ Loaded("writer") = 0
      BY <1>1, <3>1 DEF Busy, Inside, Loaded
    <3>3. ~Busy("reader")' /\ Busy("writer")' /\ Loaded("reader")' = 0 /\ Loaded("writer")' = 1
      BY <1>1, <2>1, <3>2 DEF Busy, Loaded
    <3>4. \A q \in Procs : pc'[q] # "count"
      BY <1>1, <2>1, <3>2, OtherProc DEF Busy
    <3>5. /\ head.fetch \in 0 .. Num - 1 /\ head.store \in 0 .. Num - 1
          /\ n - last \in 0 .. Num /\ head.cnt = n - last
          /\ Slot(head.store) = Slot(Slot(head.fetch) + (n - last))
          /\ \A k \in 0 .. n - last - 1 : buf[Slot(Slot(head.fetch) + k)] = last + 1 + k
      BY <3>1, <3>2 DEF RingInv, MemTypes
    <3>6. PICK f \in 0 .. Num - 1, c \in 0 .. Num - 1 : f = head.fetch /\ c = n - last
      BY <3>5, <1>3
    <3>7. Slot(f) = f /\ head.store = Slot(f + c)
      BY <3>5, <3>6, SlotFacts
    <3>8. n' - last' = c + 1 /\ last + 1 + c = n + 1 /\ n' - last' - 1 = c
      BY <1>1, <2>1, <3>6 DEF MemTypes
    <3>9. Slot(head'.store) = Slot(f + (c + 1))
      BY <2>2, <3>7 DEF Slot
    <3>10. \A k \in 0 .. c : buf'[Slot(f + k)] = last + 1 + k
      <4> SUFFICES ASSUME NEW k \in 0 .. c PROVE buf'[Slot(f + k)] = last + 1 + k
        OBVIOUS
      <4>1. Slot(f + k) \in DOMAIN buf
        <5>1. Slot(f + k) \in 0 .. Num - 1
          BY DEF Slot
        <5> QED
          BY <5>1 DEF MemTypes
      <4>2. CASE k = c
        BY <4>1, <4>2, <3>7, <3>8, <2>1
      <4>3. CASE k # c
        <5>1. k \in 0 .. n - last - 1
          BY <4>3, <3>6
        <5>2. Slot(f + k) # head.store
          BY <4>3, <3>7 DEF Slot
        <5>3. buf[Slot(f + k)] = last + 1 + k
          BY <5>1, <3>5, <3>6, <3>7
        <5> QED
          BY <4>1, <5>2, <5>3, <2>1
      <4> QED
        BY <4>2, <4>3
    <3>11. Slot(head'.fetch) = f /\ head'.store \in 1 .. Num /\ head'.fetch \in 0 .. Num - 1
      BY <2>2, <3>5, <3>6, <3>7
    <3>12. n' - last' \in 0 .. Num /\ head'.cnt = n' - last' - 1 + 0
      BY <2>2, <3>5, <3>6, <3>8
    <3>13. Slot(head'.store) = Slot(Slot(head'.fetch) + (n' - last'))
      BY <3>8, <3>9, <3>11
    <3>14. \A k \in 0 .. n' - last' - 1 : buf'[Slot(Slot(head'.fetch) + k)] = last' + 1 + k
      BY <3>8, <3>10, <3>11, <1>1
    <3> QED
      BY <3>3, <3>4, <3>11, <3>12, <3>13, <3>14 DEF RingInv
  <2> QED
    BY <2>4, <2>6, <2>7, <2>8
<1> QED
  BY <1>2, <1>3

LEMMA ReadMem == ASSUME SemRingAssumption, SemAll, RingAll, Read PROVE RingAll'
<1> USE DEF RingAll, SemRingAssumption
<1>1. /\ pc["reader"] = "work" /\ pc'["writer"] = pc["writer"]
      /\ tmp' = tmp /\ n' = n /\ buf' = buf /\ clean' = clean /\ skipped' = skipped
  BY OtherProc DEF Read, SemAll, SemTypes
<1>2. CASE head.cnt = 0
  <2>1. UNCHANGED mem /\ pc'["reader"] = "leave"
    BY <1>1, <1>2, OtherProc DEF Read, mem, SemAll, SemTypes
  <2>2. head.magic
    BY <1>1, OtherProc DEF HeadInv
  <2>3. \A q \in Procs : \/ pc'[q] = pc[q]
                         \/ ~Busy(q) /\ ~Busy(q)' /\ (Past(q)' => head.magic)
    BY <1>1, <2>1, <2>2, OtherProc DEF Busy
  <2> QED
    BY <1>1, <2>1, <2>3, QuietMem
<1>3. CASE head.cnt # 0
  <2>1. /\ head' = [head EXCEPT !.fetch = @ + 1] /\ pc'["reader"] = "load"
        /\ last' = IF head.fetch \in DOMAIN buf THEN buf[head.fetch] ELSE last
    BY <1>1, <1>3, OtherProc DEF Read, SemAll, SemTypes
  <2>2. /\ head'.fetch = head.fetch + 1 /\ head'.store = head.store /\ head'.cnt = head.cnt
        /\ (head'.magic <=> head.magic)
        /\ head' \in [magic : BOOLEAN, fetch : Nat, store : Nat, cnt : Nat]
    BY <2>1 DEF MemTypes
  <2>3. last' \in 0 .. n
    BY <2>1 DEF MemTypes
  <2>4. MemTypes'
    BY <1>1, <2>2, <2>3 DEF MemTypes
  <2>5. head.magic
    BY <1>1, OtherProc DEF HeadInv
  <2>6. head.cnt > 0
    BY <1>3 DEF MemTypes
  <2>7. HeadInv'
    BY <1>1, <2>1, <2>2, <2>5, <2>6, OtherProc DEF HeadInv
  <2>8. PosInv'
    BY <1>1, <2>1, <2>2, OtherProc DEF PosInv, Busy, MemTypes
  <2>9. RingInv'
    <3> SUFFICES ASSUME clean' PROVE RingInv'
      BY DEF RingInv
    <3>1. clean /\ Inside("reader") /\ ~Inside("writer")
      BY <1>1, Alone, OtherProc DEF Inside
    <3>2. ~Busy("reader") /\ ~Busy("writer") /\ Loaded("reader") = 0 /\ Loaded("writer") = 0
      BY <1>1, <3>1 DEF Busy, Inside, Loaded
    <3>3. ~Busy("writer")' /\ Busy("reader")' /\ Loaded("writer")' = 0 /\ Loaded("reader")' = 1
      BY <1>1, <2>1, <3>2 DEF Busy, Loaded
    <3>4. \A q \in Procs : pc'[q] # "count"
      BY <1>1, <2>1, <3>2, OtherProc DEF Busy
    <3>5. /\ head.fetch \in 0 .. Num - 1 /\ head.store \in 0 .. Num - 1
          /\ n - last \in 0 .. Num /\ head.cnt = n - last
          /\ Slot(head.store) = Slot(Slot(head.fetch) + (n - last))
          /\ \A k \in 0 .. n - last - 1 : buf[Slot(Slot(head.fetch) + k)] = last + 1 + k
      BY <3>1, <3>2 DEF RingInv, MemTypes
    <3>6. PICK f \in 0 .. Num - 1, c \in 1 .. Num : f = head.fetch /\ c = n - last
      BY <3>5, <1>3
    <3>7. Slot(f) = f /\ Slot(head.store) = Slot(f + c)
      BY <3>5, <3>6, SlotFacts
    <3>8. last' = last + 1
      <4>1. buf[Slot(f + 0)] = last + 1 + 0 /\ Slot(f + 0) = f /\ f \in DOMAIN buf
        BY <3>5, <3>6, <3>7 DEF MemTypes
      <4> QED
        BY <4>1, <3>6, <2>1 DEF MemTypes
    <3>9. n' - last' = c - 1
      BY <1>1, <3>6, <3>8 DEF MemTypes
    <3>10. Slot(head'.fetch) \in 0 .. Num - 1 /\ Slot(head'.fetch) = Slot(f + 1)
      BY <2>2, <3>6 DEF Slot
    <3>11. Slot(head'.store) = Slot(Slot(head'.fetch) + (n' - last'))
      BY <2>2, <3>7, <3>9, <3>10 DEF Slot
    <3>12. \A k \in 0 .. n' - last' - 1 : buf'[Slot(Slot(head'.fetch) + k)] = last' + 1 + k
      <4> SUFFICES ASSUME NEW k \in 0 .. c - 2
                   PROVE  buf[Slot(Slot(f + 1) + k)] = last + 1 + 1 + k
        BY <1>1, <3>8, <3>9, <3>10
      <4>1. Slot(Slot(f + 1) + k) = Slot(f + (k + 1))
        BY DEF Slot
      <4>2. k + 1 \in 0 .. n - last - 1
        BY <3>6
      <4>3. buf[Slot(f + (k + 1))] = last + 1 + (k + 1)
        BY <4>2, <3>5, <3>6, <3>7
      <4> QED
        BY <4>1, <4>3 DEF MemTypes
    <3>13. head'.fetch \in 1 .. Num /\ head'.store \in 0 .. Num - 1
      BY <2>2, <3>5, <3>6
    <3>14. n' - last' \in 0 .. Num /\ head'.cnt = n' - last' - 0 + 1
      BY <2>2, <3>5, <3>6, <3>9
    <3> QED
      BY <3>3, <3>4, <3>11, <3>12, <3>13, <3>14 DEF RingInv
  <2> QED
    BY <2>4, <2>7, <2>8, <2>9
<1> QED
  BY <1>2, <1>3

LEMMA LoadMem ==
  ASSUME SemRingAssumption, SemAll, RingAll, NEW p \in Procs, Load(p) PROVE RingAll'
<1> USE DEF RingAll, SemRingAssumption
<1>1. /\ UNCHANGED <<head, buf, n, last, skipped, clean>> /\ tmp' = [tmp EXCEPT ![p] = head.cnt]
      /\ pc[p] = "load" /\ pc' = [pc EXCEPT ![p] = "count"]
  BY DEF Load
<1>2. \A q \in Procs : (Busy(q)' <=> Busy(q)) /\ Loaded(q)' = Loaded(q)
                       /\ (q # p => pc'[q] = pc[q] /\ tmp'[q] = tmp[q])
  BY <1>1 DEF Busy, Loaded, SemAll, SemTypes, MemTypes
<1>3. pc'[p] = "count" /\ tmp'[p] = head.cnt
  BY <1>1 DEF SemAll, SemTypes, MemTypes
<1>4. tmp' \in [Procs -> Nat]
  BY <1>1 DEF MemTypes
<1>5. MemTypes'
  BY <1>1, <1>4 DEF MemTypes
<1>6. HeadInv'
  BY <1>1, <1>2, <1>3, OtherProc DEF HeadInv
<1>7. PosInv' /\ RingInv'
  BY <1>1, <1>2, <1>3, OtherProc DEF PosInv, RingInv
<1> QED
  BY <1>5, <1>6, <1>7

LEMMA CountMem ==
  ASSUME SemRingAssumption, SemAll, RingAll, NEW p \in Procs, Count(p) PROVE RingAll'
<1> USE DEF RingAll, SemRingAssumption
<1>1. /\ UNCHANGED <<buf, tmp, n, last, skipped, clean>> /\ pc[p] = "count"
      /\ pc' = [pc EXCEPT ![p] = "wrap"]
      /\ head' = [head EXCEPT !.cnt = IF p = "writer" THEN tmp[p] + 1 ELSE tmp[p] - 1]
  BY DEF Count
<1>2. tmp[p] \in Nat /\ (p = "reader" => tmp[p] > 0)
  BY <1>1 DEF MemTypes, HeadInv
<1>3. /\ head'.fetch = head.fetch /\ head'.store = head.store
      /\ head'.cnt = (IF p = "writer" THEN tmp[p] + 1 ELSE tmp[p] - 1)
      /\ (head'.magic <=> head.magic)
      /\ head' \in [magic : BOOLEAN, fetch : Nat, store : Nat, cnt : Nat]
  <2>1. PICK m \in Nat : head' = [head EXCEPT !.cnt = m]
                        /\ m = (IF p = "writer" THEN tmp[p] + 1 ELSE tmp[p] - 1)
    <3>1. (IF p = "writer" THEN tmp[p] + 1 ELSE tmp[p] - 1) \in Nat
      BY <1>2, OtherProc
    <3> QED
      BY <1>1, <3>1
  <2> QED
    BY <2>1 DEF MemTypes
<1>4. \A q \in Procs : (Busy(q)' <=> Busy(q)) /\ (q # p => pc'[q] = pc[q])
  BY <1>1 DEF Busy, SemAll, SemTypes
<1>5. pc'[p] = "wrap" /\ head.magic
  BY <1>1 DEF SemAll, SemTypes, HeadInv
<1>6. MemTypes'
  BY <1>1, <1>3 DEF MemTypes
<1>7. HeadInv'
  <2>1. pc'["reader"] = "load" => head'.cnt > 0
    BY <1>2, <1>3, <1>4, <1>5, OtherProc
  <2> QED
    BY <2>1, <1>1, <1>3, <1>4, <1>5, OtherProc DEF HeadInv
<1>8. PosInv'
  BY <1>1, <1>3, <1>4, OtherProc DEF PosInv
<1>9. RingInv'
  <2> SUFFICES ASSUME clean' PROVE RingInv'
    BY DEF RingInv
  <2>1. PICK q \in Procs : q # p /\ Procs = {p, q}
    BY OtherProc
  <2>2. clean /\ ~Inside(q) /\ Inside(p)
    BY <1>1, <2>1, Alone DEF Inside
  <2>3. Loaded(p) = 1 /\ Loaded(q) = 0 /\ Loaded(p)' = 0 /\ Loaded(q)' = 0
    BY <1>1, <1>4, <1>5, <2>1, <2>2 DEF Loaded, Inside
  <2>4. tmp[p] = head.cnt
    BY <1>1, <2>2 DEF RingInv
  <2>5. head'.cnt = n' - last' - Loaded("writer")' + Loaded("reader")'
    <3>1. head.cnt = n - last - Loaded("writer") + Loaded("reader")
      BY <2>2 DEF RingInv
    <3>2. CASE p = "writer" /\ q = "reader"
      BY <3>1, <3>2, <2>3, <2>4, <1>1, <1>3 DEF MemTypes
    <3>3. CASE p = "reader" /\ q = "writer"
      BY <3>1, <3>3, <2>3, <2>4, <1>1, <1>3 DEF MemTypes
    <3> QED
      BY <3>2, <3>3, <2>1, OtherProc
  <2>6. \A r \in Procs : pc'[r] # "count"
    BY <1>4, <1>5, <2>1, <2>2 DEF Inside
  <2> QED
    BY <2>2, <2>5, <2>6, <1>1, <1>3, <1>4, OtherProc DEF RingInv
<1> QED
  BY <1>6, <1>7, <1>8, <1>9

LEMMA WrapMem ==
  ASSUME SemRingAssumption, SemAll, RingAll, NEW p \in Procs, Wrap(p) PROVE RingAll'
<1> USE DEF RingAll, SemRingAssumption
<1>1. /\ UNCHANGED <<buf, tmp, n, last, skipped, clean>> /\ pc[p] = "wrap"
      /\ pc' = [pc EXCEPT ![p] = "leave"]
      /\ head' = [head EXCEPT ![Pos(p)] = IF @ = Num THEN 0 ELSE @]
  BY DEF Wrap
<1>2. /\ head' \in [magic : BOOLEAN, fetch : Nat, store : Nat, cnt : Nat]
      /\ head'.cnt = head.cnt /\ (head'.magic <=> head.magic)
      /\ p = "writer" => /\ head'.store = IF head.store = Num THEN 0 ELSE head.store
                         /\ head'.fetch = head.fetch
      /\ p = "reader" => /\ head'.fetch = IF head.fetch = Num THEN 0 ELSE head.fetch
                         /\ head'.store = head.store
  <2>1. CASE p = "writer"
    BY <1>1, <2>1 DEF MemTypes, Pos
  <2>2. CASE p = "reader"
    BY <1>1, <2>2 DEF MemTypes, Pos
  <2> QED
    BY <2>1, <2>2, OtherProc
<1>3. \A q \in Procs : Loaded(q)' = Loaded(q) /\ (pc'[q] = "count" => pc[q] = "count")
                       /\ (q # p => pc'[q] = pc[q] /\ (Busy(q)' <=> Busy(q)))
  BY <1>1 DEF Busy, Loaded, SemAll, SemTypes
<1>4. pc'[p] = "leave" /\ head.magic
  BY <1>1 DEF SemAll, SemTypes, HeadInv
<1>5. MemTypes'
  BY <1>1, <1>2 DEF MemTypes
<1>6. HeadInv'
  BY <1>1, <1>2, <1>3, <1>4, OtherProc DEF HeadInv
<1>7. PosInv'
  BY <1>1, <1>2, <1>3, OtherProc DEF PosInv
<1>8. RingInv'
  <2> SUFFICES ASSUME clean' PROVE RingInv'
    BY DEF RingInv
  <2>1. clean
    BY <1>1
  <2>2. Slot(head'.store) = Slot(head.store) /\ Slot(head'.fetch) = Slot(head.fetch)
    BY <1>2, OtherProc DEF Slot
  <2>3. /\ head'.store \in 0 .. Num /\ head'.fetch \in 0 .. Num
        /\ head'.store = Num => Busy("writer")'
        /\ head'.fetch = Num => Busy("reader")'
    BY <2>1, <1>2, <1>3, OtherProc DEF RingInv
  <2> QED
    BY <2>1, <2>2, <2>3, <1>1, <1>2, <1>3, OtherProc DEF RingInv
<1> QED
  BY <1>5, <1>6, <1>7, <1>8

LEMMA MemStep ==
  ASSUME SemRingAssumption, SemAll, RingAll, BoundInv, [Next]_vars PROVE RingAll'
<1>1. CASE Next
  <2>1. PICK p \in Procs :
          Start(p) \/ Call(p) \/ Enter(p) \/ Step(p) \/ Crash(p) \/ Destory(p)
    BY <1>1 DEF Next
  <2>2. CASE Start(p) \/ Call(p) \/ Enter(p) \/ Leave(p) \/ InitMem(p)
    BY <2>2, OutsideMem, InitMemMem
  <2>3. CASE Crash(p) \/ Destory(p)
    BY <2>3, GoneMem
  <2>4. CASE \/ Load(p) \/ Count(p) \/ Wrap(p)
             \/ p = "writer" /\ Write
             \/ p = "reader" /\ Read
    BY <2>4, LoadMem, CountMem, WrapMem, WriteMem, ReadMem
  <2> QED
    BY <2>1, <2>2, <2>3, <2>4 DEF Step
<1>2. CASE UNCHANGED vars
  BY <1>2, QuietMem DEF vars, mem
<1> QED
  BY <1>1, <1>2

(* What the invariants say of the ring, and of who is inside.              *)
LEMMA RingTypeOK == ASSUME SemRingAssumption, SemAll, RingAll PROVE TypeOK
<1>1. sem \in [id : 0 .. MaxStarts, there : BOOLEAN, val : 0 .. 2]
  <2>1. sem.id \in 0 .. MaxStarts
    BY DEF SemRingAssumption, SemAll, SemTypes, SemInv
  <2> QED
    BY <2>1 DEF SemAll, SemTypes
<1>2. my \in [Procs -> 0 .. MaxStarts]
  BY DEF SemRingAssumption, SemAll, SemTypes, SemInv
<1> QED
  BY <1>1, <1>2 DEF SemAll, SemTypes, Steps, RingAll, MemTypes, TypeOK

LEMMA RingExclusive == ASSUME SemAll PROVE Exclusive
<1> SUFFICES ASSUME clean PROVE Cardinality({p \in Procs : Inside(p)}) <= 1
  BY DEF Exclusive
<1>1. CASE \E p \in Procs : Inside(p)
  <2>1. PICK p \in Procs : Inside(p)
    BY <1>1
  <2>2. {q \in Procs : Inside(q)} = {p}
    BY <2>1, Alone
  <2> QED
    BY <2>2, FS_Singleton
<1>2. CASE ~(\E p \in Procs : Inside(p))
  <2>1. {q \in Procs : Inside(q)} = {}
    BY <1>2
  <2> QED
    BY <2>1, FS_EmptySet
<1> QED
  BY <1>1, <1>2

LEMMA SmallRemainder ==
  ASSUME SemRingAssumption, NEW x \in 0 .. 2 * Num - 1 PROVE x % Num = Slot(x)
  BY DEF SemRingAssumption, Slot

LEMMA RingOrdered == ASSUME SemRingAssumption, RingAll PROVE RingInOrder
<1> SUFFICES ASSUME clean, \A p \in Procs : ~Inside(p)
             PROVE  /\ head.cnt = n - last
                    /\ head.store \in 0 .. Num - 1 /\ head.fetch \in 0 .. Num - 1
                    /\ head.store = (head.fetch + head.cnt) % Num
                    /\ \A k \in 0 .. head.cnt - 1 :
                         buf[(head.fetch + k) % Num] = last + 1 + k
  BY DEF RingInOrder
<1> USE DEF SemRingAssumption
<1>1. \A p \in Procs : ~Busy(p) /\ Loaded(p) = 0
  BY DEF Inside, Busy, Loaded
<1>2. /\ head.cnt = n - last /\ n - last \in 0 .. Num
      /\ head.store \in 0 .. Num - 1 /\ head.fetch \in 0 .. Num - 1
      /\ Slot(head.store) = Slot(Slot(head.fetch) + (n - last))
      /\ \A k \in 0 .. n - last - 1 : buf[Slot(Slot(head.fetch) + k)] = last + 1 + k
  BY <1>1, OtherProc DEF RingAll, RingInv, MemTypes
<1>3. Slot(head.store) = head.store /\ Slot(head.fetch) = head.fetch
  BY <1>2, SlotFacts
<1>4. \A k \in 0 .. head.cnt : (head.fetch + k) % Num = Slot(head.fetch + k)
  <2> SUFFICES ASSUME NEW k \in 0 .. head.cnt
               PROVE  (head.fetch + k) % Num = Slot(head.fetch + k)
    OBVIOUS
  <2>1. head.fetch + k \in 0 .. 2 * Num - 1
    BY <1>2
  <2> QED
    BY <2>1, SmallRemainder
<1> QED
  BY <1>2, <1>3, <1>4

LEMMA RingInside == ASSUME SemRingAssumption, RingAll PROVE CopiesInside
<1>1. DOMAIN buf = 0 .. Num - 1 /\ head.store \in Nat /\ head.fetch \in Nat
  BY DEF RingAll, MemTypes
<1>2. "store" \notin skipped /\ pc["writer"] = "work" => head.store \in 0 .. Num - 1
  BY <1>1 DEF RingAll, PosInv, Busy, SemRingAssumption
<1>3. "fetch" \notin skipped /\ pc["reader"] = "work" => head.fetch \in 0 .. Num - 1
  BY <1>1 DEF RingAll, PosInv, Busy, SemRingAssumption
<1> QED
  BY <1>1, <1>2, <1>3 DEF CopiesInside

LEMMA RingHolds ==
  RingBehaviour => [](TypeOK /\ Exclusive /\ RingInOrder /\ CopiesInside /\ SemaphoreBalanced)
<1> USE SemRingAssumption
<1> DEFINE Inv == SemAll /\ RingAll /\ BoundInv
<1>1. Init => Inv
  <2>1. Init => BoundInv
    BY OtherProc DEF Init, BoundInv
  <2> QED
    BY <2>1, SemInit, MemInit
<1>2. Inv /\ [Next]_vars => Inv'
  BY SemStep, MemStep, BoundStep DEF SemAll
<1>3. Inv => TypeOK /\ Exclusive /\ RingInOrder /\ CopiesInside /\ SemaphoreBalanced
  BY RingTypeOK, RingExclusive, RingOrdered, RingInside DEF SemAll
<1> HIDE DEF Inv
<1> QED
  BY <1>1, <1>2, <1>3, PTL DEF RingBehaviour

(***************************************************************************)
(* vSem.cpp, shmtrans.cpp: whatever process starts, ends or crashes, who   *)
(* is inside the ring is alone, and the ring holds its items in order,     *)
(* unless an Init or ~CvSem let two in or an operation was torn; no copy   *)
(* is outside the slots but after a death before the wrap; and the         *)
(* semaphore is in balance with what the kernel will undo.                 *)
(***************************************************************************)
THEOREM EarlierRingIsShared == AnySpec => []RingIsShared
<1>1. TypeOK /\ Exclusive /\ RingInOrder /\ CopiesInside /\ SemaphoreBalanced
      => RingIsShared
  BY DEF RingIsShared
<1> QED
  BY <1>1, RingImplemented, RingHolds, PTL
-----------------------------------------------------------------------------
(***************************************************************************)
(* StoreQueue.  The nodes that wait, from the oldest on.                   *)
(***************************************************************************)
SqAt(x) == IF x < SqSize THEN x ELSE x - SqSize
NodeAt(k) == sqQueue[SqAt(sqFetch + k)]

(* The first number that is not in the queue and has not been refused.     *)
NodeBound == IF sqRun = "lock" THEN sqNode ELSE sqIndex

IsWritten(i) == \E j \in DOMAIN sqFiles : sqFiles[j] = i
IsWriting(i) == sqRun1 = "write" /\ sqHeld = i
IsQueued(i) == \E k \in 0 .. sqCnt - 1 : NodeAt(k) = i

NodeTypes ==
  /\ sqStore = SqAt(sqFetch + sqCnt)
  /\ sqRun = "lock" => sqNode = sqIndex - 1 /\ sqNode \in 0 .. SqMaxNodes - 1
  /\ sqRun1 = "write" => sqHeld \in 0 .. SqMaxNodes - 1
  /\ \A k \in 0 .. sqCnt - 1 : NodeAt(k) \in 0 .. SqMaxNodes - 1

(* The numbers go up from the files over the node being written and those  *)
(* that wait to the next one.                                              *)
NodeOrder ==
  /\ \A j, k \in DOMAIN sqFiles : j < k => sqFiles[j] < sqFiles[k]
  /\ \A j \in DOMAIN sqFiles : sqFiles[j] < NodeBound
  /\ sqRun1 = "write" =>
       sqHeld < NodeBound /\ \A j \in DOMAIN sqFiles : sqFiles[j] < sqHeld
  /\ \A k \in 0 .. sqCnt - 1 :
       /\ NodeAt(k) < NodeBound
       /\ \A l \in 0 .. sqCnt - 1 : k < l => NodeAt(k) < NodeAt(l)
       /\ \A j \in DOMAIN sqFiles : sqFiles[j] < NodeAt(k)
       /\ sqRun1 = "write" => sqHeld < NodeAt(k)

(* A number below is in one of these places or was refused, and not both.  *)
NodeFate ==
  /\ \A i \in 0 .. NodeBound - 1 :
       i \in sqDropped \/ IsWritten(i) \/ IsWriting(i) \/ IsQueued(i)
  /\ \A i \in sqDropped :
       i < NodeBound /\ ~IsWritten(i) /\ ~IsWriting(i) /\ ~IsQueued(i)

StoreInv == SQ!TypeOK /\ NodeTypes /\ NodeOrder /\ NodeFate

LEMMA SqAssumption == SqSize \in Nat \ {0} /\ SqMaxNodes \in Nat
<1>1. SQ!StoreQueueAssumption
  BY EarlierAssumption DEF EarlierAssumption
<1> QED
  BY <1>1 DEF SQ!StoreQueueAssumption

LEMMA SqAtFacts ==
  /\ \A f \in 0 .. SqSize - 1, k \in 0 .. SqSize :
       /\ SqAt(f + k) \in 0 .. SqSize - 1
       /\ (f + k) % SqSize = SqAt(f + k)
       /\ \A l \in 0 .. SqSize - 1 : k < SqSize /\ SqAt(f + k) = SqAt(f + l) => k = l
  /\ \A f \in 0 .. SqSize - 1 :
       /\ SqAt(f + 0) = f /\ SQ!After(f) \in 0 .. SqSize - 1
       /\ \A k \in 0 .. SqSize - 1 : /\ SQ!After(SqAt(f + k)) = SqAt(f + (k + 1))
                                     /\ SqAt(SQ!After(f) + k) = SqAt(f + (k + 1))
<1> USE SqAssumption
<1>1. \A x \in 0 .. 2 * SqSize - 1 : x % SqSize = SqAt(x)
  BY DEF SqAt
<1>2. ASSUME NEW f \in 0 .. SqSize - 1, NEW k \in 0 .. SqSize
      PROVE  /\ SqAt(f + k) \in 0 .. SqSize - 1
             /\ (f + k) % SqSize = SqAt(f + k)
             /\ \A l \in 0 .. SqSize - 1 : k < SqSize /\ SqAt(f + k) = SqAt(f + l) => k = l
  <2>1. f + k \in 0 .. 2 * SqSize - 1
    OBVIOUS
  <2>2. SqAt(f + k) \in 0 .. SqSize - 1
    BY DEF SqAt
  <2>3. \A l \in 0 .. SqSize - 1 : k < SqSize /\ SqAt(f + k) = SqAt(f + l) => k = l
    BY DEF SqAt
  <2> QED
    BY <2>1, <2>2, <2>3, <1>1
<1>3. ASSUME NEW f \in 0 .. SqSize - 1
      PROVE  /\ SqAt(f + 0) = f /\ SQ!After(f) \in 0 .. SqSize - 1
             /\ \A k \in 0 .. SqSize - 1 : /\ SQ!After(SqAt(f + k)) = SqAt(f + (k + 1))
                                           /\ SqAt(SQ!After(f) + k) = SqAt(f + (k + 1))
  BY DEF SqAt, SQ!After
<1> QED
  BY <1>2, <1>3

LEMMA StoreInit == SQ!Init => StoreInv
<1> SUFFICES ASSUME SQ!Init PROVE StoreInv
  OBVIOUS
<1> USE SqAssumption DEF SQ!Init, SQ!Slots, SQ!Null, SQ!Garbage
<1>1. SQ!TypeOK
  <2>1. sqQueue \in [SQ!Slots -> SQ!Null .. SqMaxNodes - 1 \cup {SQ!Garbage}]
    OBVIOUS
  <2>2. sqFiles \in Seq(0 .. SqMaxNodes - 1)
    OBVIOUS
  <2> QED
    BY <2>1, <2>2 DEF SQ!TypeOK
<1>2. NodeTypes /\ NodeOrder /\ NodeFate
  BY DEF NodeTypes, NodeOrder, NodeFate, NodeBound, SqAt
<1> QED
  BY <1>1, <1>2 DEF StoreInv

(* What the queue looks like from outside after each of its operations.    *)
LEMMA QueueSame ==
  ASSUME UNCHANGED <<sqQueue, sqFetch, sqCnt>>
  PROVE  /\ \A k \in 0 .. sqCnt - 1 : NodeAt(k)' = NodeAt(k)
         /\ \A i : IsQueued(i)' <=> IsQueued(i)
         /\ SQ!Waiting' = SQ!Waiting
  BY DEF NodeAt, SqAt, IsQueued, SQ!Waiting

LEMMA QueueGrows ==
  ASSUME StoreInv, SQ!Insert, sqCnt # SqSize
  PROVE  /\ sqCnt \in 0 .. SqSize - 1 /\ sqCnt' = sqCnt + 1 /\ sqFetch' = sqFetch
         /\ sqStore' = SqAt(sqFetch + sqCnt') /\ sqStore' \in 0 .. SqSize - 1
         /\ \A k \in 0 .. sqCnt - 1 : NodeAt(k)' = NodeAt(k)
         /\ \A k \in Nat : k = sqCnt => NodeAt(k)' = sqNode
<1> USE SqAssumption
<1>1. /\ sqCnt \in 0 .. SqSize - 1 /\ sqFetch \in 0 .. SqSize - 1
      /\ sqStore = SqAt(sqFetch + sqCnt) /\ DOMAIN sqQueue = 0 .. SqSize - 1
  BY DEF StoreInv, SQ!TypeOK, SQ!Slots, NodeTypes
<1>2. /\ sqCnt' = sqCnt + 1 /\ sqFetch' = sqFetch /\ sqStore' = SQ!After(sqStore)
      /\ sqQueue' = [sqQueue EXCEPT ![sqStore] = sqNode]
  BY DEF SQ!Insert
<1>3. sqStore' = SqAt(sqFetch + sqCnt') /\ sqStore' \in 0 .. SqSize - 1
  BY <1>1, <1>2 DEF SqAt, SQ!After
<1>4. ASSUME NEW k \in Nat, k = sqCnt PROVE NodeAt(k)' = sqNode
  <2>1. SqAt(sqFetch + k) = sqStore /\ sqStore \in 0 .. SqSize - 1
    BY <1>1, <1>4 DEF SqAt
  <2> QED
    BY <2>1, <1>1, <1>2 DEF NodeAt, SqAt
<1>5. ASSUME NEW k \in 0 .. sqCnt - 1 PROVE NodeAt(k)' = NodeAt(k)
  <2>1. SqAt(sqFetch + k) \in 0 .. SqSize - 1 /\ SqAt(sqFetch + k) # sqStore
    BY <1>1 DEF SqAt
  <2> QED
    BY <2>1, <1>1, <1>2 DEF NodeAt, SqAt
<1> QED
  BY <1>1, <1>2, <1>3, <1>4, <1>5

LEMMA QueueShrinks ==
  ASSUME StoreInv, SQ!Take, sqCnt' # sqCnt
  PROVE  /\ sqCnt \in 1 .. SqSize /\ sqCnt' = sqCnt - 1
         /\ sqFetch' \in 0 .. SqSize - 1
         /\ sqStore = SqAt(sqFetch' + sqCnt')
         /\ sqHeld' = NodeAt(0) /\ sqRun1' = "write"
         /\ \A k \in 0 .. sqCnt - 2 : NodeAt(k)' = NodeAt(k + 1)
<1> USE SqAssumption
<1>1. /\ sqCnt \in 1 .. SqSize /\ sqFetch \in 0 .. SqSize - 1
      /\ sqStore = SqAt(sqFetch + sqCnt) /\ DOMAIN sqQueue = 0 .. SqSize - 1
  BY DEF StoreInv, SQ!TypeOK, SQ!Slots, NodeTypes, SQ!Take
<1>2. /\ sqCnt' = sqCnt - 1 /\ sqFetch' = SQ!After(sqFetch) /\ sqHeld' = sqQueue[sqFetch]
      /\ sqQueue' = [sqQueue EXCEPT ![sqFetch] = SQ!Null] /\ sqRun1' = "write"
  BY DEF SQ!Take
<1>3. SqAt(sqFetch + 0) = sqFetch
  BY <1>1, SqAtFacts
<1>4. sqHeld' = NodeAt(0)
  BY <1>2, <1>3 DEF NodeAt
<1>5. sqFetch' \in 0 .. SqSize - 1 /\ SqAt(sqFetch' + sqCnt') = SqAt(sqFetch + sqCnt)
  <2>1. PICK c \in 0 .. SqSize - 1 : c = sqCnt - 1 /\ c + 1 = sqCnt
    BY <1>1
  <2> QED
    BY <2>1, <1>1, <1>2, SqAtFacts
<1>6. ASSUME NEW k \in 0 .. sqCnt - 2 PROVE NodeAt(k)' = NodeAt(k + 1)
  <2>1. k \in 0 .. SqSize - 1 /\ k + 1 \in 0 .. SqSize - 1
    BY <1>1
  <2>2. /\ SqAt(sqFetch' + k) = SqAt(sqFetch + (k + 1))
        /\ SqAt(sqFetch + (k + 1)) \in 0 .. SqSize - 1
        /\ SqAt(sqFetch + (k + 1)) # sqFetch
    BY <2>1, <1>1, <1>2, SqAtFacts DEF SqAt, SQ!After
  <2> QED
    BY <2>2, <1>1, <1>2 DEF NodeAt, SqAt
<1> QED
  BY <1>1, <1>2, <1>4, <1>5, <1>6

(* A step of pop's thread or of push that only changes who is where.       *)
LEMMA NewNodeStore == ASSUME StoreInv, SQ!NewNode PROVE StoreInv'
<1> USE SqAssumption DEF StoreInv
<1>1. /\ sqRun = "idle" /\ sqRun' = "lock" /\ sqNode' = sqIndex /\ sqIndex' = sqIndex + 1
      /\ sqIndex \in 0 .. SqMaxNodes - 1
      /\ UNCHANGED <<sqQueue, sqCnt, sqFetch, sqStore, sqRun1, sqHeld, sqFiles, sqDropped>>
  BY DEF SQ!NewNode, SQ!TypeOK
<1>2. NodeBound' = NodeBound
  BY <1>1 DEF NodeBound
<1>3. \A k \in 0 .. sqCnt - 1 : NodeAt(k)' = NodeAt(k)
  BY <1>1, QueueSame
<1>4. \A i : /\ IsQueued(i)' <=> IsQueued(i)
             /\ IsWritten(i)' <=> IsWritten(i)
             /\ IsWriting(i)' <=> IsWriting(i)
  BY <1>1, QueueSame DEF IsWritten, IsWriting
<1>5. SQ!TypeOK'
  BY <1>1 DEF SQ!TypeOK, SQ!Slots, SQ!Null
<1>6. NodeTypes'
  BY <1>1, <1>3 DEF NodeTypes, SQ!TypeOK, SqAt
<1>7. NodeOrder'
  BY <1>1, <1>2, <1>3 DEF NodeOrder
<1>8. NodeFate'
  BY <1>1, <1>2, <1>4 DEF NodeFate
<1> QED
  BY <1>5, <1>6, <1>7, <1>8

LEMMA SignalStore == ASSUME StoreInv, SQ!Signal PROVE StoreInv'
<1> USE SqAssumption DEF StoreInv
<1>1. /\ sqRun = "signal" /\ sqRun' = "idle"
      /\ sqRun1' = sqRun1 \/ (sqRun1 # "write" /\ sqRun1' = "test")
      /\ UNCHANGED <<sqQueue, sqCnt, sqFetch, sqStore, sqIndex, sqNode, sqHeld, sqFiles,
                     sqDropped>>
  BY DEF SQ!Signal
<1>2. NodeBound' = NodeBound
  BY <1>1 DEF NodeBound
<1>3. \A k \in 0 .. sqCnt - 1 : NodeAt(k)' = NodeAt(k)
  BY <1>1, QueueSame
<1>4. \A i : /\ IsQueued(i)' <=> IsQueued(i)
             /\ IsWritten(i)' <=> IsWritten(i)
             /\ IsWriting(i)' <=> IsWriting(i)
  BY <1>1, QueueSame DEF IsWritten, IsWriting
<1>5. SQ!TypeOK'
  BY <1>1 DEF SQ!TypeOK, SQ!Slots, SQ!Null
<1>6. NodeTypes'
  BY <1>1, <1>3 DEF NodeTypes, SQ!TypeOK, SqAt
<1>7. NodeOrder'
  BY <1>1, <1>2, <1>3 DEF NodeOrder
<1>8. NodeFate'
  BY <1>1, <1>2, <1>4 DEF NodeFate
<1> QED
  BY <1>5, <1>6, <1>7, <1>8

LEMMA InsertStore == ASSUME StoreInv, SQ!Insert PROVE StoreInv'
<1> USE SqAssumption DEF StoreInv
<1>1. /\ sqRun = "lock" /\ sqRun' = "signal" /\ sqFetch' = sqFetch
      /\ UNCHANGED <<sqIndex, sqNode, sqRun1, sqHeld, sqFiles>>
  BY DEF SQ!Insert
<1>2. /\ sqNode = sqIndex - 1 /\ sqNode \in 0 .. SqMaxNodes - 1
      /\ NodeBound = sqNode /\ NodeBound' = sqNode + 1
  BY <1>1 DEF NodeTypes, NodeBound, SQ!TypeOK
<1>3. \A i : /\ IsWritten(i)' <=> IsWritten(i)
             /\ IsWriting(i)' <=> IsWriting(i)
  BY <1>1 DEF IsWritten, IsWriting
<1>4. CASE sqCnt = SqSize
  <2>1. UNCHANGED <<sqQueue, sqStore, sqCnt>> /\ sqDropped' = sqDropped \cup {sqNode}
    BY <1>4 DEF SQ!Insert
  <2>2. \A k \in 0 .. sqCnt - 1 : NodeAt(k)' = NodeAt(k)
    BY <1>1, <2>1, QueueSame
  <2>3. \A i : IsQueued(i)' <=> IsQueued(i)
    BY <1>1, <2>1, QueueSame
  <2>4. SQ!TypeOK'
    BY <1>1, <1>2, <2>1 DEF SQ!TypeOK, SQ!Slots, SQ!Null
  <2>5. NodeTypes'
    BY <1>1, <2>1, <2>2 DEF NodeTypes, SqAt
  <2>6. NodeOrder'
    BY <1>1, <1>2, <2>1, <2>2 DEF NodeOrder, NodeTypes, SQ!TypeOK
  <2>7. NodeFate'
    <3>1. ~IsWritten(sqNode) /\ ~IsWriting(sqNode) /\ ~IsQueued(sqNode)
      BY <1>2 DEF NodeOrder, IsWritten, IsWriting, IsQueued, NodeTypes, SQ!TypeOK
    <3>2. \A i \in 0 .. NodeBound' - 1 : i = sqNode \/ i \in 0 .. NodeBound - 1
      BY <1>2
    <3>3. \A i \in sqDropped' : i < NodeBound'
      BY <1>2, <2>1 DEF NodeFate, SQ!TypeOK
    <3> QED
      BY <3>1, <3>2, <3>3, <1>2, <1>3, <2>1, <2>3 DEF NodeFate
  <2> QED
    BY <2>4, <2>5, <2>6, <2>7
<1>5. CASE sqCnt # SqSize
  <2>1. /\ sqCnt \in 0 .. SqSize - 1 /\ sqCnt' = sqCnt + 1 /\ sqDropped' = sqDropped
        /\ sqStore' = SqAt(sqFetch + sqCnt') /\ sqStore' \in 0 .. SqSize - 1
        /\ \A k \in 0 .. sqCnt - 1 : NodeAt(k)' = NodeAt(k)
        /\ \A k \in Nat : k = sqCnt => NodeAt(k)' = sqNode
    BY <1>5, QueueGrows DEF SQ!Insert
  <2>2. \A k \in 0 .. sqCnt' - 1 : k \in 0 .. sqCnt - 1 \/ (k = sqCnt /\ k \in Nat)
    BY <2>1
  <2>3. \A i : IsQueued(i)' <=> IsQueued(i) \/ i = sqNode
    <3> SUFFICES ASSUME NEW i PROVE IsQueued(i)' <=> IsQueued(i) \/ i = sqNode
      OBVIOUS
    <3>1. ASSUME IsQueued(i)' PROVE IsQueued(i) \/ i = sqNode
      BY <3>1, <2>1, <2>2 DEF IsQueued
    <3>2. ASSUME IsQueued(i) PROVE IsQueued(i)'
      <4>1. PICK k \in 0 .. sqCnt - 1 : NodeAt(k) = i
        BY <3>2 DEF IsQueued
      <4>2. k \in 0 .. sqCnt' - 1 /\ NodeAt(k)' = i
        BY <2>1, <4>1
      <4> QED
        BY <4>2 DEF IsQueued
    <3>3. ASSUME i = sqNode PROVE IsQueued(i)'
      <4>1. PICK k \in Nat : k = sqCnt
        BY <2>1
      <4>2. k \in 0 .. sqCnt' - 1 /\ NodeAt(k)' = i
        BY <2>1, <3>3, <4>1
      <4> QED
        BY <4>2 DEF IsQueued
    <3> QED
      BY <3>1, <3>2, <3>3
  <2>4. SQ!TypeOK'
    <3>1. sqQueue' \in [SQ!Slots -> SQ!Null .. SqMaxNodes - 1 \cup {SQ!Garbage}]
      BY <1>2, <1>5 DEF SQ!Insert, SQ!TypeOK, SQ!Null
    <3> QED
      BY <3>1, <1>1, <1>2, <2>1 DEF SQ!TypeOK, SQ!Slots, SQ!Null
  <2>5. NodeTypes'
    <3>1. \A k \in 0 .. sqCnt' - 1 : NodeAt(k)' \in 0 .. SqMaxNodes - 1
      BY <1>2, <2>1, <2>2 DEF NodeTypes
    <3> QED
      BY <3>1, <1>1, <2>1 DEF NodeTypes, SqAt
  <2>6. NodeOrder'
    <3>1. \A j \in DOMAIN sqFiles : sqFiles[j] < sqNode /\ sqFiles[j] < sqNode + 1
      BY <1>2 DEF NodeOrder, SQ!TypeOK
    <3>2. sqRun1 = "write" => sqHeld < sqNode /\ sqHeld < sqNode + 1
      BY <1>2 DEF NodeOrder, NodeTypes
    <3>3. \A k \in 0 .. sqCnt - 1 : NodeAt(k) < sqNode /\ NodeAt(k) < sqNode + 1
      BY <1>2 DEF NodeOrder, NodeTypes
    <3>4. ASSUME NEW k \in 0 .. sqCnt' - 1
          PROVE  /\ NodeAt(k)' < NodeBound'
                 /\ \A l \in 0 .. sqCnt' - 1 : k < l => NodeAt(k)' < NodeAt(l)'
                 /\ \A j \in DOMAIN sqFiles : sqFiles[j] < NodeAt(k)'
                 /\ sqRun1 = "write" => sqHeld < NodeAt(k)'
      <4>1. CASE k = sqCnt
        <5>1. NodeAt(k)' = sqNode /\ \A l \in 0 .. sqCnt' - 1 : ~(k < l)
          BY <2>1, <4>1
        <5> QED
          BY <5>1, <3>1, <3>2, <1>2
      <4>2. CASE k \in 0 .. sqCnt - 1
        <5>1. NodeAt(k)' = NodeAt(k)
          BY <2>1, <4>2
        <5>2. ASSUME NEW l \in 0 .. sqCnt' - 1, k < l PROVE NodeAt(k)' < NodeAt(l)'
          <6>1. CASE l = sqCnt
            BY <6>1, <5>1, <2>1, <3>3, <4>2
          <6>2. CASE l \in 0 .. sqCnt - 1
            BY <6>2, <5>1, <5>2, <2>1, <4>2 DEF NodeOrder
          <6> QED
            BY <6>1, <6>2, <2>2
        <5> QED
          BY <5>1, <5>2, <4>2, <3>3, <1>2 DEF NodeOrder
      <4> QED
        BY <4>1, <4>2, <2>2
    <3> QED
      BY <3>1, <3>2, <3>4, <1>1, <1>2 DEF NodeOrder
  <2>7. NodeFate'
    <3>1. sqNode \notin sqDropped
      BY <1>2 DEF NodeFate
    <3>2. \A i \in 0 .. NodeBound' - 1 : i = sqNode \/ i \in 0 .. NodeBound - 1
      BY <1>2
    <3>3. \A i \in sqDropped : i < NodeBound'
      BY <1>2 DEF NodeFate, SQ!TypeOK
    <3> QED
      BY <3>1, <3>2, <3>3, <1>3, <2>1, <2>3 DEF NodeFate
  <2> QED
    BY <2>4, <2>5, <2>6, <2>7
<1> QED
  BY <1>4, <1>5

(* A step that moves no node.                                              *)
LEMMA QuietStore ==
  ASSUME StoreInv, SQ!TypeOK', sqRun1 # "write", sqRun1' # "write",
         UNCHANGED <<sqQueue, sqCnt, sqFetch, sqStore, sqIndex, sqRun, sqNode, sqHeld,
                     sqFiles, sqDropped>>
  PROVE  StoreInv'
<1> USE SqAssumption DEF StoreInv
<1>1. NodeBound' = NodeBound
  BY DEF NodeBound
<1>2. \A k \in 0 .. sqCnt - 1 : NodeAt(k)' = NodeAt(k)
  BY QueueSame
<1>3. \A i : /\ IsQueued(i)' <=> IsQueued(i)
             /\ IsWritten(i)' <=> IsWritten(i)
             /\ IsWriting(i)' <=> IsWriting(i)
  BY QueueSame DEF IsWritten, IsWriting
<1>4. NodeTypes'
  BY <1>2 DEF NodeTypes, SqAt
<1>5. NodeOrder'
  BY <1>1, <1>2 DEF NodeOrder
<1>6. NodeFate'
  BY <1>1, <1>3 DEF NodeFate
<1> QED
  BY <1>4, <1>5, <1>6

LEMMA TakeStore == ASSUME StoreInv, SQ!Take PROVE StoreInv'
<1> USE SqAssumption DEF StoreInv
<1>1. /\ sqRun1 = "test"
      /\ UNCHANGED <<sqStore, sqIndex, sqRun, sqNode, sqFiles, sqDropped>>
  BY DEF SQ!Take
<1>2. CASE sqCnt' = sqCnt
  <2>1. sqRun1' = "asleep" /\ UNCHANGED <<sqQueue, sqCnt, sqFetch, sqHeld>>
    BY <1>2 DEF SQ!Take, SQ!TypeOK
  <2>2. SQ!TypeOK'
    BY <1>1, <2>1 DEF SQ!TypeOK, SQ!Slots, SQ!Null
  <2> QED
    BY <1>1, <2>1, <2>2, QuietStore
<1>3. CASE sqCnt' # sqCnt
  <2>1. /\ sqCnt \in 1 .. SqSize /\ sqCnt' = sqCnt - 1
        /\ sqFetch' \in 0 .. SqSize - 1
        /\ sqStore = SqAt(sqFetch' + sqCnt')
        /\ sqHeld' = NodeAt(0) /\ sqRun1' = "write"
        /\ \A k \in 0 .. sqCnt - 2 : NodeAt(k)' = NodeAt(k + 1)
    BY <1>3, QueueShrinks
  <2>2. sqHeld' \in 0 .. SqMaxNodes - 1
    BY <2>1 DEF NodeTypes
  <2>3. NodeBound' = NodeBound /\ NodeBound \in Int
    BY <1>1 DEF NodeBound, SQ!TypeOK, SQ!Null
  <2>4. \A i : IsWritten(i)' <=> IsWritten(i)
    BY <1>1 DEF IsWritten
  <2>5. \A i : /\ ~IsWriting(i)
               /\ IsWriting(i)' <=> i = sqHeld'
    BY <1>1, <2>1 DEF IsWriting
  <2>6. \A i : IsQueued(i) <=> IsQueued(i)' \/ i = sqHeld'
    <3> SUFFICES ASSUME NEW i PROVE IsQueued(i) <=> IsQueued(i)' \/ i = sqHeld'
      OBVIOUS
    <3>1. ASSUME IsQueued(i)' PROVE IsQueued(i)
      <4>1. PICK k \in 0 .. sqCnt' - 1 : NodeAt(k)' = i
        BY <3>1 DEF IsQueued
      <4>2. k + 1 \in 0 .. sqCnt - 1 /\ NodeAt(k + 1) = i
        BY <2>1, <4>1
      <4> QED
        BY <4>2 DEF IsQueued
    <3>2. ASSUME i = sqHeld' PROVE IsQueued(i)
      BY <3>2, <2>1 DEF IsQueued
    <3>3. ASSUME IsQueued(i) PROVE IsQueued(i)' \/ i = sqHeld'
      <4>1. PICK k \in 0 .. sqCnt - 1 : NodeAt(k) = i
        BY <3>3 DEF IsQueued
      <4>2. CASE k = 0
        BY <4>1, <4>2, <2>1
      <4>3. CASE k # 0
        <5>1. PICK l \in 0 .. sqCnt - 2 : k = l + 1
          BY <4>3, <2>1
        <5>2. l \in 0 .. sqCnt' - 1 /\ NodeAt(l)' = i
          BY <5>1, <4>1, <2>1
        <5> QED
          BY <5>2 DEF IsQueued
      <4> QED
        BY <4>2, <4>3
    <3> QED
      BY <3>1, <3>2, <3>3
  <2>7. SQ!TypeOK'
    <3>1. sqQueue' \in [SQ!Slots -> SQ!Null .. SqMaxNodes - 1 \cup {SQ!Garbage}]
      BY <1>3 DEF SQ!Take, SQ!TypeOK, SQ!Null
    <3> QED
      BY <3>1, <1>1, <2>1, <2>2 DEF SQ!TypeOK, SQ!Slots, SQ!Null
  <2>8. NodeTypes'
    <3>1. \A k \in 0 .. sqCnt' - 1 : NodeAt(k)' \in 0 .. SqMaxNodes - 1
      <4> SUFFICES ASSUME NEW k \in 0 .. sqCnt' - 1 PROVE NodeAt(k)' \in 0 .. SqMaxNodes - 1
        OBVIOUS
      <4>1. k \in 0 .. sqCnt - 2 /\ k + 1 \in 0 .. sqCnt - 1
        BY <2>1
      <4>2. PICK l \in 0 .. sqCnt - 1 : l = k + 1
        BY <4>1
      <4> QED
        BY <2>1, <4>1, <4>2 DEF NodeTypes
    <3> QED
      BY <3>1, <1>1, <2>1, <2>2 DEF NodeTypes, SqAt
  <2>9. NodeOrder'
    <3>1. /\ 0 \in 0 .. sqCnt - 1
          /\ sqHeld' < NodeBound
          /\ \A j \in DOMAIN sqFiles : sqFiles[j] < sqHeld'
          /\ \A l \in 0 .. sqCnt - 1 : 0 < l => sqHeld' < NodeAt(l)
      BY <2>1 DEF NodeOrder
    <3>2. ASSUME NEW k \in 0 .. sqCnt' - 1
          PROVE  /\ NodeAt(k)' < NodeBound'
                 /\ \A l \in 0 .. sqCnt' - 1 : k < l => NodeAt(k)' < NodeAt(l)'
                 /\ \A j \in DOMAIN sqFiles : sqFiles[j] < NodeAt(k)'
                 /\ sqHeld' < NodeAt(k)'
      <4>1. PICK k1 \in 0 .. sqCnt - 1 : k1 = k + 1
        BY <2>1
      <4>2. NodeAt(k)' = NodeAt(k1) /\ 0 < k1
        BY <2>1, <4>1
      <4>3. ASSUME NEW l \in 0 .. sqCnt' - 1, k < l PROVE NodeAt(k)' < NodeAt(l)'
        <5>1. PICK l1 \in 0 .. sqCnt - 1 : l1 = l + 1
          BY <2>1
        <5>2. NodeAt(l)' = NodeAt(l1) /\ k1 < l1
          BY <2>1, <4>1, <4>3, <5>1
        <5> QED
          BY <4>2, <5>2 DEF NodeOrder
      <4> QED
        BY <4>2, <4>3, <3>1, <2>3 DEF NodeOrder
    <3> QED
      BY <3>1, <3>2, <1>1, <2>3 DEF NodeOrder
  <2>10. NodeFate'
    BY <1>1, <2>3, <2>4, <2>5, <2>6 DEF NodeFate
  <2> QED
    BY <2>7, <2>8, <2>9, <2>10
<1> QED
  BY <1>2, <1>3

LEMMA OutFileStore == ASSUME StoreInv, SQ!OutFile PROVE StoreInv'
<1> USE SqAssumption DEF StoreInv
<1>1. /\ sqRun1 = "write" /\ sqRun1' = "test" /\ sqFiles' = Append(sqFiles, sqHeld)
      /\ UNCHANGED <<sqQueue, sqCnt, sqFetch, sqStore, sqIndex, sqRun, sqNode, sqHeld,
                     sqDropped>>
  BY DEF SQ!OutFile
<1>2. /\ sqFiles \in Seq(0 .. SqMaxNodes - 1) /\ sqHeld \in 0 .. SqMaxNodes - 1
  BY <1>1 DEF SQ!TypeOK, NodeTypes
<1>3. PICK f \in Nat : f = Len(sqFiles) /\ DOMAIN sqFiles = 1 .. f
  BY <1>2
<1>4. /\ sqFiles' \in Seq(0 .. SqMaxNodes - 1) /\ DOMAIN sqFiles' = 1 .. f + 1
      /\ \A j \in 1 .. f : sqFiles'[j] = sqFiles[j]
      /\ \A j \in Nat : j = f + 1 => sqFiles'[j] = sqHeld
      /\ \A j \in 1 .. f : sqFiles[j] \in 0 .. SqMaxNodes - 1
  BY <1>1, <1>2, <1>3
<1>5. \A j \in 1 .. f + 1 : j \in 1 .. f \/ (j = f + 1 /\ j \in Nat)
  BY <1>3
<1>6. NodeBound' = NodeBound /\ NodeBound \in Int
  BY <1>1 DEF NodeBound, SQ!TypeOK, SQ!Null
<1>7. \A k \in 0 .. sqCnt - 1 : NodeAt(k)' = NodeAt(k)
  BY <1>1, QueueSame
<1>8. \A i : IsQueued(i)' <=> IsQueued(i)
  BY <1>1, QueueSame
<1>9. \A i : ~IsWriting(i)' /\ (IsWriting(i) <=> i = sqHeld)
  BY <1>1 DEF IsWriting
<1>10. \A i : IsWritten(i)' <=> IsWritten(i) \/ i = sqHeld
  <2> SUFFICES ASSUME NEW i PROVE IsWritten(i)' <=> IsWritten(i) \/ i = sqHeld
    OBVIOUS
  <2>1. ASSUME IsWritten(i)' PROVE IsWritten(i) \/ i = sqHeld
    BY <2>1, <1>3, <1>4, <1>5 DEF IsWritten
  <2>2. ASSUME IsWritten(i) PROVE IsWritten(i)'
    <3>1. PICK j \in 1 .. f : sqFiles[j] = i
      BY <2>2, <1>3 DEF IsWritten
    <3>2. j \in 1 .. f + 1 /\ sqFiles'[j] = i
      BY <3>1, <1>3, <1>4
    <3> QED
      BY <3>2, <1>4 DEF IsWritten
  <2>3. ASSUME i = sqHeld PROVE IsWritten(i)'
    <3>1. PICK j \in Nat : j = f + 1
      BY <1>3
    <3>2. j \in 1 .. f + 1 /\ sqFiles'[j] = i
      BY <3>1, <1>3, <1>4, <2>3
    <3> QED
      BY <3>2, <1>4 DEF IsWritten
  <2> QED
    BY <2>1, <2>2, <2>3
<1>11. SQ!TypeOK'
  BY <1>1, <1>2, <1>4 DEF SQ!TypeOK, SQ!Slots, SQ!Null
<1>12. NodeTypes'
  BY <1>1, <1>7 DEF NodeTypes, SqAt
<1>13. NodeOrder'
  <2>1. /\ \A j, k \in 1 .. f : j < k => sqFiles[j] < sqFiles[k]
        /\ \A j \in 1 .. f : sqFiles[j] < NodeBound /\ sqFiles[j] < sqHeld
        /\ sqHeld < NodeBound
        /\ \A k \in 0 .. sqCnt - 1 : sqHeld < NodeAt(k)
    BY <1>1, <1>3 DEF NodeOrder
  <2>2. \A j, k \in 1 .. f + 1 : j < k => sqFiles'[j] < sqFiles'[k]
    <3> SUFFICES ASSUME NEW j \in 1 .. f + 1, NEW k \in 1 .. f + 1, j < k
                 PROVE  sqFiles'[j] < sqFiles'[k]
      OBVIOUS
    <3>1. j \in 1 .. f
      BY <1>3
    <3> QED
      BY <3>1, <1>4, <1>5, <2>1
  <2>3. \A j \in 1 .. f + 1 : sqFiles'[j] < NodeBound
    BY <1>4, <1>5, <2>1
  <2>4. \A k \in 0 .. sqCnt - 1 :
          /\ NodeAt(k) < NodeBound
          /\ \A l \in 0 .. sqCnt - 1 : k < l => NodeAt(k) < NodeAt(l)
          /\ \A j \in 1 .. f + 1 : sqFiles'[j] < NodeAt(k)
    <3> SUFFICES ASSUME NEW k \in 0 .. sqCnt - 1
                 PROVE  \A j \in 1 .. f + 1 : sqFiles'[j] < NodeAt(k)
      BY DEF NodeOrder
    <3>1. \A j \in 1 .. f : sqFiles[j] < NodeAt(k)
      BY <1>3 DEF NodeOrder
    <3> QED
      BY <3>1, <1>4, <1>5, <2>1
  <2> QED
    BY <1>1, <1>4, <1>6, <1>7, <2>2, <2>3, <2>4 DEF NodeOrder
<1>14. NodeFate'
  BY <1>1, <1>6, <1>8, <1>9, <1>10 DEF NodeFate
<1> QED
  BY <1>11, <1>12, <1>13, <1>14

LEMMA StoreStep == StoreInv /\ [SQ!Next]_(SQ!vars) => StoreInv'
<1> SUFFICES ASSUME StoreInv, [SQ!Next]_(SQ!vars) PROVE StoreInv'
  OBVIOUS
<1>1. CASE UNCHANGED SQ!vars
  <2>1. UNCHANGED <<sqQueue, sqCnt, sqFetch, sqStore, sqIndex, sqRun, sqNode, sqRun1,
                    sqHeld, sqFiles, sqDropped>>
    BY <1>1 DEF SQ!vars
  <2> QED
    BY <2>1 DEF StoreInv, SQ!TypeOK, SQ!Slots, NodeTypes, NodeOrder, NodeFate, NodeBound,
                NodeAt, SqAt, IsWritten, IsWriting, IsQueued
<1>2. CASE SQ!Next
  BY <1>2, NewNodeStore, InsertStore, SignalStore, TakeStore, OutFileStore
     DEF SQ!Next, SQ!Run, SQ!Run1
<1> QED
  BY <1>1, <1>2

LEMMA FilesTellDrops == StoreInv => SQ!GapsAreDrops
<1> SUFFICES ASSUME StoreInv PROVE SQ!GapsAreDrops
  OBVIOUS
<1> USE SqAssumption DEF StoreInv
<1>1. sqFiles \in Seq(0 .. SqMaxNodes - 1) /\ NodeBound \in Int
  BY DEF SQ!TypeOK, NodeBound, SQ!Null
<1>2. ASSUME NEW k \in DOMAIN sqFiles, NEW i \in 0 .. sqFiles[k]
      PROVE  (i \in sqDropped) # (\E j \in DOMAIN sqFiles : sqFiles[j] = i)
  <2>1. sqFiles[k] \in Nat /\ sqFiles[k] < NodeBound
    BY <1>1 DEF NodeOrder
  <2>2. i \in 0 .. NodeBound - 1
    BY <1>1, <2>1
  <2>3. ~IsWriting(i)
    BY <2>1 DEF NodeOrder, NodeTypes, IsWriting
  <2>4. ~IsQueued(i)
    BY <2>1 DEF NodeOrder, NodeTypes, IsQueued
  <2>5. i \in sqDropped \/ IsWritten(i)
    BY <2>2, <2>3, <2>4 DEF NodeFate
  <2>6. ~(i \in sqDropped /\ IsWritten(i))
    BY DEF NodeFate
  <2>7. CASE i \in sqDropped
    BY <2>6, <2>7 DEF IsWritten
  <2>8. CASE i \notin sqDropped
    BY <2>5, <2>8 DEF IsWritten
  <2> QED
    BY <2>7, <2>8
<1>3. \A j, k \in DOMAIN sqFiles : j < k => sqFiles[j] < sqFiles[k]
  BY DEF NodeOrder
<1> QED
  BY <1>2, <1>3 DEF SQ!GapsAreDrops

(* What waits, from outside.                                               *)
WaitingNodes == [k \in 1 .. sqCnt |-> NodeAt(k - 1)]

WaitingAgrees ==
  /\ SQ!Waiting = WaitingNodes
  /\ sqCnt \in 0 .. SqSize
  /\ WaitingNodes \in Seq(0 .. SqMaxNodes - 1) /\ Len(WaitingNodes) = sqCnt

LEMMA WaitingIs == StoreInv => WaitingAgrees
<1> SUFFICES ASSUME StoreInv PROVE WaitingAgrees
  OBVIOUS
<1> USE SqAssumption DEF StoreInv
<1>1. sqCnt \in 0 .. SqSize /\ sqFetch \in 0 .. SqSize - 1
  BY DEF SQ!TypeOK, SQ!Slots
<1>2. ASSUME NEW k \in 1 .. sqCnt
      PROVE  sqQueue[(sqFetch + k - 1) % SqSize] = NodeAt(k - 1)
  <2>1. PICK l \in 0 .. SqSize : l = k - 1 /\ sqFetch + l = sqFetch + k - 1
    BY <1>1
  <2>2. (sqFetch + l) % SqSize = SqAt(sqFetch + l)
    BY <1>1, SqAtFacts
  <2> QED
    BY <2>1, <2>2 DEF NodeAt
<1>3. \A k \in 1 .. sqCnt : NodeAt(k - 1) \in 0 .. SqMaxNodes - 1
  <2> SUFFICES ASSUME NEW k \in 1 .. sqCnt PROVE NodeAt(k - 1) \in 0 .. SqMaxNodes - 1
    OBVIOUS
  <2>1. PICK l \in 0 .. sqCnt - 1 : l = k - 1
    BY <1>1
  <2> QED
    BY <2>1 DEF NodeTypes
<1>4. WaitingNodes \in [1 .. sqCnt -> 0 .. SqMaxNodes - 1]
  BY <1>3 DEF WaitingNodes
<1> QED
  BY <1>1, <1>2, <1>4 DEF SQ!Waiting, WaitingNodes, WaitingAgrees

LEMMA InsertAppends ==
  ASSUME StoreInv, WaitingAgrees', SQ!Insert, sqCnt # SqSize
  PROVE  SQ!Waiting' = Append(SQ!Waiting, sqNode) /\ sqNode \in 0 .. SqMaxNodes - 1
<1> USE SqAssumption
<1>1. /\ sqCnt \in 0 .. SqSize - 1 /\ sqCnt' = sqCnt + 1
      /\ \A k \in 0 .. sqCnt - 1 : NodeAt(k)' = NodeAt(k)
      /\ \A k \in Nat : k = sqCnt => NodeAt(k)' = sqNode
  BY QueueGrows
<1>2. sqNode \in 0 .. SqMaxNodes - 1
  BY DEF SQ!Insert, StoreInv, NodeTypes
<1>3. /\ WaitingNodes \in Seq(0 .. SqMaxNodes - 1) /\ Len(WaitingNodes) = sqCnt
      /\ SQ!Waiting = WaitingNodes /\ SQ!Waiting' = WaitingNodes'
  BY WaitingIs DEF WaitingAgrees
<1>4. Append(WaitingNodes, sqNode)
        = [k \in 1 .. sqCnt + 1 |-> IF k <= sqCnt THEN WaitingNodes[k] ELSE sqNode]
  <2>1. /\ Append(WaitingNodes, sqNode) \in Seq(0 .. SqMaxNodes - 1)
        /\ Len(Append(WaitingNodes, sqNode)) = sqCnt + 1
        /\ \A k \in 1 .. sqCnt : Append(WaitingNodes, sqNode)[k] = WaitingNodes[k]
        /\ Append(WaitingNodes, sqNode)[sqCnt + 1] = sqNode
    BY <1>1, <1>2, <1>3, AppendProperties
  <2>2. Append(WaitingNodes, sqNode) \in [1 .. sqCnt + 1 -> 0 .. SqMaxNodes - 1]
    BY <2>1, LenProperties
  <2>3. \A k \in 1 .. sqCnt + 1 :
          Append(WaitingNodes, sqNode)[k] = IF k <= sqCnt THEN WaitingNodes[k] ELSE sqNode
    <3>1. \A k \in 1 .. sqCnt + 1 : k \in 1 .. sqCnt \/ k = sqCnt + 1
      BY <1>1
    <3> QED
      BY <1>1, <2>1, <3>1
  <2> QED
    BY <2>2, <2>3
<1>5. WaitingNodes' = [k \in 1 .. sqCnt + 1 |-> NodeAt(k - 1)']
  BY <1>1 DEF WaitingNodes
<1>6. ASSUME NEW k \in 1 .. sqCnt + 1
      PROVE  NodeAt(k - 1)' = IF k <= sqCnt THEN WaitingNodes[k] ELSE sqNode
  <2>1. PICK l \in Nat : l = k - 1
    BY <1>1
  <2>2. CASE k <= sqCnt
    BY <1>1, <2>1, <2>2 DEF WaitingNodes
  <2>3. CASE ~(k <= sqCnt)
    BY <1>1, <2>1, <2>3
  <2> QED
    BY <2>2, <2>3
<1> QED
  BY <1>2, <1>3, <1>4, <1>5, <1>6

LEMMA TakeTakesHead ==
  ASSUME StoreInv, WaitingAgrees', SQ!Take, sqCnt' # sqCnt
  PROVE  /\ SQ!Waiting # <<>>
         /\ sqHeld' = Head(SQ!Waiting)
         /\ SQ!Waiting' = Tail(SQ!Waiting)
<1> USE SqAssumption
<1>1. /\ sqCnt \in 1 .. SqSize /\ sqCnt' = sqCnt - 1 /\ sqHeld' = NodeAt(0)
      /\ \A k \in 0 .. sqCnt - 2 : NodeAt(k)' = NodeAt(k + 1)
  BY QueueShrinks
<1>2. /\ WaitingNodes \in Seq(0 .. SqMaxNodes - 1) /\ Len(WaitingNodes) = sqCnt
      /\ SQ!Waiting = WaitingNodes /\ SQ!Waiting' = WaitingNodes'
  BY WaitingIs DEF WaitingAgrees
<1>3. WaitingNodes # <<>> /\ WaitingNodes[1] = NodeAt(0)
  BY <1>1, <1>2 DEF WaitingNodes
<1>4. Tail(WaitingNodes) = [k \in 1 .. sqCnt - 1 |-> WaitingNodes[k + 1]]
  <2>1. /\ Tail(WaitingNodes) \in Seq(0 .. SqMaxNodes - 1)
        /\ Len(Tail(WaitingNodes)) = sqCnt - 1
        /\ \A k \in 1 .. sqCnt - 1 : Tail(WaitingNodes)[k] = WaitingNodes[k + 1]
    BY <1>1, <1>2, <1>3, HeadTailProperties
  <2>2. Tail(WaitingNodes) \in [1 .. sqCnt - 1 -> 0 .. SqMaxNodes - 1]
    BY <2>1, LenProperties
  <2> QED
    BY <1>1, <2>1, <2>2
<1>5. WaitingNodes' = [k \in 1 .. sqCnt - 1 |-> NodeAt(k - 1)']
  BY <1>1 DEF WaitingNodes
<1>6. ASSUME NEW k \in 1 .. sqCnt - 1 PROVE NodeAt(k - 1)' = WaitingNodes[k + 1]
  <2>1. PICK l \in 0 .. sqCnt - 2 : l = k - 1 /\ l + 1 = (k + 1) - 1
    BY <1>1
  <2>2. NodeAt(l)' = NodeAt(l + 1)
    BY <1>1
  <2>3. WaitingNodes[k + 1] = NodeAt((k + 1) - 1)
    BY <1>1 DEF WaitingNodes
  <2> QED
    BY <2>1, <2>2, <2>3
<1> QED
  BY <1>1, <1>2, <1>3, <1>4, <1>5, <1>6

LEMMA StoreFifoStep ==
  ASSUME StoreInv, WaitingAgrees', [SQ!Next]_(SQ!vars)
  PROVE  [SQ!Fifo!Next]_(SQ!Fifo!vars)
<1> USE SqAssumption
<1>1. ASSUME SQ!Insert, sqCnt # SqSize PROVE SQ!Fifo!Next
  <2>1. Len(SQ!Waiting) < SqSize
    BY <1>1, WaitingIs, QueueGrows DEF WaitingAgrees
  <2>2. SQ!Fifo!Put(sqNode) /\ sqNode \in 0 .. SqMaxNodes - 1
    BY <1>1, <2>1, InsertAppends DEF SQ!Fifo!Put, SQ!Insert
  <2> QED
    BY <2>2 DEF SQ!Fifo!Next
<1>2. ASSUME SQ!Take, sqCnt' # sqCnt PROVE SQ!Fifo!Next
  BY <1>2, TakeTakesHead DEF SQ!Fifo!Next, SQ!Fifo!Get
<1>3. ASSUME UNCHANGED <<sqQueue, sqFetch, sqCnt, sqHeld>>
      PROVE  UNCHANGED SQ!Fifo!vars
  BY <1>3, QueueSame DEF SQ!Fifo!vars
<1>4. CASE SQ!Insert /\ sqCnt = SqSize
  BY <1>3, <1>4 DEF SQ!Insert
<1>5. CASE SQ!Take /\ sqCnt' = sqCnt
  <2>1. UNCHANGED <<sqQueue, sqCnt, sqFetch, sqHeld>>
    BY <1>5 DEF SQ!Take, StoreInv, SQ!TypeOK
  <2> QED
    BY <1>3, <2>1
<1>6. CASE SQ!NewNode \/ SQ!Signal \/ SQ!OutFile
  BY <1>3, <1>6 DEF SQ!NewNode, SQ!Signal, SQ!OutFile
<1>7. CASE UNCHANGED SQ!vars
  BY <1>3, <1>7 DEF SQ!vars
<1> QED
  BY <1>1, <1>2, <1>4, <1>5, <1>6, <1>7 DEF SQ!Next, SQ!Run, SQ!Run1

LEMMA StoreHolds ==
  StoreBehaviour => [](SQ!TypeOK /\ SQ!GapsAreDrops) /\ SQ!FifoSpec
<1>1. StoreInv => SQ!TypeOK
  BY DEF StoreInv
<1>2. StoreInv /\ WaitingAgrees' /\ [SQ!Next]_(SQ!vars) => [SQ!Fifo!Next]_(SQ!Fifo!vars)
  BY StoreFifoStep
<1>3. SQ!Init => SQ!Fifo!Init
  <2> SUFFICES ASSUME SQ!Init PROVE SQ!Fifo!Init
    OBVIOUS
  <2>1. sqCnt = 0 /\ sqHeld = SQ!Null
    BY DEF SQ!Init
  <2>2. SQ!Waiting = <<>>
    BY <2>1 DEF SQ!Waiting
  <2> QED
    BY <2>1, <2>2 DEF SQ!Fifo!Init
<1> QED
  BY <1>1, <1>2, <1>3, StoreInit, StoreStep, WaitingIs, FilesTellDrops, PTL
     DEF StoreBehaviour, SQ!FifoSpec, SQ!Fifo!Spec

(***************************************************************************)
(* visionStore.cpp: whatever the slots held at the start, the queue is a   *)
(* bounded FIFO that takes no slot nobody filled for a node; the names of  *)
(* the files go up, and a number without a file is that of a refused node. *)
(***************************************************************************)
THEOREM EarlierImagesAreStored == AnySpec => ImagesAreStored
  BY StoreImplemented, StoreHolds, PTL DEF ImagesAreStored
-----------------------------------------------------------------------------
(***************************************************************************)
(* Family.  Nobody counts a child or a beat of it twice.                   *)
(***************************************************************************)
Works == faPm \in {"active", "monitor"}

WatchInv ==
  /\ \A c \in faVec : faTimes[c] > 0
  /\ \A c \in FaChildren \ faLeaving : faLeft[c] > 0

(* While the parent has forgotten nobody, at most one beat of each child   *)
(* waits, and that leaves room for the next.                               *)
RoomInv ==
  Works => /\ faThere
           /\ faVec = FaChildren =>
                faLeaving = {} /\ \A c \in FaChildren : faQueue[c] <= 1

(* The types of what is not the queue.                                     *)
KinTypes ==
  /\ faPm \in {"active", "monitor", "tell", "pclose", "gone", "stuck", "crashed"}
  /\ faVec \subseteq FaChildren /\ faTodo \subseteq FaChildren
  /\ faTimes \in [FaChildren -> 0 .. FaTimes] /\ faLeft \in [FaChildren -> 0 .. FaTimes]
  /\ faChild \in [FaChildren -> {"starting", "up", "stuck", "zombie", "reaped"}]
  /\ faLeaving \subseteq FaChildren /\ faWaiters \in 0 .. FaMaxThreads
  /\ faEarly \in BOOLEAN /\ faShell \in BOOLEAN /\ faChld \in BOOLEAN
  /\ faInWait \in BOOLEAN /\ faThere \in BOOLEAN

BeatTypes ==
  /\ faQueue \in [FaChildren -> Nat] /\ IsFiniteSet(FA!Beats)
  /\ Cardinality(FA!Beats) <= FaCapacity

FamilyInv == KinTypes /\ BeatTypes /\ WatchInv /\ RoomInv

LEMMA FaAssumption ==
  /\ IsFiniteSet(FaChildren) /\ FaTimes \in Nat \ {0} /\ FaMaxThreads \in Nat
  /\ FaCapacity \in Nat /\ Cardinality(FaChildren) \in Nat
  /\ Cardinality(FaChildren) < FaCapacity
<1>1. FA!FamilyAssumption
  BY EarlierAssumption DEF EarlierAssumption
<1>2. FA!IsFiniteSet(FaChildren) <=> IsFiniteSet(FaChildren)
  BY Zenon DEF FA!IsFiniteSet, IsFiniteSet
<1>3. FA!Cardinality(FaChildren) = Cardinality(FaChildren)
  BY Zenon DEF FA!Cardinality, Cardinality
<1>4. IsFiniteSet(FaChildren)
  BY <1>1, <1>2 DEF FA!FamilyAssumption
<1> QED
  BY <1>1, <1>3, <1>4, FS_CardinalityType DEF FA!FamilyAssumption

LEMMA BeatFacts ==
  /\ \A m : m \in FA!Beats <=> \E c \in FaChildren : \E k \in 1 .. faQueue[c] : m = <<c, k>>
  /\ FA!Full <=> Cardinality(FA!Beats) >= FaCapacity
<1>1. FA!Cardinality(FA!Beats) = Cardinality(FA!Beats)
  BY Zenon DEF FA!Cardinality, Cardinality
<1> QED
  BY <1>1 DEF FA!Beats, FA!Full

(* A queue with one beat of each child at most has room.                   *)
LEMMA Room ==
  ASSUME faQueue \in [FaChildren -> Nat], \A c \in FaChildren : faQueue[c] <= 1
  PROVE  IsFiniteSet(FA!Beats) /\ ~FA!Full
<1> DEFINE f == [m \in FA!Beats |-> m[1]]
<1>1. \A m \in FA!Beats : m[1] \in FaChildren /\ m = <<m[1], 1>>
  <2> SUFFICES ASSUME NEW m \in FA!Beats PROVE m[1] \in FaChildren /\ m = <<m[1], 1>>
    OBVIOUS
  <2>1. PICK c \in FaChildren : \E k \in 1 .. faQueue[c] : m = <<c, k>>
    BY BeatFacts
  <2>2. PICK k \in 1 .. faQueue[c] : m = <<c, k>>
    BY <2>1
  <2>3. k = 1
    BY <2>2
  <2> QED
    BY <2>2, <2>3
<1>2. f \in Injection(FA!Beats, FaChildren)
  <2>1. f \in [FA!Beats -> FaChildren]
    BY <1>1
  <2>2. \A a, b \in FA!Beats : f[a] = f[b] => a = b
    BY <1>1
  <2> QED
    BY <2>1, <2>2, Zenon DEF Injection, IsInjective
<1> HIDE DEF f
<1>3. IsFiniteSet(FA!Beats) /\ Cardinality(FA!Beats) <= Cardinality(FaChildren)
  BY <1>2, FaAssumption, FS_Injection
<1>4. Cardinality(FA!Beats) \in Nat
  BY <1>3, FS_CardinalityType
<1> QED
  BY <1>3, <1>4, FaAssumption, BeatFacts

(* One child's beats are some of those in the queue.                       *)
LEMMA Fits ==
  ASSUME faQueue \in [FaChildren -> Nat], IsFiniteSet(FA!Beats), NEW c \in FaChildren
  PROVE  faQueue[c] <= Cardinality(FA!Beats)
<1> DEFINE S == 1 .. faQueue[c]
           f == [k \in S |-> <<c, k>>]
<1>1. f \in Injection(S, FA!Beats)
  <2>1. f \in [S -> FA!Beats]
    BY BeatFacts
  <2>2. \A a, b \in S : f[a] = f[b] => a = b
    OBVIOUS
  <2> QED
    BY <2>1, <2>2, Zenon DEF Injection, IsInjective
<1>2. faQueue[c] \in Nat /\ Cardinality(S) = faQueue[c]
  BY FS_Interval
<1> HIDE DEF f, S
<1>3. Cardinality(S) <= Cardinality(FA!Beats)
  BY <1>1, FS_Injection
<1> QED
  BY <1>2, <1>3

LEMMA BeatSent ==
  ASSUME FamilyInv, NEW c \in FaChildren, ~FA!Full,
         faQueue' = [faQueue EXCEPT ![c] = @ + 1]
  PROVE  /\ IsFiniteSet(FA!Beats)' /\ (Cardinality(FA!Beats) <= FaCapacity)'
         /\ faQueue' \in [FaChildren -> Nat]
<1>1. faQueue \in [FaChildren -> Nat]
  BY DEF FamilyInv, BeatTypes
<1>2. PICK k \in Nat : k = faQueue[c]
  BY <1>1
<1>3. FA!Beats' = FA!Beats \cup {<<c, k + 1>>}
  <2>1. \A d \in FaChildren : faQueue'[d] = IF d = c THEN k + 1 ELSE faQueue[d]
    BY <1>1, <1>2
  <2>2. \A m : m \in FA!Beats' <=> \E d \in FaChildren : \E l \in 1 .. faQueue'[d] : m = <<d, l>>
    BY DEF FA!Beats
  <2>3. \A m : m \in FA!Beats' => m \in FA!Beats \cup {<<c, k + 1>>}
    <3> SUFFICES ASSUME NEW m, m \in FA!Beats' PROVE m \in FA!Beats \cup {<<c, k + 1>>}
      OBVIOUS
    <3>1. PICK d \in FaChildren : \E l \in 1 .. faQueue'[d] : m = <<d, l>>
      BY <2>2
    <3>2. PICK l \in 1 .. faQueue'[d] : m = <<d, l>>
      BY <3>1
    <3>3. CASE l \in 1 .. faQueue[d]
      BY <3>2, <3>3, BeatFacts
    <3>4. CASE l \notin 1 .. faQueue[d]
      <4>1. d = c /\ l = k + 1
        BY <3>4, <2>1, <1>2
      <4> QED
        BY <4>1, <3>2
    <3> QED
      BY <3>3, <3>4
  <2>4. \A m : m \in FA!Beats => m \in FA!Beats'
    <3> SUFFICES ASSUME NEW m, m \in FA!Beats PROVE m \in FA!Beats'
      OBVIOUS
    <3>1. PICK d \in FaChildren : \E l \in 1 .. faQueue[d] : m = <<d, l>>
      BY BeatFacts
    <3>2. PICK l \in 1 .. faQueue[d] : m = <<d, l>>
      BY <3>1
    <3>3. l \in 1 .. faQueue'[d]
      BY <2>1, <1>1, <1>2
    <3> QED
      BY <2>2, <3>2, <3>3
  <2>5. <<c, k + 1>> \in FA!Beats'
    <3>1. k + 1 \in 1 .. faQueue'[c]
      BY <2>1, <1>2
    <3> QED
      BY <2>2, <3>1
  <2> QED
    BY <2>3, <2>4, <2>5
<1>4. IsFiniteSet(FA!Beats) /\ Cardinality(FA!Beats) \in Nat /\ Cardinality(FA!Beats) < FaCapacity
  BY BeatFacts, FS_CardinalityType, FaAssumption DEF FamilyInv, BeatTypes
<1>5. /\ IsFiniteSet(FA!Beats \cup {<<c, k + 1>>})
      /\ Cardinality(FA!Beats \cup {<<c, k + 1>>})
           = IF <<c, k + 1>> \in FA!Beats THEN Cardinality(FA!Beats) ELSE Cardinality(FA!Beats) + 1
  BY <1>4, FS_AddElement
<1>6. IsFiniteSet(FA!Beats') /\ Cardinality(FA!Beats') <= FaCapacity
  BY <1>3, <1>4, <1>5, FaAssumption
<1>7. faQueue' \in [FaChildren -> Nat]
  BY <1>1
<1> QED
  BY <1>6, <1>7

LEMMA BeatsTaken ==
  ASSUME FamilyInv, faQueue' \in [FaChildren -> Nat],
         \A c \in FaChildren : faQueue'[c] <= faQueue[c]
  PROVE  IsFiniteSet(FA!Beats)' /\ (Cardinality(FA!Beats) <= FaCapacity)'
<1>1. faQueue \in [FaChildren -> Nat]
  BY DEF FamilyInv, BeatTypes
<1>2. FA!Beats' \in SUBSET FA!Beats
  <2> SUFFICES ASSUME NEW m, m \in FA!Beats' PROVE m \in FA!Beats
    OBVIOUS
  <2>1. PICK d \in FaChildren : \E l \in 1 .. faQueue'[d] : m = <<d, l>>
    BY DEF FA!Beats
  <2>2. PICK l \in 1 .. faQueue'[d] : m = <<d, l>>
    BY <2>1
  <2>3. l \in 1 .. faQueue[d]
    BY <1>1
  <2> QED
    BY <2>2, <2>3, BeatFacts
<1>4. IsFiniteSet(FA!Beats) /\ Cardinality(FA!Beats) \in Nat /\ Cardinality(FA!Beats) <= FaCapacity
  BY FS_CardinalityType DEF FamilyInv, BeatTypes
<1>5. IsFiniteSet(FA!Beats') /\ Cardinality(FA!Beats') <= Cardinality(FA!Beats)
  BY <1>2, <1>4, FS_Subset
<1>6. Cardinality(FA!Beats') \in Nat
  BY <1>5, FS_CardinalityType
<1> QED
  BY <1>4, <1>5, <1>6, FaAssumption

LEMMA FamilyType == FamilyInv => FA!TypeOK
<1> SUFFICES ASSUME KinTypes, BeatTypes PROVE FA!TypeOK
  BY DEF FamilyInv
<1>1. FA!Cardinality(FA!Beats) = Cardinality(FA!Beats)
  BY Zenon DEF FA!Cardinality, Cardinality
<1>2. Cardinality(FA!Beats) \in Nat
  BY FS_CardinalityType DEF BeatTypes
<1>3. \A c \in FaChildren : faQueue[c] <= Cardinality(FA!Beats)
  BY Fits DEF BeatTypes
<1>4. faQueue \in [FaChildren -> 0 .. FaCapacity] /\ FA!Cardinality(FA!Beats) <= FaCapacity
  <2>1. \A c \in FaChildren : faQueue[c] \in 0 .. FaCapacity
    BY <1>2, <1>3, FaAssumption DEF BeatTypes
  <2> QED
    BY <1>1, <2>1 DEF BeatTypes
<1>5. {faEarly, faShell, faChld, faInWait, faThere} \subseteq BOOLEAN
  BY Zenon DEF KinTypes
<1> QED
  BY <1>4, <1>5, Zenon DEF FA!TypeOK, KinTypes

LEMMA FamilyInit == FA!Init => FamilyInv
<1> SUFFICES ASSUME FA!Init PROVE KinTypes /\ BeatTypes /\ WatchInv /\ RoomInv
  BY DEF FamilyInv
<1> USE FaAssumption DEF FA!Init
<1>1. KinTypes
  <2>1. /\ faTimes \in [FaChildren -> 0 .. FaTimes] /\ faLeft \in [FaChildren -> 0 .. FaTimes]
        /\ faChild \in [FaChildren -> {"starting", "up", "stuck", "zombie", "reaped"}]
        /\ faWaiters \in 0 .. FaMaxThreads
    OBVIOUS
  <2> QED
    BY <2>1, Zenon DEF KinTypes
<1>2. BeatTypes
  <2>1. faQueue \in [FaChildren -> Nat] /\ \A c \in FaChildren : faQueue[c] <= 1
    OBVIOUS
  <2>2. IsFiniteSet(FA!Beats) /\ ~FA!Full
    BY <2>1, Room
  <2>3. Cardinality(FA!Beats) \in Nat
    BY <2>2, FS_CardinalityType
  <2> QED
    BY <2>1, <2>2, <2>3, BeatFacts DEF BeatTypes
<1>3. WatchInv /\ RoomInv
  BY DEF WatchInv, RoomInv
<1> QED
  BY <1>1, <1>2, <1>3

LEMMA BeatsSame == ASSUME BeatTypes, UNCHANGED faQueue PROVE BeatTypes'
  BY DEF BeatTypes, FA!Beats

LEMMA EndsKin ==
  ASSUME KinTypes, NEW c \in FaChildren, FA!Ends(c)
  PROVE  /\ faChild' \in [FaChildren -> {"starting", "up", "stuck", "zombie", "reaped"}]
         /\ faChld' \in BOOLEAN
<1>1. faChild' \in [FaChildren -> {"starting", "up", "stuck", "zombie", "reaped"}]
  BY DEF KinTypes, FA!Ends
<1>2. faChld' \in BOOLEAN
  BY Zenon DEF KinTypes, FA!Ends
<1> QED
  BY <1>1, <1>2

LEMMA SendKeepsFamily ==
  ASSUME FamilyInv, NEW c \in FaChildren, FA!SndHeartBeat(c)
  PROVE  FamilyInv'
<1> USE FaAssumption
<1>1. KinTypes /\ BeatTypes /\ WatchInv /\ RoomInv
  BY DEF FamilyInv
<1>2. /\ UNCHANGED <<faPm, faEarly, faVec, faTimes, faTodo, faShell, faInWait, faWaiters,
                     faThere>>
      /\ c \notin faLeaving /\ FA!InTime(c)
  BY DEF FA!SndHeartBeat, FA!parent, FA!waits
<1>3. CASE faThere /\ ~FA!Full
  <2>1. /\ faQueue' = [faQueue EXCEPT ![c] = @ + 1]
        /\ faLeft' = [faLeft EXCEPT ![c] = FaTimes]
        /\ UNCHANGED <<faChild, faLeaving, faChld>>
    BY <1>3 DEF FA!SndHeartBeat
  <2>2. BeatTypes'
    BY <1>3, <2>1, BeatSent DEF BeatTypes
  <2>3. KinTypes'
    BY <1>1, <1>2, <2>1 DEF KinTypes
  <2>4. WatchInv'
    BY <1>1, <1>2, <2>1 DEF WatchInv, KinTypes
  <2>5. RoomInv'
    BY <1>1, <1>2, <2>1 DEF RoomInv, Works, FA!InTime, BeatTypes
  <2> QED
    BY <2>2, <2>3, <2>4, <2>5 DEF FamilyInv
<1>4. CASE ~(faThere /\ ~FA!Full)
  <2>1. /\ faLeft' = [faLeft EXCEPT ![c] = @ - 1] /\ UNCHANGED faQueue
        /\ \/ faLeft[c] > 1 /\ UNCHANGED <<faChild, faLeaving, faChld>>
           \/ /\ ~(faLeft[c] > 1) /\ faLeaving' = faLeaving \cup {c}
              /\ FA!Ends(c) \/ UNCHANGED <<faChild, faChld>>
    BY <1>4 DEF FA!SndHeartBeat
  <2>2. BeatTypes'
    BY <1>1, <2>1, BeatsSame
  <2>3. /\ faChild' \in [FaChildren -> {"starting", "up", "stuck", "zombie", "reaped"}]
        /\ faChld' \in BOOLEAN
    BY <1>1, <2>1, EndsKin, Zenon DEF KinTypes
  <2>4. faLeft' \in [FaChildren -> 0 .. FaTimes] /\ faLeaving' \subseteq FaChildren
    BY <1>1, <1>2, <2>1 DEF KinTypes, WatchInv
  <2>5. KinTypes'
    BY <1>1, <1>2, <2>3, <2>4, Zenon DEF KinTypes
  <2>6. WatchInv'
    BY <1>1, <1>2, <2>1 DEF WatchInv, KinTypes
  <2>7. ~(Works /\ faVec = FaChildren)
    <3> SUFFICES ASSUME Works, faVec = FaChildren PROVE FALSE
      OBVIOUS
    <3>1. faThere /\ \A d \in FaChildren : faQueue[d] <= 1
      BY <1>1 DEF RoomInv
    <3> QED
      BY <1>1, <1>4, <3>1, Room DEF BeatTypes
  <2>8. RoomInv'
    BY <1>1, <1>2, <2>7 DEF RoomInv, Works
  <2> QED
    BY <2>2, <2>5, <2>6, <2>8 DEF FamilyInv
<1> QED
  BY <1>3, <1>4

LEMMA RcvKeepsFamily == ASSUME FamilyInv, FA!RcvHeartBeat PROVE FamilyInv'
<1> USE FaAssumption
<1>1. KinTypes /\ BeatTypes /\ WatchInv /\ RoomInv
  BY DEF FamilyInv
<1>2. /\ UNCHANGED <<faPm, faEarly, faTodo, faShell, faInWait, faWaiters, faChld, faThere,
                     faChild, faLeft, faLeaving>>
      /\ faTimes' = [c \in FaChildren |->
                       IF c \notin faVec THEN faTimes[c]
                       ELSE IF faQueue[c] > 0 THEN FaTimes ELSE faTimes[c] - 1]
      /\ faQueue' = [c \in FaChildren |-> IF c \in faVec /\ faQueue[c] > 0
                                          THEN faQueue[c] - 1 ELSE faQueue[c]]
      /\ faVec' = {c \in faVec : faTimes'[c] > 0}
  BY DEF FA!RcvHeartBeat, FA!waits, FA!kids
<1>3. faQueue \in [FaChildren -> Nat]
  BY <1>1 DEF BeatTypes
<1>4. /\ faQueue' \in [FaChildren -> Nat]
      /\ \A c \in FaChildren : faQueue'[c] <= faQueue[c]
  BY <1>2, <1>3
<1>5. BeatTypes'
  BY <1>4, BeatsTaken DEF BeatTypes
<1>6. faTimes' \in [FaChildren -> 0 .. FaTimes] /\ faVec' \subseteq faVec
  BY <1>1, <1>2, <1>3 DEF KinTypes, WatchInv
<1>7. KinTypes'
  BY <1>1, <1>2, <1>6, Zenon DEF KinTypes
<1>8. WatchInv'
  BY <1>1, <1>2 DEF WatchInv
<1>9. RoomInv'
  <2>1. faVec' = FaChildren => faVec = FaChildren
    BY <1>1, <1>6 DEF KinTypes
  <2>2. ASSUME Works, faVec = FaChildren PROVE \A c \in FaChildren : faQueue'[c] <= 1
    BY <1>1, <1>3, <1>4, <2>2 DEF RoomInv
  <2> QED
    BY <1>1, <1>2, <2>1, <2>2 DEF RoomInv, Works
<1> QED
  BY <1>5, <1>7, <1>8, <1>9 DEF FamilyInv

LEMMA SigIntKeepsFamily == ASSUME FamilyInv, FA!SigInt PROVE FamilyInv'
<1> USE FaAssumption
<1>1. KinTypes /\ BeatTypes /\ WatchInv /\ RoomInv
  BY DEF FamilyInv
<1>2. /\ faPm' = "tell" /\ faTodo' = faVec /\ faThere' = FALSE
      /\ faQueue' = [c \in FaChildren |-> 0] /\ faEarly' = (faPm = "active")
      /\ UNCHANGED <<faVec, faTimes, faShell, faInWait, faWaiters, faChld, faChild, faLeft,
                     faLeaving>>
  BY DEF FA!SigInt, FA!waits, FA!kids
<1>3. BeatTypes'
  BY <1>1, <1>2, BeatsTaken DEF BeatTypes
<1>4. faEarly' \in BOOLEAN /\ faThere' \in BOOLEAN
  BY <1>2, Zenon
<1>5. KinTypes'
  BY <1>1, <1>2, <1>4 DEF KinTypes
<1>6. WatchInv' /\ RoomInv'
  BY <1>1, <1>2 DEF WatchInv, RoomInv, Works
<1> QED
  BY <1>3, <1>5, <1>6 DEF FamilyInv

(* What else a child or the parent does leaves beats and counts alone, and *)
(* puts nobody back to work.                                               *)
LEMMA QuietFamily ==
  ASSUME FamilyInv, KinTypes', Works' => Works,
         UNCHANGED <<faVec, faTimes, faLeft, faLeaving, faQueue, faThere>>
  PROVE  FamilyInv'
<1>1. KinTypes /\ BeatTypes /\ WatchInv /\ RoomInv
  BY DEF FamilyInv
<1>2. BeatTypes'
  BY <1>1, BeatsSame
<1>3. WatchInv' /\ RoomInv'
  BY <1>1 DEF WatchInv, RoomInv
<1> QED
  BY <1>2, <1>3 DEF FamilyInv

LEMMA ChildKeepsFamily ==
  ASSUME FamilyInv, NEW c \in FaChildren, FA!ChildReady(c) \/ FA!ChildCrashes(c)
  PROVE  FamilyInv'
<1>1. KinTypes
  BY DEF FamilyInv
<1>2. /\ UNCHANGED <<faPm, faEarly, faVec, faTimes, faTodo, faShell, faInWait, faWaiters,
                     faLeft, faLeaving, faQueue, faThere>>
      /\ \/ FA!Ends(c)
         \/ faChild' = [faChild EXCEPT ![c] = "up"] /\ UNCHANGED faChld
  BY DEF FA!ChildReady, FA!ChildCrashes, FA!parent, FA!waits
<1>3. faChild' \in [FaChildren -> {"starting", "up", "stuck", "zombie", "reaped"}]
  BY <1>1, <1>2, EndsKin DEF KinTypes
<1>4. faChld' \in BOOLEAN
  BY <1>1, <1>2, EndsKin, Zenon DEF KinTypes
<1>5. KinTypes'
  BY <1>1, <1>2, <1>3, <1>4, Zenon DEF KinTypes
<1> QED
  BY <1>2, <1>5, QuietFamily DEF Works

LEMMA ParentKeepsFamily ==
  ASSUME FamilyInv, FA!ParentReady \/ FA!Deactive \/ FA!ParentCrashes
  PROVE  FamilyInv'
<1>1. KinTypes
  BY DEF FamilyInv
<1>2. UNCHANGED <<faEarly, faVec, faTimes, faInWait, faWaiters, faLeft, faLeaving, faQueue,
                  faThere>>
  BY DEF FA!ParentReady, FA!Deactive, FA!ParentCrashes, FA!Popen, FA!Pclose, FA!NotifyExit,
         FA!waits, FA!kids
<1>3. /\ faPm' \in {"active", "monitor", "tell", "pclose", "gone", "stuck", "crashed"}
      /\ faTodo' \subseteq FaChildren
      /\ Works' => Works
  BY <1>1 DEF FA!ParentReady, FA!Deactive, FA!ParentCrashes, FA!Popen, FA!Pclose,
              FA!NotifyExit, KinTypes, Works
<1>4. faShell' \in BOOLEAN /\ faChld' \in BOOLEAN
  BY <1>1, Zenon DEF FA!ParentReady, FA!Deactive, FA!ParentCrashes, FA!Popen, FA!Pclose,
              FA!NotifyExit, KinTypes, FA!waits, FA!kids
<1>5. faChild' \in [FaChildren -> {"starting", "up", "stuck", "zombie", "reaped"}]
  <2>1. ASSUME NEW c \in FaChildren, FA!Told(c)
        PROVE  faChild' \in [FaChildren -> {"starting", "up", "stuck", "zombie", "reaped"}]
    BY <1>1, <2>1 DEF FA!Told, KinTypes
  <2> QED
    BY <1>1, <2>1 DEF FA!ParentReady, FA!Deactive, FA!ParentCrashes, FA!Popen, FA!Pclose,
                      FA!NotifyExit, KinTypes, FA!waits, FA!kids
<1>6. KinTypes'
  BY <1>1, <1>2, <1>3, <1>4, <1>5, Zenon DEF KinTypes
<1> QED
  BY <1>2, <1>3, <1>6, QuietFamily

LEMMA WaitKeepsFamily == ASSUME FamilyInv, FA!SigChld \/ FA!WaitReturns PROVE FamilyInv'
<1>1. KinTypes
  BY DEF FamilyInv
<1>2. UNCHANGED <<faPm, faEarly, faVec, faTimes, faTodo, faLeft, faLeaving, faQueue, faThere>>
  BY DEF FA!SigChld, FA!WaitReturns, FA!parent, FA!kids
<1>3. faShell' \in BOOLEAN /\ faChld' \in BOOLEAN /\ faInWait' \in BOOLEAN
  BY <1>1, Zenon DEF FA!SigChld, FA!WaitReturns, FA!Collected, KinTypes
<1>4. faWaiters' \in 0 .. FaMaxThreads
  BY <1>1, FaAssumption DEF FA!SigChld, FA!WaitReturns, KinTypes
<1>5. faChild' \in [FaChildren -> {"starting", "up", "stuck", "zombie", "reaped"}]
  BY <1>1 DEF FA!SigChld, FA!WaitReturns, FA!Collected, FA!Zombies, FA!kids, KinTypes
<1>6. KinTypes'
  BY <1>1, <1>2, <1>3, <1>4, <1>5, Zenon DEF KinTypes
<1> QED
  BY <1>2, <1>6, QuietFamily DEF Works

LEMMA FamilyStep == FamilyInv /\ [FA!Next]_(FA!vars) => FamilyInv'
<1> SUFFICES ASSUME FamilyInv, [FA!Next]_(FA!vars) PROVE FamilyInv'
  OBVIOUS
<1>1. CASE UNCHANGED FA!vars
  <2>1. UNCHANGED <<faPm, faEarly, faVec, faTimes, faTodo, faShell, faChld, faInWait,
                    faWaiters, faChild, faLeft, faLeaving, faQueue, faThere>>
    BY <1>1 DEF FA!vars, FA!parent, FA!waits, FA!kids
  <2>2. KinTypes'
    BY <2>1 DEF KinTypes, FamilyInv
  <2> QED
    BY <2>1, <2>2, QuietFamily DEF Works
<1>2. CASE FA!Next
  BY <1>2, ChildKeepsFamily, SendKeepsFamily, ParentKeepsFamily, RcvKeepsFamily,
     SigIntKeepsFamily, WaitKeepsFamily
     DEF FA!Next
<1> QED
  BY <1>1, <1>2

LEMMA FamilyHolds == FamilyBehaviour => [](FA!TypeOK /\ FA!GivesUpOnlyIfForgotten)
<1>1. FamilyInv => FA!TypeOK /\ FA!GivesUpOnlyIfForgotten
  BY FamilyType DEF FamilyInv, RoomInv, Works, FA!GivesUpOnlyIfForgotten
<1> QED
  BY <1>1, FamilyInit, FamilyStep, PTL DEF FamilyBehaviour

(***************************************************************************)
(* base_vision.cpp:275, :312: as long as the parent works and has forgotten*)
(* none of its children, the beat of each of them finds the queue and a    *)
(* place in it, so that none gives up.                                     *)
(***************************************************************************)
THEOREM EarlierFamilyKeepsOn == AnySpec => []FamilyKeepsOn
<1>1. FA!TypeOK /\ FA!GivesUpOnlyIfForgotten => FamilyKeepsOn
  BY DEF FamilyKeepsOn
<1> QED
  BY <1>1, FamilyImplemented, FamilyHolds, PTL
-----------------------------------------------------------------------------
(***************************************************************************)
(* FlightLoop.  For each child: what is behind was computed before what is *)
(* in front.                                                               *)
(***************************************************************************)
FlIndex == 0 .. FlQueueSize - 1
RingAt(x) == IF x < FlQueueSize THEN x ELSE x - FlQueueSize

LoopTypes ==
  /\ flFrames \in [FlChildren -> 0 .. FlNum] /\ flBusy \in [FlChildren -> BOOLEAN]
  /\ flArea \in [FlChildren -> FL!Results] /\ flResults \in [FlChildren -> FL!Results]
  /\ flGot \in [FlChildren -> FL!Results] /\ flHalf \in [FlChildren -> FL!Results]
  /\ flPc \in {"sendV", "sendB", "queue", "signal"} /\ flSndflg \in {0, 1}
  /\ flLastCnt \in [FlChildren -> FL!Results]
  /\ flSlots \in [FlChildren -> [FlIndex -> FL!Results]]
  /\ flStore \in [FlChildren -> FlIndex]
  /\ flFetch \in [FlChildren -> -1 .. FlQueueSize - 1]
  /\ flLastFetch \in [FlChildren -> -1 .. FlQueueSize - 1]
  /\ flPtr \in [FlChildren -> -1 .. FlQueueSize - 1]
  /\ flRun2 \in {"look", "asleep", "write", "copy"}
  /\ flSent \in [FlChildren -> [head : FL!Results, tail : FL!Results]]
  /\ flSince \in [FlChildren -> 0 .. FlQueueSize]

FlowInv(c) ==
  /\ flGot[c] <= flArea[c] /\ flArea[c] <= flResults[c]
  /\ \A i \in FlIndex : flSlots[c][i] <= flGot[c]

(* The slot queued last holds the newest result, and a result that is in   *)
(* two slots has cnt 0.                                                    *)
NewestInv(c) ==
  /\ flFetch[c] = -1 =>
       /\ flStore[c] = 0 /\ flLastCnt[c] = 0 /\ flLastFetch[c] = -1
       /\ \A i \in FlIndex : flSlots[c][i] = 0
  /\ flFetch[c] # -1 =>
       /\ flStore[c] = FL!After(flFetch[c])
       /\ flLastCnt[c] = FL!Cnt(c, flSlots[c][flFetch[c]])
       /\ \A i \in FlIndex : flSlots[c][i] <= flSlots[c][flFetch[c]]
  /\ \A i, j \in FlIndex :
       i # j /\ flSlots[c][i] = flSlots[c][j] => FL!Cnt(c, flSlots[c][i]) = 0

(* What was sent is not newer than what Run2 looked at last.               *)
SentInv(c) ==
  /\ flSent[c].head <= flSent[c].tail
  /\ flLastFetch[c] = -1 => flSent[c].tail = 0
  /\ flLastFetch[c] # -1 => flSent[c].tail <= flSlots[c][flLastFetch[c]]

(* A slot Run2 points to was newer when it looked, and is reached by the   *)
(* next rounds of the ring after QUEUE_SIZE results.                       *)
PtrInv(c) ==
  flPtr[c] # -1 =>
    /\ flLastFetch[c] = flPtr[c] /\ flRun2 \in {"write", "copy"}
    /\ flSlots[c][flPtr[c]] = flSent[c].head => FL!Cnt(c, flSent[c].head) = 0
    /\ flSince[c] < FlQueueSize => flStore[c] = RingAt(flPtr[c] + 1 + flSince[c])

CopyInv(c) ==
  flRun2 = "copy" /\ FL!Turn(c) =>
    /\ flSent[c].head <= flHalf[c] /\ flHalf[c] <= flSlots[c][flPtr[c]]
    /\ flHalf[c] = flSent[c].head => FL!Cnt(c, flHalf[c]) = 0
    /\ flSince[c] < FlQueueSize => flHalf[c] = flSlots[c][flPtr[c]]

ChildInv(c) == FlowInv(c) /\ NewestInv(c) /\ SentInv(c) /\ PtrInv(c) /\ CopyInv(c)

LoopInv == LoopTypes /\ \A c \in FlChildren : ChildInv(c)

LEMMA FlAssumption ==
  /\ FlQueueSize \in Nat \ {0} /\ FlNum \in Nat \ {0} /\ FlPeriod \in Nat \ {0}
  /\ FlMaxResults \in Nat /\ FL!Velocity \in FlChildren
  /\ FlChildren \subseteq {FL!Velocity, FL!Bm}
<1>1. FL!FlightLoopAssumption
  BY EarlierAssumption DEF EarlierAssumption
<1> QED
  BY <1>1 DEF FL!FlightLoopAssumption

LEMMA CntFacts ==
  /\ \A c : FL!Cnt(c, 0) = 0
  /\ \A c : \A r \in FL!Results : FL!Cnt(c, r) \in FL!Results
<1> USE FlAssumption
<1>1. \A x \in Nat : x % FlPeriod \in Nat /\ x % FlPeriod <= x
  <2> SUFFICES ASSUME NEW x \in Nat PROVE x % FlPeriod \in Nat /\ x % FlPeriod <= x
    OBVIOUS
  <2>1. x % FlPeriod \in 0 .. FlPeriod - 1
    OBVIOUS
  <2>2. CASE x < FlPeriod
    <3>1. x % FlPeriod = x
      BY <2>2
    <3> QED
      BY <3>1
  <2>3. CASE x >= FlPeriod
    BY <2>1, <2>3
  <2> QED
    BY <2>2, <2>3
<1>2. ASSUME NEW c, NEW r \in FL!Results PROVE FL!Cnt(c, r) \in FL!Results
  <2>1. CASE r = 0
    BY <2>1 DEF FL!Cnt, FL!Results
  <2>2. CASE r # 0
    <3>1. PICK x \in Nat : x = r - 1
      BY <2>2 DEF FL!Results
    <3>2. x % FlPeriod \in Nat /\ x % FlPeriod <= x
      BY <1>1
    <3>3. FL!Cnt(c, r) = x % FlPeriod \/ FL!Cnt(c, r) = x
      BY <2>2, <3>1 DEF FL!Cnt
    <3> QED
      BY <3>1, <3>2, <3>3 DEF FL!Results
  <2> QED
    BY <2>1, <2>2
<1> QED
  BY <1>2 DEF FL!Cnt

LEMMA LoopInit == FL!Init => LoopInv
<1> SUFFICES ASSUME FL!Init PROVE LoopInv
  OBVIOUS
<1> USE FlAssumption DEF FL!Init, FlIndex, FL!Results, FL!None
<1>1. flSent \in [FlChildren -> [head : FL!Results, tail : FL!Results]]
  OBVIOUS
<1>2. flBusy \in [FlChildren -> BOOLEAN]
  BY Zenon
<1>3. LoopTypes
  BY <1>1, <1>2 DEF LoopTypes
<1>4. ASSUME NEW c \in FlChildren PROVE ChildInv(c)
  <2>1. FlowInv(c)
    BY DEF FlowInv
  <2>2. NewestInv(c)
    BY CntFacts DEF NewestInv
  <2>3. SentInv(c) /\ PtrInv(c) /\ CopyInv(c)
    BY DEF SentInv, PtrInv, CopyInv
  <2> QED
    BY <2>1, <2>2, <2>3 DEF ChildInv
<1> QED
  BY <1>3, <1>4 DEF LoopInv

(* One child of a state that satisfies the invariant.                      *)
LEMMA ChildTypes ==
  ASSUME LoopTypes, NEW c \in FlChildren
  PROVE  /\ flArea[c] \in FL!Results /\ flResults[c] \in FL!Results
         /\ flGot[c] \in FL!Results /\ flHalf[c] \in FL!Results
         /\ flLastCnt[c] \in FL!Results
         /\ flSlots[c] \in [FlIndex -> FL!Results]
         /\ flStore[c] \in FlIndex /\ flFetch[c] \in -1 .. FlQueueSize - 1
         /\ flLastFetch[c] \in -1 .. FlQueueSize - 1
         /\ flPtr[c] \in -1 .. FlQueueSize - 1
         /\ flSent[c].head \in FL!Results /\ flSent[c].tail \in FL!Results
         /\ flSince[c] \in 0 .. FlQueueSize
  BY DEF LoopTypes

(* What leaves the ring and Run2 alone.                                    *)
LEMMA FlowKeepsLoop ==
  ASSUME LoopInv, LoopTypes', \A c \in FlChildren : FlowInv(c)',
         UNCHANGED <<flLastCnt, flSlots, flStore, flFetch, flRun2, flLastFetch, flPtr,
                     flHalf, flSent, flSince>>
  PROVE  LoopInv'
<1> SUFFICES ASSUME NEW c \in FlChildren PROVE ChildInv(c)'
  BY DEF LoopInv
<1>1. NewestInv(c) /\ SentInv(c) /\ PtrInv(c) /\ CopyInv(c)
  BY DEF LoopInv, ChildInv
<1>2. NewestInv(c)'
  BY <1>1 DEF NewestInv
<1>3. SentInv(c)'
  BY <1>1 DEF SentInv
<1>4. PtrInv(c)'
  BY <1>1 DEF PtrInv, RingAt
<1>5. CopyInv(c)'
  BY <1>1 DEF CopyInv, FL!Turn
<1> QED
  BY <1>2, <1>3, <1>4, <1>5 DEF ChildInv

LEMMA RecvDataLoop ==
  ASSUME LoopInv, NEW d \in FlChildren, FL!RecvData(d) \/ FL!Compute(d)
  PROVE  LoopInv'
<1> USE FlAssumption
<1>1. LoopTypes /\ \A c \in FlChildren : FlowInv(c)
  BY DEF LoopInv, ChildInv
<1>2. UNCHANGED <<flPc, flSndflg, flGot, flLastCnt, flSlots, flStore, flFetch, flRun2,
                  flLastFetch, flPtr, flHalf, flSent, flSince>>
  BY DEF FL!RecvData, FL!Compute, FL!rcm, FL!sender
<1>3. flBusy' \in [FlChildren -> BOOLEAN]
  BY <1>1 DEF FL!RecvData, FL!Compute, LoopTypes
<1>4. /\ flFrames' \in [FlChildren -> 0 .. FlNum]
      /\ flArea' \in [FlChildren -> FL!Results] /\ flResults' \in [FlChildren -> FL!Results]
  <2>1. /\ flFrames \in [FlChildren -> 0 .. FlNum] /\ flArea \in [FlChildren -> FL!Results]
        /\ flResults \in [FlChildren -> FL!Results]
    BY <1>1 DEF LoopTypes
  <2>2. CASE FL!RecvData(d)
    <3>1. /\ flResults' = flResults /\ flArea' = [flArea EXCEPT ![d] = flResults[d]]
          /\ \/ UNCHANGED flFrames
             \/ flFrames[d] # 0 /\ flFrames' = [flFrames EXCEPT ![d] = @ - 1]
      BY <2>2 DEF FL!RecvData
    <3> QED
      BY <2>1, <3>1
  <2>3. CASE FL!Compute(d)
    <3>1. /\ flResults' = [flResults EXCEPT ![d] = @ + 1] /\ flResults[d] < FlMaxResults
          /\ UNCHANGED <<flArea, flFrames>>
      BY <2>3 DEF FL!Compute
    <3> QED
      BY <2>1, <3>1 DEF FL!Results
  <2> QED
    BY <2>2, <2>3
<1>5. LoopTypes'
  BY <1>1, <1>2, <1>3, <1>4, Zenon DEF LoopTypes
<1>6. ASSUME NEW c \in FlChildren PROVE FlowInv(c)'
  <2>1. /\ flArea'[c] \in FL!Results /\ flResults'[c] \in FL!Results
        /\ flArea[c] \in FL!Results /\ flResults[c] \in FL!Results /\ flGot[c] \in FL!Results
        /\ \A i \in FlIndex : flSlots[c][i] \in FL!Results
    BY <1>1, <1>4 DEF LoopTypes
  <2>2. flArea[c] <= flArea'[c] /\ flArea'[c] <= flResults'[c]
    <3>1. /\ flArea \in [FlChildren -> FL!Results] /\ flResults \in [FlChildren -> FL!Results]
          /\ flArea[c] <= flResults[c]
      BY <1>1 DEF LoopTypes, FlowInv
    <3>2. CASE FL!RecvData(d)
      BY <2>1, <3>1, <3>2 DEF FL!RecvData, FL!Results
    <3>3. CASE FL!Compute(d)
      BY <2>1, <3>1, <3>3 DEF FL!Compute, FL!Results
    <3> QED
      BY <3>2, <3>3
  <2> QED
    BY <1>1, <1>2, <2>1, <2>2 DEF FlowInv, FL!Results
<1> QED
  BY <1>2, <1>5, <1>6, FlowKeepsLoop

LEMMA SendLoop ==
  ASSUME LoopInv, FL!SendVelocity \/ FL!SendRectified
  PROVE  LoopInv'
<1> USE FlAssumption
<1>1. LoopTypes /\ \A c \in FlChildren : FlowInv(c)
  BY DEF LoopInv, ChildInv
<1>2. UNCHANGED <<flArea, flBusy, flResults, flLastCnt, flSlots, flStore, flFetch, flRun2,
                  flLastFetch, flPtr, flHalf, flSent, flSince>>
  BY DEF FL!SendVelocity, FL!SendRectified, FL!sender
<1>3. \/ \E d \in FlChildren : FL!Sent(d)
      \/ UNCHANGED <<flFrames, flGot>>
  BY DEF FL!SendVelocity, FL!SendRectified
<1>4. flPc' \in {"sendV", "sendB", "queue", "signal"} /\ flSndflg' \in {0, 1}
  BY <1>1 DEF FL!SendVelocity, FL!SendRectified, LoopTypes
<1>5. /\ flFrames' \in [FlChildren -> 0 .. FlNum]
      /\ flGot' \in [FlChildren -> FL!Results]
  <2>1. /\ flFrames \in [FlChildren -> 0 .. FlNum] /\ flArea \in [FlChildren -> FL!Results]
        /\ flGot \in [FlChildren -> FL!Results]
    BY <1>1 DEF LoopTypes
  <2>2. ASSUME NEW d \in FlChildren, FL!Sent(d)
        PROVE  /\ flFrames' \in [FlChildren -> 0 .. FlNum]
               /\ flGot' \in [FlChildren -> FL!Results]
    <3>1. PICK x \in 0 .. FlNum : x = IF flFrames[d] < FlNum THEN flFrames[d] + 1 ELSE flFrames[d]
      BY <2>1
    <3>2. flFrames' = [flFrames EXCEPT ![d] = x]
      BY <2>2, <3>1 DEF FL!Sent
    <3> QED
      BY <2>1, <2>2, <3>2 DEF FL!Sent
  <2> QED
    BY <1>3, <2>1, <2>2
<1>6. LoopTypes'
  BY <1>1, <1>2, <1>4, <1>5, Zenon DEF LoopTypes
<1>7. ASSUME NEW c \in FlChildren PROVE FlowInv(c)'
  <2>1. /\ flArea[c] \in FL!Results /\ flGot[c] \in FL!Results /\ flGot'[c] \in FL!Results
        /\ \A i \in FlIndex : flSlots[c][i] \in FL!Results
    BY <1>1, <1>5 DEF LoopTypes
  <2>2. flGot'[c] = flGot[c] \/ flGot'[c] = flArea[c]
    BY <1>1, <1>3 DEF FL!Sent, LoopTypes
  <2> QED
    BY <1>1, <1>2, <2>1, <2>2 DEF FlowInv, FL!Results
<1> QED
  BY <1>2, <1>6, <1>7, FlowKeepsLoop

(* What Queue does to a child whose result it queues.                      *)
LEMMA Queued ==
  ASSUME LoopInv, FL!Queue, NEW c \in FlChildren, FL!Queues(c)
  PROVE  /\ flSlots'[c] = [flSlots[c] EXCEPT ![flStore[c]] = flGot[c]]
         /\ flStore'[c] = FL!After(flStore[c]) /\ flFetch'[c] = flStore[c]
         /\ flLastCnt'[c] = FL!Cnt(c, flGot[c])
         /\ flSince'[c] = IF flSince[c] < FlQueueSize THEN flSince[c] + 1 ELSE flSince[c]
         /\ flLastCnt[c] = 0 \/ flLastCnt[c] # FL!Cnt(c, flGot[c])
<1>1. flFetch[c] \in -1 .. FlQueueSize - 1
  BY ChildTypes DEF LoopInv
<1>2. FL!After(flFetch[c]) = flStore[c]
  BY <1>1, FlAssumption DEF LoopInv, ChildInv, NewestInv, FL!After
<1> QED
  BY <1>2 DEF FL!Queue, FL!Queues

LEMMA QueueTypes ==
  ASSUME LoopInv, FL!Queue
  PROVE  LoopTypes'
<1> USE FlAssumption
<1>1. LoopTypes
  BY DEF LoopInv
<1>2. /\ UNCHANGED <<flFrames, flArea, flBusy, flResults, flSndflg, flGot, flLastFetch, flPtr,
                     flHalf, flSent, flRun2>>
      /\ flPc' = "signal"
  BY DEF FL!Queue, FL!child, FL!sender
<1>3. \A x \in -1 .. FlQueueSize - 1 : FL!After(x) \in FlIndex
  BY DEF FL!After, FlIndex
<1>4. ASSUME NEW c \in FlChildren
      PROVE  /\ (IF FL!Queues(c) THEN [flSlots[c] EXCEPT ![flStore[c]] = flGot[c]]
                 ELSE flSlots[c]) \in [FlIndex -> FL!Results]
             /\ (IF FL!Queues(c) THEN FL!After(flStore[c]) ELSE flStore[c]) \in FlIndex
             /\ (IF FL!Queues(c) THEN FL!After(flFetch[c]) ELSE flFetch[c])
                  \in -1 .. FlQueueSize - 1
             /\ (IF FL!Queues(c) THEN FL!Cnt(c, flGot[c]) ELSE flLastCnt[c]) \in FL!Results
             /\ (IF FL!Queues(c) /\ flSince[c] < FlQueueSize THEN flSince[c] + 1
                 ELSE flSince[c]) \in 0 .. FlQueueSize
  <2>1. /\ flGot[c] \in FL!Results /\ flSlots[c] \in [FlIndex -> FL!Results]
        /\ flStore[c] \in FlIndex /\ flFetch[c] \in -1 .. FlQueueSize - 1
        /\ flLastCnt[c] \in FL!Results /\ flSince[c] \in 0 .. FlQueueSize
    BY <1>1 DEF LoopTypes
  <2>2. FL!After(flStore[c]) \in FlIndex /\ FL!After(flFetch[c]) \in FlIndex
    <3>1. flStore[c] \in -1 .. FlQueueSize - 1
      BY <2>1 DEF FlIndex
    <3>2. FL!After(flStore[c]) \in FlIndex
      BY <1>3, <3>1, Zenon
    <3>3. FL!After(flFetch[c]) \in FlIndex
      BY <1>3, <2>1, Zenon
    <3> QED
      BY <3>2, <3>3
  <2>3. FL!Cnt(c, flGot[c]) \in FL!Results
    BY <2>1, CntFacts
  <2>4. [flSlots[c] EXCEPT ![flStore[c]] = flGot[c]] \in [FlIndex -> FL!Results]
    BY <2>1
  <2> QED
    BY <2>1, <2>2, <2>3, <2>4 DEF FlIndex
<1>5. /\ flSlots' \in [FlChildren -> [FlIndex -> FL!Results]]
      /\ flStore' \in [FlChildren -> FlIndex]
      /\ flFetch' \in [FlChildren -> -1 .. FlQueueSize - 1]
      /\ flLastCnt' \in [FlChildren -> FL!Results]
      /\ flSince' \in [FlChildren -> 0 .. FlQueueSize]
  BY <1>4, Zenon DEF FL!Queue
<1> QED
  BY <1>1, <1>2, <1>5, Zenon DEF LoopTypes

LEMMA QueueLoop == ASSUME LoopInv, FL!Queue PROVE LoopInv'
<1> USE FlAssumption
<1>1. LoopTypes'
  BY QueueTypes
<1>2. UNCHANGED <<flArea, flResults, flGot, flLastFetch, flPtr, flHalf, flSent, flRun2>>
  BY DEF FL!Queue, FL!child, FL!sender
<1>3. SUFFICES ASSUME NEW c \in FlChildren PROVE ChildInv(c)'
  BY <1>1 DEF LoopInv
<1>4. FlowInv(c) /\ NewestInv(c) /\ SentInv(c) /\ PtrInv(c) /\ CopyInv(c)
  BY DEF LoopInv, ChildInv
<1>5. CASE ~FL!Queues(c)
  <2>1. /\ flSlots'[c] = flSlots[c] /\ flStore'[c] = flStore[c] /\ flFetch'[c] = flFetch[c]
        /\ flLastCnt'[c] = flLastCnt[c] /\ flSince'[c] = flSince[c]
    BY <1>5 DEF FL!Queue
  <2>2. FlowInv(c)' /\ NewestInv(c)' /\ SentInv(c)'
    BY <1>2, <1>4, <2>1 DEF FlowInv, NewestInv, SentInv
  <2>3. PtrInv(c)' /\ CopyInv(c)'
    BY <1>2, <1>4, <2>1 DEF PtrInv, CopyInv, RingAt, FL!Turn
  <2> QED
    BY <2>2, <2>3 DEF ChildInv
<1>6. CASE FL!Queues(c)
  <2>1. PICK g \in FL!Results, s \in FlIndex : g = flGot[c] /\ s = flStore[c]
    BY ChildTypes DEF LoopInv
  <2>2. PICK S \in [FlIndex -> FL!Results] : S = flSlots[c]
    BY ChildTypes DEF LoopInv
  <2>3. /\ flSlots'[c] = [S EXCEPT ![s] = g]
        /\ flStore'[c] = FL!After(s) /\ flFetch'[c] = s
        /\ flLastCnt'[c] = FL!Cnt(c, g)
        /\ flSince'[c] = IF flSince[c] < FlQueueSize THEN flSince[c] + 1 ELSE flSince[c]
        /\ flLastCnt[c] = 0 \/ flLastCnt[c] # FL!Cnt(c, g)
    BY <1>6, <2>1, <2>2, Queued
  <2>4. /\ \A i \in FlIndex : S[i] <= g /\ S[i] \in Nat
        /\ \A i \in FlIndex : i # s => flSlots'[c][i] = S[i]
        /\ flSlots'[c][s] = g /\ g \in Nat
    BY <1>4, <2>1, <2>2, <2>3 DEF FlowInv, FL!Results
  <2>5. \A i \in FlIndex : S[i] <= flSlots'[c][i] /\ flSlots'[c][i] \in Nat /\ flSlots'[c][i] <= g
    BY <2>4
  <2>6. FlowInv(c)'
    BY <1>2, <1>4, <2>1, <2>5 DEF FlowInv
  <2>7. NewestInv(c)'
    <3>1. s # -1
      BY <2>1 DEF FlIndex
    <3>2. ASSUME NEW i \in FlIndex, i # s, S[i] = g PROVE FL!Cnt(c, g) = 0
      <4>1. CASE flFetch[c] = -1
        BY <1>4, <2>2, <3>2, <4>1, CntFacts DEF NewestInv
      <4>2. CASE flFetch[c] # -1
        <5>1. PICK f \in FlIndex : f = flFetch[c]
          BY <4>2, ChildTypes DEF LoopInv, FlIndex
        <5>2. S[f] = g
          BY <1>4, <2>2, <2>4, <3>2, <4>2, <5>1 DEF NewestInv
        <5> QED
          BY <1>4, <2>2, <2>3, <4>2, <5>1, <5>2 DEF NewestInv
      <4> QED
        BY <4>1, <4>2
    <3>3. \A i, j \in FlIndex :
            i # j /\ flSlots'[c][i] = flSlots'[c][j] => FL!Cnt(c, flSlots'[c][i]) = 0
      <4> SUFFICES ASSUME NEW i \in FlIndex, NEW j \in FlIndex, i # j,
                          flSlots'[c][i] = flSlots'[c][j]
                   PROVE  FL!Cnt(c, flSlots'[c][i]) = 0
        OBVIOUS
      <4>1. CASE i = s
        BY <4>1, <2>4, <3>2
      <4>2. CASE j = s
        BY <4>2, <2>4, <3>2
      <4>3. CASE i # s /\ j # s
        BY <4>3, <1>4, <2>2, <2>4 DEF NewestInv
      <4> QED
        BY <4>1, <4>2, <4>3
    <3>4. \A i \in FlIndex : flSlots'[c][i] <= flSlots'[c][s]
      BY <2>4, <2>5
    <3> QED
      BY <2>3, <2>4, <3>1, <3>3, <3>4 DEF NewestInv
  <2>8. SentInv(c)'
    <3>1. flSent[c].tail \in Nat /\ (flLastFetch[c] # -1 => flLastFetch[c] \in FlIndex)
      BY ChildTypes DEF LoopInv, FlIndex, FL!Results
    <3>2. flLastFetch[c] # -1 => flSent[c].tail <= flSlots'[c][flLastFetch[c]]
      BY <1>4, <2>2, <2>4, <2>5, <3>1 DEF SentInv
    <3> QED
      BY <1>2, <1>4, <3>2 DEF SentInv
  <2>9. ASSUME flPtr[c] # -1
        PROVE  /\ flPtr[c] \in FlIndex
               /\ flSince'[c] < FlQueueSize =>
                    /\ flSince[c] < FlQueueSize /\ s # flPtr[c]
                    /\ FL!After(s) = RingAt(flPtr[c] + 1 + flSince'[c])
    <3>1. flPtr[c] \in FlIndex /\ flSince[c] \in 0 .. FlQueueSize
      BY <2>9, ChildTypes DEF LoopInv, FlIndex
    <3>2. flSince[c] < FlQueueSize => s = RingAt(flPtr[c] + 1 + flSince[c])
      BY <1>4, <2>1, <2>9 DEF PtrInv
    <3>3. ASSUME flSince'[c] < FlQueueSize
          PROVE  /\ flSince[c] < FlQueueSize /\ s # flPtr[c]
                 /\ FL!After(s) = RingAt(flPtr[c] + 1 + flSince'[c])
      <4>1. flSince[c] + 1 < FlQueueSize /\ flSince'[c] = flSince[c] + 1
        BY <2>3, <3>1, <3>3
      <4>2. PICK p0 \in FlIndex, k \in 0 .. FlQueueSize : p0 = flPtr[c] /\ k = flSince[c]
        BY <3>1
      <4>3. k + 1 < FlQueueSize /\ s = RingAt(p0 + 1 + k)
        BY <3>2, <4>1, <4>2
      <4>4. s # p0 /\ FL!After(s) = RingAt(p0 + 1 + (k + 1))
        BY <4>3 DEF RingAt, FL!After, FlIndex
      <4> QED
        BY <4>1, <4>2, <4>3, <4>4
    <3> QED
      BY <3>1, <3>3
  <2>10. PtrInv(c)'
    <3> SUFFICES ASSUME flPtr[c] # -1 PROVE PtrInv(c)'
      BY <1>2 DEF PtrInv
    <3>1. PICK p0 \in FlIndex : p0 = flPtr[c]
      BY <2>9
    <3>2. /\ flLastFetch[c] = p0 /\ flRun2 \in {"write", "copy"}
          /\ S[p0] = flSent[c].head => FL!Cnt(c, flSent[c].head) = 0
          /\ flSent[c].head <= S[p0] /\ flSent[c].head \in Nat
      <4>1. flSent[c].head \in Nat /\ flSent[c].tail \in Nat
        BY ChildTypes DEF LoopInv, FL!Results
      <4>2. flLastFetch[c] = p0 /\ p0 # -1
        BY <1>4, <3>1 DEF PtrInv, FlIndex
      <4> QED
        BY <1>4, <2>2, <2>4, <3>1, <4>1, <4>2 DEF PtrInv, SentInv
    <3>3. flSlots'[c][p0] = flSent[c].head => FL!Cnt(c, flSent[c].head) = 0
      BY <2>4, <2>5, <3>2
    <3>4. flSince'[c] < FlQueueSize => flStore'[c] = RingAt(p0 + 1 + flSince'[c])
      BY <2>3, <2>9, <3>1
    <3>5. flPtr'[c] = p0 /\ flLastFetch'[c] = p0 /\ flRun2' = flRun2 /\ flSent' = flSent
      BY <1>2, <3>1, <3>2
    <3> QED
      BY <3>2, <3>3, <3>4, <3>5 DEF PtrInv, RingAt
  <2>11. CopyInv(c)'
    <3> SUFFICES ASSUME flRun2 = "copy", FL!Turn(c) PROVE CopyInv(c)'
      BY <1>2 DEF CopyInv, FL!Turn
    <3>1. flPtr[c] # -1
      BY DEF FL!Turn, FL!None
    <3>2. PICK p0 \in FlIndex : p0 = flPtr[c]
      BY <2>9, <3>1
    <3>3. /\ flSent[c].head <= flHalf[c] /\ flHalf[c] <= S[p0] /\ flHalf[c] \in Nat
          /\ flHalf[c] = flSent[c].head => FL!Cnt(c, flHalf[c]) = 0
          /\ flSince[c] < FlQueueSize => flHalf[c] = S[p0]
      BY <1>4, <2>2, <3>2, ChildTypes DEF CopyInv, LoopInv, FL!Results
    <3>4. flHalf[c] <= flSlots'[c][p0]
      BY <2>4, <2>5, <3>3
    <3>5. flSince'[c] < FlQueueSize => flHalf[c] = flSlots'[c][p0]
      BY <2>4, <2>9, <3>1, <3>2, <3>3
    <3>6. flPtr'[c] = p0 /\ flHalf' = flHalf /\ flSent' = flSent
      BY <1>2, <3>2
    <3> QED
      BY <3>3, <3>4, <3>5, <3>6 DEF CopyInv
  <2> QED
    BY <2>6, <2>7, <2>8, <2>10, <2>11 DEF ChildInv
<1> QED
  BY <1>5, <1>6

LEMMA SignalLoop == ASSUME LoopInv, FL!Signal PROVE LoopInv'
<1>1. LoopTypes /\ \A c \in FlChildren : ChildInv(c)
  BY DEF LoopInv
<1>2. /\ UNCHANGED <<flFrames, flArea, flBusy, flResults, flSndflg, flGot, flLastCnt, flSlots,
                     flStore, flFetch, flLastFetch, flPtr, flHalf, flSent, flSince>>
      /\ flPc' = "sendV" /\ flRun2' = IF flRun2 = "asleep" THEN "look" ELSE flRun2
  BY DEF FL!Signal, FL!child, FL!sender
<1>3. LoopTypes'
  BY <1>1, <1>2, Zenon DEF LoopTypes
<1>4. ASSUME NEW c \in FlChildren PROVE ChildInv(c)'
  <2>1. FlowInv(c)' /\ NewestInv(c)' /\ SentInv(c)'
    BY <1>1, <1>2 DEF ChildInv, FlowInv, NewestInv, SentInv
  <2>2. PtrInv(c)' /\ CopyInv(c)'
    BY <1>1, <1>2 DEF ChildInv, PtrInv, CopyInv, RingAt, FL!Turn
  <2> QED
    BY <2>1, <2>2 DEF ChildInv
<1> QED
  BY <1>3, <1>4 DEF LoopInv

LEMMA LookLoop == ASSUME LoopInv, FL!Look PROVE LoopInv'
<1> USE FlAssumption
<1>1. LoopTypes /\ \A c \in FlChildren : ChildInv(c)
  BY DEF LoopInv
<1>2. /\ UNCHANGED <<flFrames, flArea, flBusy, flResults, flPc, flSndflg, flGot, flLastCnt,
                     flSlots, flStore, flFetch, flHalf, flSent>>
      /\ flRun2 = "look"
  BY DEF FL!Look, FL!child, FL!rcm, FL!sender
<1>3. \A c \in FlChildren : flPtr[c] = -1
  BY <1>1, <1>2 DEF ChildInv, PtrInv
<1>4. CASE \A c \in FlChildren : ~FL!IsNew(c)
  <2>1. flRun2' = "asleep" /\ UNCHANGED <<flLastFetch, flPtr, flSince>>
    BY <1>4 DEF FL!Look, FL!sender
  <2>2. LoopTypes'
    BY <1>1, <1>2, <2>1, Zenon DEF LoopTypes
  <2>3. ASSUME NEW c \in FlChildren PROVE ChildInv(c)'
    <3>1. FlowInv(c)' /\ NewestInv(c)' /\ SentInv(c)'
      BY <1>1, <1>2, <2>1 DEF ChildInv, FlowInv, NewestInv, SentInv
    <3>2. PtrInv(c)' /\ CopyInv(c)'
      BY <1>3, <2>1 DEF PtrInv, CopyInv
    <3> QED
      BY <3>1, <3>2 DEF ChildInv
  <2> QED
    BY <2>2, <2>3 DEF LoopInv
<1>5. CASE ~(\A c \in FlChildren : ~FL!IsNew(c))
  <2>1. /\ flRun2' = "write" /\ flLastFetch' = flFetch
        /\ flPtr' = [c \in FlChildren |-> IF FL!IsNew(c) THEN flFetch[c] ELSE -1]
        /\ flSince' = [c \in FlChildren |-> IF FL!IsNew(c) THEN 0 ELSE flSince[c]]
    BY <1>5 DEF FL!Look, FL!None
  <2>2. LoopTypes'
    <3>1. \A c \in FlChildren :
            /\ (IF FL!IsNew(c) THEN flFetch[c] ELSE -1) \in -1 .. FlQueueSize - 1
            /\ (IF FL!IsNew(c) THEN 0 ELSE flSince[c]) \in 0 .. FlQueueSize
      BY <1>1 DEF LoopTypes
    <3>2. /\ flPtr' \in [FlChildren -> -1 .. FlQueueSize - 1]
          /\ flSince' \in [FlChildren -> 0 .. FlQueueSize]
          /\ flLastFetch' \in [FlChildren -> -1 .. FlQueueSize - 1]
      BY <1>1, <2>1, <3>1, Zenon DEF LoopTypes
    <3> QED
      BY <1>1, <1>2, <2>1, <3>2, Zenon DEF LoopTypes
  <2>3. ASSUME NEW c \in FlChildren PROVE ChildInv(c)'
    <3>1. FlowInv(c) /\ NewestInv(c) /\ SentInv(c)
      BY <1>1 DEF ChildInv
    <3>2. FlowInv(c)' /\ NewestInv(c)'
      BY <1>2, <2>1, <3>1 DEF FlowInv, NewestInv
    <3>3. /\ flFetch[c] \in -1 .. FlQueueSize - 1 /\ flLastFetch[c] \in -1 .. FlQueueSize - 1
          /\ flSent[c].head \in Nat /\ flSent[c].tail \in Nat
          /\ \A i \in FlIndex : flSlots[c][i] \in Nat
      <4>1. flSlots[c] \in [FlIndex -> FL!Results]
        BY <1>1, ChildTypes
      <4>2. \A i \in FlIndex : flSlots[c][i] \in Nat
        BY <4>1 DEF FL!Results
      <4>3. /\ flFetch[c] \in -1 .. FlQueueSize - 1 /\ flLastFetch[c] \in -1 .. FlQueueSize - 1
            /\ flSent[c].head \in Nat /\ flSent[c].tail \in Nat
        BY <1>1, ChildTypes DEF FL!Results
      <4> QED
        BY <4>2, <4>3
    <3>4. CASE flFetch[c] = -1
      <4>1. flLastFetch[c] = -1 /\ flLastFetch'[c] = -1 /\ flPtr'[c] = -1
        BY <2>1, <3>1, <3>4 DEF NewestInv
      <4>2. SentInv(c)'
        BY <1>2, <3>1, <4>1 DEF SentInv
      <4>3. PtrInv(c)' /\ CopyInv(c)'
        BY <2>1, <4>1 DEF PtrInv, CopyInv
      <4> QED
        BY <3>2, <4>2, <4>3 DEF ChildInv
    <3>5. CASE flFetch[c] # -1
      <4>1. PICK f \in FlIndex : f = flFetch[c]
        BY <3>3, <3>5 DEF FlIndex
      <4>2. /\ flStore[c] = FL!After(f) /\ f # -1
            /\ \A i \in FlIndex : flSlots[c][i] <= flSlots[c][f]
        BY <3>1, <4>1 DEF NewestInv, FlIndex
      <4>3. flLastFetch[c] # -1 => flLastFetch[c] \in FlIndex
        BY <3>3 DEF FlIndex
      <4>4. flSent[c].tail <= flSlots[c][f]
        <5>1. CASE flLastFetch[c] = -1
          BY <3>1, <3>3, <4>1, <5>1 DEF SentInv
        <5>2. CASE flLastFetch[c] # -1
          BY <3>1, <3>3, <4>1, <4>2, <4>3, <5>2 DEF SentInv
        <5> QED
          BY <5>1, <5>2
      <4>5. flLastFetch'[c] = f /\ flSent' = flSent /\ flSlots' = flSlots
        BY <1>2, <2>1, <4>1
      <4>6. SentInv(c)'
        BY <3>1, <4>2, <4>4, <4>5 DEF SentInv
      <4>7. CASE ~FL!IsNew(c)
        <5>1. flPtr'[c] = -1
          BY <2>1, <4>7
        <5> QED
          BY <2>1, <3>2, <4>6, <5>1 DEF PtrInv, CopyInv, ChildInv
      <4>8. CASE FL!IsNew(c)
        <5>1. flPtr'[c] = f /\ flSince'[c] = 0 /\ flLastFetch[c] # f
          BY <2>1, <4>1, <4>8 DEF FL!IsNew
        <5>2. flSlots[c][f] = flSent[c].head => FL!Cnt(c, flSent[c].head) = 0
          <6> SUFFICES ASSUME flSlots[c][f] = flSent[c].head
                       PROVE  FL!Cnt(c, flSent[c].head) = 0
            OBVIOUS
          <6>1. CASE flLastFetch[c] = -1
            <7>1. flSent[c].head = 0
              BY <3>1, <3>3, <6>1 DEF SentInv
            <7> QED
              BY <7>1, CntFacts
          <6>2. CASE flLastFetch[c] # -1
            <7>1. PICK l \in FlIndex : l = flLastFetch[c]
              BY <4>3, <6>2
            <7>2. flSlots[c][l] = flSlots[c][f]
              BY <3>1, <3>3, <4>1, <4>2, <6>2, <7>1 DEF SentInv
            <7> QED
              BY <3>1, <4>1, <5>1, <7>1, <7>2 DEF NewestInv
          <6> QED
            BY <6>1, <6>2
        <5>3. flStore[c] = RingAt(f + 1 + 0)
          BY <4>1, <4>2 DEF RingAt, FL!After, FlIndex
        <5>4. PtrInv(c)'
          BY <1>2, <2>1, <4>5, <5>1, <5>2, <5>3 DEF PtrInv, RingAt
        <5>5. CopyInv(c)'
          BY <2>1 DEF CopyInv
        <5> QED
          BY <3>2, <4>6, <5>4, <5>5 DEF ChildInv
      <4> QED
        BY <4>7, <4>8
    <3> QED
      BY <3>4, <3>5
  <2> QED
    BY <2>2, <2>3 DEF LoopInv
<1> QED
  BY <1>4, <1>5

LEMMA OneTurn ==
  ASSUME NEW c \in FlChildren, NEW d \in FlChildren, FL!Turn(c), FL!Turn(d)
  PROVE  c = d
  BY FlAssumption DEF FL!Turn

LEMMA WriteBeginsLoop == ASSUME LoopInv, NEW d \in FlChildren, FL!WriteBegins(d) PROVE LoopInv'
<1> USE FlAssumption
<1>1. LoopTypes /\ \A c \in FlChildren : ChildInv(c)
  BY DEF LoopInv
<1>2. /\ UNCHANGED <<flFrames, flArea, flBusy, flResults, flPc, flSndflg, flGot, flLastCnt,
                     flSlots, flStore, flFetch, flLastFetch, flPtr, flSent, flSince>>
      /\ flRun2 = "write" /\ flRun2' = "copy" /\ FL!Turn(d)
      /\ flHalf' = [flHalf EXCEPT ![d] = flSlots[d][flPtr[d]]]
  BY DEF FL!WriteBegins, FL!child, FL!rcm
<1>3. PICK p0 \in FlIndex : p0 = flPtr[d] /\ p0 # -1
  <2>1. flPtr[d] \in -1 .. FlQueueSize - 1 /\ flPtr[d] # -1
    BY <1>1, <1>2, ChildTypes DEF FL!Turn, FL!None
  <2> QED
    BY <2>1 DEF FlIndex
<1>4. flSlots[d][p0] \in FL!Results
  BY <1>1, ChildTypes
<1>5. flHalf' \in [FlChildren -> FL!Results] /\ flHalf'[d] = flSlots[d][p0]
  BY <1>1, <1>2, <1>3, <1>4 DEF LoopTypes
<1>6. LoopTypes'
  BY <1>1, <1>2, <1>5, Zenon DEF LoopTypes
<1>7. ASSUME NEW c \in FlChildren PROVE ChildInv(c)'
  <2>1. FlowInv(c)' /\ NewestInv(c)' /\ SentInv(c)'
    BY <1>1, <1>2 DEF ChildInv, FlowInv, NewestInv, SentInv
  <2>2. PtrInv(c)'
    BY <1>1, <1>2 DEF ChildInv, PtrInv, RingAt
  <2>3. CASE c # d
    <3>1. ~FL!Turn(c)'
      BY <1>2, <2>3, OneTurn DEF FL!Turn
    <3> QED
      BY <2>1, <2>2, <3>1 DEF ChildInv, CopyInv
  <2>4. CASE c = d
    <3>1. /\ flSent[d].head \in Nat /\ flSent[d].tail \in Nat /\ flSlots[d][p0] \in Nat
      BY <1>1, <1>4, ChildTypes DEF FL!Results
    <3>2. /\ flSent[d].head <= flSlots[d][p0]
          /\ flSlots[d][p0] = flSent[d].head => FL!Cnt(d, flSent[d].head) = 0
      <4>1. SentInv(d) /\ PtrInv(d)
        BY <1>1 DEF ChildInv
      <4>2. flLastFetch[d] = p0
        BY <1>3, <4>1 DEF PtrInv
      <4> QED
        BY <1>3, <3>1, <4>1, <4>2 DEF PtrInv, SentInv
    <3>3. CopyInv(d)'
      BY <1>2, <1>3, <1>5, <3>1, <3>2 DEF CopyInv
    <3> QED
      BY <2>1, <2>2, <2>4, <3>3 DEF ChildInv
  <2> QED
    BY <2>3, <2>4
<1> QED
  BY <1>6, <1>7 DEF LoopInv

LEMMA WriteEndsLoop == ASSUME LoopInv, NEW d \in FlChildren, FL!WriteEnds(d) PROVE LoopInv'
<1> USE FlAssumption
<1>1. LoopTypes /\ \A c \in FlChildren : ChildInv(c)
  BY DEF LoopInv
<1>2. /\ UNCHANGED <<flFrames, flArea, flBusy, flResults, flPc, flSndflg, flGot, flLastCnt,
                     flSlots, flStore, flFetch, flLastFetch, flHalf, flSince>>
      /\ flRun2 = "copy" /\ flRun2' = "write" /\ FL!Turn(d)
      /\ flPtr' = [flPtr EXCEPT ![d] = -1]
      /\ flSent' = [flSent EXCEPT ![d] = [head |-> flHalf[d], tail |-> flSlots[d][flPtr[d]]]]
  BY DEF FL!WriteEnds, FL!child, FL!rcm, FL!None
<1>3. PICK p0 \in FlIndex : p0 = flPtr[d] /\ p0 # -1
  <2>1. flPtr[d] \in -1 .. FlQueueSize - 1 /\ flPtr[d] # -1
    BY <1>1, <1>2, ChildTypes DEF FL!Turn, FL!None
  <2> QED
    BY <2>1 DEF FlIndex
<1>4. flSlots[d][p0] \in FL!Results /\ flHalf[d] \in FL!Results
  BY <1>1, ChildTypes
<1>5. flPtr \in [FlChildren -> -1 .. FlQueueSize - 1]
      /\ flSent \in [FlChildren -> [head : FL!Results, tail : FL!Results]]
  BY <1>1 DEF LoopTypes
<1>6. flPtr' \in [FlChildren -> -1 .. FlQueueSize - 1] /\ flPtr'[d] = -1
      /\ \A c \in FlChildren : c # d => flPtr'[c] = flPtr[c]
  BY <1>2, <1>5
<1>7. /\ flSent' \in [FlChildren -> [head : FL!Results, tail : FL!Results]]
      /\ flSent'[d].head = flHalf[d] /\ flSent'[d].tail = flSlots[d][p0]
      /\ \A c \in FlChildren : c # d => flSent'[c] = flSent[c]
  BY <1>2, <1>3, <1>4, <1>5
<1>8. LoopTypes'
  BY <1>1, <1>2, <1>6, <1>7, Zenon DEF LoopTypes
<1>9. ASSUME NEW c \in FlChildren PROVE ChildInv(c)'
  <2>1. FlowInv(c)' /\ NewestInv(c)'
    BY <1>1, <1>2 DEF ChildInv, FlowInv, NewestInv
  <2>2. CopyInv(c)'
    BY <1>2 DEF CopyInv
  <2>3. CASE c # d
    <3>1. flSent'[c] = flSent[c] /\ flPtr'[c] = flPtr[c]
      BY <1>6, <1>7, <2>3
    <3>2. SentInv(c)'
      BY <1>1, <1>2, <3>1 DEF ChildInv, SentInv
    <3>3. PtrInv(c)'
      BY <1>1, <1>2, <3>1 DEF ChildInv, PtrInv, RingAt
    <3> QED
      BY <2>1, <2>2, <3>2, <3>3 DEF ChildInv
  <2>4. CASE c = d
    <3>1. CopyInv(d) /\ PtrInv(d)
      BY <1>1 DEF ChildInv
    <3>2. flHalf[d] <= flSlots[d][p0] /\ flLastFetch[d] = p0
      BY <1>2, <1>3, <3>1 DEF CopyInv, PtrInv
    <3>3. flSlots[d][p0] <= flSlots[d][p0]
      BY <1>4 DEF FL!Results
    <3>4. SentInv(d)'
      BY <1>2, <1>3, <1>7, <3>2, <3>3 DEF SentInv
    <3>5. PtrInv(d)'
      BY <1>6 DEF PtrInv
    <3> QED
      BY <2>1, <2>2, <2>4, <3>4, <3>5 DEF ChildInv
  <2> QED
    BY <2>3, <2>4
<1> QED
  BY <1>8, <1>9 DEF LoopInv

LEMMA WriteDoneLoop == ASSUME LoopInv, FL!WriteDone \/ UNCHANGED FL!vars PROVE LoopInv'
<1>1. LoopTypes /\ \A c \in FlChildren : ChildInv(c)
  BY DEF LoopInv
<1>2. /\ UNCHANGED <<flFrames, flArea, flBusy, flResults, flPc, flSndflg, flGot, flLastCnt,
                     flSlots, flStore, flFetch, flLastFetch, flPtr, flHalf, flSent, flSince>>
      /\ \/ flRun2' = flRun2
         \/ flRun2' = "look" /\ \A c \in FlChildren : flPtr[c] = -1
  BY DEF FL!WriteDone, FL!vars, FL!child, FL!rcm, FL!sender, FL!None
<1>3. LoopTypes'
  BY <1>1, <1>2, Zenon DEF LoopTypes
<1>4. ASSUME NEW c \in FlChildren PROVE ChildInv(c)'
  <2>1. FlowInv(c)' /\ NewestInv(c)' /\ SentInv(c)'
    BY <1>1, <1>2 DEF ChildInv, FlowInv, NewestInv, SentInv
  <2>2. PtrInv(c)'
    BY <1>1, <1>2 DEF ChildInv, PtrInv, RingAt
  <2>3. CopyInv(c)'
    BY <1>1, <1>2 DEF ChildInv, CopyInv, FL!Turn
  <2> QED
    BY <2>1, <2>2, <2>3 DEF ChildInv
<1> QED
  BY <1>3, <1>4 DEF LoopInv

LEMMA LoopStep == LoopInv /\ [FL!Next]_(FL!vars) => LoopInv'
  BY RecvDataLoop, SendLoop, QueueLoop, SignalLoop, LookLoop, WriteBeginsLoop, WriteEndsLoop,
     WriteDoneLoop
     DEF FL!Next, FL!Run, FL!Run2

LEMMA LoopTypeOK == LoopInv => FL!TypeOK
<1> SUFFICES ASSUME LoopTypes PROVE FL!TypeOK
  BY DEF LoopInv
<1>1. /\ {flArea, flResults, flGot, flHalf} \subseteq [FlChildren -> FL!Results]
      /\ {flFetch, flLastFetch, flPtr} \subseteq [FlChildren -> -1 .. FlQueueSize - 1]
  BY DEF LoopTypes
<1> QED
  BY <1>1, Zenon DEF FL!TypeOK, LoopTypes, FlIndex, FL!Results

(* The only step that sends, and what it sends.                            *)
LEMMA SendStep ==
  ASSUME LoopInv, [FL!Next]_(FL!vars), NEW c \in FlChildren
  PROVE  flSent'[c] # flSent[c] =>
              /\ flSent'[c] = [head |-> flHalf[c], tail |-> flSlots[c][flPtr[c]]]
              /\ flRun2 = "copy" /\ FL!Turn(c)
<1>1. flSent \in [FlChildren -> [head : FL!Results, tail : FL!Results]]
  BY DEF LoopInv, LoopTypes
<1>2. ASSUME NEW d \in FlChildren, FL!WriteEnds(d), flSent'[c] # flSent[c]
      PROVE  /\ flSent'[c] = [head |-> flHalf[c], tail |-> flSlots[c][flPtr[c]]]
             /\ flRun2 = "copy" /\ FL!Turn(c)
  BY <1>1, <1>2 DEF FL!WriteEnds
<1>3. \/ \E d \in FlChildren : FL!WriteEnds(d)
      \/ UNCHANGED flSent
  BY DEF FL!Next, FL!Run, FL!Run2, FL!RecvData, FL!Compute, FL!SendVelocity, FL!SendRectified,
         FL!Queue, FL!Signal, FL!Look, FL!WriteBegins, FL!WriteDone, FL!sender, FL!vars
<1> QED
  BY <1>2, <1>3

LEMMA LoopHolds ==
  LoopBehaviour =>
    []FL!TypeOK /\ FL!WholeUnlessOvertaken /\ FL!NeverBack /\ FL!OnceUnlessZero
<1>1. ASSUME LoopInv, [FL!Next]_(FL!vars), NEW c \in FlChildren
      PROVE  /\ flSent'[c] # flSent[c] /\ flSince[c] < FlQueueSize =>
                  flSent'[c].head = flSent'[c].tail
             /\ flSent'[c].head >= flSent[c].head /\ flSent'[c].tail >= flSent[c].tail
             /\ flRun2 = "copy" /\ flRun2' = "write" /\ FL!Turn(c)
                  /\ flHalf[c] = flSent[c].head => FL!Cnt(c, flHalf[c]) = 0
  <2>1. CopyInv(c) /\ PtrInv(c) /\ SentInv(c)
    BY <1>1 DEF LoopInv, ChildInv
  <2>2. /\ flSent[c].head \in Nat /\ flSent[c].tail \in Nat /\ flHalf[c] \in Nat
        /\ flPtr[c] # -1 => flSlots[c][flPtr[c]] \in Nat
    <3>1. flPtr[c] # -1 => flPtr[c] \in FlIndex
      BY <1>1, ChildTypes, FlAssumption DEF LoopInv, FlIndex
    <3> QED
      BY <1>1, <3>1, ChildTypes DEF LoopInv, FL!Results
  <2>3. CASE flSent'[c] = flSent[c]
    BY <2>1, <2>2, <2>3 DEF CopyInv
  <2>4. CASE flSent'[c] # flSent[c]
    <3>1. /\ flSent'[c].head = flHalf[c] /\ flSent'[c].tail = flSlots[c][flPtr[c]]
          /\ flRun2 = "copy" /\ FL!Turn(c)
      <4>1. /\ flSent'[c] = [head |-> flHalf[c], tail |-> flSlots[c][flPtr[c]]]
            /\ flRun2 = "copy" /\ FL!Turn(c)
        BY <1>1, <2>4, SendStep, Zenon
      <4> QED
        BY <4>1
    <3>2. flPtr[c] # -1
      BY <3>1 DEF FL!Turn, FL!None
    <3>3. /\ flSent[c].head <= flHalf[c]
          /\ flHalf[c] = flSent[c].head => FL!Cnt(c, flHalf[c]) = 0
          /\ flSince[c] < FlQueueSize => flHalf[c] = flSlots[c][flPtr[c]]
      BY <2>1, <3>1 DEF CopyInv
    <3>4. flSent[c].tail <= flSlots[c][flPtr[c]]
      BY <2>1, <3>2 DEF PtrInv, SentInv
    <3> QED
      BY <2>2, <3>1, <3>2, <3>3, <3>4
  <2> QED
    BY <2>3, <2>4
<1>2. LoopInv /\ [FL!Next]_(FL!vars) =>
        [\A c \in FlChildren :
           flSent'[c] # flSent[c] /\ flSince[c] < FlQueueSize =>
             flSent'[c].head = flSent'[c].tail]_(FL!vars)
  BY <1>1
<1>3. LoopInv /\ [FL!Next]_(FL!vars) =>
        [\A c \in FlChildren : flSent'[c].head >= flSent[c].head
                               /\ flSent'[c].tail >= flSent[c].tail]_(FL!vars)
  BY <1>1
<1>4. LoopInv /\ [FL!Next]_(FL!vars) =>
        [\A c \in FlChildren :
           flRun2 = "copy" /\ flRun2' = "write" /\ FL!Turn(c) /\ flHalf[c] = flSent[c].head
             => FL!Cnt(c, flHalf[c]) = 0]_(FL!vars)
  BY <1>1
<1> QED
  BY <1>2, <1>3, <1>4, LoopInit, LoopStep, LoopTypeOK, PTL
     DEF LoopBehaviour, FL!WholeUnlessOvertaken, FL!NeverBack, FL!OnceUnlessZero

(***************************************************************************)
(* visionRcm.cpp:201, :204, :312, :320: a packet holds one result unless   *)
(* QUEUE_SIZE results came while Run2 used its pointer, an older result    *)
(* never follows a newer one, and none but one with cnt 0 goes out twice.  *)
(***************************************************************************)
THEOREM EarlierResultsGoOut == AnySpec => ResultsGoOut
  BY LoopImplemented, LoopHolds, PTL DEF ResultsGoOut
=============================================================================
