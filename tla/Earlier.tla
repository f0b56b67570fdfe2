------------------------------- MODULE Earlier -------------------------------
(***************************************************************************)
(* The programs before V2.0: of the first version SemRing (the transport,  *)
(* its own variables), FlightLoop, StoreQueue and Family; of the prototype *)
(* ProtoFrames, ProtoExit and ProtoPoll.  They share a run and no state: a *)
(* behaviour is one of the module in "part", and the others stay in one of *)
(* their initial states.                                                   *)
(***************************************************************************)
EXTENDS SemRing

CONSTANTS
  FlChildren, FlNum, FlQueueSize, FlPeriod, FlMaxResults,  \* FlightLoop
  SqSize, SqMaxNodes,                                      \* StoreQueue
  FaChildren, FaTimes, FaCapacity, FaMaxThreads,           \* Family
  Pool, Ring, MaxReads,                                    \* ProtoFrames
  MaxSignals, MaxFrames,                                   \* ProtoExit
  Fds                                                      \* ProtoPoll

VARIABLES
  part,
  flFrames, flArea, flBusy, flResults, flPc, flSndflg, flGot, flLastCnt,
  flSlots, flStore, flFetch, flRun2, flLastFetch, flPtr, flHalf, flSent, flSince,
  sqQueue, sqCnt, sqFetch, sqStore, sqIndex, sqRun, sqNode, sqRun1, sqHeld,
  sqFiles, sqDropped,
  faPm, faEarly, faVec, faTimes, faTodo, faShell, faChld, faInWait, faWaiters,
  faChild, faLeft, faLeaving, faQueue, faThere,
  pfRunning, pfReads, pfReader, pfNode, pfHead, pfTail, pfProc, pfPNode, pfRing,
  pfStorePos, pfFetchPos, pfFileIndex, pfStore, pfP, pfWaiting, pfLapped,
  pfOut, pfDropped,
  peMain, peReader, peHandler, peOwner, peICond, peRunning, peCancelled,
  peMapped, peEnded, peSignals, peFrames, peEarly, peLate,
  ppReader, ppStFd, ppPFd, ppFile, ppImgFd, ppFlag, ppFresh, ppRaced, ppSpoiled

FL == INSTANCE FlightLoop WITH
        Children <- FlChildren, Num <- FlNum, QueueSize <- FlQueueSize,
        Period <- FlPeriod, MaxResults <- FlMaxResults,
        frames <- flFrames, area <- flArea, busy <- flBusy, results <- flResults,
        pc <- flPc, sndflg <- flSndflg, got <- flGot, lastCnt <- flLastCnt,
        slots <- flSlots, store <- flStore, fetch <- flFetch, run2 <- flRun2,
        lastFetch <- flLastFetch, ptr <- flPtr, half <- flHalf, sent <- flSent,
        since <- flSince

SQ == INSTANCE StoreQueue WITH
        Size <- SqSize, MaxNodes <- SqMaxNodes,
        queue <- sqQueue, cnt <- sqCnt, fetch <- sqFetch, store <- sqStore,
        index <- sqIndex, run <- sqRun, node <- sqNode, run1 <- sqRun1,
        held <- sqHeld, files <- sqFiles, dropped <- sqDropped

FA == INSTANCE Family WITH
        Children <- FaChildren, Times <- FaTimes, Capacity <- FaCapacity,
        MaxThreads <- FaMaxThreads,
        pm <- faPm, early <- faEarly, vec <- faVec, times <- faTimes,
        todo <- faTodo, shell <- faShell, chld <- faChld, inWait <- faInWait,
        waiters <- faWaiters, child <- faChild, left <- faLeft,
        leaving <- faLeaving, queue <- faQueue, there <- faThere

PF == INSTANCE ProtoFrames WITH
        running <- pfRunning, reads <- pfReads, reader <- pfReader,
        node <- pfNode, head <- pfHead, tail <- pfTail, proc <- pfProc,
        pNode <- pfPNode, ring <- pfRing, storePos <- pfStorePos,
        fetchPos <- pfFetchPos, fileIndex <- pfFileIndex, store <- pfStore,
        p <- pfP, waiting <- pfWaiting, lapped <- pfLapped, out <- pfOut,
        dropped <- pfDropped

PE == INSTANCE ProtoExit WITH
        main <- peMain, reader <- peReader, handler <- peHandler,
        owner <- peOwner, iCond <- peICond, running <- peRunning,
        cancelled <- peCancelled, mapped <- peMapped, ended <- peEnded,
        signals <- peSignals, frames <- peFrames, early <- peEarly, late <- peLate

PP == INSTANCE ProtoPoll WITH
        reader <- ppReader, stFd <- ppStFd, pFd <- ppPFd, file <- ppFile,
        imgFd <- ppImgFd, flag <- ppFlag, fresh <- ppFresh, raced <- ppRaced,
        spoiled <- ppSpoiled

ASSUME EarlierAssumption ==
  /\ FL!FlightLoopAssumption /\ SQ!StoreQueueAssumption /\ FA!FamilyAssumption
  /\ PF!ProtoFramesAssumption /\ PE!ProtoExitAssumption /\ PP!ProtoPollAssumption
-----------------------------------------------------------------------------
flVars == <<flFrames, flArea, flBusy, flResults, flPc, flSndflg, flGot, flLastCnt,
            flSlots, flStore, flFetch, flRun2, flLastFetch, flPtr, flHalf, flSent,
            flSince>>
sqVars == <<sqQueue, sqCnt, sqFetch, sqStore, sqIndex, sqRun, sqNode, sqRun1,
            sqHeld, sqFiles, sqDropped>>
faVars == <<faPm, faEarly, faVec, faTimes, faTodo, faShell, faChld, faInWait,
            faWaiters, faChild, faLeft, faLeaving, faQueue, faThere>>
pfVars == <<pfRunning, pfReads, pfReader, pfNode, pfHead, pfTail, pfProc, pfPNode,
            pfRing, pfStorePos, pfFetchPos, pfFileIndex, pfStore, pfP, pfWaiting,
            pfLapped, pfOut, pfDropped>>
peVars == <<peMain, peReader, peHandler, peOwner, peICond, peRunning, peCancelled,
            peMapped, peEnded, peSignals, peFrames, peEarly, peLate>>
ppVars == <<ppReader, ppStFd, ppPFd, ppFile, ppImgFd, ppFlag, ppFresh, ppRaced,
            ppSpoiled>>
AnyVars == <<part, vars, flVars, sqVars, faVars, pfVars, peVars, ppVars>>

AnyInit ==
  /\ part \in {"ring", "loop", "store", "family", "frames", "exit", "poll"}
  /\ Init /\ FL!Init /\ FA!Init /\ PF!Init /\ PE!Init
  /\ SQ!Init /\ (part # "store" => sqQueue = [s \in 0 .. SqSize - 1 |-> -1])
  /\ PP!Init /\ (part # "poll" => ppFresh)

AnyNext ==
  /\ UNCHANGED part
  /\ \/ /\ part = "ring" /\ Next
        /\ UNCHANGED <<flVars, sqVars, faVars, pfVars, peVars, ppVars>>
     \/ /\ part = "loop" /\ FL!Next
        /\ UNCHANGED <<vars, sqVars, faVars, pfVars, peVars, ppVars>>
     \/ /\ part = "store" /\ SQ!Next
        /\ UNCHANGED <<vars, flVars, faVars, pfVars, peVars, ppVars>>
     \/ /\ part = "family" /\ FA!Next
        /\ UNCHANGED <<vars, flVars, sqVars, pfVars, peVars, ppVars>>
     \/ /\ part = "frames" /\ PF!Next
        /\ UNCHANGED <<vars, flVars, sqVars, faVars, peVars, ppVars>>
     \/ /\ part = "exit" /\ PE!Next
        /\ UNCHANGED <<vars, flVars, sqVars, faVars, pfVars, ppVars>>
     \/ /\ part = "poll" /\ PP!Next
        /\ UNCHANGED <<vars, flVars, sqVars, faVars, pfVars, peVars>>

(* The modules say why their steps are fair.                               *)
AnySpec ==
  /\ AnyInit /\ [][AnyNext]_AnyVars
  /\ \A q \in Procs :
       WF_vars(part = "ring" /\ Step(q)) /\ SF_vars(part = "ring" /\ Enter(q))
  /\ WF_flVars(part = "loop" /\ FL!Run) /\ WF_flVars(part = "loop" /\ FL!Run2)
  /\ \A c \in FlChildren : WF_flVars(part = "loop" /\ FL!RecvData(c))
  /\ WF_sqVars(part = "store" /\ (SQ!Insert \/ SQ!Signal))
  /\ WF_sqVars(part = "store" /\ SQ!Run1)
  /\ \A c \in FaChildren :
       /\ WF_faVars(part = "family" /\ FA!ChildReady(c))
       /\ WF_faVars(part = "family" /\ FA!SndHeartBeat(c))
  /\ WF_faVars(part = "family" /\ FA!RcvHeartBeat)
  /\ WF_faVars(part = "family" /\ FA!Deactive)
  /\ WF_faVars(part = "family" /\ FA!SigChld)
  /\ WF_faVars(part = "family" /\ FA!WaitReturns)
  /\ WF_peVars(part = "exit" /\ PE!MainStep)
  /\ WF_peVars(part = "exit" /\ PE!ReaderStep)
  /\ \A t \in {"main", "reader"} : WF_peVars(part = "exit" /\ PE!HandlerStep(t))
  /\ WF_ppVars(part = "poll" /\ PP!ReaderStep) /\ WF_ppVars(part = "poll" /\ PP!Frame)
-----------------------------------------------------------------------------
(* SemRing: one at a time and in order inside the ring, and the semaphore  *)
(* as its users left it.                                                   *)
RingIsShared == TypeOK /\ Exclusive /\ RingInOrder /\ CopiesInside /\ SemaphoreBalanced

(* FlightLoop: results leave whole unless Run2 was overtaken, never an     *)
(* older one after a newer, and only one with cnt 0 twice.                 *)
ResultsGoOut ==
  /\ []FL!TypeOK
  /\ FL!WholeUnlessOvertaken /\ FL!NeverBack /\ FL!OnceUnlessZero

(* StoreQueue: it implements BoundedFifo, and the numbers that no file has *)
(* are those of refused nodes.                                             *)
ImagesAreStored ==
  /\ [](SQ!TypeOK /\ SQ!GapsAreDrops)
  /\ SQ!FifoSpec

(* Family: a child gives up beside a parent that works only if the parent  *)
(* has forgotten one.                                                      *)
FamilyKeepsOn == FA!TypeOK /\ FA!GivesUpOnlyIfForgotten

(* ProtoFrames: until the pool is lapped the list is the waiting frames, a *)
(* record has one fate, and the order of the lines and the storing thread  *)
(* go wrong only after a record was overwritten.  ProtoExit: main passes   *)
(* Monitor only when the threads end, and only a reader blocked for longer *)
(* than the sleep reads unmapped memory.  ProtoPoll: no file stays open,   *)
(* and harm comes only from one opened while the flag's was closed.        *)
PrototypeHolds ==
  /\ part = "frames" =>
       /\ PF!TypeOK /\ PF!ListIsWhole /\ PF!OneFate
       /\ PF!LinesInOrder /\ PF!SleepsOnlyAfterDrop
  /\ part = "exit" => PE!TypeOK /\ PE!NobodyForgotten /\ PE!FaultsOnlyLate
  /\ part = "poll" => PP!TypeOK /\ PP!NoFileLeft /\ PP!HarmOnlyByRace

(* What must happen in the end: who waits for the semaphore gets it; the   *)
(* newest result goes out; every node that was not refused is written; a   *)
(* SIGINT ends everyone that has reached Monitor, and the crash of the     *)
(* parent its children; the prototype ends when it is told to, but for an  *)
(* early SIGINT, and until then frames go on being read, unless a file was *)
(* opened while the flag's was closed.                                     *)
EarlierGoesOn ==
  /\ NobodyStarves /\ FL!NewestIsSent /\ SQ!EveryNodeIsWritten /\ FA!EveryoneEnds
  /\ PE!EndsWhenTold /\ []<>(part = "poll" => PP!GoesOn)
=============================================================================
