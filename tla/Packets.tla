------------------------------ MODULE Packets -------------------------------
(***************************************************************************)
(* The readers that have to find packets in a stream: CanWire (the CAN     *)
(* readers of V2.0, with checksums), Sbus (its S-bus tool), OldPackets     *)
(* (first version), ImuStart and ImuReceiver (prototype).  They share a    *)
(* run and no state: a behaviour is one of the reader in "which", and the  *)
(* others stay in one of their initial states.                             *)
(***************************************************************************)
EXTENDS Integers, Sequences, FiniteSets

CONSTANTS
  Crc8(_), Crc16(_), XorByte(_, _),        \* CanWire: sums and bytes
  CwContents, CwIds, CwCmd, CwKey, CwBufSize, CwStale, CwBits,
  CwMaxPackets, CwMaxLost, CwMaxFlips, \* CanWire: bounds
  SbSize,                              \* Sbus: bytes of a packet
  OpLens, OpMaxPackets, OpMaxLost,     \* OldPackets: lengths of the data, bounds
  IsSize, IsKeyAt, IsMaxPackets, IsMaxLost,  \* ImuStart: frames, the key's, bounds
  IrSize, IrNum, IrMaxPackets, IrMaxLost     \* ImuReceiver: frames, records, bounds

VARIABLES
  which,
  cwId, cwContent, cwSndData, cwSndPos, cwWire, cwRd, cwPackets, cwLost,
  cwFlips, cwHurt, cwSent, cwHanded,
  sbHeads, sbZeros, sbPos, sbStep, sbBuffer, sbI, sbLen, sbWhole,
  opLen, opPkt, opNext, opEmpty, opBuf, opOut, opLost,
  isPhase, isPkt, isWhole, isPlace, isLost, isSince, isBegun, isTook, isKey,
  irPkt, irKind, irPlace, irLost, irGone, irAtti, irLock, irFetch, irStore,
  irBuf, irReady, irWant, irGot

CW == INSTANCE CanWire WITH Contents <- CwContents, Ids <- CwIds, Cmd <- CwCmd,
        Key <- CwKey, BufSize <- CwBufSize, Stale <- CwStale, Bits <- CwBits,
        MaxPackets <- CwMaxPackets, MaxLost <- CwMaxLost, MaxFlips <- CwMaxFlips,
        id <- cwId, content <- cwContent, sndData <- cwSndData, sndPos <- cwSndPos,
        wire <- cwWire, rd <- cwRd, packets <- cwPackets, lost <- cwLost,
        flips <- cwFlips, hurt <- cwHurt, sent <- cwSent, handed <- cwHanded

SB == INSTANCE Sbus WITH Size <- SbSize, heads <- sbHeads, zeros <- sbZeros,
        pos <- sbPos, step <- sbStep, buffer <- sbBuffer, i <- sbI,
        nLen <- sbLen, whole <- sbWhole

OP == INSTANCE OldPackets WITH
        Lens <- OpLens, MaxPackets <- OpMaxPackets, MaxLost <- OpMaxLost,
        len <- opLen, pkt <- opPkt, next <- opNext, empty <- opEmpty,
        buf <- opBuf, out <- opOut, lost <- opLost

IS == INSTANCE ImuStart WITH Size <- IsSize, KeyAt <- IsKeyAt,
        MaxPackets <- IsMaxPackets, MaxLost <- IsMaxLost,
        phase <- isPhase, pkt <- isPkt, whole <- isWhole, place <- isPlace,
        lost <- isLost, since <- isSince, begun <- isBegun, took <- isTook,
        key <- isKey

IR == INSTANCE ImuReceiver WITH Size <- IrSize, Num <- IrNum,
        MaxPackets <- IrMaxPackets, MaxLost <- IrMaxLost,
        pkt <- irPkt, kind <- irKind, place <- irPlace, lost <- irLost,
        gone <- irGone, bIsAtti <- irAtti, lock <- irLock, fetch <- irFetch,
        store <- irStore, buf <- irBuf, bReady <- irReady, want <- irWant,
        got <- irGot

ASSUME ReadersAssumption ==
  CW!CanWireAssumption /\ SB!SbusAssumption /\ OP!OldPacketsAssumption
  /\ IS!ImuStartAssumption /\ IR!ImuReceiverAssumption
-----------------------------------------------------------------------------
cwVars == <<cwId, cwContent, cwSndData, cwSndPos, cwWire, cwRd, cwPackets, cwLost,
            cwFlips, cwHurt, cwSent, cwHanded>>
sbVars == <<sbHeads, sbZeros, sbPos, sbStep, sbBuffer, sbI, sbLen, sbWhole>>
opVars == <<opLen, opPkt, opNext, opEmpty, opBuf, opOut, opLost>>
isVars == <<isPhase, isPkt, isWhole, isPlace, isLost, isSince, isBegun, isTook, isKey>>
irVars == <<irPkt, irKind, irPlace, irLost, irGone, irAtti, irLock, irFetch, irStore,
            irBuf, irReady, irWant, irGot>>
ReaderVars == <<which, cwVars, sbVars, opVars, isVars, irVars>>

ReadersInit ==
  /\ which \in {"can", "sbus", "old", "start", "imu"}
  /\ CW!Init /\ (which # "can" => cwId = (CHOOSE i \in CwIds : TRUE))
  /\ SB!Init /\ (which # "sbus" => sbHeads = {} /\ sbZeros = {} /\ sbPos = 0)
  /\ OP!Init /\ (which # "old" => opLen = (CHOOSE l \in OpLens : TRUE))
  /\ IS!Init /\ (which # "start" => isWhole)
  /\ IR!Init

ReadersNext ==
  /\ UNCHANGED which
  /\ \/ which = "can" /\ CW!Next /\ UNCHANGED <<sbVars, opVars, isVars, irVars>>
     \/ which = "sbus" /\ SB!Next /\ UNCHANGED <<cwVars, opVars, isVars, irVars>>
     \/ which = "old" /\ OP!Next /\ UNCHANGED <<cwVars, sbVars, isVars, irVars>>
     \/ which = "start" /\ IS!Next /\ UNCHANGED <<cwVars, sbVars, opVars, irVars>>
     \/ which = "imu" /\ IR!Next /\ UNCHANGED <<cwVars, sbVars, opVars, isVars>>

(* ImuReceiver says why it is fair; the other readers need not be.         *)
ReadersSpec ==
  /\ ReadersInit /\ [][ReadersNext]_ReaderVars
  /\ WF_irVars(which = "imu" /\ IR!Recv)
  /\ SF_irVars(which = "imu" /\ IR!Get)
-----------------------------------------------------------------------------
(* CanWire: whatever is lost or changed, no reader writes past the size of *)
(* its packet, and a packet that comes whole is handed out, once.          *)
WireDelivers == CW!TypeOK /\ CW!WholeIsHanded

(* Sbus: with whole reads and no byte that looks like a head, the head is  *)
(* found and is one; a wrong one needs both.  ImuStart: two whole packets  *)
(* end each wait, and a wrong key needs two losses at the right places.    *)
StartIsFound ==
  /\ SB!TypeOK /\ SB!FindsTheHead /\ SB!WrongHeadNeedsBoth
  /\ IS!TypeOK /\ IS!TwoAreEnough /\ IS!WrongKeyNeedsLosses

(* OldPackets: data of two packets is mixed only after losses in both, the *)
(* second of two whole packets arrives when its tail is in one frame, one  *)
(* whose tail the frames cut never does, and the order is kept.            *)
OldReadersRecover ==
  /\ OP!TypeOK /\ OP!MixedOnlyByTwoLosses /\ OP!SecondArrives
  /\ OP!CutTailNeverArrives /\ OP!OutInOrder

(* ImuReceiver: the records stay aligned, GetIMU returns nothing older     *)
(* than before nor memory that was never filled, and mixes two packets     *)
(* only after a tail and a head were lost.                                 *)
ImuReaderRight ==
  /\ [](/\ IR!TypeOK /\ IR!AtRecords
        /\ IR!NeverUnfilled /\ IR!MixedOnlyWithoutEnds)
  /\ IR!NeverBack

(* ImuReceiver: GetIMU gets the lock in the end, as long as frames come.   *)
GetReturns == IR!GetReturns
=============================================================================
