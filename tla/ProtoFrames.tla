----------------------------- MODULE ProtoFrames -----------------------------
(***************************************************************************)
(* The frames of the prototype (visionProc): the reading thread takes a    *)
(* node of a pool that is used in turn, fills it and appends it to a list  *)
(* (visionNode.cpp, visionProcess.cpp); the processing thread runs the     *)
(* algorithm on the head, with the lock held, and moves the images to a    *)
(* ring; the storing thread writes them (visionStore.cpp).                 *)
(*                                                                         *)
(* A frame is the number of its read, good or bad: its node is that number *)
(* modulo the pool.  The two images of a frame go together.                *)
(***************************************************************************)
EXTENDS Integers, Sequences

CONSTANTS
  Pool,      \* INDEX_MAX
  Ring,      \* ARRAY_SIZE
  MaxReads   \* bound: frames read

ProtoFramesAssumption ==
  Pool \in Nat \ {0} /\ Ring \in Nat \ {0} /\ MaxReads \in Nat

None == -1
NoRecord == [img |-> 0, index |-> None]
Nodes == 0 .. Pool - 1
Slots == 0 .. Ring - 1

VARIABLES
  running,    \* read_running, process_running, store_vision_running
  reads,      \* calls of VisionNode::Instance
  reader,     \* read_vision: "next", "read", "enter", "gone"
  node,       \* M_BUF: the images, 0 if there are none, and next
  head, tail, \* pQHead, pQTail
  proc,       \* process_vision: "top", "wait", "run", "gone"
  pNode,      \* the node that is processed
  ring,       \* pStoreVision: an image and its index, or None
  storePos, fetchPos, \* uStorePos, uFetchPos
  fileIndex,  \* uFileIndex
  store,      \* store_vision: "top", "wait", "write", "gone"
  p,          \* the record that is written
  waiting,    \* history: the frames entered and not taken
  lapped,     \* history: a node was used again before it was processed
  out,        \* history: the records written
  dropped     \* history: the indices overwritten

readVars == <<reads, reader>>
listVars == <<node, head, tail, waiting, lapped>>
procVars == <<proc, pNode, fileIndex, storePos, dropped>>
storeVars == <<store, p, fetchPos, out>>
vars == <<running, readVars, listVars, procVars, ring, storeVars>>

Destroyed == [img |-> 0, next |-> None]
NodeOf(n) == (n - 1) % Pool

Init ==
  /\ running = TRUE
  /\ reads = 0 /\ reader = "next"
  /\ node = [s \in Nodes |-> Destroyed] /\ head = None /\ tail = None
  /\ proc = "top" /\ pNode = None
  /\ ring = [s \in Slots |-> NoRecord] /\ storePos = 0 /\ fetchPos = 0
  /\ fileIndex = 0
  /\ store = "top" /\ p = NoRecord
  /\ waiting = <<>> /\ lapped = FALSE /\ out = <<>> /\ dropped = {}
-----------------------------------------------------------------------------
(* The frames whose nodes may not be touched.                              *)
Outstanding ==
  {waiting[i] : i \in DOMAIN waiting}
    \cup (IF proc = "run" THEN {node[pNode].img} ELSE {})

(* VisionNode::Instance: the next node, whatever it holds.                 *)
Instance ==
  /\ reader = "next" /\ running /\ reads < MaxReads
  /\ reads' = reads + 1
  /\ node' = [node EXCEPT ![NodeOf(reads')] = Destroyed]
  /\ lapped' = (lapped \/ \E f \in Outstanding : NodeOf(f) = NodeOf(reads'))
  /\ reader' = "read"
  /\ UNCHANGED <<running, head, tail, waiting, procVars, ring, storeVars>>

(* ReadImg; a frame with too many features is dropped.                     *)
ReadImg ==
  /\ reader = "read"
  /\ \/ /\ node' = [node EXCEPT ![NodeOf(reads)].img = reads]
        /\ reader' = "enter"
     \/ /\ node' = [node EXCEPT ![NodeOf(reads)] = Destroyed]
        /\ reader' = "next"
  /\ UNCHANGED <<running, reads, head, tail, waiting, lapped, procVars, ring, storeVars>>

(* Mutant: an empty list gets a head and keeps its tail.                   *)
LinkedKeepsTail(s) ==
  IF head = None THEN head' = s /\ UNCHANGED <<node, tail>>
  ELSE node' = [node EXCEPT ![tail].next = s] /\ tail' = s /\ UNCHANGED head

Linked(s) ==
  IF head = None THEN head' = s /\ tail' = s /\ UNCHANGED node
  ELSE node' = [node EXCEPT ![tail].next = s] /\ tail' = s /\ UNCHANGED head

(* enter_vision_queue; the algorithm runs with qlock held.                 *)
Enter ==
  /\ reader = "enter" /\ proc # "run"
  /\ Linked(NodeOf(reads))
  /\ waiting' = Append(waiting, reads)
  /\ reader' = "next"
  /\ UNCHANGED <<running, reads, lapped, procVars, ring, storeVars>>

(* The end of read_vision: what is in the list is destroyed.               *)
Drain ==
  /\ reader = "next" /\ ~running /\ proc # "run"
  /\ reader' = "gone"
  /\ node' = [s \in Nodes |->
                IF \E i \in DOMAIN waiting : NodeOf(waiting[i]) = s THEN Destroyed
                ELSE node[s]]
  /\ head' = None /\ waiting' = <<>>
  /\ UNCHANGED <<running, reads, tail, lapped, procVars, ring, storeVars>>
-----------------------------------------------------------------------------
ProcTop ==
  /\ proc = "top"
  /\ proc' = IF running THEN "wait" ELSE "gone"
  /\ UNCHANGED <<running, readVars, listVars, pNode, fileIndex, storePos,
                 dropped, ring, storeVars>>

Take ==
  /\ proc = "wait" /\ head # None
  /\ proc' = "run" /\ pNode' = head
  /\ head' = node[head].next
  /\ node' = [node EXCEPT ![head].next = None]
  /\ waiting' = IF waiting = <<>> THEN waiting ELSE Tail(waiting)
  /\ UNCHANGED <<running, readVars, tail, lapped, fileIndex, storePos, dropped,
                 ring, storeVars>>

Next1(pos) == IF pos + 1 = Ring THEN 0 ELSE pos + 1

(* Run and append_vision_queue: the images move to the ring.               *)
Process ==
  /\ proc = "run" /\ proc' = "top"
  /\ ring' = [ring EXCEPT ![storePos] = [img |-> node[pNode].img, index |-> fileIndex]]
  /\ dropped' = dropped \cup ({ring[storePos].index} \ {None})
  /\ storePos' = Next1(storePos) /\ fileIndex' = fileIndex + 1
  /\ node' = [node EXCEPT ![pNode] = Destroyed] /\ pNode' = None
  /\ UNCHANGED <<running, readVars, head, tail, waiting, lapped, storeVars>>

StoreTop ==
  /\ store = "top"
  /\ store' = IF running THEN "wait" ELSE "gone"
  /\ UNCHANGED <<running, readVars, listVars, procVars, ring, p, fetchPos, out>>

FetchFrom(s, left, pos) ==
  /\ store = "wait" /\ ring[s] # NoRecord
  /\ p' = ring[s] /\ ring' = [ring EXCEPT ![s] = left]
  /\ fetchPos' = pos
  /\ store' = "write"
  /\ UNCHANGED <<running, readVars, listVars, procVars, out>>

Fetch == FetchFrom(fetchPos, NoRecord, Next1(fetchPos))

OutFile ==
  /\ store = "write"
  /\ out' = Append(out, p) /\ p' = NoRecord
  /\ store' = "top"
  /\ UNCHANGED <<running, readVars, listVars, procVars, ring, fetchPos>>

(* SIGINT: the flags of all threads.                                       *)
Interrupt ==
  /\ running /\ running' = FALSE
  /\ UNCHANGED <<readVars, listVars, procVars, ring, storeVars>>

Next ==
  \/ Instance \/ ReadImg \/ Enter \/ Drain
  \/ ProcTop \/ Take \/ Process
  \/ StoreTop \/ Fetch \/ OutFile \/ Interrupt

Spec == Init /\ [][Next]_vars
-----------------------------------------------------------------------------
Records == [img : 0 .. MaxReads, index : 0 .. MaxReads]
Kept == {s \in Slots : ring[s] # NoRecord}

TypeOK ==
  /\ running \in BOOLEAN /\ lapped \in BOOLEAN
  /\ reads \in 0 .. MaxReads /\ reader \in {"next", "read", "enter", "gone"}
  /\ node \in [Nodes -> [img : 0 .. MaxReads, next : Nodes \cup {None}]]
  /\ {head, tail, pNode} \subseteq Nodes \cup {None}
  /\ proc \in {"top", "wait", "run", "gone"} /\ store \in {"top", "wait", "write", "gone"}
  /\ ring \in [Slots -> Records \cup {NoRecord}] /\ p \in Records \cup {NoRecord}
  /\ {storePos, fetchPos} \subseteq Slots
  /\ waiting \in Seq(1 .. MaxReads) /\ out \in Seq(Records)

(* The node reached from the head by k steps.                              *)
Reached ==
  LET at[k \in 0 .. Pool] ==
        IF k = 0 THEN head
        ELSE IF at[k - 1] = None THEN None ELSE node[at[k - 1]].next
  IN  at

(***************************************************************************)
(* Until the reading thread has gone once round the pool, and a bad frame  *)
(* counts for that, the list is exactly the frames that wait, each with its*)
(* images, and the node in process has its own (visionNode.cpp:40,         *)
(* visionProcess.cpp:34-36).                                               *)
(***************************************************************************)
ListIsWhole ==
  ~lapped =>
    /\ Len(waiting) <= Pool /\ Reached[Len(waiting)] = None
    /\ \A i \in DOMAIN waiting :
         /\ Reached[i - 1] = NodeOf(waiting[i])
         /\ node[Reached[i - 1]].img = waiting[i]
    /\ proc = "run" => node[pNode].img # 0

(***************************************************************************)
(* A record has one fate: it waits in the ring, is written or overwritten, *)
(* never two of them and never none (visionStore.cpp:48-49, :101-106).     *)
(***************************************************************************)
InRing == {ring[s].index : s \in Kept}
Written == {out[i].index : i \in DOMAIN out} \cup ({p.index} \ {None})

OneFate ==
  /\ InRing \cup Written \cup dropped = 0 .. fileIndex - 1
  /\ InRing \cap Written = {} /\ InRing \cap dropped = {} /\ Written \cap dropped = {}
  /\ \A i, j \in DOMAIN out : out[i] = out[j] => i = j

(***************************************************************************)
(* The lines of imu.txt have no number: they belong to the images in order *)
(* until a record was overwritten, and after that a line is at most a ring *)
(* too early (visionStore.cpp:43, :101).                                   *)
(***************************************************************************)
LinesInOrder ==
  \A i, j \in DOMAIN out : i < j =>
    out[i].index < out[j].index + (IF dropped = {} THEN 0 ELSE Ring)

(***************************************************************************)
(* The storing thread sleeps beside records only after one was overwritten:*)
(* that moves uStorePos away from the records that wait                    *)
(* (visionStore.cpp:43, :106).                                             *)
(***************************************************************************)
SleepsOnlyAfterDrop == Kept # {} /\ dropped = {} => ring[fetchPos] # NoRecord
=============================================================================
