----------------------------- MODULE StoreQueue -----------------------------
(***************************************************************************)
(* CVisionStore of the first version (visionSys/src/platform): Run of      *)
(* visionVelocity or visionBm pushes the images it worked on, Run1 pops    *)
(* them and writes them to files named by m_index.  push and pop work      *)
(* under m_lock; the signal follows the unlock, and m_index is counted     *)
(* before the lock, for nodes that are dropped too.                        *)
(*                                                                         *)
(* m_StoreQueue is not initialised: a slot starts as NULL or as garbage.   *)
(***************************************************************************)
EXTENDS Integers, Sequences

CONSTANTS
  Size,       \* STORE_QUUE_SIZE
  MaxNodes    \* bound: images pushed

StoreQueueAssumption == Size \in Nat \ {0} /\ MaxNodes \in Nat

Null == -1
Garbage == -2
Slots == 0 .. Size - 1

VARIABLES
  queue,      \* m_StoreQueue: indices of nodes, NULL or garbage
  cnt,        \* m_cnt
  fetch,      \* m_fetch
  store,      \* m_store
  index,      \* m_index
  run,        \* Run: the next step of push
  node,       \* its node
  run1,       \* Run1: the next step of pop
  held,       \* its node
  files,      \* the names of the files written, in order
  dropped     \* history: nodes refused

vars == <<queue, cnt, fetch, store, index, run, node, run1, held, files, dropped>>

Init ==
  /\ queue \in [Slots -> {Null, Garbage}]
  /\ cnt = 0 /\ fetch = 0 /\ store = 0 /\ index = 0
  /\ run = "idle" /\ node = Null /\ run1 = "test" /\ held = Null
  /\ files = <<>> /\ dropped = {}

After(i) == IF i + 1 = Size THEN 0 ELSE i + 1
-----------------------------------------------------------------------------
(* push, up to the lock.                                                   *)
NewNode ==
  /\ run = "idle" /\ index < MaxNodes
  /\ node' = index /\ index' = index + 1
  /\ run' = "lock"
  /\ UNCHANGED <<queue, cnt, fetch, store, run1, held, files, dropped>>

(* push under m_lock.                                                      *)
Insert ==
  /\ run = "lock" /\ run' = "signal"
  /\ IF cnt = Size
     THEN /\ dropped' = dropped \cup {node}
          /\ UNCHANGED <<queue, store, cnt>>
     ELSE /\ queue' = [queue EXCEPT ![store] = node]
          /\ store' = After(store)
          /\ cnt' = cnt + 1
          /\ UNCHANGED dropped
  /\ UNCHANGED <<fetch, index, node, run1, held, files>>

(* Mutant: a queue with a single node is not signalled.                    *)
SignalSecond ==
  /\ run = "signal" /\ run' = "idle"
  /\ run1' = IF run1 = "asleep" /\ cnt > 1 THEN "test" ELSE run1
  /\ UNCHANGED <<queue, cnt, fetch, store, index, node, held, files, dropped>>

Signal ==
  /\ run = "signal" /\ run' = "idle"
  /\ run1' = IF run1 = "asleep" THEN "test" ELSE run1
  /\ UNCHANGED <<queue, cnt, fetch, store, index, node, held, files, dropped>>

(* Mutant: what is in the slot is enough to take it.                       *)
TakeUnlessNull ==
  /\ run1 = "test"
  /\ IF queue[fetch] = Null
     THEN run1' = "asleep" /\ UNCHANGED <<queue, cnt, fetch, held>>
     ELSE /\ held' = queue[fetch]
          /\ queue' = [queue EXCEPT ![fetch] = Null]
          /\ fetch' = After(fetch)
          /\ cnt' = cnt - 1
          /\ run1' = "write"
  /\ UNCHANGED <<store, index, run, node, files, dropped>>

(* pop under m_lock: sleep, or take the oldest node.                       *)
Take ==
  /\ run1 = "test"
  /\ IF queue[fetch] = Null \/ cnt = 0
     THEN run1' = "asleep" /\ UNCHANGED <<queue, cnt, fetch, held>>
     ELSE /\ held' = queue[fetch]
          /\ queue' = [queue EXCEPT ![fetch] = Null]
          /\ fetch' = After(fetch)
          /\ cnt' = cnt - 1
          /\ run1' = "write"
  /\ UNCHANGED <<store, index, run, node, files, dropped>>

OutFile ==
  /\ run1 = "write" /\ run1' = "test"
  /\ files' = Append(files, held)
  /\ UNCHANGED <<queue, cnt, fetch, store, index, run, node, held, dropped>>

Run == NewNode \/ Insert \/ Signal
Run1 == Take \/ OutFile
Next == Run \/ Run1

Spec == Init /\ [][Next]_vars

(* Both threads go on; nothing obliges Run to push.                        *)
FairSpec == Spec /\ WF_vars(Insert \/ Signal) /\ WF_vars(Run1)
-----------------------------------------------------------------------------
Waiting == [k \in 1 .. cnt |-> queue[(fetch + k - 1) % Size]]

TypeOK ==
  /\ queue \in [Slots -> Null .. MaxNodes - 1 \cup {Garbage}]
  /\ cnt \in 0 .. Size /\ fetch \in Slots /\ store \in Slots
  /\ index \in 0 .. MaxNodes /\ {node, held} \subseteq Null .. MaxNodes - 1
  /\ run \in {"idle", "lock", "signal"} /\ run1 \in {"test", "asleep", "write"}
  /\ files \in Seq(0 .. MaxNodes - 1) /\ dropped \subseteq 0 .. MaxNodes - 1

Fifo == INSTANCE BoundedFifo
          WITH Item <- 0 .. MaxNodes - 1, NoItem <- Null, Capacity <- Size,
               queue <- Waiting, taken <- held

(***************************************************************************)
(* The queue is a bounded FIFO whatever its slots held at the start: no    *)
(* slot nobody filled is ever taken for a node (visionStore.cpp:107).      *)
(***************************************************************************)
FifoSpec == Fifo!Spec

(***************************************************************************)
(* The names of the files go up, and a number that is missing between two  *)
(* of them is a node that was refused (visionStore.cpp:72, :76).           *)
(***************************************************************************)
GapsAreDrops ==
  /\ \A j, k \in DOMAIN files : j < k => files[j] < files[k]
  /\ \A k \in DOMAIN files : \A i \in 0 .. files[k] :
       (i \in dropped) # (\E j \in DOMAIN files : files[j] = i)

(***************************************************************************)
(* When the images stop, as they do here at the bound, every node that was *)
(* not refused has its file: the signal after the unlock comes in time, and*)
(* no slot left NULL stops the reader (visionStore.cpp:96, :107).          *)
(***************************************************************************)
EveryNodeIsWritten ==
  []<>(\A i \in 0 .. index - 1 :
         i \in dropped \/ \E k \in DOMAIN files : files[k] = i)
=============================================================================
