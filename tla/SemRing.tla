------------------------------ MODULE SemRing ------------------------------
(***************************************************************************)
(* The transport of the first version (visionSys/src/common/mt): one ring  *)
(* in shared memory between a parent, which writes, and its child, which   *)
(* reads, under a System V semaphore taken with SEM_UNDO.                  *)
(*                                                                         *)
(* Either process creates segment and semaphore or finds them, and every   *)
(* Init sets the semaphore to 1, whoever is inside; ~CvSem removes it,     *)
(* whoever uses it, and what P and V return is ignored.  The key has eight *)
(* bits of the child's pid: a later pair may find the segment of an        *)
(* earlier one.  A process ends at any step, through Deactive or a crash.  *)
(*                                                                         *)
(* The feedback behind the ring is in module FlightLoop.                   *)
(***************************************************************************)
EXTENDS Integers, FiniteSets

CONSTANTS
  Num,        \* m_num, the slots of the ring
  MaxItems,   \* bound: items accepted
  MaxStarts   \* bound: starts of either process

ASSUME SemRingAssumption ==
  Num \in Nat \ {0} /\ MaxItems \in Nat /\ MaxStarts \in Nat

Procs == {"writer", "reader"}

VARIABLES
  head,    \* Head in the segment: [magic, fetch, store, cnt]
  buf,     \* the slots: the number of an item, 0 for nothing
  sem,     \* the semaphore: [id, there, val]
  adj,     \* what the kernel will add for each process when it ends
  pc,      \* the next step of each process
  my,      \* m_semid
  tmp,     \* the value of cnt between its load and its store
  n,       \* history: items accepted
  last,    \* history: items read or gone with the segment
  starts,  \* history: starts
  clean,   \* history: nobody was let in beside another, no operation torn
  skipped  \* history: the positions of which a dead process left the wrap

vars == <<head, buf, sem, adj, pc, my, tmp, n, last, starts, clean, skipped>>
mem == <<head, buf, tmp, n, last, skipped>>

Other(p) == CHOOSE q \in Procs : q # p
Up(p) == pc[p] # "off"
Inside(p) == pc[p] \in {"init", "work", "load", "count", "wrap", "leave"}
Using(p) == sem.there /\ my[p] = sem.id
Pos(p) == IF p = "writer" THEN "store" ELSE "fetch"
NewHead == [magic |-> FALSE, fetch |-> 0, store |-> 0, cnt |-> 0]
NewBuf == [i \in 0 .. Num - 1 |-> 0]

Init ==
  /\ head = NewHead /\ buf = NewBuf
  /\ sem = [id |-> 0, there |-> FALSE, val |-> 0]
  /\ adj = [p \in Procs |-> 0]
  /\ pc = [p \in Procs |-> "off"]
  /\ my = [p \in Procs |-> 0] /\ tmp = [p \in Procs |-> 0]
  /\ n = 0 /\ last = 0 /\ starts = 0 /\ clean = TRUE /\ skipped = {}
-----------------------------------------------------------------------------
(* mt_init up to InitMem: CvSem::Init and the segment.  SETVAL clears what *)
(* the kernel had noted for the processes that are inside.                 *)
Start(p) ==
  /\ pc[p] = "off" /\ starts < MaxStarts
  /\ sem' = [id |-> IF sem.there THEN sem.id ELSE sem.id + 1,
             there |-> TRUE, val |-> 1]
  /\ adj' = [q \in Procs |-> 0]
  /\ my' = [my EXCEPT ![p] = sem'.id]
  /\ pc' = [pc EXCEPT ![p] = "enterInit"]
  /\ starts' = starts + 1
  /\ clean' = (clean /\ ~Inside(Other(p)) /\ (Up(Other(p)) => Using(Other(p))))
  /\ UNCHANGED mem

(* Mutant: semop is called again until it succeeds.                        *)
PRetries(p) ==
  /\ Using(p) /\ sem.val > 0
  /\ sem' = [sem EXCEPT !.val = @ - 1]
  /\ adj' = [adj EXCEPT ![p] = @ + 1]

(* Mutant: P without SEM_UNDO.                                             *)
PNoUndo(p) ==
  /\ Using(p) => sem.val > 0
  /\ sem' = IF Using(p) THEN [sem EXCEPT !.val = @ - 1] ELSE sem
  /\ adj' = adj

(* P on a semaphore that was removed fails, which nobody looks at.         *)
P(p) ==
  /\ Using(p) => sem.val > 0
  /\ sem' = IF Using(p) THEN [sem EXCEPT !.val = @ - 1] ELSE sem
  /\ adj' = IF Using(p) THEN [adj EXCEPT ![p] = @ + 1] ELSE adj

V(p) ==
  /\ sem' = IF Using(p) THEN [sem EXCEPT !.val = @ + 1] ELSE sem
  /\ adj' = IF Using(p) THEN [adj EXCEPT ![p] = @ - 1] ELSE adj

Enter(p) ==
  /\ pc[p] \in {"enterInit", "enter"}
  /\ P(p)
  /\ pc' = [pc EXCEPT ![p] = IF @ = "enterInit" THEN "init" ELSE "work"]
  /\ UNCHANGED <<my, starts, clean>> /\ UNCHANGED mem

(* InitMem, with the magic number telling a segment that is in use.        *)
InitMem(p) ==
  /\ pc[p] = "init"
  /\ head' = IF head.magic THEN head ELSE [NewHead EXCEPT !.magic = TRUE]
  /\ pc' = [pc EXCEPT ![p] = "leave"]
  /\ UNCHANGED <<buf, sem, adj, my, tmp, n, last, starts, clean, skipped>>

Call(p) ==
  /\ pc[p] = "idle" /\ (p = "writer" => n < MaxItems)
  /\ pc' = [pc EXCEPT ![p] = "enter"]
  /\ UNCHANGED <<sem, adj, my, starts, clean>> /\ UNCHANGED mem

(* write: dropped when the ring is full, else copied; a position behind    *)
(* the last slot is outside the ring.                                      *)
Write ==
  LET full == head.cnt = Num
  IN  /\ pc["writer"] = "work"
      /\ IF full THEN UNCHANGED <<head, buf, n>>
         ELSE /\ buf' = [i \in DOMAIN buf |-> IF i = head.store THEN n + 1
                                              ELSE buf[i]]
              /\ head' = [head EXCEPT !.store = @ + 1]
              /\ n' = n + 1
      /\ pc' = [pc EXCEPT !["writer"] = IF full THEN "leave" ELSE "load"]
      /\ UNCHANGED <<sem, adj, my, tmp, last, starts, clean, skipped>>

(* read: the oldest item, if the count says that there is one.             *)
Read ==
  LET none == head.cnt = 0
  IN  /\ pc["reader"] = "work"
      /\ IF none THEN UNCHANGED <<head, last>>
         ELSE /\ head' = [head EXCEPT !.fetch = @ + 1]
              /\ last' = IF head.fetch \in DOMAIN buf THEN buf[head.fetch]
                         ELSE last
      /\ pc' = [pc EXCEPT !["reader"] = IF none THEN "leave" ELSE "load"]
      /\ UNCHANGED <<buf, sem, adj, my, tmp, n, starts, clean, skipped>>

(* ++cnt and --cnt are a load and a store.                                 *)
Load(p) ==
  /\ pc[p] = "load"
  /\ tmp' = [tmp EXCEPT ![p] = head.cnt]
  /\ pc' = [pc EXCEPT ![p] = "count"]
  /\ UNCHANGED <<head, buf, sem, adj, my, n, last, starts, clean, skipped>>

Count(p) ==
  /\ pc[p] = "count"
  /\ head' = [head EXCEPT !.cnt = IF p = "writer" THEN tmp[p] + 1 ELSE tmp[p] - 1]
  /\ pc' = [pc EXCEPT ![p] = "wrap"]
  /\ UNCHANGED <<buf, sem, adj, my, tmp, n, last, starts, clean, skipped>>

Wrap(p) ==
  /\ pc[p] = "wrap"
  /\ head' = [head EXCEPT ![Pos(p)] = IF @ = Num THEN 0 ELSE @]
  /\ pc' = [pc EXCEPT ![p] = "leave"]
  /\ UNCHANGED <<buf, sem, adj, my, tmp, n, last, starts, clean, skipped>>

Leave(p) ==
  /\ pc[p] = "leave"
  /\ V(p)
  /\ pc' = [pc EXCEPT ![p] = "idle"]
  /\ UNCHANGED <<my, starts, clean>> /\ UNCHANGED mem
-----------------------------------------------------------------------------
(* A process that ended: the kernel adds what it had noted.                *)
Undone(p) == IF Using(p) THEN [sem EXCEPT !.val = @ + adj[p]] ELSE sem

(* What the end of a process at its step leaves behind in the ring.        *)
Torn(p) ==
  /\ clean' = (clean /\ pc[p] \notin {"load", "count", "wrap"})
  /\ skipped' = IF pc[p] \in {"load", "count", "wrap"} /\ head[Pos(p)] = Num
                THEN skipped \cup {Pos(p)} ELSE skipped
  /\ pc' = [pc EXCEPT ![p] = "off"]
  /\ adj' = [adj EXCEPT ![p] = 0]

(* kill -9 or a fault.  The segment stays, even if nobody is attached.     *)
Crash(p) ==
  /\ Up(p) /\ Torn(p)
  /\ sem' = Undone(p)
  /\ UNCHANGED <<head, buf, my, tmp, n, last, starts>>

(* Deactive, from another thread: ~CShmTrans removes the segment if it was *)
(* the last that had it attached, ~CvSem the semaphore in any case.        *)
Destory(p) ==
  /\ pc[p] \notin {"off", "enterInit", "init"}
  /\ IF Up(Other(p))
     THEN Torn(p) /\ UNCHANGED <<head, buf, last>>
     ELSE /\ head' = NewHead /\ buf' = NewBuf /\ last' = n
          /\ skipped' = {} /\ clean' = TRUE
          /\ pc' = [pc EXCEPT ![p] = "off"] /\ adj' = [adj EXCEPT ![p] = 0]
  /\ sem' = IF Using(p) THEN [sem EXCEPT !.there = FALSE] ELSE sem
  /\ UNCHANGED <<my, tmp, n, starts>>

Step(p) ==
  \/ InitMem(p) \/ Load(p) \/ Count(p) \/ Wrap(p) \/ Leave(p)
  \/ p = "writer" /\ Write
  \/ p = "reader" /\ Read

Next ==
  \E p \in Procs :
    Start(p) \/ Call(p) \/ Enter(p) \/ Step(p) \/ Crash(p) \/ Destory(p)

Spec == Init /\ [][Next]_vars

(* A process that is inside goes on, and the kernel wakes who waits.       *)
FairSpec ==
  Spec /\ \A p \in Procs : WF_vars(Step(p)) /\ SF_vars(Enter(p))
-----------------------------------------------------------------------------
TypeOK ==
  /\ head \in [magic : BOOLEAN, fetch : Nat, store : Nat, cnt : Nat]
  /\ buf \in [0 .. Num - 1 -> 0 .. MaxItems]
  /\ sem \in [id : 0 .. MaxStarts, there : BOOLEAN, val : 0 .. 2]
  /\ adj \in [Procs -> -1 .. 1]
  /\ pc \in [Procs -> {"off", "enterInit", "init", "idle", "enter", "work",
                       "load", "count", "wrap", "leave"}]
  /\ my \in [Procs -> 0 .. MaxStarts] /\ tmp \in [Procs -> Nat]
  /\ n \in 0 .. MaxItems /\ last \in 0 .. n
  /\ starts \in 0 .. MaxStarts /\ clean \in BOOLEAN
  /\ skipped \subseteq {"store", "fetch"}

(***************************************************************************)
(* Two processes are inside together only after an Init set the semaphore  *)
(* while the other was inside, or joined one that uses a semaphore which   *)
(* is removed (vSem.cpp:31, :12).                                          *)
(***************************************************************************)
Exclusive ==
  clean => Cardinality({p \in Procs : Inside(p)}) <= 1

(***************************************************************************)
(* Until that, or an operation torn by the end of its process, the ring    *)
(* holds the items accepted and not yet read, in order (shmtrans.cpp:81,   *)
(* :127): across starts, crashes outside the ring and a removed semaphore. *)
(***************************************************************************)
RingInOrder ==
  clean /\ (\A p \in Procs : ~Inside(p)) =>
    /\ head.cnt = n - last
    /\ head.store \in 0 .. Num - 1 /\ head.fetch \in 0 .. Num - 1
    /\ head.store = (head.fetch + head.cnt) % Num
    /\ \A k \in 0 .. head.cnt - 1 :
         buf[(head.fetch + k) % Num] = last + 1 + k

(***************************************************************************)
(* A copy is outside the slots only after a process died between ++pos and *)
(* the wrap test, which compares for equality; no race of the two leads    *)
(* there (shmtrans.cpp:93, :139).                                          *)
(***************************************************************************)
CopiesInside ==
  /\ pc["writer"] = "work" /\ head.store \notin DOMAIN buf => "store" \in skipped
  /\ pc["reader"] = "work" /\ head.fetch \notin DOMAIN buf => "fetch" \in skipped

(***************************************************************************)
(* What the semaphore has and what the kernel will add add up to 1: a      *)
(* semaphore left at 2 by an Init is at 1 again when the process that gave *)
(* one too much has ended (vSem.cpp:51, :66).                              *)
(***************************************************************************)
SemaphoreBalanced ==
  LET owed(p) == IF Up(p) /\ Using(p) THEN adj[p] ELSE 0
  IN  sem.there => sem.val + owed("writer") + owed("reader") = 1

(***************************************************************************)
(* Nobody waits for the semaphore for ever: who does gets in or ends, also *)
(* when the one inside dies there or the semaphore is removed              *)
(* (vSem.cpp:41).                                                          *)
(***************************************************************************)
NobodyStarves ==
  \A p \in Procs : []<>(pc[p] \notin {"enter", "enterInit"})
=============================================================================
