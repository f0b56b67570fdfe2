----------------------------- MODULE FlightLoop -----------------------------
(***************************************************************************)
(* The first version (visionSys) from the frame of the FPGA to the CAN     *)
(* bus.  visionRcm writes every frame into the ring of visionVelocity and  *)
(* every other one into that of visionBm; each child takes frames, computes*)
(* and leaves its result in the feedback area behind its ring with its next*)
(* read; visionRcm finds what is there with its next write and puts it into*)
(* can_v or can_b, from where its thread Run2 sends the newest.            *)
(*                                                                         *)
(* An operation of a ring is one step (module SemRing has its steps).  A   *)
(* frame is only counted; results are numbered, 0 is the feedback area     *)
(* before the first one: zero bytes.                                       *)
(***************************************************************************)
EXTENDS Integers

CONSTANTS
  Children,   \* the child processes of the configuration
  Num,        \* the frames a ring holds
  QueueSize,  \* QUEUE_SIZE, the slots of can_v and can_b
  Period,       \* the numbers cnt takes: 2^16 for the short of visionVelocity
  MaxResults  \* bound: results of each child

Velocity == "visionVelocity"
Bm == "visionBm"
None == -1      \* a NULL pointer

FlightLoopAssumption ==
  /\ Velocity \in Children
  /\ Children \subseteq {Velocity, Bm}
  /\ {Num, QueueSize, Period} \subseteq Nat \ {0}
  /\ Period > Num + 1 /\ MaxResults \in Nat

VARIABLES
  frames,     \* the frames in each ring
  area,       \* the result in each feedback area
  busy,       \* the child computes
  results,    \* results each child computed
  pc,         \* the next step of Run
  sndflg,     \* m_sndflg
  got,        \* the result in tVelocity and tRectified after the write
  lastCnt,    \* last_cnt_v and last_cnt_b
  slots,      \* can_v and can_b
  store,      \* m_can_v_store and m_can_b_store
  fetch,      \* m_can_v_fetch and m_can_b_fetch
  run2,       \* the next step of Run2
  lastFetch,  \* last_fetch_v and last_fetch_b
  ptr,        \* pV and pb: an index of slots, or NULL
  half,       \* the result of which Write has copied the first bytes
  sent,       \* history: the last result sent, its first and its last bytes
  since       \* history: results queued since Run2 looked, up to QueueSize

child == <<frames, area, busy, results>>
rcm == <<pc, sndflg, got, lastCnt, slots, store, fetch>>
sender == <<lastFetch, ptr, half, sent>>
vars == <<child, rcm, sender, run2, since>>

Init ==
  /\ frames = [c \in Children |-> 0] /\ area = [c \in Children |-> 0]
  /\ busy = [c \in Children |-> FALSE] /\ results = [c \in Children |-> 0]
  /\ pc = "sendV" /\ sndflg = 0
  /\ got = [c \in Children |-> 0] /\ lastCnt = [c \in Children |-> 0]
  /\ slots = [c \in Children |-> [i \in 0 .. QueueSize - 1 |-> 0]]
  /\ store = [c \in Children |-> 0] /\ fetch = [c \in Children |-> -1]
  /\ run2 = "look"
  /\ lastFetch = [c \in Children |-> -1] /\ ptr = [c \in Children |-> None]
  /\ half = [c \in Children |-> 0]
  /\ sent = [c \in Children |-> [head |-> 0, tail |-> 0]]
  /\ since = [c \in Children |-> 0]

Cnt(c, r) ==
  IF r = 0 THEN 0 ELSE IF c = Velocity THEN (r - 1) % Period ELSE r - 1
-----------------------------------------------------------------------------
(***************************************************************************)
(* The children: Run of CVisionVelocity and CVisionBm.                     *)
(***************************************************************************)
(* RecvData puts the last feedback into the area, whether a frame is there *)
(* or not.                                                                 *)
RecvData(c) ==
  /\ ~busy[c]
  /\ area' = [area EXCEPT ![c] = results[c]]
  /\ IF frames[c] = 0 THEN UNCHANGED <<frames, busy>>
     ELSE /\ frames' = [frames EXCEPT ![c] = @ - 1]
          /\ busy' = [busy EXCEPT ![c] = TRUE]
  /\ UNCHANGED <<results, rcm, sender, run2, since>>

(* RunVelocity or RunBm, and the memcpy of the feedback.                   *)
Compute(c) ==
  /\ busy[c] /\ results[c] < MaxResults
  /\ results' = [results EXCEPT ![c] = @ + 1]
  /\ busy' = [busy EXCEPT ![c] = FALSE]
  /\ UNCHANGED <<frames, area, rcm, sender, run2, since>>
-----------------------------------------------------------------------------
(***************************************************************************)
(* visionRcm's Run, one round for each frame of the FPGA.                  *)
(***************************************************************************)
(* SendData: a full ring drops the frame, and the feedback comes anyway.   *)
Sent(c) ==
  /\ frames' = [frames EXCEPT ![c] = IF @ < Num THEN @ + 1 ELSE @]
  /\ got' = [got EXCEPT ![c] = area[c]]

SendVelocity ==
  /\ pc = "sendV" /\ pc' = "sendB"
  /\ Sent(Velocity)
  /\ UNCHANGED <<area, busy, results, sndflg, lastCnt, slots, store, fetch,
                 sender, run2, since>>

SendRectified ==
  /\ pc = "sendB" /\ pc' = "queue"
  /\ sndflg' = 1 - sndflg
  /\ IF sndflg' = 1 /\ Bm \in Children THEN Sent(Bm) ELSE UNCHANGED <<frames, got>>
  /\ UNCHANGED <<area, busy, results, lastCnt, slots, store, fetch, sender,
                 run2, since>>

(* flg: IS_VELOCITY is 0, what the flag of an empty area is.               *)
IsFeedback(c) ==
  IF c = Velocity THEN TRUE ELSE sndflg = 1 /\ got[c] > 0

Queues(c) ==
  /\ IsFeedback(c)
  /\ lastCnt[c] = 0 \/ lastCnt[c] # Cnt(c, got[c])

(* Mutant: the ring has one slot.                                          *)
AfterNever(i) == 0

After(i) == IF i + 1 = QueueSize THEN 0 ELSE i + 1

(* Under can_lock.                                                         *)
Queue ==
  /\ pc = "queue" /\ pc' = "signal"
  /\ slots' = [c \in Children |->
                 IF Queues(c) THEN [slots[c] EXCEPT ![store[c]] = got[c]]
                 ELSE slots[c]]
  /\ store' = [c \in Children |-> IF Queues(c) THEN After(store[c]) ELSE store[c]]
  /\ fetch' = [c \in Children |-> IF Queues(c) THEN After(fetch[c]) ELSE fetch[c]]
  /\ lastCnt' = [c \in Children |->
                   IF Queues(c) THEN Cnt(c, got[c]) ELSE lastCnt[c]]
  /\ since' = [c \in Children |->
                 IF Queues(c) /\ since[c] < QueueSize THEN since[c] + 1
                 ELSE since[c]]
  /\ UNCHANGED <<child, sndflg, got, sender, run2>>

Signal ==
  /\ pc = "signal" /\ pc' = "sendV"
  /\ run2' = IF run2 = "asleep" THEN "look" ELSE run2
  /\ UNCHANGED <<child, sndflg, got, lastCnt, slots, store, fetch, sender, since>>
-----------------------------------------------------------------------------
(***************************************************************************)
(* visionRcm's Run2.                                                       *)
(***************************************************************************)
IsNew(c) == fetch[c] # lastFetch[c]

(* Under can_lock: sleep, or take pointers to what is newest.              *)
Look ==
  /\ run2 = "look"
  /\ IF \A c \in Children : ~IsNew(c)
     THEN run2' = "asleep" /\ UNCHANGED <<sender, since>>
     ELSE /\ run2' = "write"
          /\ ptr' = [c \in Children |-> IF IsNew(c) THEN fetch[c] ELSE None]
          /\ lastFetch' = fetch
          /\ since' = [c \in Children |-> IF IsNew(c) THEN 0 ELSE since[c]]
          /\ UNCHANGED <<half, sent>>
  /\ UNCHANGED <<child, rcm>>

(* The first pointer that is not NULL, visionVelocity before visionBm.     *)
Turn(c) == ptr[c] # None /\ (c = Bm => ptr[Velocity] = None)

(* Write copies the slot, without can_lock, ...                            *)
WriteBegins(c) ==
  /\ run2 = "write" /\ Turn(c)
  /\ half' = [half EXCEPT ![c] = slots[c][ptr[c]]]
  /\ run2' = "copy"
  /\ UNCHANGED <<child, rcm, lastFetch, ptr, sent, since>>

(* ... and the frames leave.                                               *)
WriteEnds(c) ==
  /\ run2 = "copy" /\ Turn(c)
  /\ sent' = [sent EXCEPT ![c] = [head |-> half[c], tail |-> slots[c][ptr[c]]]]
  /\ ptr' = [ptr EXCEPT ![c] = None]
  /\ run2' = "write"
  /\ UNCHANGED <<child, rcm, lastFetch, half, since>>

WriteDone ==
  /\ run2 = "write" /\ \A c \in Children : ptr[c] = None
  /\ run2' = "look"
  /\ UNCHANGED <<child, rcm, sender, since>>

Run == SendVelocity \/ SendRectified \/ Queue \/ Signal
Run2 == Look \/ WriteDone \/ \E c \in Children : WriteBegins(c) \/ WriteEnds(c)
Next == Run \/ Run2 \/ \E c \in Children : RecvData(c) \/ Compute(c)

Spec == Init /\ [][Next]_vars

(* Frames go on coming and every thread goes on, but for the algorithm of  *)
(* a child, which may hang.                                                *)
FairSpec ==
  /\ Spec
  /\ WF_vars(Run) /\ WF_vars(Run2)
  /\ \A c \in Children : WF_vars(RecvData(c))
-----------------------------------------------------------------------------
Results == 0 .. MaxResults

TypeOK ==
  /\ frames \in [Children -> 0 .. Num] /\ busy \in [Children -> BOOLEAN]
  /\ {area, results, got, half} \subseteq [Children -> Results]
  /\ pc \in {"sendV", "sendB", "queue", "signal"} /\ sndflg \in {0, 1}
  /\ lastCnt \in [Children -> 0 .. MaxResults]
  /\ slots \in [Children -> [0 .. QueueSize - 1 -> Results]]
  /\ store \in [Children -> 0 .. QueueSize - 1]
  /\ {fetch, lastFetch, ptr} \subseteq [Children -> -1 .. QueueSize - 1]
  /\ run2 \in {"look", "asleep", "write", "copy"}
  /\ sent \in [Children -> [head : Results, tail : Results]]
  /\ since \in [Children -> 0 .. QueueSize]

(***************************************************************************)
(* A packet on the CAN bus holds one result, unless QUEUE_SIZE results came*)
(* while Run2 used a pointer into the ring without can_lock                *)
(* (visionRcm.cpp:320, :339).                                              *)
(***************************************************************************)
WholeUnlessOvertaken ==
  [][\A c \in Children :
       sent'[c] # sent[c] /\ since[c] < QueueSize =>
         sent'[c].head = sent'[c].tail]_vars

(***************************************************************************)
(* The flight controller never gets an older result after a newer one, also*)
(* when results are overtaken in the ring or overwritten while they are    *)
(* sent (visionRcm.cpp:204, :318).                                         *)
(***************************************************************************)
NeverBack ==
  [][\A c \in Children : sent'[c].head >= sent[c].head
                         /\ sent'[c].tail >= sent[c].tail]_vars

(***************************************************************************)
(* A result is sent twice only if its cnt is 0, the first one or after 2^16*)
(* of visionVelocity: last_cnt 0 stands for no result (visionRcm.cpp:201). *)
(***************************************************************************)
OnceUnlessZero ==
  [][\A c \in Children :
       run2 = "copy" /\ run2' = "write" /\ Turn(c) /\ half[c] = sent[c].head
         => Cnt(c, half[c]) = 0]_vars

(***************************************************************************)
(* As long as frames come, again and again the newest result is the one    *)
(* that was sent last, or Run2 was overtaken by whole rounds of the ring   *)
(* and does not see it (visionRcm.cpp:312).                                *)
(***************************************************************************)
NewestIsSent ==
  \A c \in Children :
    []<>(sent[c].tail = results[c] \/ (~IsNew(c) /\ since[c] = QueueSize))
=============================================================================
