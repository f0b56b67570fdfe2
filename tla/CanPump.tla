------------------------------- MODULE CanPump ------------------------------
(***************************************************************************)
(* The CAN side of a vision process (src/common/can_data of                *)
(* visionSys-V2.0): the poll thread of CHF, the packets it reads from the  *)
(* flight controller through CCanPacket and CNewProtocolCanCtrl, and the   *)
(* packets that other threads leave with CSndCanCtrl for it to send.       *)
(*                                                                         *)
(* A packet is PktLen frames.  A frame begins a packet for the reader when *)
(* its bytes look like a head, which the first one does and a later one    *)
(* may by chance; the CRC of a whole packet is taken to accept exactly     *)
(* what the sender sent.  The ring of a CSndCanCtrl is represented by what *)
(* CanQueueCtrl shows of it: it hands out the packet pushed before the     *)
(* newest one, m_cnt times.                                                *)
(*                                                                         *)
(* As in visionRcm the flight controller talks on one bus only (can0).     *)
(* The IMU and stick data go to rings that CanQueueCtrl models.            *)
(***************************************************************************)
EXTENDS Naturals, Sequences, FiniteSets

CONSTANTS
  NFds,        \* g_pos: how many buses FD opened; 0 is can0
  KeyId,       \* 0x109: the packet that carries the key
  DataIds,     \* 0x092 (0x388 has a reader of another class)
  Routes,      \* the <<bus, can id>> pairs SetContent is called with
  PktLen,      \* how many frames a packet has
  SndCap,      \* the capacity of m_sndCtrl
  RxCap,       \* how many frames the socket of can0 holds
  MaxPkts,     \* bound: packets the flight controller sends under each id
  MaxPushes,   \* bound: packets pushed on each route
  MaxOdd       \* bound: later frames that look like a head

ASSUME CanPumpAssumption ==
  /\ NFds \in Nat \ {0}
  /\ KeyId \notin DataIds
  /\ Routes \subseteq (0 .. NFds - 1) \X Nat
  /\ PktLen \in Nat \ {0, 1}
  /\ SndCap \in Nat \ {0}
  /\ RxCap \in Nat \ {0}
  /\ MaxPkts \in [{KeyId} \cup DataIds -> Nat]
  /\ MaxPushes \in [Routes -> Nat]
  /\ MaxOdd \in Nat

VARIABLES
  flight,      \* the flight controller: [pkt, n] of the last frame of each id
  odd,         \* how many later frames looked like a head
  rx,          \* the frames in the socket of can0
  filter,      \* the ids its socket lets in
  pump,        \* the poll thread: "none", "poll", "tasks" or "write"
  tasks,       \* g_ArrayTask, less what is done or cleared
  frame,       \* the frame WriteFd tries to send: [route, pkt, n]
  ctl,         \* each reader's m_buf and m_size while m_begin, else Idle
  keyed,       \* SetKey was called
  snd,         \* each sender: [pushed, cnt] of its ring, [cur, pos] in sending
  bus,         \* history: the last frame sent on each route
  whole,       \* history: how much of a packet was read in order, and its number
  intact,      \* history: packets read from first to last frame
  handled,     \* history: packets handed to their handler
  sample       \* history: how the last data packet was decoded

reader == <<ctl, keyed, whole, intact, handled, sample>>
vars == <<flight, odd, rx, filter, pump, tasks, frame, snd, bus, reader>>

Fds == 0 .. NFds - 1
Can0 == 0
RdIds == {KeyId} \cup DataIds
Idle == [buf |-> <<>>, size |-> 0]   \* m_begin is false: the rest is not read
NoFrame == [route |-> <<0, 0>>, pkt |-> 0, n |-> 0]

Init ==
  /\ flight = [id \in RdIds |-> [pkt |-> 0, n |-> PktLen]]
  /\ odd = 0
  /\ rx = <<>>
  /\ filter = RdIds
  /\ pump = "none"
  /\ tasks = {}
  /\ frame = NoFrame
  /\ ctl = [id \in RdIds |-> Idle]
  /\ keyed = FALSE
  /\ snd = [r \in Routes |-> [pushed |-> 0, cnt |-> 0, cur |-> 0, pos |-> 0]]
  /\ bus = [r \in Routes |-> [pkt |-> 0, n |-> PktLen]]
  /\ whole = [id \in RdIds |-> [pkt |-> 0, n |-> 0]]
  /\ intact = [id \in RdIds |-> 0]
  /\ handled = [id \in RdIds |-> 0]
  /\ sample = [keyed |-> TRUE, early |-> FALSE]
-----------------------------------------------------------------------------
(***************************************************************************)
(* The flight controller and the bus of can0 (external).                   *)
(***************************************************************************)
NextOf(f) ==
  IF f.n = PktLen THEN [pkt |-> f.pkt + 1, n |-> 1] ELSE [f EXCEPT !.n = @ + 1]

TooLong == PktLen + 1   \* the size of a head that sizeof(m_buf) refuses

(* The size a frame claims when it is read as a head; 0 if it is none.     *)
Claims(n) == IF n = 1 THEN {PktLen} ELSE {0} \cup 1 .. TooLong

(* The next frame of id passes; the socket takes it or loses it.           *)
FlightSends(id, claim) ==
  LET f == NextOf(flight[id]) IN
    /\ f.pkt <= MaxPkts[id]
    /\ claim \in Claims(f.n)
    /\ odd' = IF f.n > 1 /\ claim > 0 THEN odd + 1 ELSE odd
    /\ odd' <= MaxOdd
    /\ flight' = [flight EXCEPT ![id] = f]
    /\ rx' = IF id \in filter /\ Len(rx) < RxCap
             THEN Append(rx, [id |-> id, pkt |-> f.pkt, n |-> f.n,
                              claim |-> claim, early |-> pump = "none" /\ filter = RdIds])
             ELSE rx
  /\ UNCHANGED <<filter, pump, tasks, frame, snd, bus, reader>>
-----------------------------------------------------------------------------
(***************************************************************************)
(* Set-up in the main thread: CreateFd has bound the socket, which lets    *)
(* everything in until SetFilter; then CHF::Initialize starts the thread.  *)
(***************************************************************************)
(* Mutant: the filter of CreateFd forgotten.                               *)
SetFilterForgotten ==
  /\ pump = "none"
  /\ filter = RdIds
  /\ pump' = "poll"
  /\ UNCHANGED <<flight, odd, rx, filter, tasks, frame, snd, bus, reader>>

SetFilter ==
  /\ pump = "none"
  /\ filter = RdIds
  /\ filter' = {KeyId}
  /\ UNCHANGED <<flight, odd, rx, pump, tasks, frame, snd, bus, reader>>

Start ==
  /\ pump = "none"
  /\ filter # RdIds
  /\ pump' = "poll"
  /\ UNCHANGED <<flight, odd, rx, filter, tasks, frame, snd, bus, reader>>
-----------------------------------------------------------------------------
(***************************************************************************)
(* poll_run.                                                               *)
(***************************************************************************)
(* What the loop over g_ArrayPollFd stores, in order: for each ready bus   *)
(* the reading first.                                                      *)
Stored(writable) ==
  {t \in Fds \X {"in", "out"} :
     IF t[2] = "in" THEN t[1] = Can0 /\ rx # <<>> ELSE t[1] \in writable}

Before(t, u) == t[1] < u[1] \/ (t[1] = u[1] /\ t[2] = "in" /\ u[2] = "out")

Slot(t, all) == Cardinality({u \in all : Before(u, t)})

(* Mutant: the else branch clears the slot of a bus that is ready too.     *)
LeftOverClearsReady(all) == {t \in all : Slot(t, all) # t[1]}

(* The else branch clears the slot with the NUMBER of a bus that is not    *)
(* ready, although tasks are stored one after the other: a task of an      *)
(* earlier bus may be in that slot.                                        *)
LeftOver(all) ==
  {t \in all :
     ~ \E f \in Fds : f = Slot(t, all) /\ f > t[1] /\ \A u \in all : u[1] # f}

(* Where the thread is when ts is left to do.                              *)
GoOn(ts) == IF ts = {} THEN "poll" ELSE "tasks"

(* poll returns; it blocks while nothing is ready.                         *)
Poll(writable) ==
  /\ pump = "poll"
  /\ Stored(writable) # {}
  /\ tasks' = LeftOver(Stored(writable))
  /\ pump' = GoOn(tasks')
  /\ UNCHANGED <<flight, odd, rx, filter, frame, snd, bus, reader>>

IsNext(t) == pump = "tasks" /\ t \in tasks /\ \A u \in tasks \ {t} : Before(t, u)
-----------------------------------------------------------------------------
(***************************************************************************)
(* ReadFd: CCanPacket::Process and CNewProtocolCanCtrl::Process.           *)
(***************************************************************************)
(* Mutant: m_pos keeps its value when a head is read.                      *)
TakenKeepsPos(c, f) ==
  IF f.claim \in 1 .. PktLen
  THEN [buf |-> Append(c.buf, f), size |-> f.claim]
  ELSE IF c # Idle /\ f.claim = 0 THEN [c EXCEPT !.buf = Append(@, f)] ELSE c

(* A head begins a new packet whatever was under way, unless its size is   *)
(* too large; another frame goes on with the packet under way, if any.     *)
Taken(c, f) ==
  IF f.claim \in 1 .. PktLen
  THEN [buf |-> <<f>>, size |-> f.claim]
  ELSE IF c # Idle /\ f.claim = 0 THEN [c EXCEPT !.buf = Append(@, f)] ELSE c

Complete(c) == c # Idle /\ Len(c.buf) = c.size

(* CheckTotal: the CRC of the packet.                                      *)
CheckTotal(buf) ==
  /\ Len(buf) = PktLen
  /\ \A k \in 1 .. PktLen : buf[k].pkt = buf[1].pkt /\ buf[k].n = k

(* How much of one packet was read in order, after frame f.                *)
ReadSoFar(w, f) ==
  IF f.n = 1 THEN [pkt |-> f.pkt, n |-> 1]
  ELSE IF f.claim = 0 /\ w = [pkt |-> f.pkt, n |-> f.n - 1]
       THEN [pkt |-> f.pkt, n |-> f.n] ELSE [pkt |-> 0, n |-> 0]

(* The key, then the filter for the data.                                  *)
Process109 == keyed' = TRUE /\ filter' = DataIds /\ UNCHANGED sample

(* The data, which GetContent decoded with the key.                        *)
Process092(buf) ==
  /\ sample' = [keyed |-> keyed, early |-> \A k \in 1 .. PktLen : buf[k].early]
  /\ UNCHANGED <<keyed, filter>>

Handle(id, buf) ==
  /\ handled' = [handled EXCEPT ![id] = @ + 1]
  /\ IF id = KeyId THEN Process109 ELSE Process092(buf)

ReadFd ==
  /\ IsNext(<<Can0, "in">>)
  /\ tasks' = tasks \ {<<Can0, "in">>}
  /\ pump' = GoOn(tasks')
  /\ rx' = Tail(rx)
  /\ LET f == Head(rx)
         c == Taken(ctl[f.id], f)
         w == ReadSoFar(whole[f.id], f) IN
       /\ ctl' = [ctl EXCEPT ![f.id] = IF Complete(c) THEN Idle ELSE c]
       /\ whole' = [whole EXCEPT ![f.id] = w]
       /\ intact' = IF w.n = PktLen THEN [intact EXCEPT ![f.id] = @ + 1] ELSE intact
       /\ IF Complete(c) /\ CheckTotal(c.buf)
          THEN Handle(f.id, c.buf)
          ELSE UNCHANGED <<handled, keyed, filter, sample>>
  /\ UNCHANGED <<flight, odd, frame, snd, bus>>
-----------------------------------------------------------------------------
(***************************************************************************)
(* SetContent in another thread, and WriteFd.                              *)
(***************************************************************************)
Counted(cnt) == IF cnt < SndCap THEN cnt + 1 ELSE cnt

SetContent(r) ==
  /\ snd[r].pushed < MaxPushes[r]
  /\ snd' = [snd EXCEPT ![r].pushed = @ + 1, ![r].cnt = Counted(@)]
  /\ UNCHANGED <<flight, odd, rx, filter, pump, tasks, frame, bus, reader>>

(* The record a ring with m_mode = 1 hands out (DelayLine of CanQueueCtrl).*)
HandedOut(pushed) == IF pushed = 1 THEN 1 ELSE pushed - 1

(* Mutant: the next packet is popped before the one under way is sent.     *)
LoadedAnyTime(s) ==
  IF s.cnt > 0
  THEN [s EXCEPT !.cnt = @ - 1, !.cur = HandedOut(s.pushed)] ELSE s

(* if (0 == m_size) pop                                                    *)
Loaded(s) ==
  IF s.cur = 0 /\ s.cnt > 0
  THEN [s EXCEPT !.cnt = @ - 1, !.cur = HandedOut(s.pushed)] ELSE s

HasFrame(r) == snd[r].cur # 0 \/ snd[r].cnt > 0

AfterFrame(s) ==
  IF s.pos + 1 = PktLen THEN [s EXCEPT !.cur = 0, !.pos = 0] ELSE [s EXCEPT !.pos = @ + 1]

(* CSndCanCtrl::Process of the first id that has something to send.        *)
WriteFd(r) ==
  /\ IsNext(<<r[1], "out">>)
  /\ HasFrame(r)
  /\ \A q \in Routes : q[1] = r[1] /\ q[2] < r[2] => ~HasFrame(q)
  /\ LET s == Loaded(snd[r]) IN
       /\ snd' = [snd EXCEPT ![r] = AfterFrame(s)]
       /\ frame' = [route |-> r, pkt |-> s.cur, n |-> s.pos + 1]
  /\ tasks' = tasks \ {<<r[1], "out">>}
  /\ pump' = "write"
  /\ UNCHANGED <<flight, odd, rx, filter, bus, reader>>

WriteNothing(f) ==
  /\ IsNext(<<f, "out">>)
  /\ \A r \in Routes : r[1] = f => ~HasFrame(r)
  /\ tasks' = tasks \ {<<f, "out">>}
  /\ pump' = GoOn(tasks')
  /\ UNCHANGED <<flight, odd, rx, filter, frame, snd, bus, reader>>

(* write is tried again until it succeeds.                                 *)
Written ==
  /\ pump = "write"
  /\ bus' = [bus EXCEPT ![frame.route] = [pkt |-> frame.pkt, n |-> frame.n]]
  /\ frame' = NoFrame
  /\ pump' = GoOn(tasks)
  /\ UNCHANGED <<flight, odd, rx, filter, tasks, snd, reader>>

PumpWorks ==
  \/ ReadFd
  \/ \E r \in Routes : WriteFd(r)
  \/ \E f \in Fds : WriteNothing(f)
  \/ Written

Next ==
  \/ \E id \in RdIds, claim \in 0 .. TooLong : FlightSends(id, claim)
  \/ SetFilter
  \/ Start
  \/ \E writable \in SUBSET Fds : Poll(writable)
  \/ PumpWorks
  \/ \E r \in Routes : SetContent(r)

Spec == Init /\ [][Next]_vars

(* The thread goes on; a write succeeds in the end, and again and again    *)
(* poll finds room in the socket of every bus.                             *)
Fairness ==
  /\ WF_vars(SetFilter) /\ WF_vars(Start)
  /\ WF_vars(PumpWorks)
  /\ WF_vars(\E writable \in SUBSET Fds : Poll(writable))
  /\ SF_vars(Poll(Fds))

FairSpec == Spec /\ Fairness
-----------------------------------------------------------------------------
(***************************************************************************)
(* Properties.                                                             *)
(***************************************************************************)
Frame == [id : RdIds, pkt : Nat, n : 1 .. PktLen,
          claim : 0 .. TooLong, early : BOOLEAN]

(* No packet under way outgrows the size its head gave (m_pos never passes *)
(* m_size), and no ring counts more packets than it holds.                 *)
TypeOK ==
  /\ flight \in [RdIds -> [pkt : Nat, n : 1 .. PktLen]]
  /\ odd \in 0 .. MaxOdd
  /\ rx \in Seq(Frame) /\ Len(rx) <= RxCap
  /\ filter \in {RdIds, {KeyId}, DataIds}
  /\ pump \in {"none", "poll", "tasks", "write"}
  /\ tasks \subseteq Fds \X {"in", "out"}
  /\ <<Can0, "in">> \in tasks => rx # <<>>
  /\ pump = "write" => frame.route \in Routes
  /\ \A id \in RdIds :
       /\ ctl[id].buf \in Seq(Frame)
       /\ ctl[id].size \in 0 .. PktLen
       /\ ctl[id] = Idle \/ Len(ctl[id].buf) < ctl[id].size
  /\ keyed \in BOOLEAN
  /\ snd \in [Routes -> [pushed : Nat, cnt : 0 .. SndCap,
                         cur : Nat, pos : 0 .. PktLen - 1]]
  /\ sample \in [keyed : BOOLEAN, early : BOOLEAN]

(* A packet reaches its handler exactly when all its frames were read in   *)
(* order: whatever was lost before, whatever is read in between under      *)
(* other ids, and whatever looked like a head before it began.  A lost or  *)
(* misleading frame costs the packet it belongs to and no other.           *)
HandledIffIntact == handled = intact

(* A data packet is decoded without a key only if all of it was in the     *)
(* socket before CreateFd set the filter.                                  *)
BareOnlyEarly == sample.keyed \/ sample.early

(* What the handlers get: every intact packet and no other, and data with  *)
(* a key unless it came before the filter; and no position leaves its      *)
(* packet, no buffer its size.                                             *)
HandledRight == TypeOK /\ HandledIffIntact /\ BareOnlyEarly

(* What a route sends is whole packets: frame after frame, although pushes *)
(* overwrite the ring meanwhile and the other bus is served in between.    *)
WholePacketsSent ==
  [][\A r \in Routes :
       bus'[r] # bus[r] =>
         \/ bus'[r] = NextOf(bus[r])
         \/ bus[r].n = PktLen /\ bus'[r].n = 1]_bus

(* What is pushed is sent: the sender of a route becomes idle again.       *)
QueuedIsSent == \A r \in Routes : []<>~HasFrame(r)

(* A socket that is full is read again, although the pump also writes and  *)
(* waits for its writes to succeed.                                        *)
FullIsRead == []<>(pump = "none" \/ Len(rx) < RxCap)

(* The one thread serves both directions of both buses for ever.           *)
PumpGoesOn == QueuedIsSent /\ FullIsRead
=============================================================================
