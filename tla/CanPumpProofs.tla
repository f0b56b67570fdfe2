---------------------------- MODULE CanPumpProofs ---------------------------
(***************************************************************************)
(* The readers of packets.  CanPump: for any packet length of at least two *)
(* frames, any capacities, ids, routes and bounds, the readers hand over   *)
(* exactly the packets they read whole, data without a key is data from    *)
(* before the filter, and what is sent is whole packets.  Packets: for any *)
(* packet length and bounds, what each of the five readers finds and hands *)
(* over; for CanWire the checksums are any that are bytes.                 *)
(***************************************************************************)
EXTENDS CanPump, Packets, FiniteSetTheorems, SequenceTheorems,
        WellFoundedInduction, TLAPS

ReaderType == [buf : Seq(Frame), size : 0 .. PktLen]
SenderType == [pushed : Nat, cnt : 0 .. SndCap, cur : Nat, pos : 0 .. PktLen - 1]

HistoryOK ==
  /\ bus \in [Routes -> [pkt : Nat, n : 1 .. PktLen]]
  /\ whole \in [RdIds -> [pkt : Nat, n : 0 .. PktLen]]
  /\ intact \in [RdIds -> Nat]
  /\ handled \in [RdIds -> Nat]
  /\ ctl \in [RdIds -> ReaderType]

(* Frame a passed before frame b of the same id.                           *)
Precedes(a, b) == a.pkt < b.pkt \/ (a.pkt = b.pkt /\ a.n < b.n)

(* The frames of an id are in the socket in the order in which they were   *)
(* sent; the first frame of a packet is a head.                            *)
RxInv ==
  /\ \A i \in 1 .. Len(rx) :
       /\ rx[i].n = 1 => rx[i].claim = PktLen
       /\ \/ Precedes(rx[i], flight[rx[i].id])
          \/ /\ rx[i].pkt = flight[rx[i].id].pkt
             /\ rx[i].n = flight[rx[i].id].n
  /\ \A i, j \in 1 .. Len(rx) :
       i < j /\ rx[i].id = rx[j].id => Precedes(rx[i], rx[j])

ToCome(g) ==
  \/ \E i \in 1 .. Len(rx) : rx[i] = g
  \/ Precedes(flight[g.id], g)

(* buf holds the first frames of packet p, from the first one on.          *)
Prefix(buf, p) == \A k \in 1 .. Len(buf) : buf[k].pkt = p /\ buf[k].n = k

(* A reader that read part w of a packet in order has just that part in    *)
(* its buffer.                                                             *)
Agree(c, w) ==
  /\ w.n \in 1 .. PktLen - 1 =>
       c.size = PktLen /\ Len(c.buf) = w.n /\ Prefix(c.buf, w.pkt)
  /\ w.n = PktLen => c = Idle
  /\ c = Idle \/ (Len(c.buf) \in 1 .. c.size - 1)

(* A frame g that is still to come comes after what was read; and where    *)
(* the buffer holds the beginning of a packet although a frame was         *)
(* skipped, g comes after the frame that would continue it.                *)
Past(c, w, g) ==
  /\ w.n > 0 => Precedes(w, g)
  /\ \A p \in Nat :
       w.n = 0 /\ c # Idle /\ Prefix(c.buf, p) =>
         Precedes([pkt |-> p, n |-> Len(c.buf) + 1], g)

CtlInv ==
  \A id \in RdIds :
    /\ Agree(ctl[id], whole[id])
    /\ \A g \in Frame : g.id = id /\ ToCome(g) => Past(ctl[id], whole[id], g)

(* Data that was let in after the set-up was let in by a filter that the   *)
(* key had opened.                                                         *)
KeyInv ==
  /\ filter = RdIds => pump = "none"
  /\ pump = "none" => ~keyed /\ filter # DataIds
  /\ filter = DataIds => keyed
  /\ \A i \in 1 .. Len(rx) : rx[i].id \in DataIds => rx[i].early \/ keyed
  /\ \A id \in DataIds :
       \A k \in 1 .. Len(ctl[id].buf) : ctl[id].buf[k].early \/ keyed

ReadInv == RxInv /\ CtlInv /\ HandledIffIntact /\ KeyInv /\ BareOnlyEarly

(* Where the bus is in the packet a sender sends.                          *)
SndInv ==
  /\ \A r \in Routes :
       /\ snd[r].cur = 0 <=> snd[r].pos = 0
       /\ snd[r].cnt > 0 => snd[r].pushed > 0
       /\ ~(pump = "write" /\ frame.route = r) =>
            IF snd[r].pos = 0 THEN bus[r].n = PktLen
            ELSE bus[r] = [pkt |-> snd[r].cur, n |-> snd[r].pos]
  /\ pump = "write" =>
       /\ frame \in [route : Routes, pkt : Nat \ {0}, n : 1 .. PktLen]
       /\ IF frame.n = PktLen THEN snd[frame.route].pos = 0
          ELSE /\ snd[frame.route].pos = frame.n
               /\ snd[frame.route].cur = frame.pkt
       /\ IF frame.n = 1 THEN bus[frame.route].n = PktLen
          ELSE bus[frame.route] = [pkt |-> frame.pkt, n |-> frame.n - 1]

IInv == TypeOK /\ HistoryOK /\ ReadInv /\ SndInv
-----------------------------------------------------------------------------
(* Reading frame f keeps a reader and its history in agreement, and the    *)
(* packet it completes, if any, is the one that was read in order.         *)
LEMMA ReaderStep ==
  ASSUME NEW c \in ReaderType, NEW w \in [pkt : Nat, n : 0 .. PktLen],
         NEW f \in Frame, f.n = 1 => f.claim = PktLen,
         Agree(c, w), Past(c, w, f)
  PROVE  LET c1 == Taken(c, f)
             w1 == ReadSoFar(w, f)
             c2 == IF Complete(c1) THEN Idle ELSE c1
         IN /\ c1 \in ReaderType
            /\ w1 \in [pkt : Nat, n : 0 .. PktLen]
            /\ Complete(c1) /\ CheckTotal(c1.buf) <=> w1.n = PktLen
            /\ Agree(c2, w1)
            /\ \A g \in Frame : Precedes(f, g) /\ Past(c, w, g) => Past(c2, w1, g)
<1> DEFINE c1 == Taken(c, f)
           w1 == ReadSoFar(w, f)
           c2 == IF Complete(c1) THEN Idle ELSE c1
<1> USE CanPumpAssumption
<1>t. /\ f.n \in 1 .. PktLen /\ f.claim \in 0 .. PktLen + 1 /\ f.pkt \in Nat
      /\ c.buf \in Seq(Frame) /\ c.size \in 0 .. PktLen
      /\ Len(c.buf) \in Nat /\ Len(<<f>>) = 1 /\ <<f>>[1] = f /\ <<f>> \in Seq(Frame)
      /\ w.pkt \in Nat /\ w.n \in 0 .. PktLen
  BY DEF Frame, TooLong, ReaderType
<1>1. w1 \in [pkt : Nat, n : 0 .. PktLen]
  BY <1>t DEF ReadSoFar
<1> HIDE DEF c1, w1, c2
<1>2. CASE f.n = 1
  <2>1. c1 = [buf |-> <<f>>, size |-> PktLen] /\ w1 = [pkt |-> f.pkt, n |-> 1]
    BY <1>2, <1>t DEF c1, w1, Taken, ReadSoFar
  <2>2. ~Complete(c1) /\ c2 = c1 /\ w1.n # PktLen
    BY <2>1, <1>t DEF c2, Complete
  <2>3. Prefix(c1.buf, w1.pkt)
    BY <2>1, <1>t, <1>2 DEF Prefix
  <2>4. Agree(c2, w1)
    BY <2>1, <2>2, <2>3, <1>t DEF Agree
  <2>5. ASSUME NEW g \in Frame, Precedes(f, g) PROVE Past(c2, w1, g)
    BY <2>1, <2>5, <1>2 DEF Past, Precedes
  <2>6. c1 \in ReaderType
    BY <1>t, <2>1 DEF ReaderType
  <2> QED
    BY <1>1, <2>2, <2>4, <2>5, <2>6 DEF c1, w1, c2
<1>3. CASE f.n > 1 /\ f.claim \in 1 .. PktLen
  <2>1. c1 = [buf |-> <<f>>, size |-> f.claim] /\ w1 = [pkt |-> 0, n |-> 0]
    BY <1>3, <1>t DEF c1, w1, Taken, ReadSoFar
  <2>2. ~CheckTotal(c1.buf)
    BY <2>1, <1>t DEF CheckTotal
  <2>3. \A p \in Nat : ~Prefix(c1.buf, p)
    BY <2>1, <1>t, <1>3 DEF Prefix
  <2>4. c2 = Idle \/ (c2 = c1 /\ Len(c1.buf) < c1.size)
    BY <2>1, <1>t, <1>3 DEF c2, Complete, Idle
  <2>5. Agree(c2, w1)
    <3>1. c2 = Idle \/ Len(c2.buf) \in 1 .. c2.size - 1
      <4>1. c1.buf = <<f>> /\ c1.size = f.claim
        BY <2>1
      <4>2. Len(c1.buf) = 1 /\ c1.size \in 1 .. PktLen
        BY <4>1, <1>t, <1>3
      <4>3. CASE c2 = c1 /\ Len(c1.buf) < c1.size
        <5>1. c1.size \in Nat /\ 1 < c1.size
          BY <4>2, <4>3
        <5>2. 1 \in 1 .. c1.size - 1
          BY <5>1
        <5> QED
          BY <5>2, <4>2, <4>3
      <4> QED
        BY <4>3, <2>4
    <3>2. w1.n = 0
      BY <2>1
    <3> QED
      BY <3>1, <3>2 DEF Agree
  <2>6. ASSUME NEW g \in Frame PROVE Past(c2, w1, g)
    BY <2>1, <2>3, <2>4 DEF Past
  <2>7. c1 \in ReaderType
    BY <1>t, <1>3, <2>1 DEF ReaderType
  <2> QED
    BY <1>1, <1>t, <2>1, <2>2, <2>5, <2>6, <2>7 DEF c1, w1, c2
<1>4. CASE f.n > 1 /\ f.claim = PktLen + 1
  <2>1. c1 = c /\ w1 = [pkt |-> 0, n |-> 0]
    BY <1>4, <1>t DEF c1, w1, Taken, ReadSoFar
  <2>2. ~Complete(c1) /\ c2 = c
    BY <2>1, <1>t DEF c2, Complete, Agree
  <2>3. Agree(c2, w1)
    BY <2>1, <2>2, <1>t DEF Agree
  <2>4. ASSUME NEW g \in Frame, Precedes(f, g), Past(c, w, g) PROVE Past(c2, w1, g)
    <3> SUFFICES ASSUME NEW p \in Nat, c # Idle, Prefix(c.buf, p)
                 PROVE  Precedes([pkt |-> p, n |-> Len(c.buf) + 1], g)
      BY <2>1, <2>2 DEF Past
    <3>1. CASE w.n = 0
      BY <3>1, <2>4 DEF Past
    <3>2. CASE w.n # 0
      <4>1. Len(c.buf) = w.n /\ Prefix(c.buf, w.pkt) /\ w.n \in 1 .. PktLen
        BY <3>2, <1>t DEF Agree
      <4>2. p = w.pkt
        BY <4>1 DEF Prefix
      <4>3. Precedes(w, f)
        BY <4>1 DEF Past
      <4>4. g.pkt \in Nat /\ g.n \in 1 .. PktLen
        BY DEF Frame
      <4> QED
        BY <4>1, <4>2, <4>3, <4>4, <2>4, <1>t DEF Precedes
    <3> QED
      BY <3>1, <3>2
  <2> QED
    BY <1>1, <1>t, <2>1, <2>2, <2>3, <2>4 DEF c1, w1, c2
<1>5. CASE f.n > 1 /\ f.claim = 0 /\ c # Idle
  <2> DEFINE b == Append(c.buf, f)
  <2>1. c1 = [c EXCEPT !.buf = b]
    BY <1>5 DEF c1, Taken
  <2>2. /\ b \in Seq(Frame) /\ Len(b) = Len(c.buf) + 1 /\ b[Len(b)] = f
        /\ \A k \in 1 .. Len(c.buf) : b[k] = c.buf[k]
    BY <1>t
  <2>3. /\ c1 \in ReaderType /\ c1.buf = b /\ c1.size = c.size
        /\ Len(c.buf) \in 1 .. c.size - 1
    BY <2>1, <2>2, <1>5 DEF ReaderType, Agree
  <2> HIDE DEF b
  <2>4. CASE w = [pkt |-> f.pkt, n |-> f.n - 1]
    <3>1. w1 = [pkt |-> f.pkt, n |-> f.n]
      BY <1>5, <2>4 DEF w1, ReadSoFar
    <3>2. c.size = PktLen /\ Len(c.buf) = f.n - 1 /\ Prefix(c.buf, f.pkt)
      BY <2>4, <1>5, <1>t DEF Agree
    <3>3. Len(b) = f.n /\ Prefix(b, f.pkt)
      <4>1. Len(b) = f.n
        BY <3>2, <2>2, <1>t
      <4>2. ASSUME NEW k \in 1 .. Len(b) PROVE b[k].pkt = f.pkt /\ b[k].n = k
        <5>1. CASE k = Len(b)
          BY <5>1, <4>1, <2>2
        <5>2. CASE k # Len(b)
          <6>1. k \in 1 .. Len(c.buf)
            <7>1. Len(b) = Len(c.buf) + 1 /\ Len(c.buf) \in Nat
              BY <2>2, <1>t
            <7> QED
              BY <5>2, <7>1
          <6> QED
            BY <6>1, <2>2, <3>2 DEF Prefix
        <5> QED
          BY <5>1, <5>2
      <4> QED
        BY <4>1, <4>2 DEF Prefix
    <3>4. Complete(c1) /\ CheckTotal(c1.buf) <=> w1.n = PktLen
      BY <3>1, <3>2, <3>3, <2>3, <1>t DEF Complete, CheckTotal, Prefix, Idle
    <3>5. Agree(c2, w1)
      <4>1. CASE f.n = PktLen
        BY <4>1, <3>1, <3>4 DEF c2, Agree
      <4>2. CASE f.n # PktLen
        <5>1. c2 = c1
          BY <4>2, <3>2, <3>3, <2>3 DEF c2, Complete
        <5> QED
          BY <5>1, <4>2, <3>1, <3>2, <3>3, <2>3, <1>t DEF Agree
      <4> QED
        BY <4>1, <4>2
    <3>6. ASSUME NEW g \in Frame, Precedes(f, g) PROVE Past(c2, w1, g)
      BY <3>1, <3>6, <1>t DEF Past, Precedes
    <3> QED
      BY <1>1, <2>3, <3>4, <3>5, <3>6 DEF c1, w1, c2
  <2>5. CASE w # [pkt |-> f.pkt, n |-> f.n - 1]
    <3>1. w1 = [pkt |-> 0, n |-> 0]
      BY <1>5, <2>5 DEF w1, ReadSoFar
    <3>2. ASSUME NEW p \in Nat, Prefix(b, p) PROVE FALSE
      <4>1. Prefix(c.buf, p) /\ f.pkt = p /\ f.n = Len(c.buf) + 1
        <5>1. Len(b) \in 1 .. Len(b) /\ 1 .. Len(c.buf) \subseteq 1 .. Len(b)
          BY <2>2, <1>t
        <5>2. f.pkt = p /\ f.n = Len(b)
          BY <3>2, <2>2, <5>1 DEF Prefix
        <5>3. \A k \in 1 .. Len(c.buf) : c.buf[k].pkt = p /\ c.buf[k].n = k
          BY <3>2, <2>2, <5>1 DEF Prefix
        <5> QED
          BY <5>2, <5>3, <2>2 DEF Prefix
      <4>2. CASE w.n = 0
        <5>1. Precedes([pkt |-> p, n |-> Len(c.buf) + 1], f)
          BY <4>1, <4>2, <1>5 DEF Past
        <5> QED
          BY <5>1, <4>1, <1>t DEF Precedes
      <4>3. CASE w.n # 0
        <5>1. Len(c.buf) = w.n /\ Prefix(c.buf, w.pkt)
          BY <4>3, <1>5, <1>t DEF Agree
        <5>2. p = w.pkt
          <6>1. 1 \in 1 .. Len(c.buf)
            BY <4>3, <5>1, <1>t
          <6>2. c.buf[1].pkt = p
            BY <6>1, <4>1 DEF Prefix
          <6>3. c.buf[1].pkt = w.pkt
            BY <6>1, <5>1 DEF Prefix
          <6> QED
            BY <6>2, <6>3
        <5> QED
          BY <5>1, <5>2, <4>1, <2>5, <1>t
      <4> QED
        BY <4>2, <4>3
    <3>3. ~CheckTotal(b)
      <4>1. ASSUME CheckTotal(b) PROVE Prefix(b, b[1].pkt) /\ b[1].pkt \in Nat
        <5>1. Len(b) = PktLen /\ b[1] \in Frame
          BY <4>1, <2>2 DEF CheckTotal
        <5> QED
          BY <5>1, <4>1 DEF CheckTotal, Prefix, Frame
      <4> QED
        BY <4>1, <3>2
    <3>4. c2 = Idle \/ (c2 = c1 /\ Len(b) # c.size)
      BY <2>3 DEF c2, Complete
    <3>5. Agree(c2, w1)
      <4>1. w1.n = 0 /\ w1.n # PktLen
        BY <3>1
      <4>2. c2 = Idle \/ Len(c2.buf) \in 1 .. c2.size - 1
        <5>1. Len(b) = Len(c.buf) + 1 /\ Len(c.buf) \in Nat /\ c.size \in Nat
          BY <2>2, <1>t
        <5>2. Len(b) # c.size => Len(b) \in 1 .. c.size - 1
          BY <2>3, <5>1
        <5> QED
          BY <2>3, <3>4, <5>2
      <4> QED
        BY <4>1, <4>2 DEF Agree
    <3>6. ASSUME NEW g \in Frame PROVE Past(c2, w1, g)
      BY <3>1, <3>2, <3>4, <2>3 DEF Past
    <3> QED
      BY <1>1, <2>3, <3>1, <3>3, <3>5, <3>6 DEF c1, w1, c2
  <2> QED
    BY <2>4, <2>5
<1>6. CASE f.n > 1 /\ f.claim = 0 /\ c = Idle
  <2>1. c1 = Idle /\ c2 = Idle
    BY <1>6 DEF c1, c2, Taken
  <2>2. w1 = [pkt |-> 0, n |-> 0]
    BY <1>6, <1>t DEF w1, ReadSoFar, Agree, Idle
  <2> QED
    BY <1>1, <1>6, <2>1, <2>2 DEF c1, w1, c2, Complete, Agree, Past
<1> QED
  BY <1>t, <1>2, <1>3, <1>4, <1>5, <1>6
-----------------------------------------------------------------------------
LEMMA InitInv == Init => IInv
<1> SUFFICES ASSUME Init PROVE IInv
  OBVIOUS
<1> USE CanPumpAssumption DEF Init
<1>t. Idle \in ReaderType /\ Idle.buf = <<>> /\ Len(Idle.buf) = 0
  BY DEF Idle, ReaderType
<1>1. TypeOK
  <2>1. snd \in [Routes -> [pushed : Nat, cnt : 0 .. SndCap,
                            cur : Nat, pos : 0 .. PktLen - 1]]
    OBVIOUS
  <2>2. /\ flight \in [RdIds -> [pkt : Nat, n : 1 .. PktLen]]
        /\ rx \in Seq(Frame) /\ Len(rx) <= RxCap
        /\ sample \in [keyed : BOOLEAN, early : BOOLEAN]
    OBVIOUS
  <2>3. \A id \in RdIds : ctl[id] = Idle
    OBVIOUS
  <2>4. Idle.buf \in Seq(Frame) /\ Idle.size \in 0 .. PktLen
    BY <1>t DEF ReaderType
  <2>5. tasks \subseteq Fds \X {"in", "out"} /\ ~(<<Can0, "in">> \in tasks)
    OBVIOUS
  <2> HIDE DEF Init
  <2>6. filter = RdIds /\ pump = "none"
    BY DEF Init
  <2>7. keyed \in BOOLEAN
    BY Zenon DEF Init
  <2>8. odd \in 0 .. MaxOdd
    BY DEF Init
  <2> QED
    BY <2>1, <2>2, <2>3, <2>4, <2>5, <2>6, <2>7, <2>8 DEF TypeOK
<1>2. HistoryOK
  BY <1>t DEF HistoryOK
<1>3. RxInv
  BY DEF RxInv
<1>4. CtlInv
  BY <1>t DEF CtlInv, Agree, Past
<1>5. HandledIffIntact
  BY DEF HandledIffIntact
<1>6. KeyInv
  <2>1. RdIds # DataIds
    BY DEF RdIds
  <2>2. \A id \in DataIds : id \in RdIds
    BY DEF RdIds
  <2> QED
    BY <1>t, <2>1, <2>2 DEF KeyInv
<1>7. BareOnlyEarly
  BY DEF BareOnlyEarly
<1>8. SndInv
  BY DEF SndInv
<1> QED
  BY <1>1, <1>2, <1>3, <1>4, <1>5, <1>6, <1>7, <1>8 DEF IInv, ReadInv

(* A step that touches neither the bus of can0 nor the readers.            *)
LEMMA ReadSame ==
  ASSUME ReadInv, UNCHANGED <<flight, rx, reader>>,
         filter' = filter /\ (pump' = "none" <=> pump = "none")
  PROVE  ReadInv'
<1> USE DEF ReadInv, reader
<1>1. RxInv'
  BY DEF RxInv, Precedes
<1>2. CtlInv'
  BY DEF CtlInv, ToCome
<1>3. KeyInv'
  BY DEF KeyInv
<1>4. HandledIffIntact' /\ BareOnlyEarly'
  BY DEF HandledIffIntact, BareOnlyEarly
<1> QED
  BY <1>1, <1>2, <1>3, <1>4

(* A step that touches neither the senders nor a write under way.          *)
LEMMA SndSame ==
  ASSUME SndInv, UNCHANGED <<snd, bus, frame>>, pump # "write", pump' # "write"
  PROVE  SndInv'
BY DEF SndInv

LEMMA FlightSendsInv ==
  ASSUME IInv, NEW id \in RdIds, NEW claim \in 0 .. TooLong, FlightSends(id, claim)
  PROVE  IInv'
<1> DEFINE f == NextOf(flight[id])
           fr == [id |-> id, pkt |-> f.pkt, n |-> f.n, claim |-> claim,
                  early |-> pump = "none" /\ filter = RdIds]
<1> USE CanPumpAssumption DEF IInv, ReadInv
<1>t. /\ flight[id] \in [pkt : Nat, n : 1 .. PktLen]
      /\ f \in [pkt : Nat, n : 1 .. PktLen]
      /\ Precedes(flight[id], f)
      /\ flight' = [flight EXCEPT ![id] = f]
      /\ f.n = 1 => claim = PktLen
  <2>1. flight[id] \in [pkt : Nat, n : 1 .. PktLen]
    BY DEF TypeOK
  <2>2. f \in [pkt : Nat, n : 1 .. PktLen] /\ Precedes(flight[id], f)
    BY <2>1 DEF NextOf, Precedes
  <2> QED
    BY <2>1, <2>2 DEF FlightSends, Claims
<1>u. UNCHANGED <<filter, pump, tasks, frame, snd, bus, reader>>
  BY DEF FlightSends
<1>r. rx' = rx \/ (rx' = Append(rx, fr) /\ id \in filter /\ Len(rx) < RxCap)
  BY DEF FlightSends
<1>o. odd' \in 0 .. MaxOdd
  BY DEF FlightSends, TypeOK
<1> HIDE DEF f
<1>f. fr \in Frame /\ fr.id = id /\ fr.pkt = f.pkt /\ fr.n = f.n /\ fr.claim = claim
  BY <1>t DEF Frame
<1>s. /\ rx \in Seq(Frame) /\ rx' \in Seq(Frame) /\ Len(rx') <= RxCap
      /\ Len(rx) \in Nat
      /\ \A i \in 1 .. Len(rx) : i \in 1 .. Len(rx') /\ rx'[i] = rx[i]
      /\ \A i \in 1 .. Len(rx') :
           i \in 1 .. Len(rx) \/ (i = Len(rx) + 1 /\ rx'[i] = fr /\ id \in filter)
  <2>1. rx \in Seq(Frame) /\ Len(rx) <= RxCap /\ Len(rx) \in Nat
    BY DEF TypeOK
  <2>2. CASE rx' = rx
    BY <2>1, <2>2
  <2>3. CASE rx' = Append(rx, fr) /\ id \in filter /\ Len(rx) < RxCap
    <3> HIDE DEF fr
    <3>1. /\ rx' \in Seq(Frame) /\ Len(rx') = Len(rx) + 1 /\ rx'[Len(rx) + 1] = fr
          /\ \A i \in 1 .. Len(rx) : rx'[i] = rx[i]
      BY <2>1, <2>3, <1>f
    <3> QED
      BY <2>1, <2>3, <3>1
  <2> QED
    BY <2>2, <2>3, <1>r
<1> HIDE DEF fr
<1>1. TypeOK'
  <2>1. flight' \in [RdIds -> [pkt : Nat, n : 1 .. PktLen]]
    BY <1>t DEF TypeOK
  <2>2. <<Can0, "in">> \in tasks' => rx' # <<>>
    BY <1>s, <1>u, <1>r DEF TypeOK
  <2> QED
    BY <1>u, <1>o, <1>s, <2>1, <2>2 DEF TypeOK, reader
<1>2. HistoryOK'
  BY <1>u DEF HistoryOK, reader
<1>q. ASSUME NEW i \in 1 .. Len(rx), rx[i].id = id PROVE Precedes(rx[i], f)
  <2>1. rx[i] \in Frame
    BY <1>s
  <2>2. \/ Precedes(rx[i], flight[id])
        \/ rx[i].pkt = flight[id].pkt /\ rx[i].n = flight[id].n
    BY <1>q DEF RxInv
  <2>3. rx[i].pkt \in Nat /\ rx[i].n \in Nat
    BY <2>1 DEF Frame
  <2>4. /\ flight[id].pkt \in Nat /\ flight[id].n \in Nat
        /\ f.pkt \in Nat /\ f.n \in Nat
    BY <1>t
  <2>5. flight[id].pkt < f.pkt \/ (flight[id].pkt = f.pkt /\ flight[id].n < f.n)
    BY <1>t DEF Precedes
  <2>6. \/ rx[i].pkt < flight[id].pkt
        \/ rx[i].pkt = flight[id].pkt /\ rx[i].n <= flight[id].n
    BY <2>2, <2>3, <2>4 DEF Precedes
  <2>7. rx[i].pkt < f.pkt \/ (rx[i].pkt = f.pkt /\ rx[i].n < f.n)
    BY <2>3, <2>4, <2>5, <2>6
  <2> QED
    BY <2>7 DEF Precedes
<1>3. RxInv'
  <2>1. ASSUME NEW i \in 1 .. Len(rx')
        PROVE  /\ rx'[i].n = 1 => rx'[i].claim = PktLen
               /\ \/ Precedes(rx'[i], flight'[rx'[i].id])
                  \/ /\ rx'[i].pkt = flight'[rx'[i].id].pkt
                     /\ rx'[i].n = flight'[rx'[i].id].n
    <3>1. CASE i = Len(rx) + 1 /\ rx'[i] = fr
      BY <3>1, <1>f, <1>t DEF TypeOK
    <3>2. CASE i \in 1 .. Len(rx)
      <4>1. rx'[i] = rx[i] /\ rx[i] \in Frame
        BY <3>2, <1>s
      <4>2. CASE rx[i].id = id
        <5>1. Precedes(rx[i], f)
          BY <4>1, <4>2, <3>2, <1>q DEF RxInv
        <5> QED
          BY <5>1, <4>1, <4>2, <3>2, <1>t DEF RxInv, TypeOK
      <4>3. CASE rx[i].id # id
        <5>1. rx[i].id \in RdIds /\ flight'[rx[i].id] = flight[rx[i].id]
          BY <4>1, <4>3, <1>t DEF TypeOK, Frame
        <5>2. /\ rx[i].n = 1 => rx[i].claim = PktLen
              /\ \/ Precedes(rx[i], flight[rx[i].id])
                 \/ rx[i].pkt = flight[rx[i].id].pkt /\ rx[i].n = flight[rx[i].id].n
          BY <3>2 DEF RxInv
        <5> QED
          BY <4>1, <5>1, <5>2
      <4> QED
        BY <4>2, <4>3
    <3> QED
      BY <3>1, <3>2, <1>s
  <2>2. ASSUME NEW i \in 1 .. Len(rx'), NEW j \in 1 .. Len(rx'),
               i < j, rx'[i].id = rx'[j].id
        PROVE  Precedes(rx'[i], rx'[j])
    <3>1. i \in 1 .. Len(rx) /\ rx'[i] = rx[i] /\ rx[i] \in Frame
      BY <2>2, <1>s
    <3>2. CASE j \in 1 .. Len(rx)
      BY <3>1, <3>2, <2>2, <1>s DEF RxInv
    <3>3. CASE rx'[j] = fr
      <4>1. Precedes(rx[i], f)
        BY <3>1, <3>3, <2>2, <1>f, <1>q DEF RxInv
      <4> QED
        BY <4>1, <3>1, <3>3, <1>f DEF Precedes
    <3> QED
      BY <3>2, <3>3, <1>s
  <2> QED
    BY <2>1, <2>2 DEF RxInv, Precedes
<1>4. CtlInv'
  <2>1. ASSUME NEW g \in Frame, ToCome(g)' PROVE ToCome(g)
    <3>1. CASE \E i \in 1 .. Len(rx') : rx'[i] = g
      <4> PICK i \in 1 .. Len(rx') : rx'[i] = g
        BY <3>1
      <4>1. CASE i \in 1 .. Len(rx)
        BY <4>1, <1>s DEF ToCome
      <4>2. CASE g = fr
        <5>1. Precedes(flight[g.id], g)
          BY <4>2, <1>f, <1>t DEF Precedes
        <5> QED
          BY <5>1 DEF ToCome
      <4> QED
        BY <4>1, <4>2, <1>s
    <3>2. CASE Precedes(flight'[g.id], g)
      <4>1. Precedes(flight[g.id], g)
        BY <3>2, <1>t DEF Precedes, Frame, TypeOK
      <4> QED
        BY <4>1 DEF ToCome
    <3> QED
      BY <2>1, <3>1, <3>2 DEF ToCome, Precedes
  <2> QED
    BY <2>1, <1>u DEF CtlInv, ReadInv, reader
<1>5. KeyInv'
  <2>1. ASSUME NEW i \in 1 .. Len(rx'), rx'[i].id \in DataIds
        PROVE  rx'[i].early \/ keyed
    <3>1. CASE i \in 1 .. Len(rx)
      BY <3>1, <2>1, <1>s DEF KeyInv, ReadInv
    <3>2. CASE rx'[i] = fr /\ id \in filter
      <4>1. filter = RdIds => fr.early
        BY DEF KeyInv, ReadInv, fr
      <4>2. filter # {KeyId}
        BY <3>2, <2>1, <1>f
      <4> QED
        BY <3>2, <4>1, <4>2 DEF KeyInv, ReadInv, TypeOK
    <3> QED
      BY <3>1, <3>2, <1>s
  <2> QED
    BY <2>1, <1>u DEF KeyInv, ReadInv, reader
<1>6. HandledIffIntact' /\ BareOnlyEarly'
  BY <1>u DEF HandledIffIntact, BareOnlyEarly, ReadInv, reader
<1>7. SndInv'
  BY <1>u DEF SndInv
<1> QED
  BY <1>1, <1>2, <1>3, <1>4, <1>5, <1>6, <1>7 DEF ReadInv

LEMMA SetUpInv ==
  ASSUME IInv, SetFilter \/ Start
  PROVE  IInv'
<1> USE CanPumpAssumption DEF SetFilter, Start
<1>t. KeyId \in RdIds /\ KeyId \notin DataIds /\ {KeyId} # DataIds
  BY DEF RdIds
<1>1. UNCHANGED <<flight, odd, rx, tasks, frame, snd, bus, reader>>
  OBVIOUS
<1>2. TypeOK' /\ HistoryOK'
  BY <1>1 DEF IInv, TypeOK, HistoryOK, reader
<1>3. RxInv' /\ CtlInv'
  BY <1>1 DEF IInv, ReadInv, RxInv, CtlInv, ToCome, Precedes, reader
<1>4. KeyInv'
  BY <1>1, <1>t DEF IInv, TypeOK, ReadInv, KeyInv, reader
<1>5. HandledIffIntact' /\ BareOnlyEarly'
  BY <1>1 DEF IInv, ReadInv, HandledIffIntact, BareOnlyEarly, reader
<1>6. SndInv'
  BY <1>1 DEF IInv, SndInv
<1> QED
  BY <1>2, <1>3, <1>4, <1>5, <1>6 DEF IInv, ReadInv

LEMMA PollInv ==
  ASSUME IInv, NEW writable \in SUBSET Fds, Poll(writable)
  PROVE  IInv'
<1>1. UNCHANGED <<flight, odd, rx, filter, frame, snd, bus, reader>>
      /\ pump = "poll" /\ pump' \in {"poll", "tasks"}
  BY DEF Poll, GoOn
<1>2. tasks' \subseteq Stored(writable)
  BY DEF Poll, LeftOver
<1>3. tasks' \subseteq Fds \X {"in", "out"} /\ (<<Can0, "in">> \in tasks' => rx # <<>>)
  BY <1>2 DEF Stored
<1>4. TypeOK' /\ HistoryOK'
  BY <1>1, <1>3 DEF IInv, TypeOK, HistoryOK, reader
<1> QED
  BY <1>1, <1>4, ReadSame, SndSame DEF IInv

LEMMA WriteNothingInv ==
  ASSUME IInv, NEW f \in Fds, WriteNothing(f)
  PROVE  IInv'
<1>1. UNCHANGED <<flight, odd, rx, filter, frame, snd, bus, reader>>
      /\ pump = "tasks" /\ pump' \in {"poll", "tasks"} /\ tasks' \subseteq tasks
  BY DEF WriteNothing, GoOn, IsNext
<1>2. TypeOK' /\ HistoryOK'
  BY <1>1 DEF IInv, TypeOK, HistoryOK, reader
<1> QED
  BY <1>1, <1>2, ReadSame, SndSame DEF IInv

(* What two assignments to fields of a sender do.                          *)
LEMMA SenderFields ==
  ASSUME NEW s \in SenderType
  PROVE  /\ s.pushed \in Nat /\ s.cnt \in 0 .. SndCap
         /\ s.cur \in Nat /\ s.pos \in 0 .. PktLen - 1
BY DEF SenderType

WithPush(s, p, k) == [s EXCEPT !.pushed = p, !.cnt = k]
WithLoad(s, k, c) == [s EXCEPT !.cnt = k, !.cur = c]
WithPlace(s, c, p) == [s EXCEPT !.cur = c, !.pos = p]

LEMMA TwoFields ==
  ASSUME NEW s \in SenderType
  PROVE  /\ \A p \in Nat, k \in 0 .. SndCap :
              /\ WithPush(s, p, k) \in SenderType
              /\ WithPush(s, p, k).pushed = p
              /\ WithPush(s, p, k).cnt = k
              /\ WithPush(s, p, k).cur = s.cur
              /\ WithPush(s, p, k).pos = s.pos
         /\ \A k \in 0 .. SndCap, c \in Nat :
              /\ WithLoad(s, k, c) \in SenderType
              /\ WithLoad(s, k, c).pushed = s.pushed
              /\ WithLoad(s, k, c).cnt = k
              /\ WithLoad(s, k, c).cur = c
              /\ WithLoad(s, k, c).pos = s.pos
         /\ \A c \in Nat, p \in 0 .. PktLen - 1 :
              /\ WithPlace(s, c, p) \in SenderType
              /\ WithPlace(s, c, p).pushed = s.pushed
              /\ WithPlace(s, c, p).cnt = s.cnt
              /\ WithPlace(s, c, p).cur = c
              /\ WithPlace(s, c, p).pos = p
BY DEF SenderType, WithPush, WithLoad, WithPlace

LEMMA SetContentInv ==
  ASSUME IInv, NEW r \in Routes, SetContent(r)
  PROVE  IInv'
<1> USE CanPumpAssumption
<1>1. UNCHANGED <<flight, odd, rx, filter, pump, tasks, frame, bus, reader>>
  BY DEF SetContent
<1>2. snd \in [Routes -> SenderType]
  BY DEF IInv, TypeOK, SenderType
<1>3. snd[r] \in SenderType /\ Counted(snd[r].cnt) \in 0 .. SndCap
  BY <1>2 DEF Counted, SenderType
<1> HIDE DEF Counted
<1>4. /\ snd' \in [Routes -> SenderType]
      /\ \A q \in Routes : snd'[q].cur = snd[q].cur /\ snd'[q].pos = snd[q].pos
      /\ \A q \in Routes : snd'[q].cnt > 0 => snd'[q].pushed > 0
  <2> DEFINE v == snd[r]
             p == v.pushed + 1
             k == Counted(v.cnt)
             t == WithPush(v, p, k)
  <2>1. snd' = [snd EXCEPT ![r] = t]
    BY <1>2 DEF SetContent, WithPush
  <2>2. v \in SenderType /\ p \in Nat /\ p > 0 /\ k \in 0 .. SndCap
    BY <1>3, SenderFields
  <2> HIDE DEF v, p, k
  <2>3. t \in SenderType
    BY <2>2, TwoFields
  <2>4. t.cur = v.cur
    BY <2>2, TwoFields
  <2>5. t.pos = v.pos
    BY <2>2, TwoFields
  <2>6. t.pushed = p
    BY <2>2, TwoFields
  <2> HIDE DEF t
  <2> QED
    BY <2>1, <2>2, <2>3, <2>4, <2>5, <2>6, <1>2 DEF IInv, SndInv, v
<1>5. TypeOK' /\ HistoryOK'
  BY <1>1, <1>4 DEF IInv, TypeOK, HistoryOK, SenderType, reader
<1>6. SndInv'
  BY <1>1, <1>4 DEF IInv, SndInv
<1> QED
  BY <1>1, <1>5, <1>6, ReadSame DEF IInv

LEMMA WriteFdInv ==
  ASSUME IInv, NEW r \in Routes, WriteFd(r)
  PROVE  IInv'
<1> DEFINE s == Loaded(snd[r])
<1> USE CanPumpAssumption
<1>1. /\ UNCHANGED <<flight, odd, rx, filter, bus, reader>>
      /\ pump = "tasks" /\ pump' = "write" /\ tasks' \subseteq tasks
      /\ snd' = [snd EXCEPT ![r] = AfterFrame(s)]
      /\ frame' = [route |-> r, pkt |-> s.cur, n |-> s.pos + 1]
      /\ HasFrame(r)
  BY DEF WriteFd, IsNext
<1>2. snd \in [Routes -> SenderType]
  BY DEF IInv, TypeOK, SenderType
<1>3. s \in SenderType /\ s.cur # 0 /\ s.pos = snd[r].pos
      /\ (snd[r].pos # 0 => s.cur = snd[r].cur)
      /\ (s.cnt > 0 => s.pushed > 0)
  <2>1. snd[r] \in SenderType
    BY <1>2
  <2>2. /\ snd[r].cur = 0 <=> snd[r].pos = 0
        /\ snd[r].cnt > 0 => snd[r].pushed > 0
    BY DEF IInv, SndInv
  <2>3. CASE snd[r].cur = 0 /\ snd[r].cnt > 0
    <3>1. HandedOut(snd[r].pushed) \in Nat \ {0}
      BY <2>1, <2>2, <2>3 DEF HandedOut, SenderType
    <3> DEFINE v == snd[r]
               k == v.cnt - 1
               h == HandedOut(v.pushed)
               u == WithLoad(v, k, h)
    <3>2. s = u
      BY <2>3 DEF Loaded, WithLoad
    <3>3. v \in SenderType /\ k \in 0 .. SndCap /\ h \in Nat \ {0}
      BY <2>1, <2>3, <3>1, SenderFields
    <3> HIDE DEF v, k, h, s
    <3>4. u \in SenderType
      BY <3>3, TwoFields
    <3>5. u.pushed = v.pushed
      BY <3>3, TwoFields
    <3>6. u.pos = v.pos
      BY <3>3, TwoFields
    <3>7. u.cur = h
      BY <3>3, TwoFields
    <3> HIDE DEF u
    <3> QED
      BY <2>2, <2>3, <3>2, <3>3, <3>4, <3>5, <3>6, <3>7 DEF v
  <2>4. CASE ~(snd[r].cur = 0 /\ snd[r].cnt > 0)
    <3>1. s = snd[r] /\ snd[r].cur # 0
      BY <2>1, <2>4, <1>1 DEF Loaded, HasFrame, SenderType
    <3> QED
      BY <2>1, <2>2, <3>1
  <2> QED
    BY <2>3, <2>4
<1> HIDE DEF s
<1>4. /\ AfterFrame(s) \in SenderType
      /\ AfterFrame(s).cnt = s.cnt /\ AfterFrame(s).pushed = s.pushed
      /\ s.pos + 1 = PktLen => AfterFrame(s).cur = 0 /\ AfterFrame(s).pos = 0
      /\ s.pos + 1 # PktLen => AfterFrame(s).cur = s.cur /\ AfterFrame(s).pos = s.pos + 1
  <2>1. CASE s.pos + 1 = PktLen
    <3>1. AfterFrame(s) = WithPlace(s, 0, 0)
      BY <2>1 DEF AfterFrame, WithPlace
    <3>2. 0 \in Nat /\ 0 \in 0 .. PktLen - 1
      OBVIOUS
    <3>3. WithPlace(s, 0, 0) \in SenderType
      BY <3>2, <1>3, TwoFields
    <3>4. WithPlace(s, 0, 0).pushed = s.pushed /\ WithPlace(s, 0, 0).cnt = s.cnt
      BY <3>2, <1>3, TwoFields
    <3>5. WithPlace(s, 0, 0).cur = 0 /\ WithPlace(s, 0, 0).pos = 0
      BY <3>2, <1>3, TwoFields
    <3> QED
      BY <2>1, <3>1, <3>3, <3>4, <3>5
  <2>2. CASE s.pos + 1 # PktLen
    <3>1. AfterFrame(s) = [s EXCEPT !.pos = s.pos + 1]
      BY <2>2 DEF AfterFrame
    <3> QED
      BY <2>2, <3>1, <1>3 DEF SenderType
  <2> QED
    BY <2>1, <2>2
<1>5. snd' \in [Routes -> SenderType]
  BY <1>1, <1>2, <1>4
<1>6. TypeOK' /\ HistoryOK'
  BY <1>1, <1>5 DEF IInv, TypeOK, HistoryOK, SenderType, reader
<1>7. SndInv'
  <2>1. frame' \in [route : Routes, pkt : Nat \ {0}, n : 1 .. PktLen]
    BY <1>1, <1>3 DEF SenderType
  <2>2. snd'[r] = AfterFrame(s) /\ \A q \in Routes \ {r} : snd'[q] = snd[q]
    BY <1>1, <1>2
  <2>3. ASSUME NEW q \in Routes
        PROVE  /\ snd'[q].cur = 0 <=> snd'[q].pos = 0
               /\ snd'[q].cnt > 0 => snd'[q].pushed > 0
    <3>1. s.pos \in Nat
      BY <1>3 DEF SenderType
    <3>2. CASE q = r
      BY <3>1, <3>2, <2>2, <1>3, <1>4
    <3>3. CASE q # r
      BY <3>3, <2>2 DEF IInv, SndInv
    <3> QED
      BY <3>2, <3>3
  <2>4. IF frame'.n = PktLen THEN snd'[r].pos = 0
        ELSE snd'[r].pos = frame'.n /\ snd'[r].cur = frame'.pkt
    BY <2>2, <1>1, <1>3, <1>4
  <2>5. IF frame'.n = 1 THEN bus[r].n = PktLen
        ELSE bus[r] = [pkt |-> frame'.pkt, n |-> frame'.n - 1]
    <3>1. /\ snd[r].cur = 0 <=> snd[r].pos = 0
          /\ IF snd[r].pos = 0 THEN bus[r].n = PktLen
             ELSE bus[r] = [pkt |-> snd[r].cur, n |-> snd[r].pos]
      BY <1>1 DEF IInv, SndInv
    <3>2. s.pos \in Nat /\ frame'.n = s.pos + 1 /\ frame'.pkt = s.cur
      BY <1>1, <1>3 DEF SenderType
    <3> QED
      BY <3>1, <3>2, <1>3
  <2>6. ASSUME NEW q \in Routes, q # r
        PROVE  IF snd'[q].pos = 0 THEN bus[q].n = PktLen
               ELSE bus[q] = [pkt |-> snd'[q].cur, n |-> snd'[q].pos]
    BY <2>6, <2>2, <1>1 DEF IInv, SndInv
  <2> QED
    BY <1>1, <2>1, <2>3, <2>4, <2>5, <2>6 DEF SndInv
<1> QED
  BY <1>1, <1>6, <1>7, ReadSame DEF IInv

LEMMA WrittenInv ==
  ASSUME IInv, Written
  PROVE  IInv'
<1> USE CanPumpAssumption
<1>1. /\ UNCHANGED <<flight, odd, rx, filter, tasks, snd, reader>>
      /\ pump = "write" /\ pump' \in {"poll", "tasks"}
      /\ bus' = [bus EXCEPT ![frame.route] = [pkt |-> frame.pkt, n |-> frame.n]]
  BY DEF Written, GoOn
<1>2. frame \in [route : Routes, pkt : Nat \ {0}, n : 1 .. PktLen]
  BY <1>1 DEF IInv, SndInv
<1>3. TypeOK' /\ HistoryOK'
  BY <1>1, <1>2 DEF IInv, TypeOK, HistoryOK, reader
<1>4. SndInv'
  <2>1. ASSUME NEW q \in Routes
        PROVE  IF snd[q].pos = 0 THEN bus'[q].n = PktLen
               ELSE bus'[q] = [pkt |-> snd[q].cur, n |-> snd[q].pos]
    BY <1>1, <1>2 DEF IInv, SndInv, HistoryOK
  <2> QED
    BY <1>1, <2>1 DEF IInv, SndInv
<1> QED
  BY <1>1, <1>3, <1>4, ReadSame DEF IInv
LEMMA ReadFdInv ==
  ASSUME IInv, ReadFd
  PROVE  IInv'
<1> DEFINE f == Head(rx)
           c == ctl[f.id]
           w == whole[f.id]
           c1 == Taken(c, f)
           w1 == ReadSoFar(w, f)
           c2 == IF Complete(c1) THEN Idle ELSE c1
           done == Complete(c1) /\ CheckTotal(c1.buf)
<1> USE CanPumpAssumption
<1>1. /\ UNCHANGED <<flight, odd, frame, snd, bus>>
      /\ pump = "tasks" /\ pump' \in {"poll", "tasks"}
      /\ tasks' = tasks \ {<<Can0, "in">>}
      /\ rx' = Tail(rx)
      /\ ctl' = [ctl EXCEPT ![f.id] = c2]
      /\ whole' = [whole EXCEPT ![f.id] = w1]
      /\ intact' = IF w1.n = PktLen THEN [intact EXCEPT ![f.id] = @ + 1] ELSE intact
      /\ IF done THEN Handle(f.id, c1.buf) ELSE UNCHANGED <<handled, keyed, filter, sample>>
  BY DEF ReadFd, IsNext, GoOn
<1>2. rx \in Seq(Frame) /\ rx # <<>> /\ Len(rx) <= RxCap
  BY DEF ReadFd, IsNext, IInv, TypeOK
<1>3. /\ Len(rx) \in Nat \ {0} /\ f = rx[1] /\ f \in Frame
      /\ rx' \in Seq(Frame) /\ Len(rx') = Len(rx) - 1
      /\ \A i \in 1 .. Len(rx') : i + 1 \in 1 .. Len(rx) /\ rx'[i] = rx[i + 1]
  BY <1>1, <1>2
<1>4. f.id \in RdIds /\ c \in ReaderType /\ w \in [pkt : Nat, n : 0 .. PktLen]
  BY <1>3 DEF IInv, HistoryOK, Frame
<1>5. f.n = 1 => f.claim = PktLen
  BY <1>3 DEF IInv, ReadInv, RxInv
<1>6. Agree(c, w) /\ Past(c, w, f)
  <2>1. ToCome(f)
    BY <1>3 DEF ToCome
  <2> QED
    BY <2>1, <1>3, <1>4 DEF IInv, ReadInv, CtlInv
<1>7. /\ c1 \in ReaderType
      /\ w1 \in [pkt : Nat, n : 0 .. PktLen]
      /\ done <=> w1.n = PktLen
      /\ Agree(c2, w1)
      /\ \A g \in Frame : Precedes(f, g) /\ Past(c, w, g) => Past(c2, w1, g)
  BY <1>3, <1>4, <1>5, <1>6, ReaderStep
<1>8. c2 = Idle \/ c2 = c1
  OBVIOUS
<1>9. c2 \in ReaderType
  BY <1>7, <1>8 DEF ReaderType, Idle
<1>k. \A k \in 1 .. Len(c1.buf) :
         c1.buf[k] = f \/ (k \in 1 .. Len(c.buf) /\ c1.buf[k] = c.buf[k])
  <2>1. c.buf \in Seq(Frame) /\ Len(c.buf) \in Nat
    BY <1>4 DEF ReaderType
  <2>2. CASE c1 = c
    BY <2>2
  <2>3. CASE c1.buf = <<f>>
    BY <2>3
  <2>4. CASE c1.buf = Append(c.buf, f)
    <3> DEFINE b == c.buf
    <3> HIDE DEF c, f
    <3>1. /\ Len(Append(b, f)) = Len(b) + 1
          /\ Append(b, f)[Len(b) + 1] = f
          /\ \A k \in 1 .. Len(b) : Append(b, f)[k] = b[k]
      BY <2>1, <1>3
    <3> QED
      BY <2>4, <2>1, <3>1
  <2>5. c1.buf = <<f>> \/ c1 = c \/ c1 = [c EXCEPT !.buf = Append(c.buf, f)]
    BY DEF Taken
  <2> QED
    BY <2>2, <2>3, <2>4, <2>5, <1>4 DEF ReaderType
<1> HIDE DEF f, c, w, c1, w1, c2
<1>h. /\ handled' \in [RdIds -> Nat]
      /\ handled' = IF done THEN [handled EXCEPT ![f.id] = @ + 1] ELSE handled
      /\ keyed' = (keyed \/ (done /\ f.id = KeyId))
      /\ filter' = IF done /\ f.id = KeyId THEN DataIds ELSE filter
      /\ sample' = IF done /\ f.id # KeyId
                   THEN [keyed |-> keyed, early |-> \A k \in 1 .. PktLen : c1.buf[k].early]
                   ELSE sample
  <2>1. keyed \in BOOLEAN /\ handled \in [RdIds -> Nat]
    BY DEF IInv, TypeOK, HistoryOK
  <2>2. CASE ~done
    BY <2>1, <2>2, <1>1
  <2>3. CASE done /\ f.id = KeyId
    <3>1. /\ handled' = [handled EXCEPT ![f.id] = @ + 1]
          /\ keyed' = TRUE /\ filter' = DataIds /\ sample' = sample
      BY <2>3, <1>1 DEF Handle, Process109, Process092
    <3>2. keyed' = (keyed \/ (done /\ f.id = KeyId))
      BY Zenon, <2>3, <3>1
    <3>3. handled' \in [RdIds -> Nat]
      BY <2>1, <3>1, <1>4
    <3> QED
      BY Zenon, <2>3, <3>1, <3>2, <3>3
  <2>4. CASE done /\ f.id # KeyId
    <3>1. /\ handled' = [handled EXCEPT ![f.id] = @ + 1]
          /\ keyed' = keyed /\ filter' = filter
          /\ sample' = [keyed |-> keyed, early |-> \A k \in 1 .. PktLen : c1.buf[k].early]
      BY <2>4, <1>1 DEF Handle, Process109, Process092
    <3> QED
      BY <2>1, <2>4, <3>1, <1>4
  <2> QED
    BY <2>2, <2>3, <2>4
<1>t. TypeOK'
  <2>1. ctl' \in [RdIds -> ReaderType]
    BY <1>1, <1>4, <1>9 DEF IInv, HistoryOK
  <2>2. ASSUME NEW id \in RdIds
        PROVE  /\ ctl'[id].buf \in Seq(Frame) /\ ctl'[id].size \in 0 .. PktLen
               /\ ctl'[id] = Idle \/ Len(ctl'[id].buf) < ctl'[id].size
    <3>1. CASE id = f.id
      <4>1. ctl'[id] = c2
        BY <3>1, <1>1, <1>4 DEF IInv, HistoryOK
      <4>2. c2 = Idle \/ Len(c2.buf) < c2.size
        BY <1>7, <1>9 DEF Agree, ReaderType
      <4> QED
        BY <4>1, <4>2, <1>9 DEF ReaderType
    <3>2. CASE id # f.id
      <4>1. ctl'[id] = ctl[id]
        BY <3>2, <1>1, <1>4 DEF IInv, HistoryOK
      <4> QED
        BY <4>1 DEF IInv, TypeOK
    <3> QED
      BY <3>1, <3>2
  <2>3. filter' \in {RdIds, {KeyId}, DataIds}
    BY <1>h DEF IInv, TypeOK
  <2>4. keyed' \in BOOLEAN
    BY <1>h
  <2>5. sample' \in [keyed : BOOLEAN, early : BOOLEAN]
    BY <1>h DEF IInv, TypeOK
  <2>6. rx' \in Seq(Frame) /\ Len(rx') <= RxCap
    BY <1>2, <1>3
  <2>7. /\ tasks' \subseteq Fds \X {"in", "out"}
        /\ ~(<<Can0, "in">> \in tasks')
        /\ pump' \in {"none", "poll", "tasks", "write"} /\ pump' # "write"
    BY <1>1 DEF IInv, TypeOK
  <2> QED
    BY <1>1, <2>2, <2>3, <2>4, <2>5, <2>6, <2>7 DEF IInv, TypeOK
<1>y. HistoryOK'
  <2>1. intact' \in [RdIds -> Nat]
    <3>1. intact \in [RdIds -> Nat]
      BY DEF IInv, HistoryOK
    <3>2. intact' = [intact EXCEPT ![f.id] = @ + 1] \/ intact' = intact
      BY <1>1
    <3> QED
      BY <3>1, <3>2, <1>4
  <2>2. whole' \in [RdIds -> [pkt : Nat, n : 0 .. PktLen]]
    BY <1>1, <1>4, <1>7 DEF IInv, HistoryOK
  <2>3. ctl' \in [RdIds -> ReaderType]
    BY <1>1, <1>4, <1>9 DEF IInv, HistoryOK
  <2> QED
    BY <1>1, <1>h, <2>1, <2>2, <2>3 DEF IInv, HistoryOK
<1>r. RxInv'
  <2>1. flight' = flight /\ RxInv
    BY <1>1 DEF IInv, ReadInv
  <2>2. ASSUME NEW i \in 1 .. Len(rx')
        PROVE  /\ rx'[i].n = 1 => rx'[i].claim = PktLen
               /\ \/ Precedes(rx'[i], flight'[rx'[i].id])
                  \/ /\ rx'[i].pkt = flight'[rx'[i].id].pkt
                     /\ rx'[i].n = flight'[rx'[i].id].n
    <3>1. i + 1 \in 1 .. Len(rx) /\ rx'[i] = rx[i + 1]
      BY <1>3
    <3> QED
      BY <3>1, <2>1 DEF RxInv, Precedes
  <2>3. ASSUME NEW i \in 1 .. Len(rx'), NEW j \in 1 .. Len(rx'),
               i < j, rx'[i].id = rx'[j].id
        PROVE  Precedes(rx'[i], rx'[j])
    <3>1. /\ i + 1 \in 1 .. Len(rx) /\ rx'[i] = rx[i + 1]
          /\ j + 1 \in 1 .. Len(rx) /\ rx'[j] = rx[j + 1]
          /\ i + 1 < j + 1
      BY <2>3, <1>3
    <3> QED
      BY <3>1, <2>3, <2>1 DEF RxInv
  <2> QED
    BY <2>2, <2>3 DEF RxInv, Precedes
<1>c. CtlInv'
  <2>1. ASSUME NEW g \in Frame, ToCome(g)'
        PROVE  ToCome(g) /\ (g.id = f.id => Precedes(f, g))
    <3>1. CASE \E i \in 1 .. Len(rx') : rx'[i] = g
      <4> PICK i \in 1 .. Len(rx') : rx'[i] = g
        BY <3>1
      <4>1. i + 1 \in 1 .. Len(rx) /\ rx[i + 1] = g /\ 1 < i + 1 /\ 1 \in 1 .. Len(rx)
        BY <1>3
      <4> QED
        BY <4>1, <1>3 DEF ToCome, IInv, ReadInv, RxInv
    <3>2. CASE Precedes(flight[g.id], g)
      <4>1. ToCome(g)
        BY <3>2 DEF ToCome
      <4>2. ASSUME g.id = f.id PROVE Precedes(f, g)
        <5>1. \/ Precedes(f, flight[f.id])
              \/ f.pkt = flight[f.id].pkt /\ f.n = flight[f.id].n
          BY <1>3 DEF IInv, ReadInv, RxInv
        <5>2. flight[f.id] \in [pkt : Nat, n : 1 .. PktLen]
          BY <1>4 DEF IInv, TypeOK
        <5>3. /\ f.pkt \in Nat /\ f.n \in Nat /\ g.pkt \in Nat /\ g.n \in Nat
              /\ flight[f.id].pkt \in Nat /\ flight[f.id].n \in Nat
          BY <5>2, <1>3 DEF Frame
        <5>4. \/ flight[f.id].pkt < g.pkt
              \/ flight[f.id].pkt = g.pkt /\ flight[f.id].n < g.n
          BY <3>2, <4>2 DEF Precedes
        <5>5. \/ f.pkt < flight[f.id].pkt
              \/ f.pkt = flight[f.id].pkt /\ f.n <= flight[f.id].n
          BY <5>1, <5>3 DEF Precedes
        <5>6. f.pkt < g.pkt \/ (f.pkt = g.pkt /\ f.n < g.n)
          BY <5>3, <5>4, <5>5
        <5> QED
          BY <5>6 DEF Precedes
      <4> QED
        BY <4>1, <4>2
    <3> QED
      BY <2>1, <3>1, <3>2, <1>1 DEF ToCome, Precedes
  <2>2. ASSUME NEW id \in RdIds
        PROVE  /\ Agree(ctl'[id], whole'[id])
               /\ \A g \in Frame : g.id = id /\ ToCome(g)' => Past(ctl'[id], whole'[id], g)
    <3>1. CASE id = f.id
      <4>1. ctl'[id] = c2 /\ whole'[id] = w1
        BY <3>1, <1>1, <1>4 DEF IInv, HistoryOK
      <4>2. ASSUME NEW g \in Frame, g.id = id, ToCome(g)' PROVE Past(c2, w1, g)
        <5>1. Precedes(f, g) /\ ToCome(g)
          BY <4>2, <3>1, <2>1
        <5>2. Past(c, w, g)
          BY <5>1, <4>2, <3>1 DEF IInv, ReadInv, CtlInv, c, w
        <5> QED
          BY <5>1, <5>2, <1>7
      <4> QED
        BY <4>1, <4>2, <1>7
    <3>2. CASE id # f.id
      <4>1. ctl'[id] = ctl[id] /\ whole'[id] = whole[id]
        BY <3>2, <1>1, <1>4 DEF IInv, HistoryOK
      <4> QED
        BY <4>1, <2>1 DEF IInv, ReadInv, CtlInv
    <3> QED
      BY <3>1, <3>2
  <2> QED
    BY <2>2 DEF CtlInv, Agree, Past, Prefix, Precedes
<1>i. HandledIffIntact'
  BY <1>1, <1>h, <1>7 DEF IInv, ReadInv, HandledIffIntact
<1>e. KeyInv' /\ BareOnlyEarly'
  <2>1. /\ f.id \in DataIds => f.early \/ keyed
        /\ f.id \in DataIds => \A k \in 1 .. Len(c.buf) : c.buf[k].early \/ keyed
    BY <1>3 DEF IInv, ReadInv, KeyInv, c
  <2>2. f.id \in DataIds => \A k \in 1 .. Len(c1.buf) : c1.buf[k].early \/ keyed
    BY <2>1, <1>k
  <2>3. keyed => keyed'
    BY <1>h
  <2>4. ASSUME NEW i \in 1 .. Len(rx'), rx'[i].id \in DataIds
        PROVE  rx'[i].early \/ keyed'
    <3>1. i + 1 \in 1 .. Len(rx) /\ rx'[i] = rx[i + 1]
      BY <1>3
    <3> QED
      BY <3>1, <2>3, <2>4 DEF IInv, ReadInv, KeyInv
  <2>5. ASSUME NEW id \in DataIds, NEW k \in 1 .. Len(ctl'[id].buf)
        PROVE  ctl'[id].buf[k].early \/ keyed'
    <3>1. CASE id = f.id
      <4>1. ctl'[id] = c2
        BY <3>1, <1>1, <1>4 DEF IInv, HistoryOK
      <4>2. c2.buf = c1.buf \/ c2.buf = <<>>
        BY <1>8 DEF Idle
      <4> QED
        BY <4>1, <4>2, <3>1, <2>2, <2>3
    <3>2. CASE id # f.id
      <4>1. ctl'[id] = ctl[id]
        BY <3>2, <1>1, <1>4 DEF IInv, HistoryOK, RdIds
      <4> QED
        BY <4>1, <2>3 DEF IInv, ReadInv, KeyInv
    <3> QED
      BY <3>1, <3>2
  <2>6. /\ filter' = RdIds => pump' = "none"
        /\ pump' = "none" => ~keyed' /\ filter' # DataIds
        /\ filter' = DataIds => keyed'
    <3>1. RdIds # DataIds
      BY DEF RdIds
    <3> QED
      BY <3>1, <1>1, <1>h DEF IInv, ReadInv, KeyInv
  <2>7. BareOnlyEarly'
    <3>1. CASE done /\ f.id # KeyId
      <4>1. f.id \in DataIds /\ Len(c1.buf) = PktLen
        BY <3>1, <1>4 DEF CheckTotal, RdIds
      <4>2. sample'.keyed = keyed
            /\ sample'.early = \A k \in 1 .. PktLen : c1.buf[k].early
        BY <3>1, <1>h
      <4> QED
        BY <4>1, <4>2, <2>2 DEF BareOnlyEarly
    <3>2. CASE ~(done /\ f.id # KeyId)
      BY <3>2, <1>h DEF IInv, ReadInv, BareOnlyEarly
    <3> QED
      BY <3>1, <3>2
  <2> QED
    BY <2>4, <2>5, <2>6, <2>7 DEF KeyInv
<1>s. SndInv'
  BY <1>1, SndSame DEF IInv
<1> QED
  BY <1>t, <1>y, <1>r, <1>c, <1>i, <1>e, <1>s DEF IInv, ReadInv
-----------------------------------------------------------------------------
LEMMA StepInv == ASSUME IInv, [Next]_vars PROVE IInv'
<1>1. CASE UNCHANGED vars
  <2> USE <1>1 DEF vars, reader
  <2>1. TypeOK' /\ HistoryOK'
    BY DEF IInv, TypeOK, HistoryOK
  <2>2. ReadInv'
    BY ReadSame DEF IInv
  <2>3. SndInv'
    BY DEF IInv, SndInv
  <2> QED
    BY <2>1, <2>2, <2>3 DEF IInv
<1>2. CASE Next
  BY <1>2, FlightSendsInv, SetUpInv, PollInv, ReadFdInv, WriteFdInv,
     WriteNothingInv, WrittenInv, SetContentInv DEF Next, PumpWorks
<1> QED
  BY <1>1, <1>2

LEMMA Invariance == Spec => []IInv
<1>1. IInv /\ [Next]_vars => IInv'
  BY StepInv
<1> QED
  BY InitInv, <1>1, PTL DEF Spec

(* The buffers of the readers stay inside the packets under way and the    *)
(* rings inside their capacity, whatever frames are lost or look like a    *)
(* head.                                                                   *)
THEOREM CanPumpTypeCorrect == Spec => []TypeOK
<1>1. IInv => TypeOK
  BY DEF IInv
<1> QED
  BY <1>1, Invariance, PTL

(* CNewProtocolCanCtrl::Process hands a packet to its handler exactly when *)
(* it read the packet's frames in order.                                   *)
THEOREM CanPumpHandledIffIntact == Spec => []HandledIffIntact
<1>1. IInv => HandledIffIntact
  BY DEF IInv, ReadInv
<1> QED
  BY <1>1, Invariance, PTL

(* Process092 decodes without the key of Process109 only a packet that     *)
(* came whole between the bind of the socket and its filter.               *)
THEOREM CanPumpBareOnlyEarly == Spec => []BareOnlyEarly
<1>1. IInv => BareOnlyEarly
  BY DEF IInv, ReadInv
<1> QED
  BY <1>1, Invariance, PTL

(* The handlers get every intact packet and no other, and data without a   *)
(* key only from before the filter; positions and buffers keep their sizes.*)
THEOREM CanPumpHandledRight == Spec => []HandledRight
  BY CanPumpTypeCorrect, CanPumpHandledIffIntact, CanPumpBareOnlyEarly, PTL
     DEF HandledRight

(* WriteFd sends whole packets on every route: a push during a packet and  *)
(* the service of other routes leave the frames of the packet in order.    *)
THEOREM CanPumpWholePacketsSent == Spec => WholePacketsSent
<1> DEFINE Whole == \A r \in Routes :
                      bus'[r] # bus[r] =>
                        \/ bus'[r] = NextOf(bus[r])
                        \/ bus[r].n = PktLen /\ bus'[r].n = 1
<1>1. ASSUME IInv, [Next]_vars PROVE [Whole]_bus
  <2>1. CASE Written
    <3> USE CanPumpAssumption
    <3>1. /\ pump = "write"
          /\ bus' = [bus EXCEPT ![frame.route] = [pkt |-> frame.pkt, n |-> frame.n]]
      BY <2>1 DEF Written
    <3>2. frame \in [route : Routes, pkt : Nat \ {0}, n : 1 .. PktLen]
      BY <3>1, <1>1 DEF IInv, SndInv
    <3>3. IF frame.n = 1 THEN bus[frame.route].n = PktLen
          ELSE bus[frame.route] = [pkt |-> frame.pkt, n |-> frame.n - 1]
      BY <3>1, <1>1 DEF IInv, SndInv
    <3>4. /\ bus'[frame.route] = [pkt |-> frame.pkt, n |-> frame.n]
          /\ \A r \in Routes : r # frame.route => bus'[r] = bus[r]
      BY <3>1, <3>2, <1>1 DEF IInv, HistoryOK
    <3>5. frame.n # 1 => bus'[frame.route] = NextOf(bus[frame.route])
      BY <3>2, <3>3, <3>4 DEF NextOf
    <3> QED
      BY <3>3, <3>4, <3>5
  <2>2. CASE ~Written
    <3>1. bus' = bus
      BY <2>2, <1>1 DEF Next, PumpWorks, vars, FlightSends, SetFilter, Start, Poll,
         ReadFd, WriteFd, WriteNothing, SetContent
    <3> QED
      BY <3>1
  <2> QED
    BY <2>1, <2>2
<1>2. Spec => [][Whole]_bus
  <2>1. IInv /\ [Next]_vars => [Whole]_bus
    BY <1>1
  <2> HIDE DEF Whole
  <2> QED
    BY <2>1, Invariance, PTL DEF Spec
<1> QED
  BY <1>2 DEF WholePacketsSent
-----------------------------------------------------------------------------
SbusBehaviour == SB!Init /\ [][SB!Next]_(SB!vars)

LEMMA SbusImplemented == ReadersSpec => SbusBehaviour
<1>1. ReadersInit => SB!Init
  BY DEF ReadersInit
<1>2. [ReadersNext]_ReaderVars => [SB!Next]_(SB!vars)
  BY DEF ReadersNext, ReaderVars, sbVars, SB!vars
<1> QED
  BY <1>1, <1>2, PTL DEF ReadersSpec, SbusBehaviour

(***************************************************************************)
(* Sbus.  After whole reads the buffer holds two packets' length of the    *)
(* stream, so the byte one place on is the next one in its packet.         *)
(***************************************************************************)
Bytes == 0 .. 3 * SbSize - 1
Wrap(x) == IF x < SbSize THEN x ELSE IF x < 2 * SbSize THEN x - SbSize ELSE x - 2 * SbSize
Shape(m, p) == \A k \in Bytes : sbBuffer[k] = IF k < m THEN Wrap(p + k) ELSE -1

SbTypes ==
  /\ SB!TypeOK
  /\ sbHeads \subseteq 1 .. SbSize - 2 /\ sbZeros \subseteq 1 .. SbSize - 2
  /\ sbLen \in Nat /\ sbWhole \in BOOLEAN

SbReadInv ==
  /\ sbStep \in {"drop", "first"} => Shape(0, 0)
  /\ sbWhole /\ sbStep \in {"scan", "second"} => Shape(SbSize, sbPos)
  /\ sbWhole /\ sbStep \in {"match", "align", "found"} =>
       \E p \in 0 .. SbSize - 1 : Shape(2 * SbSize, p)

SeenInv ==
  /\ sbStep \in {"second", "match"} =>
       /\ sbI \in 0 .. SbSize - 1 /\ SB!IsHead(sbI)
       /\ \A k \in 0 .. sbI - 1 : ~SB!IsHead(k)
  /\ sbStep \in {"align", "found"} => SB!Matches(sbI)
  /\ sbWhole /\ sbHeads = {} => sbStep # "none"

SbInv == SbTypes /\ SbReadInv /\ SeenInv

LEMMA SbAssumption == SbSize \in Nat /\ SbSize > 2
  BY ReadersAssumption DEF SB!SbusAssumption

LEMMA WrapFacts ==
  /\ \A x \in 0 .. 2 * SbSize - 1 : x % SbSize = Wrap(x)
  /\ \A x \in 0 .. 3 * SbSize - 1 : Wrap(x) \in 0 .. SbSize - 1
<1> USE SbAssumption
<1>1. \A x \in 0 .. 2 * SbSize - 1 : x % SbSize = Wrap(x)
  BY DEF Wrap
<1>2. \A x \in 0 .. 3 * SbSize - 1 : Wrap(x) \in 0 .. SbSize - 1
  BY DEF Wrap
<1> QED
  BY <1>1, <1>2

LEMMA SbInit == SB!Init => SbInv
<1> SUFFICES ASSUME SB!Init PROVE SbInv
  OBVIOUS
<1> USE SbAssumption DEF SB!Init, SB!Unread
<1>1. SbTypes
  BY DEF SbTypes, SB!TypeOK
<1>2. SbReadInv
  BY DEF SbReadInv, Shape, Bytes
<1>3. SeenInv
  BY DEF SeenInv
<1> QED
  BY <1>1, <1>2, <1>3 DEF SbInv

(* What a read does to the buffer and the place in the stream.             *)
LEMMA ReadFacts ==
  ASSUME SbTypes, NEW at \in {0, SbSize}, NEW asked \in 1 .. SbSize, NEW keep \in BOOLEAN,
         NEW next \in {"first", "scan", "match", "found"}, SB!Read(at, asked, keep, next)
  PROVE  /\ sbBuffer' \in [Bytes -> -1 .. SbSize - 1] /\ sbPos' \in 0 .. SbSize - 1
         /\ sbWhole' \in BOOLEAN /\ (sbWhole' => sbWhole)
         /\ sbStep' \in {next, "lost"}
         /\ sbStep' = next /\ keep /\ sbWhole' =>
              \A k \in Bytes : sbBuffer'[k] = IF k \in at .. at + asked - 1
                                              THEN Wrap(sbPos + k - at) ELSE sbBuffer[k]
         /\ ~keep => sbBuffer' = sbBuffer
         /\ \A k \in Bytes : k < at => sbBuffer'[k] = sbBuffer[k]
         /\ sbStep' = next /\ asked = SbSize /\ sbWhole' => sbPos' = sbPos
<1> USE SbAssumption
<1>1. CASE sbStep' = "lost" /\ UNCHANGED <<sbBuffer, sbPos, sbWhole>>
  BY <1>1 DEF SbTypes, SB!TypeOK, Bytes
<1>2. ASSUME NEW c \in 1 .. asked,
             sbBuffer' = [k \in DOMAIN sbBuffer |->
               IF keep /\ k \in at .. at + c - 1 THEN (sbPos + k - at) % SbSize ELSE sbBuffer[k]],
             sbPos' = (sbPos + c) % SbSize, sbWhole' = (sbWhole /\ c = asked), sbStep' = next
      PROVE  /\ sbBuffer' \in [Bytes -> -1 .. SbSize - 1] /\ sbPos' \in 0 .. SbSize - 1
             /\ sbWhole' \in BOOLEAN /\ (sbWhole' => sbWhole)
             /\ keep /\ sbWhole' =>
                  \A k \in Bytes : sbBuffer'[k] = IF k \in at .. at + asked - 1
                                                  THEN Wrap(sbPos + k - at) ELSE sbBuffer[k]
             /\ ~keep => sbBuffer' = sbBuffer
             /\ \A k \in Bytes : k < at => sbBuffer'[k] = sbBuffer[k]
             /\ asked = SbSize /\ sbWhole' => sbPos' = sbPos
  <2>1. sbBuffer \in [Bytes -> -1 .. SbSize - 1] /\ sbPos \in 0 .. SbSize - 1
    BY DEF SbTypes, SB!TypeOK, Bytes
  <2>2. ASSUME NEW k \in Bytes, k \in at .. at + c - 1
        PROVE  /\ sbPos + k - at \in 0 .. 2 * SbSize - 1
               /\ (sbPos + k - at) % SbSize = Wrap(sbPos + k - at)
               /\ Wrap(sbPos + k - at) \in 0 .. SbSize - 1
    <3>1. sbPos + k - at \in 0 .. 2 * SbSize - 1 /\ sbPos + k - at \in 0 .. 3 * SbSize - 1
      BY <2>1, <2>2 DEF Bytes
    <3> QED
      BY <3>1, WrapFacts
  <2>3. sbPos + c \in 0 .. 2 * SbSize - 1 /\ sbPos + c \in 0 .. 3 * SbSize - 1
    BY <2>1
  <2>4. sbPos' = Wrap(sbPos + c) /\ sbPos' \in 0 .. SbSize - 1
    BY <2>3, <1>2, WrapFacts
  <2>5. sbBuffer' = [k \in Bytes |->
          IF keep /\ k \in at .. at + c - 1 THEN Wrap(sbPos + k - at) ELSE sbBuffer[k]]
    BY <1>2, <2>1, <2>2
  <2>6. sbBuffer' \in [Bytes -> -1 .. SbSize - 1]
    BY <2>1, <2>2, <2>5
  <2>7. asked = SbSize /\ sbWhole' => sbPos' = sbPos
    <3> SUFFICES ASSUME asked = SbSize, sbWhole' PROVE sbPos' = sbPos
      OBVIOUS
    <3>1. c = SbSize
      BY <1>2
    <3>2. sbPos' = Wrap(sbPos + SbSize)
      BY <2>4, <3>1
    <3> QED
      BY <2>1, <3>2 DEF Wrap
  <2>8. ~keep => sbBuffer' = sbBuffer
    BY <2>1, <2>5
  <2>9. \A k \in Bytes : k < at => sbBuffer'[k] = sbBuffer[k]
    BY <2>5
  <2>10. keep /\ sbWhole' =>
           \A k \in Bytes : sbBuffer'[k] = IF k \in at .. at + asked - 1
                                           THEN Wrap(sbPos + k - at) ELSE sbBuffer[k]
    BY <1>2, <2>5
  <2> QED
    BY <1>2, <2>4, <2>6, <2>7, <2>8, <2>9, <2>10 DEF SbTypes
<1> QED
  BY <1>1, <1>2 DEF SB!Read

LEMMA DropKeepsSb == ASSUME SbInv, SB!Drop PROVE SbInv'
<1> USE SbAssumption
<1>1. SB!Read(0, SbSize, FALSE, "first") /\ sbStep = "drop"
      /\ UNCHANGED <<sbHeads, sbZeros, sbI, sbLen>>
  BY DEF SB!Drop
<1>2. /\ sbBuffer' = sbBuffer /\ sbPos' \in 0 .. SbSize - 1
      /\ sbWhole' \in BOOLEAN /\ sbStep' \in {"first", "lost"}
  <2>1. SbTypes /\ SbSize \in 1 .. SbSize
    BY DEF SbInv
  <2> QED
    BY <1>1, <2>1, ReadFacts
<1>3. SbTypes'
  BY <1>1, <1>2 DEF SbInv, SbTypes, SB!TypeOK
<1>4. SbReadInv'
  BY <1>1, <1>2 DEF SbInv, SbReadInv, Shape
<1>5. SeenInv'
  BY <1>2 DEF SeenInv
<1> QED
  BY <1>3, <1>4, <1>5 DEF SbInv

LEMMA FirstKeepsSb == ASSUME SbInv, SB!First PROVE SbInv'
<1> USE SbAssumption
<1>1. SB!Read(0, SbSize, TRUE, "scan") /\ sbStep = "first"
      /\ UNCHANGED <<sbHeads, sbZeros, sbI, sbLen>>
  BY DEF SB!First
<1>2. /\ sbBuffer' \in [Bytes -> -1 .. SbSize - 1] /\ sbPos' \in 0 .. SbSize - 1
      /\ sbWhole' \in BOOLEAN /\ sbStep' \in {"scan", "lost"}
      /\ sbStep' = "scan" /\ sbWhole' =>
           /\ \A k \in Bytes : sbBuffer'[k] = IF k \in 0 .. 0 + SbSize - 1
                                              THEN Wrap(sbPos + k - 0) ELSE sbBuffer[k]
           /\ sbPos' = sbPos
  <2>1. SbTypes /\ SbSize \in 1 .. SbSize
    BY DEF SbInv
  <2> QED
    BY <1>1, <2>1, ReadFacts
<1>3. SbTypes'
  BY <1>1, <1>2 DEF SbInv, SbTypes, SB!TypeOK, Bytes
<1>4. SbReadInv'
  <2>1. ASSUME sbWhole', sbStep' = "scan" PROVE Shape(SbSize, sbPos)'
    <3>1. Shape(0, 0) /\ sbPos' = sbPos
      BY <1>1, <1>2, <2>1 DEF SbInv, SbReadInv
    <3>2. ASSUME NEW k \in Bytes
          PROVE  sbBuffer'[k] = IF k < SbSize THEN Wrap(sbPos' + k) ELSE -1
      <4>1. sbBuffer'[k] = IF k \in 0 .. 0 + SbSize - 1 THEN Wrap(sbPos + k - 0) ELSE sbBuffer[k]
        BY <1>2, <2>1
      <4>2. sbBuffer[k] = -1
        BY <3>1 DEF Shape, Bytes
      <4>3. sbPos + k - 0 = sbPos' + k /\ sbPos \in Nat
        BY <3>1 DEF SbInv, SbTypes, SB!TypeOK, Bytes
      <4> QED
        BY <4>1, <4>2, <4>3 DEF Bytes
    <3> QED
      BY <3>2 DEF Shape
  <2> QED
    BY <1>2, <2>1 DEF SbReadInv
<1>5. SeenInv'
  BY <1>2 DEF SeenInv
<1> QED
  BY <1>3, <1>4, <1>5 DEF SbInv

LEMMA HasLeast ==
  ASSUME NEW S \in SUBSET Nat, S # {}
  PROVE  \E m \in S : \A n2 \in S : m <= n2
<1> DEFINE R == {ss \in Nat \X Nat : ss[1] < ss[2]}
<1>1. IsWellFoundedOn(R, Nat)
  BY NatLessThanWellFounded DEF OpToRel
<1>2. PICK x \in S : \A y \in S : ~(<<y, x>> \in R)
  <2> HIDE DEF R
  <2> QED
    BY <1>1, WFMin
<1>3. ASSUME NEW n2 \in S PROVE x <= n2
  <2>1. n2 \in Nat /\ x \in Nat /\ ~(<<n2, x>> \in R)
    BY <1>2
  <2>2. ~(n2 < x)
    BY <2>1
  <2> QED
    BY <2>1, <2>2
<1> QED
  BY <1>3

LEMMA LeastIs ==
  ASSUME NEW S \in SUBSET Nat, S # {}
  PROVE  SB!Min(S) \in S /\ \A k \in S : SB!Min(S) <= k
<1>1. \E m \in S : \A k \in S : m <= k
  BY HasLeast
<1> QED
  BY <1>1 DEF SB!Min

(* The places of a packet occur in the buffer, a head among them.          *)
LEMMA HeadIsThere ==
  ASSUME NEW p \in 0 .. SbSize - 1, Shape(SbSize, p) \/ Shape(2 * SbSize, p)
  PROVE  \E k \in 0 .. SbSize - 1 : sbBuffer[k] = 0
<1> USE SbAssumption
<1>1. PICK k \in 0 .. SbSize - 1 : k = IF p = 0 THEN 0 ELSE SbSize - p
  OBVIOUS
<1>2. Wrap(p + k) = 0 /\ k \in Bytes
  BY <1>1 DEF Wrap, Bytes
<1> QED
  BY <1>2 DEF Shape

LEMMA ScanKeepsSb == ASSUME SbInv, SB!Scan PROVE SbInv'
<1> USE SbAssumption
<1> DEFINE seen == {k \in 0 .. SbSize - 1 : SB!IsHead(k)}
<1>1. /\ sbStep = "scan" /\ UNCHANGED <<sbHeads, sbZeros, sbPos, sbBuffer, sbLen, sbWhole>>
      /\ IF seen = {} THEN sbStep' = "none" /\ UNCHANGED sbI
         ELSE sbStep' = "second" /\ sbI' = SB!Min(seen)
  BY DEF SB!Scan
<1>2. CASE seen = {}
  <2>1. ~(sbWhole /\ sbHeads = {})
    <3> SUFFICES ASSUME sbWhole PROVE FALSE
      OBVIOUS
    <3>1. Shape(SbSize, sbPos) /\ sbPos \in 0 .. SbSize - 1
      BY <1>1 DEF SbInv, SbReadInv, SbTypes, SB!TypeOK
    <3>2. PICK k \in 0 .. SbSize - 1 : sbBuffer[k] = 0
      BY <3>1, HeadIsThere
    <3> QED
      BY <1>2, <3>2 DEF SB!IsHead
  <2>2. SbTypes'
    BY <1>1, <1>2 DEF SbInv, SbTypes, SB!TypeOK
  <2>3. SbReadInv'
    BY <1>1, <1>2 DEF SbReadInv
  <2>4. SeenInv'
    BY <1>1, <1>2, <2>1 DEF SeenInv
  <2> QED
    BY <2>2, <2>3, <2>4 DEF SbInv
<1>3. CASE seen # {}
  <2>1. seen \in SUBSET Nat
    OBVIOUS
  <2>2. sbI' \in seen /\ \A k \in seen : sbI' <= k
    BY <1>1, <1>3, <2>1, LeastIs
  <2>3. \A k \in Nat : SB!IsHead(k)' <=> SB!IsHead(k)
    BY <1>1 DEF SB!IsHead
  <2>4. SbTypes'
    BY <1>1, <1>3, <2>2 DEF SbInv, SbTypes, SB!TypeOK
  <2>5. SbReadInv'
    BY <1>1, <1>3 DEF SbInv, SbReadInv, Shape
  <2>6. SeenInv'
    <3>1. sbI' \in 0 .. SbSize - 1 /\ SB!IsHead(sbI)'
      BY <1>1, <2>2 DEF SB!IsHead
    <3>2. \A k \in 0 .. SbSize - 1 : SB!IsHead(k) => sbI' <= k
      BY <2>2
    <3>3. \A k \in 0 .. sbI' - 1 : ~SB!IsHead(k)
      <4>1. PICK m \in 0 .. SbSize - 1 : m = sbI'
        BY <3>1
      <4>2. ASSUME NEW k \in 0 .. m - 1 PROVE ~SB!IsHead(k)
        <5>1. k \in 0 .. SbSize - 1 /\ ~(m <= k)
          OBVIOUS
        <5> QED
          BY <3>2, <4>1, <5>1
      <4> QED
        BY <4>1, <4>2
    <3>4. (\A k \in 0 .. sbI - 1 : ~SB!IsHead(k))'
      BY <1>1, <3>3 DEF SB!IsHead
    <3> QED
      BY <1>1, <1>3, <3>1, <3>4 DEF SeenInv
  <2> QED
    BY <2>4, <2>5, <2>6 DEF SbInv
<1> QED
  BY <1>2, <1>3

LEMMA SecondKeepsSb == ASSUME SbInv, SB!Second PROVE SbInv'
<1> USE SbAssumption
<1> DEFINE changed == {k \in DOMAIN sbBuffer : sbBuffer'[k] # sbBuffer[k]}
<1>1. SB!Read(SbSize, SbSize, TRUE, "match") /\ sbStep = "second"
      /\ UNCHANGED <<sbHeads, sbZeros, sbI>>
      /\ sbLen' = sbLen + SbSize + SB!Cardinality(changed)
  BY DEF SB!Second
<1>2. /\ sbBuffer' \in [Bytes -> -1 .. SbSize - 1] /\ sbPos' \in 0 .. SbSize - 1
      /\ sbWhole' \in BOOLEAN /\ (sbWhole' => sbWhole) /\ sbStep' \in {"match", "lost"}
      /\ \A k \in Bytes : k < SbSize => sbBuffer'[k] = sbBuffer[k]
      /\ sbStep' = "match" /\ sbWhole' =>
           /\ \A k \in Bytes : sbBuffer'[k] = IF k \in SbSize .. SbSize + SbSize - 1
                                              THEN Wrap(sbPos + k - SbSize) ELSE sbBuffer[k]
           /\ sbPos' = sbPos
  <2>1. SbTypes /\ SbSize \in 1 .. SbSize
    BY DEF SbInv
  <2> QED
    BY <1>1, <2>1, ReadFacts
<1>3. SbTypes'
  <2>1. SB!Cardinality(changed) = Cardinality(changed)
    BY Zenon DEF SB!Cardinality, Cardinality
  <2>2. changed \subseteq 0 .. 3 * SbSize - 1
    BY DEF SbInv, SbTypes, SB!TypeOK
  <2>3. IsFiniteSet(changed)
    <3>1. 0 \in Int /\ 3 * SbSize - 1 \in Int
      OBVIOUS
    <3>2. IsFiniteSet(0 .. 3 * SbSize - 1)
      BY <3>1, FS_Interval
    <3> QED
      BY <2>2, <3>2, FS_Subset
  <2>4. Cardinality(changed) \in Nat
    BY <2>3, FS_CardinalityType
  <2>5. sbLen' \in Nat
    BY <1>1, <2>1, <2>4 DEF SbInv, SbTypes
  <2> QED
    BY <1>1, <1>2, <2>5 DEF SbInv, SbTypes, SB!TypeOK, Bytes
<1>4. SbReadInv'
  <2>1. ASSUME sbWhole', sbStep' = "match" PROVE Shape(2 * SbSize, sbPos)'
    <3>1. Shape(SbSize, sbPos) /\ sbPos' = sbPos /\ sbPos \in 0 .. SbSize - 1
      BY <1>1, <1>2, <2>1 DEF SbInv, SbReadInv, SbTypes, SB!TypeOK
    <3>2. ASSUME NEW k \in Bytes
          PROVE  sbBuffer'[k] = IF k < 2 * SbSize THEN Wrap(sbPos' + k) ELSE -1
      <4>1. sbBuffer'[k] = IF k \in SbSize .. SbSize + SbSize - 1
                           THEN Wrap(sbPos + k - SbSize) ELSE sbBuffer[k]
        BY <1>2, <2>1
      <4>2. sbBuffer[k] = IF k < SbSize THEN Wrap(sbPos + k) ELSE -1
        BY <3>1 DEF Shape
      <4>3. k \in SbSize .. 2 * SbSize - 1 => Wrap(sbPos + k - SbSize) = Wrap(sbPos' + k)
        BY <3>1 DEF Wrap
      <4> QED
        BY <3>1, <4>1, <4>2, <4>3 DEF Bytes
    <3> QED
      BY <3>2 DEF Shape
  <2> QED
    BY <1>2, <2>1 DEF SbReadInv, SbTypes
<1>5. SeenInv'
  <2>1. \A k \in 0 .. SbSize - 1 : SB!IsHead(k)' <=> SB!IsHead(k)
    BY <1>1, <1>2 DEF SB!IsHead, Bytes
  <2>2. sbI \in 0 .. SbSize - 1 /\ SB!IsHead(sbI) /\ \A k \in 0 .. sbI - 1 : ~SB!IsHead(k)
    BY <1>1 DEF SbInv, SeenInv
  <2> QED
    BY <1>1, <1>2, <2>1, <2>2 DEF SeenInv
<1> QED
  BY <1>3, <1>4, <1>5 DEF SbInv

(* In the stream a head is preceded by the tail of the packet before.      *)
LEMMA Neighbours ==
  ASSUME NEW p \in 0 .. SbSize - 1, Shape(2 * SbSize, p), NEW k \in 0 .. 2 * SbSize - 1
  PROVE  /\ sbBuffer[k] \in 0 .. SbSize - 1
         /\ sbBuffer[k + SbSize] = IF k < SbSize THEN sbBuffer[k] ELSE -1
         /\ k < SbSize => sbBuffer[k + SbSize - 1] =
                            IF sbBuffer[k] = 0 THEN SbSize - 1 ELSE sbBuffer[k] - 1
<1> USE SbAssumption
<1>1. sbBuffer[k] = Wrap(p + k) /\ Wrap(p + k) \in 0 .. SbSize - 1
  <2>1. k \in Bytes /\ k < 2 * SbSize /\ p + k \in 0 .. 3 * SbSize - 1
    BY DEF Bytes
  <2> QED
    BY <2>1, WrapFacts DEF Shape
<1>2. k + SbSize \in Bytes
      /\ sbBuffer[k + SbSize] = IF k < SbSize THEN Wrap(p + (k + SbSize)) ELSE -1
  BY DEF Shape, Bytes
<1>3. ASSUME k < SbSize
      PROVE  sbBuffer[k + SbSize - 1] = Wrap(p + (k + SbSize - 1))
  BY <1>3 DEF Shape, Bytes
<1>4. ASSUME k < SbSize
      PROVE  /\ Wrap(p + (k + SbSize)) = Wrap(p + k)
             /\ Wrap(p + (k + SbSize - 1)) =
                  IF Wrap(p + k) = 0 THEN SbSize - 1 ELSE Wrap(p + k) - 1
  BY <1>4 DEF Wrap
<1> QED
  BY <1>1, <1>2, <1>3, <1>4

LEMMA MatchKeepsSb == ASSUME SbInv, SB!Match PROVE SbInv'
<1> USE SbAssumption
<1> DEFINE seen == {k \in sbI .. 2 * SbSize - 1 : SB!Matches(k)}
<1>1. /\ sbStep = "match" /\ UNCHANGED <<sbHeads, sbZeros, sbPos, sbBuffer, sbLen, sbWhole>>
      /\ IF seen = {} THEN sbStep' = "none" /\ UNCHANGED sbI
         ELSE sbStep' = "align" /\ sbI' = SB!Min(seen)
  BY DEF SB!Match
<1>2. sbI \in 0 .. SbSize - 1 /\ SB!IsHead(sbI)
  BY <1>1 DEF SbInv, SeenInv
<1>3. CASE seen = {}
  <2>1. ~(sbWhole /\ sbHeads = {})
    <3> SUFFICES ASSUME sbWhole, sbHeads = {} PROVE FALSE
      OBVIOUS
    <3>1. PICK p \in 0 .. SbSize - 1 : Shape(2 * SbSize, p)
      BY <1>1 DEF SbInv, SbReadInv
    <3>2. sbBuffer[sbI] = 0
      BY <1>2 DEF SB!IsHead
    <3>3. sbBuffer[sbI + SbSize] = 0 /\ sbBuffer[sbI + SbSize - 1] = SbSize - 1
      BY <1>2, <3>1, <3>2, Neighbours
    <3>4. SB!Matches(sbI)
      BY <3>2, <3>3 DEF SB!Matches, SB!IsHead, SB!IsTail
    <3> QED
      BY <1>2, <1>3, <3>4
  <2>2. SbTypes'
    BY <1>1, <1>3 DEF SbInv, SbTypes, SB!TypeOK
  <2>3. SbReadInv'
    BY <1>1, <1>3 DEF SbReadInv
  <2>4. SeenInv'
    BY <1>1, <1>3, <2>1 DEF SeenInv
  <2> QED
    BY <2>2, <2>3, <2>4 DEF SbInv
<1>4. CASE seen # {}
  <2>1. seen \in SUBSET Nat
    BY <1>2
  <2>2. sbI' \in seen
    BY <1>1, <1>4, <2>1, LeastIs
  <2>3. SB!Matches(sbI)'
    BY <1>1, <2>2 DEF SB!Matches, SB!IsHead, SB!IsTail
  <2>4. SbTypes'
    BY <1>1, <1>2, <1>4, <2>2 DEF SbInv, SbTypes, SB!TypeOK
  <2>5. SbReadInv'
    BY <1>1, <1>4 DEF SbInv, SbReadInv, Shape
  <2>6. SeenInv'
    BY <1>1, <1>4, <2>3 DEF SeenInv
  <2> QED
    BY <2>4, <2>5, <2>6 DEF SbInv
<1> QED
  BY <1>3, <1>4

LEMMA AlignKeepsSb == ASSUME SbInv, SB!Align PROVE SbInv'
<1> USE SbAssumption
<1>1. /\ sbStep = "align" /\ UNCHANGED <<sbHeads, sbZeros, sbI, sbLen>>
      /\ \/ sbStep' = "found" /\ UNCHANGED <<sbBuffer, sbPos, sbWhole>>
         \/ SB!Left # 0 /\ SB!Read(0, SB!Left, FALSE, "found")
  BY DEF SB!Align
<1>2. /\ sbBuffer' = sbBuffer /\ sbPos' \in 0 .. SbSize - 1
      /\ sbWhole' \in BOOLEAN /\ (sbWhole' => sbWhole) /\ sbStep' \in {"found", "lost"}
  <2>1. CASE sbStep' = "found" /\ UNCHANGED <<sbBuffer, sbPos, sbWhole>>
    BY <2>1 DEF SbInv, SbTypes, SB!TypeOK
  <2>2. CASE SB!Left # 0 /\ SB!Read(0, SB!Left, FALSE, "found")
    <3>1. SB!Left \in 1 .. SbSize
      BY <2>2 DEF SB!Left, SbInv, SbTypes, SB!TypeOK
    <3> QED
      BY <2>2, <3>1, ReadFacts DEF SbInv
  <2> QED
    BY <1>1, <2>1, <2>2
<1>3. SbTypes'
  BY <1>1, <1>2 DEF SbInv, SbTypes, SB!TypeOK
<1>4. SbReadInv'
  BY <1>1, <1>2 DEF SbInv, SbReadInv, Shape
<1>5. SeenInv'
  <2>1. SB!Matches(sbI)' <=> SB!Matches(sbI)
    BY <1>1, <1>2 DEF SB!Matches, SB!IsHead, SB!IsTail
  <2> QED
    BY <1>1, <1>2, <2>1 DEF SbInv, SeenInv
<1> QED
  BY <1>3, <1>4, <1>5 DEF SbInv

LEMMA SbStep == SbInv /\ [SB!Next]_(SB!vars) => SbInv'
<1>1. ASSUME SbInv, UNCHANGED SB!vars PROVE SbInv'
  BY <1>1 DEF SbInv, SbTypes, SB!TypeOK, SbReadInv, Shape, SeenInv, SB!Matches, SB!IsHead,
              SB!IsTail, SB!vars
<1> QED
  BY <1>1, DropKeepsSb, FirstKeepsSb, ScanKeepsSb, SecondKeepsSb, MatchKeepsSb,
     AlignKeepsSb DEF SB!Next

LEMMA SbFinds == SbInv => SB!TypeOK /\ SB!FindsTheHead /\ SB!WrongHeadNeedsBoth
<1> SUFFICES ASSUME SbInv PROVE SB!FindsTheHead /\ SB!WrongHeadNeedsBoth
  BY DEF SbInv, SbTypes
<1> USE SbAssumption
<1>1. SB!FindsTheHead
  BY DEF SbInv, SeenInv, SB!FindsTheHead, SB!Matches, SB!IsHead
<1>2. ASSUME sbStep \in {"align", "found"}, sbBuffer[sbI] # 0, sbWhole
      PROVE  \E h \in sbHeads : h - 1 \in sbZeros
  <2>1. SB!Matches(sbI) /\ sbI \in 0 .. 2 * SbSize - 1
    BY <1>2 DEF SbInv, SeenInv, SbTypes, SB!TypeOK
  <2>2. PICK p \in 0 .. SbSize - 1 : Shape(2 * SbSize, p)
    BY <1>2 DEF SbInv, SbReadInv
  <2>3. sbBuffer[sbI] \in sbHeads
    BY <1>2, <2>1 DEF SB!Matches, SB!IsHead
  <2>4. sbI < SbSize
    <3> SUFFICES ASSUME ~(sbI < SbSize) PROVE FALSE
      OBVIOUS
    <3>1. sbBuffer[sbI + SbSize] = -1
      BY <2>1, <2>2, Neighbours
    <3> QED
      BY <2>1, <3>1 DEF SB!Matches, SB!IsHead, SbInv, SbTypes
  <2>5. sbBuffer[sbI + SbSize - 1] = sbBuffer[sbI] - 1
    BY <1>2, <2>1, <2>2, <2>4, Neighbours
  <2>6. sbBuffer[sbI] - 1 \in sbZeros
    <3>1. sbBuffer[sbI + SbSize - 1] \in sbZeros \cup {SbSize - 1, -1}
      BY <2>1 DEF SB!Matches, SB!IsTail, SB!Unread
    <3>2. sbBuffer[sbI] \in 1 .. SbSize - 2
      BY <2>3 DEF SbInv, SbTypes
    <3> QED
      BY <2>5, <3>1, <3>2
  <2> QED
    BY <2>3, <2>6
<1>3. SB!WrongHeadNeedsBoth
  BY <1>2 DEF SB!WrongHeadNeedsBoth
<1> QED
  BY <1>1, <1>3

LEMMA SbusHolds == SbusBehaviour => [](SB!TypeOK /\ SB!FindsTheHead /\ SB!WrongHeadNeedsBoth)
  BY SbInit, SbStep, SbFinds, PTL DEF SbusBehaviour
-----------------------------------------------------------------------------
StartBehaviour == IS!Init /\ [][IS!Next]_(IS!vars)

LEMMA StartImplemented == ReadersSpec => StartBehaviour
<1>1. ReadersInit => IS!Init
  BY DEF ReadersInit
<1>2. [ReadersNext]_ReaderVars => [IS!Next]_(IS!vars)
  BY DEF ReadersNext, ReaderVars, isVars, IS!vars
<1> QED
  BY <1>1, <1>2, PTL DEF ReadersSpec, StartBehaviour

(***************************************************************************)
(* ImuStart.  What was taken since a head is the packet from its head on   *)
(* (Intact), or a frame of it is lost (Missed); if only that one is, the   *)
(* next packet begins with the frame that fills tMode, which is no tail.   *)
(* A packet that came whole leaves nothing begun.                          *)
(***************************************************************************)
Place(k) == [whole |-> TRUE, at |-> k]

Intact ==
  /\ isWhole /\ isPlace = Len(isTook)
  /\ \A k \in 1 .. Len(isTook) : isTook[k] = Place(k - 1)

OneMissed ==
  \/ isWhole /\ isPlace = Len(isTook) + 1
  \/ isPlace = 0 /\ Len(isTook) = IsSize - 1

Missed ==
  \E f \in 1 .. Len(isTook) :
    /\ \E l \in isLost : l.whole /\ l.at = f
    /\ \A k \in 1 .. f : isTook[k] = Place(k - 1)
    /\ Cardinality(isLost) >= 2 \/ OneMissed

TookInv ==
  /\ isTook \in Seq([whole : BOOLEAN, at : Nat])
  /\ isBegun <=> isTook # <<>>
  /\ isPhase = "key" /\ isBegun => Intact \/ Missed

GoneInv ==
  /\ IsFiniteSet(isLost)
  /\ \A l \in isLost : l.p \in Nat /\ l.at \in Nat
       /\ (l.p < isPkt \/ (l.p = isPkt /\ l.at < isPlace))

SinceInv ==
  isPhase # "run" =>
    /\ isSince \in -1 .. 1
    /\ isSince = 1 /\ isPlace = 0 => ~isBegun
    /\ isSince = 1 /\ isWhole /\ isPlace > 0 => isBegun /\ Len(isTook) = isPlace
    /\ isPhase = "key" /\ isSince = 0 /\ isWhole /\ isPlace > 0 /\ isBegun =>
         Len(isTook) >= isPlace

StartInv == IS!TypeOK /\ TookInv /\ GoneInv /\ SinceInv /\ IS!WrongKeyNeedsLosses

LEMMA IsAssumption ==
  /\ IsSize \in Nat /\ IsSize > 1 /\ IsKeyAt \in 1 .. IsSize - 1
  /\ IsMaxPackets \in Nat /\ IsMaxLost \in Nat
  BY ReadersAssumption DEF IS!ImuStartAssumption

LEMMA SameCardinality == \A S : IS!Cardinality(S) = Cardinality(S)
  BY Zenon DEF IS!Cardinality, Cardinality

LEMMA LastFacts ==
  ASSUME IS!TypeOK
  PROVE  /\ isWhole => IS!Last = IsSize - 1
         /\ IS!Last \in Nat /\ IS!Last >= 1
  BY IsAssumption DEF IS!TypeOK, IS!Last

LEMMA StartInit == IS!Init => StartInv
<1> SUFFICES ASSUME IS!Init PROVE StartInv
  OBVIOUS
<1> USE IsAssumption DEF IS!Init
<1>1. IS!TypeOK
  <2>1. IS!Last \in Nat /\ isPlace \in 0 .. IS!Last
    BY DEF IS!Last
  <2>2. Len(isTook) = 0 /\ 0 < IsSize
    OBVIOUS
  <2>3. isPkt \in 1 .. IsMaxPackets + 1
    OBVIOUS
  <2> QED
    BY <2>1, <2>2, <2>3, Zenon DEF IS!TypeOK
<1>2. TookInv
  <2>1. <<>> \in Seq([whole : BOOLEAN, at : Nat])
    OBVIOUS
  <2> QED
    BY <2>1 DEF TookInv
<1>3. GoneInv
  BY FS_EmptySet DEF GoneInv
<1>4. SinceInv
  BY DEF SinceInv
<1>5. IS!WrongKeyNeedsLosses
  BY DEF IS!WrongKeyNeedsLosses
<1> QED
  BY <1>1, <1>2, <1>3, <1>4, <1>5 DEF StartInv

(* The next frame of the stream.                                           *)
LEMMA SentFacts ==
  ASSUME IS!TypeOK, isPkt <= IsMaxPackets, NEW ok \in BOOLEAN, IS!Sent(ok)
  PROVE  /\ isPkt' \in 1 .. IsMaxPackets + 1 /\ isWhole' \in BOOLEAN
         /\ isPlace' \in 0 .. IS!Last'
         /\ isPlace < IS!Last => /\ isPlace' = isPlace + 1 /\ isPkt' = isPkt /\ isWhole' = isWhole
                                 /\ isSince' = IF ok THEN isSince ELSE -1
         /\ ~(isPlace < IS!Last) =>
              /\ isPlace = IS!Last /\ isPlace' = 0 /\ isPkt' = isPkt + 1
              /\ isSince' = IF ok /\ isWhole THEN isSince + 1 ELSE 0
         /\ \/ isPkt' = isPkt /\ isPlace' = isPlace + 1
            \/ isPkt' = isPkt + 1 /\ isPlace' = 0
<1> USE IsAssumption
<1>1. IS!Last \in Nat /\ IS!Last >= 1
  BY LastFacts
<1>2. CASE isPlace < IS!Last
  <2>1. /\ isPlace' = isPlace + 1 /\ isPkt' = isPkt /\ isWhole' = isWhole
        /\ isSince' = IF ok THEN isSince ELSE -1
    BY <1>2 DEF IS!Sent
  <2>2. IS!Last' = IS!Last
    BY <2>1 DEF IS!Last
  <2>3. /\ isPkt' \in 1 .. IsMaxPackets + 1 /\ isWhole' \in BOOLEAN
        /\ isPlace' \in 0 .. IS!Last'
    BY <1>1, <1>2, <2>1, <2>2 DEF IS!TypeOK
  <2> QED
    BY <1>2, <2>1, <2>3, Zenon
<1>3. CASE ~(isPlace < IS!Last)
  <2>1. /\ isPlace' = 0 /\ isPkt' = isPkt + 1 /\ isWhole' \in BOOLEAN
        /\ isSince' = IF ok /\ isWhole THEN isSince + 1 ELSE 0
    BY <1>3 DEF IS!Sent
  <2>2. isPlace = IS!Last /\ isPkt' \in 1 .. IsMaxPackets + 1
    BY <1>1, <1>3, <2>1 DEF IS!TypeOK
  <2>3. isPlace' \in 0 .. IS!Last'
    BY <2>1 DEF IS!Last
  <2> QED
    BY <1>3, <2>1, <2>2, <2>3
<1> QED
  BY <1>2, <1>3

LEMMA TakenFacts ==
  ASSUME IS!TypeOK, TookInv
  PROVE  /\ IS!Taken \in Seq([whole : BOOLEAN, at : Nat]) /\ IS!Taken # <<>>
         /\ Len(IS!Taken) = (IF isBegun THEN Len(isTook) ELSE 0) + 1
         /\ IS!Taken[Len(IS!Taken)] = [whole |-> isWhole, at |-> isPlace]
         /\ isBegun => \A k \in 1 .. Len(isTook) : IS!Taken[k] = isTook[k]
<1> DEFINE newest == [whole |-> isWhole, at |-> isPlace]
           base == IF isBegun THEN isTook ELSE <<>>
<1>1. newest \in [whole : BOOLEAN, at : Nat] /\ base \in Seq([whole : BOOLEAN, at : Nat])
  BY LastFacts DEF IS!TypeOK, TookInv
<1>2. IS!Taken = Append(base, newest)
  BY DEF IS!Taken
<1> HIDE DEF newest, base
<1>3. /\ Append(base, newest) \in Seq([whole : BOOLEAN, at : Nat])
      /\ Len(Append(base, newest)) = Len(base) + 1
      /\ Append(base, newest)[Len(base) + 1] = newest
      /\ \A k \in 1 .. Len(base) : Append(base, newest)[k] = base[k]
      /\ Append(base, newest) # <<>>
  <2> DEFINE S == [whole : BOOLEAN, at : Nat]
  <2> HIDE DEF S
  <2>1. base \in Seq(S) /\ newest \in S
    BY <1>1 DEF S
  <2>2. /\ Append(base, newest) \in Seq(S)
        /\ Len(Append(base, newest)) = Len(base) + 1
        /\ Append(base, newest)[Len(base) + 1] = newest
        /\ \A k \in 1 .. Len(base) : Append(base, newest)[k] = base[k]
        /\ Append(base, newest) # <<>>
    BY <2>1, AppendProperties
  <2> QED
    BY <2>2 DEF S
<1>4. Len(base) = IF isBegun THEN Len(isTook) ELSE 0
  BY DEF base
<1>5. Len(base) \in Nat
  BY <1>1
<1> QED
  BY <1>2, <1>3, <1>4, <1>5 DEF base, newest

(* A frame that arrives is passed over, taken, thrown away with what was   *)
(* taken before, or ends the wait.                                         *)
Heeded == isBegun \/ IS!IsHead

PassedOver == ~Heeded /\ UNCHANGED <<isPhase, isBegun, isTook, isKey>>

Added ==
  /\ Heeded /\ isBegun' = TRUE /\ isTook' = IS!Taken /\ UNCHANGED <<isPhase, isKey>>
  /\ isPhase = "key" => Len(IS!Taken) # IsSize
  /\ isPhase = "wait" => ~(isWhole /\ isPlace = IS!Last)

Dropped ==
  /\ Heeded /\ isBegun' = FALSE /\ isTook' = <<>> /\ UNCHANGED <<isPhase, isKey>>
  /\ isPhase = "key" => Len(IS!Taken) = IsSize /\ isPlace # IS!Last
  /\ isPhase = "wait" => isWhole /\ isPlace = IS!Last /\ Len(IS!Taken) # IsSize

Ended ==
  /\ isBegun' = FALSE /\ isTook' = <<>>
  /\ \/ /\ isPhase = "key" /\ isPhase' = "wait" /\ isKey' = IS!Taken[IsKeyAt + 1]
        /\ Heeded /\ Len(IS!Taken) = IsSize /\ isPlace = IS!Last
     \/ isPhase = "wait" /\ isPhase' = "run" /\ isKey' = isKey

LEMMA Outcomes ==
  ASSUME IS!GetKey \/ IS!WaitImuReady
  PROVE  /\ isPhase # "run"
         /\ PassedOver \/ Added \/ Dropped \/ Ended
<1>1. CASE IS!GetKey
  BY <1>1 DEF IS!GetKey, IS!Collects, IS!Restart, IS!IsTail, PassedOver, Added, Dropped,
              Ended, Heeded
<1>2. CASE IS!WaitImuReady
  BY <1>2 DEF IS!WaitImuReady, IS!Restart, IS!IsTail, PassedOver, Added, Dropped,
              Ended, Heeded
<1> QED
  BY <1>1, <1>2

(* What Arrive does besides.                                               *)
LEMMA ArriveFacts ==
  ASSUME StartInv, IS!Arrive
  PROVE  /\ isPhase # "run" /\ isLost' = isLost
         /\ PassedOver \/ Added \/ Dropped \/ Ended
         /\ isPhase' = isPhase => IS!Sent(TRUE)
         /\ isPhase' # isPhase =>
              /\ isPkt' = isPkt + 1 /\ isWhole' \in BOOLEAN /\ isPlace' = 0 /\ isSince' = 0
         /\ isPkt' \in 1 .. IsMaxPackets + 1 /\ isWhole' \in BOOLEAN
         /\ isPlace' \in 0 .. IS!Last'
         /\ \/ isPkt' = isPkt /\ isPlace' = isPlace + 1
            \/ isPkt' = isPkt + 1 /\ isPlace' = 0
<1>1. /\ isPhase # "run" /\ isPkt <= IsMaxPackets /\ isLost' = isLost
      /\ IS!GetKey \/ IS!WaitImuReady
      /\ isPhase' = isPhase => IS!Sent(TRUE)
      /\ isPhase' # isPhase =>
           /\ isPkt' = isPkt + 1 /\ isWhole' \in BOOLEAN /\ isPlace' = 0 /\ isSince' = 0
  BY DEF IS!Arrive
<1>2. PassedOver \/ Added \/ Dropped \/ Ended
  BY <1>1, Outcomes
<1>3. CASE isPhase' = isPhase
  BY <1>1, <1>2, <1>3, SentFacts, Zenon DEF StartInv
<1>4. CASE isPhase' # isPhase
  <2>1. isPkt' \in 1 .. IsMaxPackets + 1
    BY <1>1, <1>4, IsAssumption DEF StartInv, IS!TypeOK
  <2>2. isPlace' \in 0 .. IS!Last'
    BY <1>1, <1>4, IsAssumption DEF IS!Last
  <2> QED
    BY <1>1, <1>2, <1>4, <2>1, <2>2
<1> QED
  BY <1>3, <1>4

LEMMA ArriveGone == ASSUME StartInv, IS!Arrive PROVE GoneInv'
<1>1. isLost' = isLost /\ isPkt \in Nat /\ isPlace \in Nat
  <2>1. isLost' = isLost
    BY ArriveFacts
  <2> QED
    BY <2>1, IsAssumption, LastFacts DEF StartInv, IS!TypeOK
<1>2. \/ isPkt' = isPkt /\ isPlace' = isPlace + 1
      \/ isPkt' = isPkt + 1 /\ isPlace' = 0
  BY ArriveFacts, Zenon
<1>3. ASSUME NEW l \in isLost
      PROVE  /\ l.p \in Nat /\ l.at \in Nat
             /\ (l.p < isPkt' \/ (l.p = isPkt' /\ l.at < isPlace'))
  <2>1. l.p \in Nat /\ l.at \in Nat /\ (l.p < isPkt \/ (l.p = isPkt /\ l.at < isPlace))
    BY DEF StartInv, GoneInv
  <2> QED
    BY <1>1, <1>2, <2>1
<1> QED
  BY <1>1, <1>3 DEF GoneInv, StartInv

LEMMA ArriveSince == ASSUME StartInv, IS!Arrive PROVE SinceInv'
<1> USE IsAssumption
<1>1. CASE isPhase' # isPhase
  <2>1. isSince' = 0 /\ isPlace' = 0
    BY <1>1, ArriveFacts
  <2> QED
    BY <2>1 DEF SinceInv
<1>2. CASE isPhase' = isPhase
  <2>1. /\ isPhase # "run" /\ IS!Sent(TRUE) /\ isPkt <= IsMaxPackets
        /\ PassedOver \/ Added \/ Dropped
    BY <1>2, ArriveFacts DEF IS!Arrive, Ended
  <2>2. /\ isPlace < IS!Last => /\ isPlace' = isPlace + 1 /\ isWhole' = isWhole
                                /\ isSince' = isSince
        /\ ~(isPlace < IS!Last) => /\ isPlace = IS!Last /\ isPlace' = 0
                                   /\ isSince' = IF isWhole THEN isSince + 1 ELSE 0
    BY <2>1, SentFacts DEF StartInv
  <2>3. /\ isSince \in -1 .. 1
        /\ isSince = 1 /\ isPlace = 0 => ~isBegun
        /\ isSince = 1 /\ isWhole /\ isPlace > 0 => isBegun /\ Len(isTook) = isPlace
        /\ isPhase = "key" /\ isSince = 0 /\ isWhole /\ isPlace > 0 /\ isBegun =>
             Len(isTook) >= isPlace
    BY <2>1 DEF StartInv, SinceInv
  <2>4. /\ isPlace \in Nat /\ Len(isTook) \in Nat /\ isWhole \in BOOLEAN /\ isBegun \in BOOLEAN
        /\ IS!Last \in Nat /\ IS!Last >= 1 /\ (isWhole => IS!Last = IsSize - 1)
        /\ isPhase = "key" => Len(isTook) < IsSize
        /\ Len(IS!Taken) = (IF isBegun THEN Len(isTook) ELSE 0) + 1
        /\ isPhase \in {"key", "wait"} /\ isPlace <= IS!Last
    BY <2>1, LastFacts, TakenFacts DEF StartInv, TookInv, IS!TypeOK
  <2>5. CASE isPlace < IS!Last
    <3>1. isPlace' > 0 /\ isSince' \in -1 .. 1
      BY <2>2, <2>3, <2>4, <2>5
    <3>2. ASSUME isSince = 1, isWhole PROVE isBegun' /\ Len(isTook') = isPlace'
      <4>1. Heeded /\ Len(IS!Taken) = isPlace + 1
        BY <2>3, <2>4, <3>2 DEF Heeded, IS!IsHead
      <4>2. Added
        BY <2>1, <2>4, <2>5, <3>2, <4>1 DEF PassedOver, Dropped
      <4> QED
        BY <2>2, <2>5, <4>1, <4>2 DEF Added
    <3>3. ASSUME isPhase = "key", isSince = 0, isWhole, isBegun' PROVE Len(isTook') >= isPlace'
      <4>1. Added \/ (PassedOver /\ isBegun)
        BY <2>1, <3>3 DEF PassedOver, Dropped
      <4>2. Added
        BY <4>1 DEF PassedOver, Heeded
      <4>3. Len(isTook') = (IF isBegun THEN Len(isTook) ELSE 0) + 1
        BY <2>4, <4>2 DEF Added
      <4>4. isBegun /\ isPlace > 0 => Len(isTook) >= isPlace
        BY <2>3, <3>3
      <4>5. ~isBegun => isPlace = 0
        BY <4>2 DEF Added, Heeded, IS!IsHead
      <4> QED
        BY <2>2, <2>4, <2>5, <4>3, <4>4, <4>5
    <3> QED
      BY <1>2, <2>2, <2>5, <3>1, <3>2, <3>3 DEF SinceInv
  <2>6. CASE ~(isPlace < IS!Last)
    <3>1. isPlace = IS!Last /\ isPlace' = 0 /\ isPlace > 0
      BY <2>2, <2>4, <2>6
    <3>2. ASSUME isWhole, isSince = 1 PROVE FALSE
      <4>1. Heeded /\ Len(IS!Taken) = IsSize
        BY <2>3, <2>4, <3>1, <3>2 DEF Heeded
      <4> QED
        BY <2>1, <2>4, <3>1, <3>2, <4>1 DEF PassedOver, Added, Dropped
    <3>3. ASSUME isWhole, isSince = 0 PROVE ~isBegun'
      <4>1. ASSUME Added PROVE FALSE
        <5>1. isPhase = "key"
          BY <2>4, <3>1, <3>3, <4>1 DEF Added
        <5>2. isBegun
          BY <3>1, <4>1 DEF Added, Heeded, IS!IsHead
        <5>3. Len(isTook) + 1 # IsSize /\ Len(isTook) < IsSize
          BY <2>4, <4>1, <5>1, <5>2 DEF Added
        <5>4. Len(isTook) >= IsSize - 1
          BY <2>3, <2>4, <3>1, <3>3, <5>1, <5>2
        <5> QED
          BY <2>4, <5>3, <5>4
      <4> QED
        BY <2>1, <4>1 DEF PassedOver, Heeded, Dropped
    <3> QED
      BY <1>2, <2>2, <2>3, <2>6, <3>1, <3>2, <3>3 DEF SinceInv
  <2> QED
    BY <2>5, <2>6
<1> QED
  BY <1>1, <1>2

LEMMA ArriveTypes == ASSUME StartInv, IS!Arrive PROVE IS!TypeOK'
<1>1. /\ isPkt' \in 1 .. IsMaxPackets + 1 /\ isWhole' \in BOOLEAN
      /\ isPlace' \in 0 .. IS!Last'
      /\ PassedOver \/ Added \/ Dropped \/ Ended
  BY ArriveFacts
<1>2. /\ isPhase' \in {"key", "wait", "run"} /\ isBegun' \in BOOLEAN
      /\ isPhase' = "key" => Len(isTook') < IsSize
  <2>1. /\ isPhase \in {"key", "wait", "run"} /\ isBegun \in BOOLEAN
        /\ isPhase = "key" => Len(isTook) < IsSize
        /\ Len(isTook) \in Nat
        /\ Len(IS!Taken) = (IF isBegun THEN Len(isTook) ELSE 0) + 1
    BY TakenFacts DEF StartInv, TookInv, IS!TypeOK
  <2>2. CASE PassedOver
    BY <2>1, <2>2 DEF PassedOver
  <2>3. CASE Added
    <3>1. isPhase' = isPhase /\ isBegun' = TRUE /\ isTook' = IS!Taken
          /\ (isPhase = "key" => Len(IS!Taken) # IsSize)
      BY <2>3 DEF Added
    <3>2. ASSUME isPhase = "key" PROVE Len(isTook') < IsSize
      <4>1. Len(isTook') # IsSize /\ Len(isTook) < IsSize
            /\ Len(isTook') = (IF isBegun THEN Len(isTook) ELSE 0) + 1
        BY <2>1, <3>1, <3>2
      <4> QED
        BY <2>1, <4>1, IsAssumption
    <3> QED
      BY <2>1, <3>1, <3>2, Zenon
  <2>4. CASE Dropped
    <3>1. isPhase' = isPhase /\ isBegun' = FALSE
      BY <2>4 DEF Dropped
    <3>2. Len(isTook') = 0 /\ 0 < IsSize
      BY <2>4, IsAssumption DEF Dropped
    <3>3. Len(isTook') < IsSize
      BY <3>2
    <3> QED
      BY <2>1, <3>1, <3>3, Zenon
  <2>5. CASE Ended
    BY <2>5 DEF Ended
  <2> QED
    BY <1>1, <2>2, <2>3, <2>4, <2>5
<1> QED
  BY <1>1, <1>2, Zenon DEF IS!TypeOK

(* Of a packet that was begun and not ended either nothing is missing, or  *)
(* a frame that was lost.                                                  *)
LEMMA AddedTook ==
  ASSUME StartInv, IS!Arrive, Added, isPhase = "key"
  PROVE  Intact' \/ Missed'
<1> USE IsAssumption
<1>1. /\ isPhase' = isPhase /\ isLost' = isLost /\ isTook' = IS!Taken
      /\ Heeded /\ Len(IS!Taken) # IsSize
  BY ArriveFacts DEF Added
<1>2. /\ isPlace < IS!Last => isPlace' = isPlace + 1 /\ isWhole' = isWhole
      /\ ~(isPlace < IS!Last) => isPlace = IS!Last /\ isPlace' = 0
  BY <1>1, ArriveFacts, SentFacts DEF StartInv, IS!Arrive
<1>3. /\ isPlace \in Nat /\ Len(isTook) \in Nat /\ isWhole \in BOOLEAN /\ isBegun \in BOOLEAN
      /\ IS!Last \in Nat /\ IS!Last >= 1 /\ (isWhole => IS!Last = IsSize - 1)
      /\ Len(isTook) < IsSize
      /\ Len(IS!Taken) = (IF isBegun THEN Len(isTook) ELSE 0) + 1
      /\ IS!Taken[Len(IS!Taken)] = [whole |-> isWhole, at |-> isPlace]
      /\ isBegun => \A k \in 1 .. Len(isTook) : IS!Taken[k] = isTook[k]
      /\ isPlace <= IS!Last
  BY LastFacts, TakenFacts DEF StartInv, TookInv, IS!TypeOK
<1>4. CASE ~isBegun
  <2>1. isWhole /\ isPlace = 0 /\ Len(IS!Taken) = 1
    BY <1>1, <1>3, <1>4 DEF Heeded, IS!IsHead
  <2>2. isWhole' /\ isPlace' = 1
    <3>1. isPlace < IS!Last
      BY <1>3, <2>1
    <3>2. isPlace' = isPlace + 1 /\ isWhole' = isWhole
      BY <1>2, <3>1
    <3> QED
      BY <2>1, <3>2
  <2>3. IS!Taken[1] = Place(0)
    BY <1>3, <2>1 DEF Place
  <2> QED
    BY <1>1, <2>1, <2>2, <2>3 DEF Intact
<1>5. CASE isBegun /\ Intact
  <2>1. isWhole /\ isPlace = Len(isTook) /\ \A k \in 1 .. Len(isTook) : isTook[k] = Place(k - 1)
    BY <1>5 DEF Intact
  <2>2. isWhole' /\ isPlace' = isPlace + 1 /\ Len(IS!Taken) = Len(isTook) + 1
    <3>1. Len(IS!Taken) = Len(isTook) + 1 /\ isPlace < IS!Last
      BY <1>1, <1>3, <1>5, <2>1
    <3>2. isPlace' = isPlace + 1 /\ isWhole' = isWhole
      BY <1>2, <3>1
    <3> QED
      BY <2>1, <3>1, <3>2
  <2>3. ASSUME NEW k \in 1 .. Len(IS!Taken) PROVE IS!Taken[k] = Place(k - 1)
    <3>1. CASE k = Len(IS!Taken)
      BY <1>3, <2>1, <2>2, <3>1 DEF Place
    <3>2. CASE k # Len(IS!Taken)
      BY <1>3, <1>5, <2>1, <2>2, <3>2
    <3> QED
      BY <3>1, <3>2
  <2> QED
    BY <1>1, <2>1, <2>2, <2>3 DEF Intact
<1>6. CASE isBegun /\ Missed
  <2>1. PICK f \in 1 .. Len(isTook) :
          /\ \E l \in isLost : l.whole /\ l.at = f
          /\ \A k \in 1 .. f : isTook[k] = Place(k - 1)
          /\ Cardinality(isLost) >= 2 \/ OneMissed
    BY <1>6 DEF Missed
  <2>2. Len(IS!Taken) = Len(isTook) + 1 /\ f \in 1 .. Len(IS!Taken)
    BY <1>3, <1>6
  <2>3. \A k \in 1 .. f : IS!Taken[k] = Place(k - 1)
    BY <1>3, <1>6, <2>1
  <2>4. OneMissed => \/ isWhole' /\ isPlace' = Len(IS!Taken) + 1
                     \/ isPlace' = 0 /\ Len(IS!Taken) = IsSize - 1
    BY <1>1, <1>2, <1>3, <2>2 DEF OneMissed
  <2>5. \E l \in isLost' : l.whole /\ l.at = f
    BY <1>1, <2>1
  <2>6. Cardinality(isLost') >= 2 \/ OneMissed'
    BY <1>1, <2>1, <2>4 DEF OneMissed
  <2> QED
    BY <1>1, <2>2, <2>3, <2>5, <2>6 DEF Missed
<1> QED
  BY <1>1, <1>3, <1>4, <1>5, <1>6 DEF StartInv, TookInv

LEMMA ArriveTook == ASSUME StartInv, IS!Arrive PROVE TookInv'
<1>1. /\ PassedOver \/ Added \/ Dropped \/ Ended
      /\ isPhase # "run" /\ isLost' = isLost
  BY ArriveFacts
<1>2. /\ isTook \in Seq([whole : BOOLEAN, at : Nat]) /\ (isBegun <=> isTook # <<>>)
      /\ IS!Taken \in Seq([whole : BOOLEAN, at : Nat]) /\ IS!Taken # <<>>
  BY TakenFacts DEF StartInv, TookInv
<1>3. <<>> \in Seq([whole : BOOLEAN, at : Nat])
  OBVIOUS
<1>4. CASE PassedOver
  <2>1. ~isBegun /\ UNCHANGED <<isBegun, isTook>>
    BY <1>4 DEF PassedOver, Heeded
  <2> QED
    BY <1>2, <2>1 DEF TookInv
<1>5. CASE Added
  <2>1. isPhase = "key" => Intact' \/ Missed'
    BY <1>5, AddedTook
  <2> QED
    BY <1>2, <1>5, <2>1 DEF Added, TookInv
<1>6. CASE Dropped \/ Ended
  <2>1. isBegun' = FALSE /\ isTook' = <<>>
    BY <1>6 DEF Dropped, Ended
  <2> QED
    BY <1>3, <2>1 DEF TookInv
<1> QED
  BY <1>1, <1>4, <1>5, <1>6

(* The frame that fills tMode and is a tail ends a packet of which nothing *)
(* is missing, or one with a frame lost and one more besides.              *)
LEMMA EndedKey ==
  ASSUME StartInv, Ended, isPhase = "key", isKey' # [whole |-> TRUE, at |-> IsKeyAt]
  PROVE  /\ \E l \in isLost : l.whole /\ l.at \in 1 .. IsKeyAt
         /\ Cardinality(isLost) >= 2
<1> USE IsAssumption
<1>1. /\ isKey' = IS!Taken[IsKeyAt + 1] /\ Heeded
      /\ Len(IS!Taken) = IsSize /\ isPlace = IS!Last
  BY DEF Ended
<1>2. /\ isPlace \in Nat /\ Len(isTook) \in Nat /\ isWhole \in BOOLEAN /\ isBegun \in BOOLEAN
      /\ IS!Last \in Nat /\ IS!Last >= 1 /\ (isWhole => IS!Last = IsSize - 1)
      /\ Len(IS!Taken) = (IF isBegun THEN Len(isTook) ELSE 0) + 1
      /\ IS!Taken[Len(IS!Taken)] = [whole |-> isWhole, at |-> isPlace]
      /\ isBegun => \A k \in 1 .. Len(isTook) : IS!Taken[k] = isTook[k]
  BY LastFacts, TakenFacts DEF StartInv, TookInv, IS!TypeOK
<1>3. isBegun /\ Len(isTook) = IsSize - 1
  BY <1>1, <1>2
<1>4. CASE Intact
  <2>1. CASE IsKeyAt + 1 <= Len(isTook)
    <3>1. IsKeyAt + 1 \in 1 .. Len(isTook)
      BY <2>1
    <3>2. IS!Taken[IsKeyAt + 1] = Place((IsKeyAt + 1) - 1)
      BY <1>2, <1>3, <1>4, <3>1 DEF Intact
    <3> QED
      BY <1>1, <3>2 DEF Place
  <2>2. CASE ~(IsKeyAt + 1 <= Len(isTook))
    <3>1. IsKeyAt = IsSize - 1
      BY <1>3, <2>2
    <3>2. isWhole = TRUE /\ isPlace = IsSize - 1
      BY <1>2, <1>3, <1>4 DEF Intact
    <3>3. IsKeyAt + 1 = Len(IS!Taken)
      BY <1>1, <3>1
    <3>4. isKey' = [whole |-> isWhole, at |-> isPlace]
      BY <1>1, <1>2, <3>3, Zenon
    <3> QED
      BY <3>1, <3>2, <3>4
  <2> QED
    BY <2>1, <2>2
<1>5. CASE Missed
  <2>1. PICK f \in 1 .. Len(isTook) :
          /\ \E l \in isLost : l.whole /\ l.at = f
          /\ \A k \in 1 .. f : isTook[k] = Place(k - 1)
          /\ Cardinality(isLost) >= 2 \/ OneMissed
    BY <1>5 DEF Missed
  <2>2. ~OneMissed
    BY <1>1, <1>2, <1>3 DEF OneMissed
  <2>3. f <= IsKeyAt
    <3> SUFFICES ASSUME ~(f <= IsKeyAt) PROVE FALSE
      OBVIOUS
    <3>1. IsKeyAt + 1 \in 1 .. f /\ IsKeyAt + 1 \in 1 .. Len(isTook)
      OBVIOUS
    <3>2. IS!Taken[IsKeyAt + 1] = Place((IsKeyAt + 1) - 1)
      BY <1>2, <1>3, <2>1, <3>1
    <3> QED
      BY <1>1, <3>2 DEF Place
  <2> QED
    BY <2>1, <2>2, <2>3
<1> QED
  BY <1>3, <1>4, <1>5 DEF StartInv, TookInv

LEMMA ArriveKey == ASSUME StartInv, IS!Arrive PROVE IS!WrongKeyNeedsLosses'
<1>1. /\ PassedOver \/ Added \/ Dropped \/ Ended
      /\ isPhase # "run" /\ isLost' = isLost
  BY ArriveFacts
<1>2. IS!WrongKeyNeedsLosses
  BY DEF StartInv
<1>3. CASE Ended /\ isPhase = "key"
  <2>1. isKey' # [whole |-> TRUE, at |-> IsKeyAt] =>
          /\ \E l \in isLost : l.whole /\ l.at \in 1 .. IsKeyAt
          /\ Cardinality(isLost) >= 2
    BY <1>3, EndedKey
  <2> QED
    BY <1>1, <2>1, SameCardinality DEF IS!WrongKeyNeedsLosses
<1>4. CASE ~(Ended /\ isPhase = "key")
  <2>1. isKey' = isKey /\ (isPhase' # "key" => isPhase # "key")
    BY <1>1, <1>4 DEF PassedOver, Added, Dropped, Ended
  <2> QED
    BY <1>1, <1>2, <2>1 DEF IS!WrongKeyNeedsLosses
<1> QED
  BY <1>3, <1>4

(* A lost frame is one more.                                               *)
LEMMA LoseFacts ==
  ASSUME StartInv, IS!Lose
  PROVE  /\ isPhase # "run" /\ UNCHANGED <<isPhase, isBegun, isTook, isKey>>
         /\ isPkt <= IsMaxPackets /\ IS!Sent(FALSE)
         /\ isLost' = isLost \cup {[p |-> isPkt, whole |-> isWhole, at |-> isPlace]}
         /\ IsFiniteSet(isLost') /\ isLost \subseteq isLost'
         /\ Cardinality(isLost) \in Nat
         /\ Cardinality(isLost') = Cardinality(isLost) + 1
<1> DEFINE l == [p |-> isPkt, whole |-> isWhole, at |-> isPlace]
<1>1. /\ isPhase # "run" /\ UNCHANGED <<isPhase, isBegun, isTook, isKey>>
      /\ isPkt <= IsMaxPackets /\ IS!Sent(FALSE) /\ isLost' = isLost \cup {l}
  BY DEF IS!Lose
<1>2. IsFiniteSet(isLost)
  BY DEF StartInv, GoneInv
<1>3. l \notin isLost
  <2> SUFFICES ASSUME l \in isLost PROVE FALSE
    OBVIOUS
  <2>1. isPkt \in Nat /\ isPlace \in Nat
    BY IsAssumption, LastFacts DEF StartInv, IS!TypeOK
  <2>2. l.p < isPkt \/ (l.p = isPkt /\ l.at < isPlace)
    BY DEF StartInv, GoneInv
  <2> QED
    BY <2>1, <2>2
<1>4. IsFiniteSet(isLost') /\ Cardinality(isLost') = Cardinality(isLost) + 1
  <2> HIDE DEF l
  <2> QED
    BY <1>1, <1>2, <1>3, FS_AddElement
<1>5. Cardinality(isLost) \in Nat
  BY <1>2, FS_CardinalityType
<1> QED
  BY <1>1, <1>4, <1>5

LEMMA LoseKeeps == ASSUME StartInv, IS!Lose PROVE StartInv'
<1> USE IsAssumption
<1> DEFINE lostOne == [p |-> isPkt, whole |-> isWhole, at |-> isPlace]
<1>1. /\ isPhase # "run" /\ UNCHANGED <<isPhase, isBegun, isTook, isKey>>
      /\ isPkt <= IsMaxPackets /\ IS!Sent(FALSE)
      /\ isLost' = isLost \cup {lostOne}
      /\ IsFiniteSet(isLost') /\ isLost \subseteq isLost'
      /\ Cardinality(isLost) \in Nat
      /\ Cardinality(isLost') = Cardinality(isLost) + 1
  BY LoseFacts
<1>2. /\ isPkt' \in 1 .. IsMaxPackets + 1 /\ isWhole' \in BOOLEAN
      /\ isPlace' \in 0 .. IS!Last'
      /\ isPlace < IS!Last => /\ isPlace' = isPlace + 1 /\ isWhole' = isWhole /\ isSince' = -1
      /\ ~(isPlace < IS!Last) => isPlace = IS!Last /\ isPlace' = 0 /\ isSince' = 0
      /\ \/ isPkt' = isPkt /\ isPlace' = isPlace + 1
         \/ isPkt' = isPkt + 1 /\ isPlace' = 0
  BY <1>1, SentFacts DEF StartInv
<1>3. /\ isPlace \in Nat /\ Len(isTook) \in Nat /\ isWhole \in BOOLEAN /\ isBegun \in BOOLEAN
      /\ IS!Last \in Nat /\ IS!Last >= 1 /\ (isWhole => IS!Last = IsSize - 1)
      /\ isPhase = "key" => Len(isTook) < IsSize
      /\ isPkt \in Nat /\ isPlace <= IS!Last
  BY LastFacts DEF StartInv, TookInv, IS!TypeOK
<1>4. IS!TypeOK'
  <2>1. isPhase' \in {"key", "wait", "run"} /\ isBegun' \in BOOLEAN
        /\ (isPhase' = "key" => Len(isTook') < IsSize)
    BY <1>1 DEF StartInv, IS!TypeOK
  <2> QED
    BY <1>2, <2>1, Zenon DEF IS!TypeOK
<1>5. TookInv'
  <2>1. ASSUME isPhase = "key", isBegun PROVE Missed'
    <3>1. Len(isTook) >= 1
      BY <1>3, <2>1 DEF StartInv, TookInv
    <3>2. CASE Intact
      <4>1. isWhole /\ isPlace = Len(isTook) /\ \A k \in 1 .. Len(isTook) : isTook[k] = Place(k - 1)
        BY <3>2 DEF Intact
      <4>2. lostOne \in isLost' /\ lostOne.whole /\ lostOne.at = isPlace
        BY <1>1, <4>1
      <4>3. OneMissed'
        BY <1>1, <1>2, <1>3, <2>1, <4>1 DEF OneMissed
      <4> HIDE DEF lostOne
      <4>4. isPlace \in 1 .. Len(isTook)
        BY <3>1, <4>1, <1>3
      <4> QED
        BY <1>1, <4>1, <4>2, <4>3, <4>4 DEF Missed
    <3>3. CASE Missed
      <4>1. PICK f \in 1 .. Len(isTook) :
              /\ \E l \in isLost : l.whole /\ l.at = f
              /\ \A k \in 1 .. f : isTook[k] = Place(k - 1)
        BY <3>3 DEF Missed
      <4>2. Cardinality(isLost) # 0
        BY <4>1, FS_EmptySet DEF StartInv, GoneInv
      <4>3. Cardinality(isLost') >= 2
        BY <1>1, <4>2
      <4>4. \E l \in isLost' : l.whole /\ l.at = f
        BY <1>1, <4>1
      <4> QED
        BY <1>1, <4>1, <4>3, <4>4 DEF Missed
    <3> QED
      BY <2>1, <3>2, <3>3 DEF StartInv, TookInv
  <2> QED
    BY <1>1, <2>1 DEF StartInv, TookInv
<1>6. GoneInv'
  <2>1. ASSUME NEW l \in isLost'
        PROVE  /\ l.p \in Nat /\ l.at \in Nat
               /\ (l.p < isPkt' \/ (l.p = isPkt' /\ l.at < isPlace'))
    <3>1. CASE l = lostOne
      BY <1>2, <1>3, <3>1
    <3>2. CASE l \in isLost
      <4>1. l.p \in Nat /\ l.at \in Nat /\ (l.p < isPkt \/ (l.p = isPkt /\ l.at < isPlace))
        BY <3>2 DEF StartInv, GoneInv
      <4> QED
        BY <1>2, <1>3, <4>1
    <3> QED
      BY <1>1, <3>1, <3>2
  <2> QED
    BY <1>1, <2>1 DEF GoneInv
<1>7. SinceInv'
  <2>1. isSince' \in {-1, 0} /\ (isSince' = 0 => isPlace' = 0)
    BY <1>2
  <2> QED
    BY <2>1 DEF SinceInv
<1>8. IS!WrongKeyNeedsLosses'
  <2> HIDE DEF lostOne
  <2>1. IS!WrongKeyNeedsLosses
    BY DEF StartInv
  <2>2. /\ isPhase' = isPhase /\ isKey' = isKey /\ isLost \subseteq isLost'
        /\ Cardinality(isLost) >= 2 => Cardinality(isLost') >= 2
    BY <1>1
  <2> QED
    BY <2>1, <2>2, SameCardinality DEF IS!WrongKeyNeedsLosses
<1> QED
  BY <1>4, <1>5, <1>6, <1>7, <1>8 DEF StartInv

LEMMA StartStep == StartInv /\ [IS!Next]_(IS!vars) => StartInv'
<1>1. ASSUME StartInv, UNCHANGED IS!vars PROVE StartInv'
  BY <1>1 DEF StartInv, IS!TypeOK, IS!Last, TookInv, Intact, Missed, OneMissed, GoneInv, SinceInv,
              IS!WrongKeyNeedsLosses, IS!vars
<1>2. ASSUME StartInv, IS!Arrive PROVE StartInv'
  BY <1>2, ArriveTypes, ArriveTook, ArriveGone, ArriveSince, ArriveKey DEF StartInv
<1> QED
  BY <1>1, <1>2, LoseKeeps DEF IS!Next

LEMMA StartHolds ==
  StartBehaviour => [](IS!TypeOK /\ IS!TwoAreEnough /\ IS!WrongKeyNeedsLosses)
<1>1. StartInv => IS!TypeOK /\ IS!TwoAreEnough /\ IS!WrongKeyNeedsLosses
  BY DEF StartInv, SinceInv, IS!TwoAreEnough
<1> QED
  BY <1>1, StartInit, StartStep, PTL DEF StartBehaviour
-----------------------------------------------------------------------------
OldBehaviour == OP!Init /\ [][OP!Next]_(OP!vars)

LEMMA OldImplemented == ReadersSpec => OldBehaviour
<1>1. ReadersInit => OP!Init
  BY DEF ReadersInit
<1>2. [ReadersNext]_ReaderVars => [OP!Next]_(OP!vars)
  BY DEF ReadersNext, ReaderVars, opVars, OP!vars
<1> QED
  BY <1>1, <1>2, PTL DEF ReadersSpec, OldBehaviour

(***************************************************************************)
(* OldPackets.  What is in the buffer was sent in this order and before    *)
(* the next frame (OpOrder).  A packet of which no frame was lost is in    *)
(* the buffer without a gap up to the next frame, and either the buffer    *)
(* began with it or its head came as data behind another's (OpRun): so it  *)
(* is full before the packet ends, and the packet after it finds no packet *)
(* begun (OpSecond).                                                       *)
(***************************************************************************)
OpByte == [p : Nat, at : Nat]
NoneLost(p) == \A l \in DOMAIN opLost : opLost[l].p # p
OpBefore(a, b) == a.p < b.p \/ (a.p = b.p /\ a.at < b.at)

OpTyped ==
  /\ opLen \in OpLens /\ opPkt \in 1 .. OpMaxPackets + 1
  /\ opNext \in 0 .. opLen + 11 /\ opNext % 8 = 0
  /\ opEmpty \in BOOLEAN
  /\ opBuf \in Seq(OpByte) /\ Len(opBuf) <= opLen
  /\ opOut \in Seq(Seq(OpByte)) /\ \A k \in DOMAIN opOut : Len(opOut[k]) = opLen
  /\ opLost \in Seq(OpByte) /\ Len(opLost) <= OpMaxLost

OpOrder ==
  /\ \A i \in DOMAIN opBuf : OpBefore(opBuf[i], [p |-> opPkt, at |-> opNext])
  /\ \A i, j \in DOMAIN opBuf : i < j => OpBefore(opBuf[i], opBuf[j])
  /\ opLen > 0 =>
       \A k \in DOMAIN opOut :
         /\ opOut[k][opLen].p < opPkt
         /\ ~opEmpty /\ opBuf # <<>> => opOut[k][opLen].p < opBuf[1].p

OpRun ==
  ~opEmpty =>
    /\ opBuf = <<>> /\ NoneLost(opPkt) /\ opLen > 0 => opNext \in {0, 8}
    /\ opBuf # <<>> /\ NoneLost(opBuf[1].p) =>
         /\ opPkt = opBuf[1].p /\ opNext - Len(opBuf) \in {0, 8}
         /\ \A k \in DOMAIN opBuf :
              opBuf[k] = [p |-> opPkt, at |-> opNext - Len(opBuf) + k - 1]
    /\ opBuf # <<>> /\ NoneLost(opPkt) /\ opPkt # opBuf[1].p => opNext < Len(opBuf)
    /\ \A i \in DOMAIN opBuf : NoneLost(opBuf[i].p) => opBuf[i].p = opPkt

OpSecond ==
  /\ NoneLost(opPkt - 1) /\ opPkt > 1 /\ opNext = 0 => opEmpty
  /\ opLen > 0 /\ opLen % 8 <= 4 /\ opPkt > 1 /\ NoneLost(opPkt)
     /\ NoneLost(opPkt - 1) /\ opNext # 0 =>
       /\ ~opEmpty /\ Len(opBuf) = opNext - 8
       /\ \A k \in DOMAIN opBuf : opBuf[k] = [p |-> opPkt, at |-> 8 + k - 1]

OpSafe ==
  /\ OP!MixedOnlyByTwoLosses /\ OP!SecondArrives
  /\ OP!CutTailNeverArrives /\ OP!OutInOrder

OpInv == OpTyped /\ OpOrder /\ OpRun /\ OpSecond /\ OpSafe

LEMMA OpAssumption ==
  OpLens \subseteq Nat /\ OpMaxPackets \in Nat /\ OpMaxLost \in Nat
  BY ReadersAssumption DEF OP!OldPacketsAssumption

LEMMA OpSizes ==
  ASSUME OpTyped
  PROVE  /\ opLen \in Nat /\ OP!Total = opLen + 12 /\ opNext \in Nat
         /\ opPkt \in Nat /\ Len(opBuf) \in Nat
  BY OpAssumption DEF OpTyped, OP!Total, OP!HeadSize, OP!TailSize

LEMMA NoneLostIs == \A p : OP!LostOf(p) = {} <=> NoneLost(p)
  BY DEF OP!LostOf, NoneLost

LEMMA OpInit == OP!Init => OpInv
<1> SUFFICES ASSUME OP!Init PROVE OpInv
  OBVIOUS
<1> USE OpAssumption DEF OP!Init
<1>1. OpTyped
  BY DEF OpTyped
<1>2. OpOrder /\ OpRun /\ OpSecond
  BY DEF OpOrder, OpRun, OpSecond
<1>3. OpSafe
  BY DEF OpSafe, OP!MixedOnlyByTwoLosses, OP!SecondArrives, OP!CutTailNeverArrives, OP!OutInOrder
<1> QED
  BY <1>1, <1>2, <1>3 DEF OpInv

(* The bytes of the next frame.                                            *)
FrameLen == IF opLen + 12 - opNext < 8 THEN opLen + 12 - opNext ELSE 8

LEMMA FrameIs ==
  ASSUME OpTyped
  PROVE  /\ OP!Frame \in Seq(OpByte) /\ Len(OP!Frame) = FrameLen
         /\ FrameLen \in 1 .. 8
         /\ \A i \in 1 .. FrameLen : OP!Frame[i] = [p |-> opPkt, at |-> opNext + i - 1]
<1>0. opLen \in Nat /\ OP!Total = opLen + 12 /\ opNext \in 0 .. opLen + 11
  BY OpSizes DEF OpTyped
<1>1. FrameLen \in 1 .. 8 /\ OP!Lesser(8, OP!Total - opNext) = FrameLen
  BY <1>0 DEF FrameLen, OP!Lesser
<1>2. OP!Frame = [i \in 1 .. FrameLen |-> [p |-> opPkt, at |-> opNext + i - 1]]
  BY <1>1 DEF OP!Frame
<1>3. \A i \in 1 .. FrameLen : [p |-> opPkt, at |-> opNext + i - 1] \in OpByte
  BY <1>1, OpSizes DEF OpByte
<1>4. OP!Frame \in [1 .. FrameLen -> OpByte]
  BY <1>2, <1>3
<1> QED
  BY <1>1, <1>2, <1>4

LEMMA AdvancedIs ==
  ASSUME OpTyped, OP!Advanced
  PROVE  \/ opNext + 8 < opLen + 12 /\ opPkt' = opPkt /\ opNext' = opNext + 8 /\ FrameLen = 8
         \/ opNext + 8 >= opLen + 12 /\ opPkt' = opPkt + 1 /\ opNext' = 0
            /\ FrameLen = opLen + 12 - opNext
  BY OpSizes DEF OP!Advanced, FrameLen

(* What the frame adds: OpTaken bytes.                                     *)
OpTaken == IF FrameLen < opLen - Len(opBuf) THEN FrameLen ELSE opLen - Len(opBuf)

LEMMA FilledIs ==
  ASSUME OpTyped
  PROVE  /\ OP!Room(OP!Frame) = OpTaken /\ OpTaken \in 0 .. FrameLen
         /\ OP!Filled(OP!Frame) \in Seq(OpByte)
         /\ Len(OP!Filled(OP!Frame)) = Len(opBuf) + OpTaken
         /\ \A k \in 1 .. Len(opBuf) : OP!Filled(OP!Frame)[k] = opBuf[k]
         /\ \A k \in Len(opBuf) + 1 .. Len(opBuf) + OpTaken :
              OP!Filled(OP!Frame)[k] = [p |-> opPkt, at |-> opNext + k - Len(opBuf) - 1]
<1>1. /\ OP!Frame \in Seq(OpByte) /\ Len(OP!Frame) = FrameLen /\ FrameLen \in 1 .. 8
      /\ \A i \in 1 .. FrameLen : OP!Frame[i] = [p |-> opPkt, at |-> opNext + i - 1]
  BY FrameIs
<1>2. /\ opLen \in Nat /\ opBuf \in Seq(OpByte) /\ Len(opBuf) \in 0 .. opLen
      /\ opNext \in Nat
  BY OpSizes DEF OpTyped
<1>3. OP!Room(OP!Frame) = OpTaken /\ OpTaken \in 0 .. FrameLen
  BY <1>1, <1>2 DEF OP!Room, OP!Lesser, OpTaken
<1> DEFINE s == SubSeq(OP!Frame, 1, OpTaken)
<1>4. /\ s \in Seq(OpByte) /\ Len(s) = OpTaken
      /\ \A i \in 1 .. OpTaken : s[i] = OP!Frame[i]
  <2> DEFINE n == OpTaken
  <2>1. n \in 0 .. Len(OP!Frame)
    BY <1>1, <1>3
  <2> HIDE DEF n
  <2>2. /\ SubSeq(OP!Frame, 1, n) \in Seq(OpByte) /\ Len(SubSeq(OP!Frame, 1, n)) = n
        /\ \A i \in 1 .. n : SubSeq(OP!Frame, 1, n)[i] = OP!Frame[i]
    BY <1>1, <2>1
  <2> QED
    BY <2>2 DEF n
<1>5. OP!Filled(OP!Frame) = opBuf \o s
  BY <1>3 DEF OP!Filled
<1> HIDE DEF s
<1>6. /\ opBuf \o s \in Seq(OpByte) /\ Len(opBuf \o s) = Len(opBuf) + OpTaken
      /\ \A k \in 1 .. Len(opBuf) : (opBuf \o s)[k] = opBuf[k]
      /\ \A k \in Len(opBuf) + 1 .. Len(opBuf) + OpTaken : (opBuf \o s)[k] = s[k - Len(opBuf)]
  BY <1>2, <1>3, <1>4
<1>7. ASSUME NEW k \in Len(opBuf) + 1 .. Len(opBuf) + OpTaken
      PROVE  (opBuf \o s)[k] = [p |-> opPkt, at |-> opNext + k - Len(opBuf) - 1]
  <2>1. k - Len(opBuf) \in 1 .. OpTaken /\ k - Len(opBuf) \in 1 .. FrameLen
    BY <1>1, <1>2, <1>3
  <2>2. s[k - Len(opBuf)] = [p |-> opPkt, at |-> opNext + (k - Len(opBuf)) - 1]
    BY <2>1, <1>1, <1>4
  <2> QED
    BY <1>2, <1>6, <2>1, <2>2
<1> QED
  BY <1>3, <1>5, <1>6, <1>7

(* The four outcomes of a frame that arrives.                              *)
OpBegin ==
  opEmpty /\ opNext = 0 /\ opEmpty' = FALSE /\ opBuf' = <<>> /\ opOut' = opOut

OpIgnored == opEmpty /\ opNext # 0 /\ UNCHANGED <<opEmpty, opBuf, opOut>>

OpGrown ==
  /\ ~opEmpty /\ opBuf' \in Seq(OpByte) /\ Len(opBuf') = Len(opBuf) + OpTaken
  /\ \A k \in 1 .. Len(opBuf) : opBuf'[k] = opBuf[k]
  /\ \A k \in Len(opBuf) + 1 .. Len(opBuf) + OpTaken :
       opBuf'[k] = [p |-> opPkt, at |-> opNext + k - Len(opBuf) - 1]

OpMore == OpGrown /\ OpTaken = FrameLen /\ opEmpty' = FALSE /\ opOut' = opOut

AtTail == FrameLen - OpTaken >= 4 /\ opNext + FrameLen - 4 >= opLen + 8

OpDone ==
  /\ OpGrown /\ Len(opBuf') = opLen /\ OpTaken < FrameLen /\ opEmpty' = TRUE
  /\ \/ opOut' = opOut /\ ~(AtTail /\ OP!Whole(opBuf'))
     \/ opOut' = Append(opOut, opBuf') /\ AtTail

LEMMA PushIs ==
  ASSUME OpTyped, OP!Push
  PROVE  /\ opPkt <= OpMaxPackets /\ OP!Advanced /\ UNCHANGED <<opLen, opLost>>
         /\ OpBegin \/ OpIgnored \/ OpMore \/ OpDone
<1>1. opPkt <= OpMaxPackets /\ OP!Advanced /\ UNCHANGED <<opLen, opLost>>
  BY DEF OP!Push
<1>2. /\ Len(OP!Frame) = FrameLen /\ FrameLen \in 1 .. 8
      /\ \A i \in 1 .. FrameLen : OP!Frame[i] = [p |-> opPkt, at |-> opNext + i - 1]
  BY FrameIs
<1>3. /\ opLen \in Nat /\ opNext \in Nat /\ Len(opBuf) \in 0 .. opLen
  BY OpSizes DEF OpTyped
<1>4. CASE opEmpty
  <2>1. OP!Take /\ opOut' = opOut
    BY <1>4 DEF OP!Push
  <2>2. OP!IsHead(OP!Frame) <=> opNext = 0
    <3>1. OP!Frame[1].at = opNext
      BY <1>2, <1>3
    <3>2. opNext = 0 => FrameLen = 8
      BY <1>3 DEF FrameLen
    <3> QED
      BY <1>2, <3>1, <3>2 DEF OP!IsHead
  <2> QED
    BY <1>1, <1>4, <2>1, <2>2 DEF OP!Take, OpBegin, OpIgnored
<1>5. CASE ~opEmpty
  <2>1. OP!Fill
    BY <1>5 DEF OP!Push
  <2>2. /\ OP!Room(OP!Frame) = OpTaken /\ OpTaken \in 0 .. FrameLen
        /\ OP!Filled(OP!Frame) \in Seq(OpByte)
        /\ Len(OP!Filled(OP!Frame)) = Len(opBuf) + OpTaken
    BY FilledIs
  <2>3. OpGrown /\ opBuf' = OP!Filled(OP!Frame)
    BY <1>5, <2>1, FilledIs DEF OP!Fill, OpGrown
  <2>4. OP!AtEnd <=> OpTaken < FrameLen
    BY <1>2, <1>3, <2>2 DEF OP!AtEnd, OpTaken
  <2>5. OP!AtEnd => Len(opBuf') = opLen
    BY <2>3 DEF OP!AtEnd
  <2>6. OP!IsTail(OP!Frame, OpTaken) <=> AtTail
    <3>1. CASE FrameLen - OpTaken >= 4
      <4>1. \A k \in 0 .. 3 : OP!Frame[FrameLen - k].at = opNext + FrameLen - k - 1
        <5> SUFFICES ASSUME NEW k \in 0 .. 3
                     PROVE  OP!Frame[FrameLen - k].at = opNext + FrameLen - k - 1
          OBVIOUS
        <5>1. FrameLen - k \in 1 .. FrameLen
          BY <1>2, <2>2, <3>1
        <5>2. OP!Frame[FrameLen - k] = [p |-> opPkt, at |-> opNext + (FrameLen - k) - 1]
          BY <1>2, <5>1
        <5> QED
          BY <1>2, <1>3, <5>2
      <4>2. OP!IsTail(OP!Frame, OpTaken) <=>
              \A k \in 0 .. 3 : opNext + FrameLen - k - 1 >= opLen + 8
        <5>1. OP!IsTail(OP!Frame, OpTaken) <=>
                \A k \in 0 .. 3 : OP!Frame[FrameLen - k].at >= opLen + 8
          BY <1>2, <1>3, <3>1 DEF OP!IsTail, OP!TailSize, OP!HeadSize
        <5> QED
          BY <4>1, <5>1
      <4>3. (\A k \in 0 .. 3 : opNext + FrameLen - k - 1 >= opLen + 8)
              <=> opNext + FrameLen - 4 >= opLen + 8
        <5>1. opNext \in Int /\ FrameLen \in Int /\ opLen \in Int
          BY <1>2, <1>3
        <5> QED
          BY <5>1
      <4> QED
        BY <3>1, <4>2, <4>3 DEF AtTail
    <3>2. CASE ~(FrameLen - OpTaken >= 4)
      BY <1>2, <3>2 DEF OP!IsTail, OP!TailSize, AtTail
    <3> QED
      BY <3>1, <3>2
  <2>7. CASE ~OP!AtEnd
    <3>1. opEmpty' = FALSE
      BY <2>1, <2>7 DEF OP!Fill
    <3>2. opOut' = opOut
      BY <2>1, <2>7 DEF OP!Fill
    <3>3. OpTaken = FrameLen
      BY <1>2, <2>2, <2>4, <2>7
    <3> QED
      BY <1>1, <2>3, <3>1, <3>2, <3>3 DEF OpMore
  <2>8. CASE OP!AtEnd
    <3>1. opEmpty' = TRUE
      BY <2>1, <2>8 DEF OP!Fill
    <3>2. \/ opOut' = opOut /\ ~(AtTail /\ OP!Whole(opBuf'))
          \/ opOut' = Append(opOut, opBuf') /\ AtTail
      <4>1. CASE AtTail
        <5>1. PICK ok \in OP!IsValid(opBuf') :
                opOut' = IF ok THEN Append(opOut, opBuf') ELSE opOut
          BY <2>1, <2>2, <2>6, <2>8, <4>1 DEF OP!Fill
        <5>2. OP!Whole(opBuf') => ok = TRUE
          BY <5>1 DEF OP!IsValid
        <5> QED
          BY <4>1, <5>1, <5>2
      <4>2. CASE ~AtTail
        BY <2>1, <2>2, <2>6, <4>2 DEF OP!Fill
      <4> QED
        BY <4>1, <4>2
    <3> QED
      BY <1>1, <2>3, <2>4, <2>5, <2>8, <3>1, <3>2 DEF OpDone
  <2> QED
    BY <2>7, <2>8
<1> QED
  BY <1>1, <1>4, <1>5

(* The numbers of a step, and its types.                                   *)
LEMMA OpNumbers ==
  ASSUME OpTyped
  PROVE  /\ opLen \in Nat /\ opPkt \in Nat /\ opPkt >= 1 /\ opNext \in 0 .. opLen + 11
         /\ opNext % 8 = 0
         /\ opBuf \in Seq(OpByte) /\ Len(opBuf) \in 0 .. opLen
         /\ FrameLen \in 1 .. 8 /\ OpTaken \in 0 .. FrameLen
         /\ OpTaken <= opLen - Len(opBuf)
         /\ opOut \in Seq(Seq(OpByte)) /\ opLost \in Seq(OpByte)
<1>1. FrameLen \in 1 .. 8 /\ OpTaken \in 0 .. FrameLen
  BY FrameIs, FilledIs
<1>2. /\ opLen \in Nat /\ opPkt \in Nat /\ opPkt >= 1 /\ opNext \in 0 .. opLen + 11
      /\ opNext % 8 = 0
      /\ opBuf \in Seq(OpByte) /\ Len(opBuf) \in 0 .. opLen
      /\ opOut \in Seq(Seq(OpByte)) /\ opLost \in Seq(OpByte)
  BY OpSizes DEF OpTyped
<1>3. OpTaken <= opLen - Len(opBuf)
  BY <1>1, <1>2 DEF OpTaken
<1> QED
  BY <1>1, <1>2, <1>3

LEMMA AdvancedTypes ==
  ASSUME OpTyped, opPkt <= OpMaxPackets, OP!Advanced
  PROVE  opPkt' \in 1 .. OpMaxPackets + 1 /\ opNext' \in 0 .. opLen + 11 /\ opNext' % 8 = 0
<1>1. /\ opPkt \in Nat /\ opPkt >= 1 /\ opLen \in Nat /\ opNext \in 0 .. opLen + 11
      /\ opNext % 8 = 0 /\ OpMaxPackets \in Nat
  BY OpNumbers, OpAssumption
<1>2. CASE opNext + 8 < opLen + 12 /\ opPkt' = opPkt /\ opNext' = opNext + 8
  <2>1. (opNext + 8) % 8 = 0
    BY <1>1
  <2> QED
    BY <1>1, <1>2, <2>1
<1>3. CASE opPkt' = opPkt + 1 /\ opNext' = 0
  BY <1>1, <1>3
<1> QED
  BY <1>2, <1>3, AdvancedIs

LEMMA OpPushTypes == ASSUME OpTyped, OP!Push PROVE OpTyped'
<1>1. /\ opPkt <= OpMaxPackets /\ OP!Advanced /\ UNCHANGED <<opLen, opLost>>
      /\ OpBegin \/ OpIgnored \/ OpMore \/ OpDone
  BY PushIs
<1>2. opPkt' \in 1 .. OpMaxPackets + 1 /\ opNext' \in 0 .. opLen + 11 /\ opNext' % 8 = 0
  BY <1>1, AdvancedTypes
<1>3. /\ opLen \in OpLens /\ opLen \in Nat /\ opLost \in Seq(OpByte) /\ Len(opLost) <= OpMaxLost
      /\ opBuf \in Seq(OpByte) /\ Len(opBuf) <= opLen /\ opEmpty \in BOOLEAN
      /\ opOut \in Seq(Seq(OpByte)) /\ \A k \in DOMAIN opOut : Len(opOut[k]) = opLen
  BY OpSizes DEF OpTyped
<1>4. opEmpty' \in BOOLEAN
  BY <1>1, <1>3 DEF OpBegin, OpIgnored, OpMore, OpDone
<1>5. opBuf' \in Seq(OpByte) /\ Len(opBuf') <= opLen
  <2>1. CASE OpGrown
    BY <2>1, OpNumbers DEF OpGrown
  <2>2. CASE OpBegin \/ OpIgnored
    <3>1. opBuf' = <<>> \/ opBuf' = opBuf
      BY <2>2 DEF OpBegin, OpIgnored
    <3>2. <<>> \in Seq(OpByte) /\ Len(<<>>) = 0 /\ 0 <= opLen
      BY <1>3
    <3> QED
      BY <3>1, <3>2, <1>3
  <2> QED
    BY <1>1, <2>1, <2>2 DEF OpMore, OpDone
<1>6. opOut' \in Seq(Seq(OpByte)) /\ \A k \in DOMAIN opOut' : Len(opOut'[k]) = opLen
  <2>1. CASE opOut' = opOut
    BY <2>1, <1>3
  <2>2. CASE opOut' = Append(opOut, opBuf') /\ Len(opBuf') = opLen
    BY <2>2, <1>3, <1>5
  <2> QED
    BY <1>1, <2>1, <2>2 DEF OpBegin, OpIgnored, OpMore, OpDone
<1> QED
  BY <1>1, <1>2, <1>3, <1>4, <1>5, <1>6 DEF OpTyped

LEMMA OpLoseFacts ==
  ASSUME OpTyped, OP!Lose
  PROVE  /\ opPkt <= OpMaxPackets /\ OP!Advanced /\ Len(opLost) < OpMaxLost
         /\ opLost' = Append(opLost, [p |-> opPkt, at |-> opNext])
         /\ UNCHANGED <<opLen, opEmpty, opBuf, opOut>>
<1>1. OP!Frame[1] = [p |-> opPkt, at |-> opNext]
  <2>1. 1 \in 1 .. FrameLen
    BY FrameIs
  <2>2. OP!Frame[1] = [p |-> opPkt, at |-> opNext + 1 - 1]
    BY <2>1, FrameIs
  <2> QED
    BY <2>2, OpNumbers
<1> QED
  BY <1>1 DEF OP!Lose

LEMMA OpLoseTypes == ASSUME OpTyped, OP!Lose PROVE OpTyped'
<1>1. opPkt' \in 1 .. OpMaxPackets + 1 /\ opNext' \in 0 .. opLen + 11 /\ opNext' % 8 = 0
  BY AdvancedTypes, OpLoseFacts
<1>2. [p |-> opPkt, at |-> opNext] \in OpByte
  BY OpNumbers DEF OpByte
<1>3. opLost' \in Seq(OpByte) /\ Len(opLost') <= OpMaxLost
  <2>1. opLost \in Seq(OpByte) /\ Len(opLost) < OpMaxLost /\ OpMaxLost \in Nat
    BY OpLoseFacts, OpNumbers, OpAssumption
  <2>2. /\ Append(opLost, [p |-> opPkt, at |-> opNext]) \in Seq(OpByte)
        /\ Len(Append(opLost, [p |-> opPkt, at |-> opNext])) = Len(opLost) + 1
    BY <1>2, <2>1
  <2> QED
    BY <2>1, <2>2, OpLoseFacts
<1> QED
  BY <1>1, <1>3, OpLoseFacts DEF OpTyped

(* The buffer after a frame.                                               *)
LEMMA GrownOrder ==
  ASSUME OpTyped, OpOrder, OpGrown, OP!Advanced
  PROVE  /\ \A i \in DOMAIN opBuf' :
              /\ OpBefore(opBuf'[i], [p |-> opPkt', at |-> opNext'])
              /\ opBuf'[i].p <= opPkt
         /\ \A i, j \in DOMAIN opBuf' : i < j => OpBefore(opBuf'[i], opBuf'[j])
<1>1. /\ opLen \in Nat /\ opPkt \in Nat /\ opNext \in 0 .. opLen + 11
      /\ opBuf \in Seq(OpByte) /\ Len(opBuf) \in 0 .. opLen
      /\ FrameLen \in 1 .. 8 /\ OpTaken \in 0 .. FrameLen
  BY OpNumbers
<1>2. /\ DOMAIN opBuf = 1 .. Len(opBuf) /\ DOMAIN opBuf' = 1 .. Len(opBuf) + OpTaken
      /\ \A i \in 1 .. Len(opBuf) :
           opBuf'[i] = opBuf[i] /\ opBuf[i].p \in Nat /\ opBuf[i].at \in Nat
      /\ \A k \in Len(opBuf) + 1 .. Len(opBuf) + OpTaken :
           opBuf'[k] = [p |-> opPkt, at |-> opNext + k - Len(opBuf) - 1]
  <2>1. DOMAIN opBuf = 1 .. Len(opBuf) /\ DOMAIN opBuf' = 1 .. Len(opBuf) + OpTaken
    BY <1>1 DEF OpGrown
  <2>2. \A i \in 1 .. Len(opBuf) : opBuf[i] \in OpByte
    BY <1>1
  <2>3. \A i \in 1 .. Len(opBuf) : opBuf[i].p \in Nat /\ opBuf[i].at \in Nat
    BY <2>2 DEF OpByte
  <2> QED
    BY <2>1, <2>3 DEF OpGrown
<1>3. \/ opPkt' = opPkt /\ opNext' = opNext + 8
      \/ opPkt' = opPkt + 1 /\ opNext' = 0
  BY AdvancedIs
<1>4. ASSUME NEW i \in DOMAIN opBuf'
      PROVE  /\ OpBefore(opBuf'[i], [p |-> opPkt', at |-> opNext'])
             /\ opBuf'[i].p <= opPkt
  <2>1. CASE i \in 1 .. Len(opBuf)
    <3>1. OpBefore(opBuf[i], [p |-> opPkt, at |-> opNext])
      BY <1>2, <2>1 DEF OpOrder
    <3>2. opBuf'[i] = opBuf[i] /\ opBuf[i].p \in Nat /\ opBuf[i].at \in Nat
      BY <1>2, <2>1
    <3> QED
      BY <1>1, <1>3, <3>1, <3>2 DEF OpBefore
  <2>2. CASE i \in Len(opBuf) + 1 .. Len(opBuf) + OpTaken
    <3>1. opBuf'[i] = [p |-> opPkt, at |-> opNext + i - Len(opBuf) - 1]
      BY <1>2, <2>2
    <3> QED
      BY <1>1, <1>3, <2>2, <3>1 DEF OpBefore
  <2> QED
    BY <1>1, <1>2, <2>1, <2>2
<1>5. ASSUME NEW i \in DOMAIN opBuf', NEW j \in DOMAIN opBuf', i < j
      PROVE  OpBefore(opBuf'[i], opBuf'[j])
  <2>1. CASE j \in 1 .. Len(opBuf)
    <3>1. i \in 1 .. Len(opBuf)
      BY <1>1, <1>2, <1>5, <2>1
    <3> QED
      BY <1>2, <1>5, <2>1, <3>1 DEF OpOrder
  <2>2. CASE j \in Len(opBuf) + 1 .. Len(opBuf) + OpTaken
    <3>0. opBuf'[j] = [p |-> opPkt, at |-> opNext + j - Len(opBuf) - 1]
      BY <1>2, <2>2
    <3>1. CASE i \in 1 .. Len(opBuf)
      <4>1. OpBefore(opBuf[i], [p |-> opPkt, at |-> opNext])
        BY <1>2, <3>1 DEF OpOrder
      <4>2. opBuf'[i] = opBuf[i] /\ opBuf[i].p \in Nat /\ opBuf[i].at \in Nat
        BY <1>2, <3>1
      <4> QED
        BY <1>1, <2>2, <3>0, <4>1, <4>2 DEF OpBefore
    <3>2. CASE i \in Len(opBuf) + 1 .. Len(opBuf) + OpTaken
      <4>1. opBuf'[i] = [p |-> opPkt, at |-> opNext + i - Len(opBuf) - 1]
        BY <1>2, <3>2
      <4> QED
        BY <1>1, <1>5, <2>2, <3>0, <3>2, <4>1 DEF OpBefore
    <3> QED
      BY <1>1, <1>2, <3>1, <3>2
  <2> QED
    BY <1>1, <1>2, <2>1, <2>2
<1> QED
  BY <1>4, <1>5

(* The packets handed out came before; what Push hands out now ends with   *)
(* the last frame of its packet.                                           *)
LEMMA DoneEnds ==
  ASSUME OpTyped, OpDone, AtTail, OP!Advanced
  PROVE  opPkt' = opPkt + 1 /\ opNext + 12 >= opLen + 8 + 4 /\ opLen % 8 <= 4
<1>1. /\ opLen \in Nat /\ opNext \in 0 .. opLen + 11 /\ opNext % 8 = 0
      /\ FrameLen \in 1 .. 8 /\ OpTaken \in 0 .. FrameLen
  BY OpNumbers
<1>2. FrameLen >= 4 /\ opNext + FrameLen - 4 >= opLen + 8
  BY <1>1 DEF AtTail
<1>3. ~(opNext + 8 < opLen + 12)
  BY <1>1, <1>2
<1>4. opPkt' = opPkt + 1 /\ FrameLen = opLen + 12 - opNext
  BY <1>3, AdvancedIs
<1>5. opLen = opNext + (FrameLen - 12) /\ FrameLen \in 4 .. 8
  BY <1>1, <1>2, <1>4
<1>6. opLen % 8 <= 4
  BY <1>1, <1>5
<1> QED
  BY <1>1, <1>2, <1>4, <1>6

(* The packet of what is handed out.                                       *)
LEMMA OutIs ==
  ASSUME OpTyped, NEW k \in DOMAIN opOut
  PROVE  /\ opOut[k] \in Seq(OpByte) /\ Len(opOut[k]) = opLen
         /\ \A i \in 1 .. opLen : opOut[k][i].p \in Nat /\ opOut[k][i].at \in Nat
<1>1. opOut[k] \in Seq(OpByte) /\ Len(opOut[k]) = opLen
  BY DEF OpTyped
<1>2. \A i \in 1 .. opLen : opOut[k][i] \in OpByte
  BY <1>1
<1> QED
  BY <1>1, <1>2 DEF OpByte

LEMMA BufIs ==
  ASSUME OpTyped
  PROVE  /\ DOMAIN opBuf = 1 .. Len(opBuf) /\ Len(opBuf) \in Nat
         /\ opBuf # <<>> <=> Len(opBuf) > 0
         /\ \A i \in 1 .. Len(opBuf) : opBuf[i].p \in Nat /\ opBuf[i].at \in Nat
<1>1. opBuf \in Seq(OpByte)
  BY OpNumbers
<1>2. \A i \in 1 .. Len(opBuf) : opBuf[i] \in OpByte
  BY <1>1
<1>3. opBuf # <<>> <=> Len(opBuf) > 0
  BY <1>1
<1> QED
  BY <1>1, <1>2, <1>3 DEF OpByte

(* What is handed out before lies before the buffer that is filled now.    *)
LEMMA OutBefore ==
  ASSUME OpTyped, OpOrder, OpGrown, opLen > 0, NEW k \in DOMAIN opOut, opBuf' # <<>>
  PROVE  opOut[k][opLen].p < opBuf'[1].p
<1>1. CASE opBuf # <<>>
  <2>1. opBuf'[1] = opBuf[1]
    BY <1>1, BufIs DEF OpGrown
  <2> QED
    BY <1>1, <2>1 DEF OpOrder, OpGrown
<1>2. CASE opBuf = <<>>
  <2>1. Len(opBuf) = 0
    BY <1>2
  <2>2. OpTaken >= 1
    BY <2>1, OpNumbers DEF OpGrown
  <2>3. opBuf'[1] = [p |-> opPkt, at |-> opNext + 1 - 0 - 1]
    BY <2>1, <2>2, OpNumbers DEF OpGrown
  <2> QED
    BY <2>3 DEF OpOrder
<1> QED
  BY <1>1, <1>2

LEMMA OpPushOrder == ASSUME OpTyped, OpOrder, OP!Push PROVE OpOrder'
<1>1. /\ OP!Advanced /\ UNCHANGED <<opLen, opLost>>
      /\ OpBegin \/ OpIgnored \/ OpMore \/ OpDone
  BY PushIs
<1>2. /\ opLen \in Nat /\ opPkt \in Nat /\ opNext \in 0 .. opLen + 11
      /\ opPkt' \in Nat /\ opPkt' >= opPkt
      /\ \/ opPkt' = opPkt /\ opNext' = opNext + 8
         \/ opPkt' = opPkt + 1 /\ opNext' = 0
  <2>1. opLen \in Nat /\ opPkt \in Nat /\ opNext \in 0 .. opLen + 11
    BY OpNumbers
  <2>2. \/ opPkt' = opPkt /\ opNext' = opNext + 8
        \/ opPkt' = opPkt + 1 /\ opNext' = 0
    BY <1>1, AdvancedIs
  <2> QED
    BY <2>1, <2>2
<1>3. ASSUME opLen > 0, NEW k \in DOMAIN opOut
      PROVE  opOut[k][opLen].p < opPkt'
  <2>1. opOut[k][opLen].p \in Nat /\ opOut[k][opLen].p < opPkt
    BY <1>2, <1>3, OutIs DEF OpOrder
  <2> QED
    BY <1>2, <2>1
<1>4. CASE OpBegin
  BY <1>1, <1>3, <1>4 DEF OpBegin, OpOrder
<1>5. CASE OpIgnored
  <2>1. \A i \in DOMAIN opBuf : OpBefore(opBuf[i], [p |-> opPkt', at |-> opNext'])
    BY <1>2, BufIs DEF OpOrder, OpBefore
  <2> QED
    BY <1>1, <1>3, <1>5, <2>1 DEF OpIgnored, OpOrder
<1>6. CASE OpMore
  <2>1. /\ \A i \in DOMAIN opBuf' : OpBefore(opBuf'[i], [p |-> opPkt', at |-> opNext'])
        /\ \A i, j \in DOMAIN opBuf' : i < j => OpBefore(opBuf'[i], opBuf'[j])
    BY <1>1, <1>6, GrownOrder DEF OpMore
  <2>2. opOut' = opOut /\ opLen' = opLen /\ OpGrown
    BY <1>1, <1>6 DEF OpMore
  <2>3. opLen > 0 => \A k \in DOMAIN opOut : opBuf' # <<>> => opOut[k][opLen].p < opBuf'[1].p
    BY <2>2, OutBefore
  <2> QED
    BY <1>3, <2>1, <2>2, <2>3 DEF OpOrder
<1>7. CASE OpDone
  <2>1. /\ \A i \in DOMAIN opBuf' : OpBefore(opBuf'[i], [p |-> opPkt', at |-> opNext'])
        /\ \A i, j \in DOMAIN opBuf' : i < j => OpBefore(opBuf'[i], opBuf'[j])
        /\ \A i \in DOMAIN opBuf' : opBuf'[i].p <= opPkt
    BY <1>1, <1>7, GrownOrder DEF OpDone
  <2>2. opLen' = opLen /\ opEmpty' = TRUE /\ Len(opBuf') = opLen /\ opBuf' \in Seq(OpByte)
    BY <1>1, <1>7 DEF OpDone, OpGrown
  <2>3. ASSUME opLen > 0, NEW k \in DOMAIN opOut' PROVE opOut'[k][opLen].p < opPkt'
    <3>1. CASE opOut' = opOut
      BY <1>3, <2>3, <3>1
    <3>2. CASE opOut' = Append(opOut, opBuf') /\ AtTail
      <4>1. opOut \in Seq(Seq(OpByte))
        BY OpNumbers
      <4>2. CASE k \in DOMAIN opOut
        <5>1. opOut'[k] = opOut[k]
          BY <3>2, <4>1, <4>2
        <5> QED
          BY <1>3, <2>3, <4>2, <5>1
      <4>3. CASE k \notin DOMAIN opOut
        <5>1. opOut'[k] = opBuf'
          BY <2>3, <3>2, <4>1, <4>3
        <5>2. opBuf'[opLen].p <= opPkt /\ opBuf'[opLen].p \in Nat
          <6>1. opLen \in DOMAIN opBuf' /\ opBuf'[opLen] \in OpByte
            BY <1>2, <2>2, <2>3
          <6> QED
            BY <2>1, <6>1 DEF OpByte
        <5>3. opPkt' = opPkt + 1
          BY <1>1, <1>7, <3>2, DoneEnds
        <5> QED
          BY <1>2, <5>1, <5>2, <5>3
      <4> QED
        BY <4>2, <4>3
    <3> QED
      BY <1>7, <3>1, <3>2 DEF OpDone
  <2> QED
    BY <2>1, <2>2, <2>3 DEF OpOrder
<1> QED
  BY <1>1, <1>4, <1>5, <1>6, <1>7

LEMMA OpLoseOrder == ASSUME OpTyped, OpOrder, OP!Lose PROVE OpOrder'
<1>1. OP!Advanced /\ UNCHANGED <<opLen, opEmpty, opBuf, opOut>>
  BY OpLoseFacts
<1>2. /\ opLen \in Nat /\ opPkt \in Nat /\ opNext \in 0 .. opLen + 11
      /\ opPkt' \in Nat /\ opPkt' >= opPkt
      /\ \/ opPkt' = opPkt /\ opNext' = opNext + 8
         \/ opPkt' = opPkt + 1 /\ opNext' = 0
  <2>1. opLen \in Nat /\ opPkt \in Nat /\ opNext \in 0 .. opLen + 11
    BY OpNumbers
  <2>2. \/ opPkt' = opPkt /\ opNext' = opNext + 8
        \/ opPkt' = opPkt + 1 /\ opNext' = 0
    BY <1>1, AdvancedIs
  <2> QED
    BY <2>1, <2>2
<1>3. ASSUME opLen > 0, NEW k \in DOMAIN opOut PROVE opOut[k][opLen].p < opPkt'
  <2>1. opOut[k][opLen].p \in Nat /\ opOut[k][opLen].p < opPkt
    BY <1>2, <1>3, OutIs DEF OpOrder
  <2> QED
    BY <1>2, <2>1
<1>4. \A i \in DOMAIN opBuf : OpBefore(opBuf[i], [p |-> opPkt', at |-> opNext'])
  BY <1>2, BufIs DEF OpOrder, OpBefore
<1> QED
  BY <1>1, <1>3, <1>4 DEF OpOrder

(* What is new among the packets handed out.                               *)
LEMMA OutGrows ==
  ASSUME OpTyped, OP!Push, OpInv
  PROVE  \/ opOut' = opOut
         \/ /\ OpDone /\ AtTail /\ OP!Advanced
            /\ DOMAIN opOut' = DOMAIN opOut \cup {Len(opOut) + 1}
            /\ DOMAIN opOut = 1 .. Len(opOut) /\ Len(opOut) \in Nat
            /\ \A k \in DOMAIN opOut : opOut'[k] = opOut[k]
            /\ opOut'[Len(opOut) + 1] = opBuf'
<1>1. CASE opOut' = opOut
  BY <1>1
<1>2. CASE OpDone /\ AtTail /\ opOut' = Append(opOut, opBuf')
  <2>1. opOut \in Seq(Seq(OpByte)) /\ opBuf' \in Seq(OpByte)
    BY <1>2, OpNumbers DEF OpDone, OpGrown
  <2>2. /\ DOMAIN Append(opOut, opBuf') = 1 .. Len(opOut) + 1
        /\ DOMAIN opOut = 1 .. Len(opOut) /\ Len(opOut) \in Nat
        /\ \A k \in 1 .. Len(opOut) : Append(opOut, opBuf')[k] = opOut[k]
        /\ Append(opOut, opBuf')[Len(opOut) + 1] = opBuf'
    BY <2>1
  <2>3. 1 .. Len(opOut) + 1 = 1 .. Len(opOut) \cup {Len(opOut) + 1}
    BY <2>2
  <2>4. OP!Advanced
    BY PushIs
  <2> QED
    BY <1>2, <2>2, <2>3, <2>4
<1> QED
  BY <1>1, <1>2, PushIs DEF OpBegin, OpIgnored, OpMore, OpDone

LEMMA PushOutInOrder == ASSUME OpInv, OP!Push PROVE OP!OutInOrder'
<1>0. OpTyped /\ OpOrder /\ OP!OutInOrder /\ opLen' = opLen /\ opLen \in Nat
  BY PushIs, OpNumbers DEF OpInv, OpSafe
<1>1. CASE opOut' = opOut
  BY <1>0, <1>1 DEF OP!OutInOrder
<1>2. CASE /\ OpDone /\ AtTail /\ OP!Advanced
           /\ DOMAIN opOut' = DOMAIN opOut \cup {Len(opOut) + 1}
           /\ DOMAIN opOut = 1 .. Len(opOut) /\ Len(opOut) \in Nat
           /\ \A k \in DOMAIN opOut : opOut'[k] = opOut[k]
           /\ opOut'[Len(opOut) + 1] = opBuf'
  <2>1. \A i, j \in DOMAIN opBuf' : i < j => OpBefore(opBuf'[i], opBuf'[j])
    BY <1>0, <1>2, GrownOrder DEF OpDone
  <2>2. ASSUME NEW k \in DOMAIN opOut', NEW i \in DOMAIN opOut'[k],
               NEW j \in DOMAIN opOut'[k], i < j
        PROVE  OpBefore(opOut'[k][i], opOut'[k][j])
    <3>1. CASE k \in DOMAIN opOut
      BY <1>0, <1>2, <2>2, <3>1 DEF OP!OutInOrder, OpBefore
    <3>2. CASE k = Len(opOut) + 1
      BY <1>2, <2>1, <2>2, <3>2
    <3> QED
      BY <1>2, <3>1, <3>2
  <2>3. ASSUME NEW k \in DOMAIN opOut', NEW l \in DOMAIN opOut', k < l, opLen > 0
        PROVE  opOut'[k][opLen].p < opOut'[l][1].p
    <3>1. k \in DOMAIN opOut
      BY <1>2, <2>3
    <3>2. CASE l \in DOMAIN opOut
      BY <1>0, <1>2, <2>3, <3>1, <3>2 DEF OP!OutInOrder
    <3>3. CASE l = Len(opOut) + 1
      <4>1. opBuf' # <<>>
        BY <1>0, <1>2, <2>3 DEF OpDone
      <4>2. opOut[k][opLen].p < opBuf'[1].p
        BY <1>0, <1>2, <2>3, <3>1, <4>1, OutBefore DEF OpDone
      <4> QED
        BY <1>2, <3>1, <3>3, <4>2
    <3> QED
      BY <1>2, <3>2, <3>3
  <2> QED
    BY <1>0, <2>2, <2>3 DEF OP!OutInOrder, OpBefore
<1> QED
  BY <1>0, <1>1, <1>2, OutGrows

LEMMA PushCutTail == ASSUME OpInv, OP!Push PROVE OP!CutTailNeverArrives'
<1>0. OpTyped /\ OP!CutTailNeverArrives /\ opLen' = opLen /\ opLen \in Nat
  BY PushIs, OpNumbers DEF OpInv, OpSafe
<1>1. CASE opOut' = opOut
  BY <1>0, <1>1 DEF OP!CutTailNeverArrives
<1>2. CASE OpDone /\ AtTail /\ OP!Advanced
  <2>1. opLen % 8 <= 4 /\ opLen % 8 \in Nat
    BY <1>0, <1>2, DoneEnds
  <2> QED
    BY <1>0, <2>1 DEF OP!CutTailNeverArrives
<1> QED
  BY <1>0, <1>1, <1>2, OutGrows

(* A packet of which no frame was lost fills the buffer before it ends.    *)
LEMMA RunAhead ==
  ASSUME OpTyped, OpRun, ~opEmpty, NoneLost(opPkt)
  PROVE  opNext <= Len(opBuf) + 8 \/ opLen = 0
<1>0. opLen \in Nat /\ opNext \in Nat /\ Len(opBuf) \in Nat
  BY OpNumbers
<1>1. CASE opBuf = <<>>
  BY <1>0, <1>1 DEF OpRun
<1>2. CASE opBuf # <<>> /\ opPkt # opBuf[1].p
  BY <1>0, <1>2 DEF OpRun
<1>3. CASE opBuf # <<>> /\ opPkt = opBuf[1].p
  <2>1. opNext - Len(opBuf) \in {0, 8}
    BY <1>3 DEF OpRun
  <2> QED
    BY <1>0, <2>1
<1> QED
  BY <1>1, <1>2, <1>3

LEMMA WholeEnds ==
  ASSUME OpTyped, OpRun, OpMore, NoneLost(opPkt), OP!Advanced
  PROVE  opPkt' = opPkt /\ opNext' = opNext + 8 /\ OpTaken = 8
<1>1. /\ opLen \in Nat /\ opNext \in 0 .. opLen + 11 /\ Len(opBuf) \in 0 .. opLen
      /\ OpTaken <= opLen - Len(opBuf) /\ OpTaken = FrameLen /\ ~opEmpty /\ FrameLen \in 1 .. 8
  <2>1. OpTaken = FrameLen /\ ~opEmpty
    BY DEF OpMore, OpGrown
  <2> QED
    BY <2>1, OpNumbers
<1>2. opLen # 0 /\ opNext <= Len(opBuf) + 8
  <2>1. opLen # 0
    BY <1>1
  <2> QED
    BY <1>1, <2>1, RunAhead
<1>3. ~(FrameLen = opLen + 12 - opNext)
  BY <1>1, <1>2
<1> QED
  BY <1>1, <1>3, AdvancedIs

LEMMA PushRun == ASSUME OpTyped, OpRun, OP!Push PROVE OpRun'
<1>1. /\ OP!Advanced /\ UNCHANGED <<opLen, opLost>>
      /\ OpBegin \/ OpIgnored \/ OpMore \/ OpDone
  BY PushIs
<1>2. /\ opLen \in Nat /\ opPkt \in Nat /\ opNext \in 0 .. opLen + 11
      /\ Len(opBuf) \in 0 .. opLen /\ OpTaken \in 0 .. FrameLen /\ FrameLen \in 1 .. 8
      /\ \/ opPkt' = opPkt /\ opNext' = opNext + 8
         \/ opPkt' = opPkt + 1 /\ opNext' = 0
  <2>1. /\ opLen \in Nat /\ opPkt \in Nat /\ opNext \in 0 .. opLen + 11
        /\ Len(opBuf) \in 0 .. opLen /\ OpTaken \in 0 .. FrameLen /\ FrameLen \in 1 .. 8
    BY OpNumbers
  <2>2. \/ opPkt' = opPkt /\ opNext' = opNext + 8
        \/ opPkt' = opPkt + 1 /\ opNext' = 0
    BY <1>1, AdvancedIs
  <2> QED
    BY <2>1, <2>2
<1>3. \A p : NoneLost(p)' <=> NoneLost(p)
  BY <1>1 DEF NoneLost
<1>4. CASE OpBegin
  <2>1. opNext' \in {0, 8} /\ opBuf' = <<>>
    BY <1>2, <1>4 DEF OpBegin
  <2> QED
    BY <2>1 DEF OpRun
<1>5. CASE OpIgnored \/ OpDone
  <2>1. opEmpty'
    <3>1. CASE OpIgnored
      BY <3>1 DEF OpIgnored
    <3>2. CASE OpDone
      BY <3>2 DEF OpDone
    <3> QED
      BY <1>5, <3>1, <3>2
  <2> QED
    BY <2>1 DEF OpRun
<1>6. CASE OpMore
  <2>0. /\ ~opEmpty /\ OpGrown /\ OpTaken = FrameLen /\ OpTaken >= 1
        /\ opBuf' \in Seq(OpByte) /\ Len(opBuf') = Len(opBuf) + OpTaken
        /\ DOMAIN opBuf' = 1 .. Len(opBuf) + OpTaken /\ opBuf' # <<>>
    BY <1>2, <1>6 DEF OpMore, OpGrown
  <2>1. /\ opBuf # <<>> => opBuf'[1] = opBuf[1]
        /\ opBuf = <<>> => opBuf'[1] = [p |-> opPkt, at |-> opNext]
    <3>1. opBuf # <<>> => opBuf'[1] = opBuf[1]
      BY <2>0, BufIs DEF OpGrown
    <3>2. opBuf = <<>> => opBuf'[1] = [p |-> opPkt, at |-> opNext]
      <4> SUFFICES ASSUME opBuf = <<>> PROVE opBuf'[1] = [p |-> opPkt, at |-> opNext]
        OBVIOUS
      <4>1. Len(opBuf) = 0
        OBVIOUS
      <4>2. opBuf'[1] = [p |-> opPkt, at |-> opNext + 1 - 0 - 1]
        BY <1>2, <2>0, <4>1 DEF OpGrown
      <4> QED
        BY <1>2, <4>2
    <3> QED
      BY <3>1, <3>2
  <2>2. ASSUME NoneLost(opBuf'[1].p)
        PROVE  /\ opPkt' = opBuf'[1].p /\ opNext' - Len(opBuf') \in {0, 8}
               /\ \A k \in DOMAIN opBuf' :
                    opBuf'[k] = [p |-> opPkt', at |-> opNext' - Len(opBuf') + k - 1]
    <3>1. opPkt = opBuf'[1].p /\ opNext - Len(opBuf) \in {0, 8}
      <4>1. CASE opBuf # <<>>
        BY <2>0, <2>1, <2>2, <4>1 DEF OpRun
      <4>2. CASE opBuf = <<>>
        <5>1. Len(opBuf) = 0 /\ opBuf'[1].p = opPkt
          BY <2>1, <4>2
        <5>2. opLen > 0
          BY <1>2, <2>0, <5>1, OpNumbers
        <5>3. opNext \in {0, 8}
          BY <2>0, <2>2, <4>2, <5>1, <5>2 DEF OpRun
        <5> QED
          BY <5>1, <5>3
      <4> QED
        BY <4>1, <4>2
    <3>2. opPkt' = opPkt /\ opNext' = opNext + 8 /\ OpTaken = 8
      BY <1>1, <1>6, <2>2, <3>1, WholeEnds
    <3>3. opNext' - Len(opBuf') = opNext - Len(opBuf)
      BY <1>2, <2>0, <3>2
    <3>4. ASSUME NEW k \in DOMAIN opBuf'
          PROVE  opBuf'[k] = [p |-> opPkt, at |-> opNext - Len(opBuf) + k - 1]
      <4>1. CASE k \in 1 .. Len(opBuf)
        <5>1. opBuf # <<>> /\ opBuf'[k] = opBuf[k] /\ k \in DOMAIN opBuf
          BY <2>0, <4>1, BufIs DEF OpGrown
        <5>2. NoneLost(opBuf[1].p)
          BY <2>1, <2>2, <5>1
        <5> QED
          BY <2>0, <5>1, <5>2 DEF OpRun
      <4>2. CASE k \in Len(opBuf) + 1 .. Len(opBuf) + OpTaken
        <5>1. opBuf'[k] = [p |-> opPkt, at |-> opNext + k - Len(opBuf) - 1]
          BY <2>0, <4>2 DEF OpGrown
        <5>2. opNext + k - Len(opBuf) - 1 = opNext - Len(opBuf) + k - 1
          BY <1>2, <4>2
        <5> QED
          BY <5>1, <5>2
      <4> QED
        BY <1>2, <2>0, <4>1, <4>2
    <3> QED
      BY <3>1, <3>2, <3>3, <3>4
  <2>3. ASSUME NoneLost(opPkt'), opPkt' # opBuf'[1].p PROVE opNext' < Len(opBuf')
    <3>1. CASE opPkt' = opPkt + 1 /\ opNext' = 0
      BY <1>2, <2>0, <3>1
    <3>2. CASE opPkt' = opPkt /\ opNext' = opNext + 8
      <4>1. NoneLost(opPkt) /\ opBuf # <<>> /\ opPkt # opBuf[1].p
        BY <2>1, <2>3, <3>2
      <4>2. opNext < Len(opBuf) /\ OpTaken = 8
        BY <1>1, <1>6, <2>0, <4>1, WholeEnds DEF OpRun
      <4> QED
        BY <1>2, <2>0, <3>2, <4>2
    <3> QED
      BY <1>2, <3>1, <3>2
  <2>4. ASSUME NEW i \in DOMAIN opBuf', NoneLost(opBuf'[i].p) PROVE opBuf'[i].p = opPkt'
    <3>1. opBuf'[i].p = opPkt
      <4>1. CASE i \in 1 .. Len(opBuf)
        BY <2>0, <2>4, <4>1, BufIs DEF OpGrown, OpRun
      <4>2. CASE i \in Len(opBuf) + 1 .. Len(opBuf) + OpTaken
        <5>1. opBuf'[i] = [p |-> opPkt, at |-> opNext + i - Len(opBuf) - 1]
          BY <2>0, <4>2 DEF OpGrown
        <5> QED
          BY <5>1
      <4> QED
        BY <1>2, <2>0, <4>1, <4>2
    <3> QED
      BY <1>1, <1>6, <2>4, <3>1, WholeEnds
  <2>5. opEmpty' = FALSE /\ opLen' = opLen
    BY <1>1, <1>6 DEF OpMore
  <2> QED
    BY <1>3, <2>0, <2>2, <2>3, <2>4 DEF OpRun
<1> QED
  BY <1>1, <1>4, <1>5, <1>6

LEMMA PushSecond == ASSUME OpTyped, OpRun, OpSecond, OP!Push PROVE OpSecond'
<1>1. /\ OP!Advanced /\ UNCHANGED <<opLen, opLost>>
      /\ OpBegin \/ OpIgnored \/ OpMore \/ OpDone
  BY PushIs
<1>2. /\ opLen \in Nat /\ opPkt \in Nat /\ opNext \in 0 .. opLen + 11 /\ opNext % 8 = 0
      /\ Len(opBuf) \in 0 .. opLen /\ OpTaken \in 0 .. FrameLen /\ FrameLen \in 1 .. 8
  BY OpNumbers
<1>3. \/ opNext + 8 < opLen + 12 /\ opPkt' = opPkt /\ opNext' = opNext + 8 /\ FrameLen = 8
      \/ opNext + 8 >= opLen + 12 /\ opPkt' = opPkt + 1 /\ opNext' = 0
  BY <1>1, AdvancedIs
<1>4. \A p : NoneLost(p)' <=> NoneLost(p)
  BY <1>1 DEF NoneLost
<1>5. ASSUME NoneLost(opPkt' - 1), opNext' = 0 PROVE opEmpty'
  <2>1. opPkt' = opPkt + 1 /\ opNext # 0 /\ NoneLost(opPkt)
    <3>1. opPkt' = opPkt + 1 /\ opNext # 0
      BY <1>2, <1>3, <1>5
    <3>2. opPkt' - 1 = opPkt
      BY <1>2, <3>1
    <3> QED
      BY <1>5, <3>1, <3>2
  <2>2. CASE OpBegin
    BY <2>1, <2>2 DEF OpBegin
  <2>3. CASE OpIgnored
    BY <2>3 DEF OpIgnored
  <2>4. CASE OpMore
    BY <1>1, <1>2, <2>1, <2>4, WholeEnds
  <2>5. CASE OpDone
    BY <2>5 DEF OpDone
  <2> QED
    BY <1>1, <2>2, <2>3, <2>4, <2>5
<1>6. ASSUME opLen > 0, opLen % 8 <= 4, opPkt' > 1, NoneLost(opPkt'),
             NoneLost(opPkt' - 1), opNext' # 0
      PROVE  /\ opEmpty' = FALSE /\ Len(opBuf') = opNext' - 8
             /\ \A k \in DOMAIN opBuf' : opBuf'[k] = [p |-> opPkt', at |-> 8 + k - 1]
  <2>1. /\ opNext + 8 < opLen + 12 /\ opPkt' = opPkt /\ opNext' = opNext + 8
        /\ FrameLen = 8 /\ NoneLost(opPkt) /\ NoneLost(opPkt - 1) /\ opPkt > 1
    BY <1>3, <1>6
  <2>2. CASE opNext = 0
    <3>1. opEmpty
      BY <2>1, <2>2 DEF OpSecond
    <3>2. OpBegin
      BY <1>1, <2>2, <3>1 DEF OpIgnored, OpMore, OpDone, OpGrown
    <3> QED
      BY <1>2, <2>1, <2>2, <3>2 DEF OpBegin
  <2>3. CASE opNext # 0
    <3>1. /\ ~opEmpty /\ Len(opBuf) = opNext - 8
          /\ \A k \in DOMAIN opBuf : opBuf[k] = [p |-> opPkt, at |-> 8 + k - 1]
      BY <1>6, <2>1, <2>3 DEF OpSecond
    <3>2. OpMore
      <4> SUFFICES ASSUME OpDone PROVE FALSE
        BY <1>1, <3>1 DEF OpBegin, OpIgnored
      <4>1. OpTaken < 8 /\ Len(opBuf) + OpTaken = opLen
        BY <2>1 DEF OpDone, OpGrown
      <4>2. opLen = opNext - 8 + OpTaken /\ OpTaken \in 5 .. 7
        BY <1>2, <2>1, <3>1, <4>1
      <4>3. PICK q \in Int : opNext = 8 * q
        <5>1. opNext = 8 * (opNext \div 8) /\ opNext \div 8 \in Int
          BY <1>2
        <5> QED
          BY <5>1
      <4>4. opLen % 8 = OpTaken
        BY <4>2, <4>3
      <4> QED
        BY <1>6, <4>2, <4>4
    <3>3. /\ OpGrown /\ OpTaken = 8 /\ opEmpty' = FALSE
      BY <2>1, <3>2 DEF OpMore
    <3>4. DOMAIN opBuf' = 1 .. Len(opBuf) + 8 /\ Len(opBuf') = Len(opBuf) + 8
      BY <1>2, <3>3 DEF OpGrown
    <3>5. ASSUME NEW k \in DOMAIN opBuf' PROVE opBuf'[k] = [p |-> opPkt, at |-> 8 + k - 1]
      <4>1. CASE k \in 1 .. Len(opBuf)
        BY <3>1, <3>3, <4>1, BufIs DEF OpGrown
      <4>2. CASE k \in Len(opBuf) + 1 .. Len(opBuf) + OpTaken
        <5>1. opBuf'[k] = [p |-> opPkt, at |-> opNext + k - Len(opBuf) - 1]
          BY <3>3, <4>2 DEF OpGrown
        <5>2. opNext + k - Len(opBuf) - 1 = 8 + k - 1
          BY <1>2, <3>1, <4>2
        <5> QED
          BY <5>1, <5>2
      <4> QED
        BY <1>2, <3>3, <3>4, <4>1, <4>2
    <3> QED
      BY <1>2, <2>1, <3>1, <3>3, <3>4, <3>5
  <2> QED
    BY <2>2, <2>3
<1> QED
  BY <1>1, <1>4, <1>5, <1>6 DEF OpSecond

LEMMA PushArrives == ASSUME OpInv, OP!Push PROVE OP!SecondArrives'
<1>0. /\ OpTyped /\ OpRun /\ OpSecond /\ OP!SecondArrives
      /\ OP!Advanced /\ UNCHANGED <<opLen, opLost>>
      /\ OpBegin \/ OpIgnored \/ OpMore \/ OpDone
  BY PushIs DEF OpInv, OpSafe
<1>1. /\ opLen \in Nat /\ opPkt \in Nat /\ opNext \in 0 .. opLen + 11
      /\ Len(opBuf) \in 0 .. opLen /\ OpTaken \in 0 .. FrameLen /\ FrameLen \in 1 .. 8
  BY <1>0, OpNumbers
<1>2. \A p : (OP!LostOf(p)' = {} <=> OP!LostOf(p) = {}) /\ (OP!LostOf(p) = {} <=> NoneLost(p))
  BY <1>0 DEF OP!LostOf, NoneLost
<1>3. ASSUME NEW p, OP!Ours(p) PROVE OP!Ours(p)'
  <2>1. PICK k \in DOMAIN opOut : opOut[k] # <<>> /\ opOut[k][1].p = p /\ OP!Whole(opOut[k])
    BY <1>3 DEF OP!Ours
  <2>2. k \in DOMAIN opOut' /\ opOut'[k] = opOut[k]
    BY <1>0, <2>1, OutGrows
  <2>3. OP!Whole(opOut[k])'
    BY <2>1, <2>2 DEF OP!Whole
  <2>4. opOut'[k] # <<>> /\ opOut'[k][1].p = p /\ OP!Whole(opOut'[k])
    BY <2>1, <2>2
  <2> QED
    BY <2>2, <2>4 DEF OP!Ours, OP!Whole
<1>4. ASSUME opLen > 0, opLen % 8 <= 4, opPkt > 1, opPkt' = opPkt + 1,
             NoneLost(opPkt), NoneLost(opPkt - 1), NEW p, p = opPkt
      PROVE  OP!Ours(p)'
  <2>1. opNext + 8 >= opLen + 12 /\ FrameLen = opLen + 12 - opNext /\ opNext # 0
    BY <1>0, <1>1, <1>4, AdvancedIs
  <2>2. /\ ~opEmpty /\ Len(opBuf) = opNext - 8
        /\ \A k \in DOMAIN opBuf : opBuf[k] = [p |-> opPkt, at |-> 8 + k - 1]
    BY <1>0, <1>4, <2>1 DEF OpSecond
  <2>3. OpDone
    <3>1. ~OpMore
      BY <1>0, <1>1, <1>4, WholeEnds
    <3> QED
      BY <1>0, <2>2, <3>1 DEF OpBegin, OpIgnored
  <2>4. /\ OpGrown /\ Len(opBuf') = opLen /\ Len(opBuf) + OpTaken = opLen
        /\ opBuf' \in Seq(OpByte)
    BY <2>3 DEF OpDone, OpGrown
  <2>5. AtTail
    <3>1. /\ FrameLen = opLen + 12 - opNext /\ Len(opBuf) = opNext - 8
          /\ Len(opBuf) + OpTaken = opLen
      BY <2>1, <2>2, <2>4
    <3>2. /\ opLen \in Int /\ opNext \in Int /\ Len(opBuf) \in Int
          /\ OpTaken \in Int /\ FrameLen \in Int
      BY <1>1
    <3> QED
      BY <3>1, <3>2 DEF AtTail
  <2>6. ASSUME NEW k \in 1 .. opLen PROVE opBuf'[k] = [p |-> opPkt, at |-> 8 + k - 1]
    <3>1. CASE k \in 1 .. Len(opBuf)
      BY <1>0, <2>2, <2>4, <3>1, BufIs DEF OpGrown
    <3>2. CASE k \in Len(opBuf) + 1 .. Len(opBuf) + OpTaken
      <4>1. opBuf'[k] = [p |-> opPkt, at |-> opNext + k - Len(opBuf) - 1]
        BY <2>4, <3>2 DEF OpGrown
      <4>2. opNext + k - Len(opBuf) - 1 = 8 + k - 1
        BY <1>1, <2>2, <3>2
      <4> QED
        BY <4>1, <4>2
    <3> QED
      BY <1>1, <2>4, <3>1, <3>2
  <2>7. DOMAIN opBuf' = 1 .. opLen /\ opBuf' # <<>> /\ opBuf'[1].p = opPkt
    <3>0. 1 \in 1 .. opLen
      BY <1>1, <1>4
    <3>1. opBuf'[1] = [p |-> opPkt, at |-> 8 + 1 - 1]
      BY <2>6, <3>0
    <3>2. DOMAIN opBuf' = 1 .. opLen /\ opBuf' # <<>>
      BY <1>1, <1>4, <2>4
    <3> QED
      BY <3>1, <3>2
  <2>8. OP!Whole(opBuf')
    BY <2>6, <2>7 DEF OP!Whole, OP!HeadSize
  <2>9. /\ Len(opOut) + 1 \in DOMAIN opOut' /\ opOut'[Len(opOut) + 1] = opBuf'
    <3>1. opOut' = Append(opOut, opBuf')
      BY <2>3, <2>5, <2>8 DEF OpDone
    <3>2. opOut \in Seq(Seq(OpByte))
      BY <1>0, OpNumbers
    <3> QED
      BY <2>4, <3>1, <3>2
  <2>10. \E k \in DOMAIN opOut' :
           opOut'[k] # <<>> /\ opOut'[k][1].p = p /\ OP!Whole(opOut'[k])
    BY <1>4, <2>7, <2>8, <2>9
  <2> QED
    BY <2>10 DEF OP!Ours, OP!Whole
<1>5. ASSUME opLen > 0, opLen % 8 <= 4, NEW p \in 2 .. opPkt' - 1,
             OP!LostOf(p) = {}, OP!LostOf(p - 1) = {}
      PROVE  OP!Ours(p)'
  <2>1. CASE p \in 2 .. opPkt - 1
    BY <1>0, <1>3, <1>5, <2>1 DEF OP!SecondArrives
  <2>2. CASE p \notin 2 .. opPkt - 1
    <3>1. p = opPkt /\ opPkt' = opPkt + 1 /\ opPkt > 1
      BY <1>0, <1>1, <1>5, <2>2, AdvancedIs
    <3>2. NoneLost(opPkt) /\ NoneLost(opPkt - 1)
      BY <1>2, <1>5, <3>1
    <3> QED
      BY <1>4, <1>5, <3>1, <3>2
  <2> QED
    BY <2>1, <2>2
<1> QED
  BY <1>0, <1>2, <1>5 DEF OP!SecondArrives

LEMMA PushMixed == ASSUME OpInv, OP!Push PROVE OP!MixedOnlyByTwoLosses'
<1>0. OpTyped /\ OpRun /\ OP!MixedOnlyByTwoLosses /\ UNCHANGED <<opLen, opLost>>
  BY PushIs DEF OpInv, OpSafe
<1>1. /\ opLen \in Nat /\ opPkt \in Nat /\ opNext \in 0 .. opLen + 11
      /\ Len(opBuf) \in 0 .. opLen /\ OpTaken \in 0 .. FrameLen /\ FrameLen \in 1 .. 8
  BY <1>0, OpNumbers
<1>2. \A p : OP!LostOf(p)' = OP!LostOf(p) /\ (OP!LostOf(p) = {} <=> NoneLost(p))
  BY <1>0 DEF OP!LostOf, NoneLost
<1>3. CASE opOut' = opOut
  BY <1>0, <1>2, <1>3 DEF OP!MixedOnlyByTwoLosses
<1>4. CASE /\ OpDone /\ AtTail /\ OP!Advanced
           /\ DOMAIN opOut' = DOMAIN opOut \cup {Len(opOut) + 1}
           /\ DOMAIN opOut = 1 .. Len(opOut) /\ Len(opOut) \in Nat
           /\ \A k \in DOMAIN opOut : opOut'[k] = opOut[k]
           /\ opOut'[Len(opOut) + 1] = opBuf'
  <2>0. ~opEmpty /\ OpGrown /\ DOMAIN opBuf' = 1 .. Len(opBuf) + OpTaken
    BY <1>1, <1>4 DEF OpDone, OpGrown
  <2>1. ASSUME NEW i \in DOMAIN opBuf'
        PROVE  IF i \in 1 .. Len(opBuf) THEN opBuf'[i] = opBuf[i] ELSE opBuf'[i].p = opPkt
    <3>1. CASE i \in 1 .. Len(opBuf)
      BY <2>0, <3>1 DEF OpGrown
    <3>2. CASE i \notin 1 .. Len(opBuf)
      <4>1. i \in Len(opBuf) + 1 .. Len(opBuf) + OpTaken
        BY <1>1, <2>0, <3>2
      <4>2. opBuf'[i] = [p |-> opPkt, at |-> opNext + i - Len(opBuf) - 1]
        BY <2>0, <4>1 DEF OpGrown
      <4> QED
        BY <3>2, <4>2
    <3> QED
      BY <3>1, <3>2
  <2>2. ASSUME NEW i \in DOMAIN opBuf', opBuf'[i].p # opBuf'[1].p
        PROVE  ~NoneLost(opBuf'[1].p) /\ ~NoneLost(opBuf'[i].p)
    <3>0. 1 \in DOMAIN opBuf' /\ DOMAIN opBuf = 1 .. Len(opBuf)
      BY <1>0, <1>1, <2>0, <2>2, BufIs
    <3>1. Len(opBuf) > 0 /\ opBuf # <<>> /\ opBuf'[1] = opBuf[1] /\ 1 \in DOMAIN opBuf
      <4>1. 1 \in 1 .. Len(opBuf)
        BY <1>1, <2>1, <2>2, <3>0
      <4> QED
        BY <2>1, <3>0, <4>1
    <3>2. ASSUME NoneLost(opBuf[1].p) PROVE FALSE
      <4>1. /\ opPkt = opBuf[1].p
            /\ \A k \in DOMAIN opBuf :
                 opBuf[k] = [p |-> opPkt, at |-> opNext - Len(opBuf) + k - 1]
        BY <1>0, <2>0, <3>1, <3>2 DEF OpRun
      <4>2. \A k \in DOMAIN opBuf : opBuf[k].p = opPkt
        BY <4>1
      <4> QED
        BY <2>1, <2>2, <3>0, <3>1, <4>1, <4>2
    <3>3. ASSUME NoneLost(opBuf'[i].p) PROVE FALSE
      <4>1. opBuf'[i].p = opPkt
        BY <1>0, <2>0, <2>1, <3>0, <3>3 DEF OpRun
      <4>2. NoneLost(opPkt) /\ opPkt # opBuf[1].p
        BY <2>2, <3>1, <3>3, <4>1
      <4>3. opNext < Len(opBuf)
        BY <1>0, <2>0, <3>1, <4>2 DEF OpRun
      <4> QED
        BY <1>1, <1>4, <4>3 DEF AtTail
    <3> QED
      BY <3>1, <3>2, <3>3
  <2>3. ASSUME NEW k \in DOMAIN opOut', NEW i \in DOMAIN opOut'[k],
               opOut'[k][i].p # opOut'[k][1].p
        PROVE  \A p \in {opOut'[k][1].p, opOut'[k][i].p} : OP!LostOf(p) # {}
    <3>1. CASE k \in DOMAIN opOut
      BY <1>0, <1>4, <2>3, <3>1 DEF OP!MixedOnlyByTwoLosses
    <3>2. CASE k = Len(opOut) + 1
      BY <1>2, <1>4, <2>2, <2>3, <3>2
    <3> QED
      BY <1>4, <3>1, <3>2
  <2> QED
    BY <1>2, <2>3 DEF OP!MixedOnlyByTwoLosses
<1> QED
  BY <1>0, <1>3, <1>4, OutGrows

LEMMA OpLoseKeeps == ASSUME OpInv, OP!Lose PROVE OpInv'
<1>0. /\ OpTyped /\ OpOrder /\ OpRun /\ OpSecond /\ OpSafe
      /\ OP!Advanced /\ UNCHANGED <<opLen, opEmpty, opBuf, opOut>>
      /\ opLost' = Append(opLost, [p |-> opPkt, at |-> opNext])
  BY OpLoseFacts DEF OpInv
<1>1. /\ opLen \in Nat /\ opPkt \in Nat /\ opNext \in 0 .. opLen + 11
      /\ \/ opPkt' = opPkt /\ opNext' = opNext + 8
         \/ opPkt' = opPkt + 1 /\ opNext' = 0
  BY <1>0, OpNumbers, AdvancedIs
<1>2. ASSUME NEW p, NoneLost(p)' PROVE NoneLost(p) /\ p # opPkt
  <2>1. opLost \in Seq(OpByte)
    BY <1>0, OpNumbers
  <2>2. /\ DOMAIN opLost' = 1 .. Len(opLost) + 1 /\ DOMAIN opLost = 1 .. Len(opLost)
        /\ \A l \in 1 .. Len(opLost) : opLost'[l] = opLost[l]
        /\ opLost'[Len(opLost) + 1] = [p |-> opPkt, at |-> opNext] /\ Len(opLost) \in Nat
    BY <1>0, <2>1
  <2>3. opLost'[Len(opLost) + 1].p = opPkt /\ Len(opLost) + 1 \in DOMAIN opLost'
    BY <2>2
  <2> QED
    BY <1>2, <2>2, <2>3 DEF NoneLost
<1>3. OpTyped' /\ OpOrder'
  BY <1>0, OpLoseTypes, OpLoseOrder
<1>4. OpRun'
  <2> SUFFICES ASSUME ~opEmpty
               PROVE  /\ opBuf = <<>> /\ NoneLost(opPkt)' /\ opLen > 0 => opNext' \in {0, 8}
                      /\ ~(opBuf # <<>> /\ NoneLost(opBuf[1].p)')
                      /\ opBuf # <<>> /\ NoneLost(opPkt)' => opNext' < Len(opBuf)
                      /\ \A i \in DOMAIN opBuf : ~NoneLost(opBuf[i].p)'
    BY <1>0 DEF OpRun, NoneLost
  <2>1. NoneLost(opPkt)' => opNext' = 0
    <3>1. opPkt' = opPkt => ~NoneLost(opPkt)'
      <4> SUFFICES ASSUME opPkt' = opPkt, NoneLost(opPkt)' PROVE FALSE
        OBVIOUS
      <4>1. PICK q : q = opPkt
        OBVIOUS
      <4>2. NoneLost(q)'
        BY <4>1 DEF NoneLost
      <4> QED
        BY <1>2, <4>1, <4>2
    <3> QED
      BY <1>1, <3>1
  <2>2. ASSUME NEW i \in DOMAIN opBuf, NoneLost(opBuf[i].p)' PROVE FALSE
    <3>1. PICK q : q = opBuf[i].p
      OBVIOUS
    <3>2. NoneLost(q)'
      BY <1>0, <2>2, <3>1 DEF NoneLost
    <3>3. NoneLost(q) /\ q # opPkt
      BY <1>2, <3>2
    <3> QED
      BY <1>0, <2>2, <3>1, <3>3 DEF OpRun
  <2>3. opBuf # <<>> => Len(opBuf) > 0 /\ 1 \in DOMAIN opBuf
    BY <1>0, BufIs
  <2> QED
    BY <2>1, <2>2, <2>3
<1>5. OpSecond'
  <2>1. ASSUME NEW q, NoneLost(q)', opNext' = 0 PROVE q # opPkt' - 1
    BY <1>1, <1>2, <2>1
  <2>2. ASSUME NEW q, NoneLost(q)', opNext' # 0 PROVE q # opPkt'
    BY <1>1, <1>2, <2>2
  <2> QED
    BY <2>1, <2>2 DEF OpSecond, NoneLost
<1>6. OpSafe'
  <2>1. \A p : OP!LostOf(p)' = {} => OP!LostOf(p) = {} /\ p # opPkt
    <3> SUFFICES ASSUME NEW p, OP!LostOf(p)' = {} PROVE OP!LostOf(p) = {} /\ p # opPkt
      OBVIOUS
    <3>1. NoneLost(p)'
      BY DEF OP!LostOf, NoneLost
    <3> QED
      BY <1>2, <3>1, NoneLostIs
  <2>2. OP!MixedOnlyByTwoLosses'
    BY <1>0, <2>1 DEF OpSafe, OP!MixedOnlyByTwoLosses
  <2>3. OP!SecondArrives'
    <3>1. \A p : OP!Ours(p)' <=> OP!Ours(p)
      BY <1>0 DEF OP!Ours, OP!Whole
    <3>2. ASSUME NEW p \in 2 .. opPkt' - 1, p # opPkt PROVE p \in 2 .. opPkt - 1
      BY <1>1, <3>2
    <3> QED
      BY <1>0, <2>1, <3>1, <3>2 DEF OpSafe, OP!SecondArrives
  <2>4. OP!CutTailNeverArrives' /\ OP!OutInOrder'
    BY <1>0 DEF OpSafe, OP!CutTailNeverArrives, OP!OutInOrder
  <2> QED
    BY <2>2, <2>3, <2>4 DEF OpSafe
<1> QED
  BY <1>3, <1>4, <1>5, <1>6 DEF OpInv

LEMMA OpStep == OpInv /\ [OP!Next]_(OP!vars) => OpInv'
<1>1. ASSUME OpInv, UNCHANGED OP!vars PROVE OpInv'
  <2>1. UNCHANGED <<opLen, opPkt, opNext, opEmpty, opBuf, opOut, opLost>>
    BY <1>1 DEF OP!vars
  <2>2. OpTyped' /\ OpOrder' /\ OpRun' /\ OpSecond'
    BY <1>1, <2>1 DEF OpInv, OpTyped, OpOrder, OpRun, OpSecond, NoneLost
  <2>3. OpSafe'
    <3>1. OP!MixedOnlyByTwoLosses' /\ OP!CutTailNeverArrives' /\ OP!OutInOrder'
      BY <1>1, <2>1 DEF OpInv, OpSafe, OP!MixedOnlyByTwoLosses, OP!CutTailNeverArrives,
                        OP!OutInOrder, OP!LostOf
    <3>2. OP!SecondArrives'
      <4>1. \A p : OP!Ours(p)' <=> OP!Ours(p)
        BY <2>1 DEF OP!Ours, OP!Whole
      <4>2. \A p : OP!LostOf(p)' = OP!LostOf(p)
        BY <2>1 DEF OP!LostOf
      <4> QED
        BY <1>1, <2>1, <4>1, <4>2 DEF OpInv, OpSafe, OP!SecondArrives
    <3> QED
      BY <3>1, <3>2 DEF OpSafe
  <2> QED
    BY <2>2, <2>3 DEF OpInv
<1>2. ASSUME OpInv, OP!Push PROVE OpInv'
  BY <1>2, OpPushTypes, OpPushOrder, PushRun, PushSecond, PushOutInOrder, PushCutTail,
     PushArrives, PushMixed DEF OpInv, OpSafe
<1> QED
  BY <1>1, <1>2, OpLoseKeeps DEF OP!Next

LEMMA OldHolds ==
  OldBehaviour =>
    [](/\ OP!TypeOK /\ OP!MixedOnlyByTwoLosses /\ OP!SecondArrives
       /\ OP!CutTailNeverArrives /\ OP!OutInOrder)
<1>1. OpInv => OP!TypeOK
  <2>1. OpTyped => OP!TypeOK
    BY OpSizes DEF OpTyped, OP!TypeOK
  <2> QED
    BY <2>1 DEF OpInv
<1> QED
  BY <1>1, OpInit, OpStep, PTL DEF OldBehaviour, OpInv, OpSafe
-----------------------------------------------------------------------------
ImuBehaviour == IR!Init /\ [][IR!Next]_(IR!vars)

LEMMA ImuImplemented == ReadersSpec => ImuBehaviour
<1>1. ReadersInit => IR!Init
  BY DEF ReadersInit
<1>2. [ReadersNext]_ReaderVars => [IR!Next]_(IR!vars)
  BY DEF ReadersNext, ReaderVars, irVars, IR!vars, IR!busVars, IR!recvVars, IR!getVars
<1> QED
  BY <1>1, <1>2, PTL DEF ReadersSpec, ImuBehaviour

(***************************************************************************)
(* ImuReceiver.  Records begin at multiples of their size (IrPlaces); what *)
(* lies before store_pos was filled, and everything once bReady is set     *)
(* (IrFilled).  The record GetIMU takes next ends with a frame at least as *)
(* new as the one it took, and the one before store_pos with one at least  *)
(* as new as that (IrNewest).  Unless a head and a tail were lost every    *)
(* record is whole but the one a packet may just have begun over           *)
(* (IrWholeOnes), because the frames since fetch_pos are those of the      *)
(* packet on the bus, from its first on if none was lost (IrInPacket).     *)
(***************************************************************************)
IrStart(x) == \E r \in 0 .. IrNum - 1 : x = r * IrSize
IrPrev(x) == IF x = 0 THEN IR!End - 1 ELSE x - 1

IrPlaces ==
  /\ irFetch # -1 => IrStart(irFetch)
  /\ irAtti => irFetch # -1
  /\ ~irAtti => IrStart(irStore)

IrFilled ==
  /\ \A k \in 0 .. IR!End - 1 : irReady \/ k < irStore => irBuf[k] # IR!NoFrame
  /\ irAtti /\ ~irReady => irFetch <= irStore
  /\ irFetch = -1 => ~irReady /\ irStore = 0
  /\ irGot # IR!None => irReady

IrNewest ==
  /\ \A k \in 0 .. IR!End - 1 : irBuf[k].p <= irPkt
  /\ irGot # IR!None => irGot[IrSize].p <= irBuf[IrPrev(irFetch)].p
  /\ ~irAtti /\ irReady => irBuf[IrPrev(irFetch)].p <= irBuf[IrPrev(irStore)].p
  /\ irAtti =>
       \/ irStore = irFetch
       \/ \A k \in 0 .. IR!End - 1 : irBuf[k].p <= irBuf[IrPrev(irStore)].p

HeadLost == \E l \in irLost : l.at = 0
TailLost == \E l \in irLost : l.at = IrSize + 1

IrInPacket ==
  \E c \in 0 .. IrSize :
    /\ irStore = IF irFetch + c = IR!End THEN 0 ELSE irFetch + c
    /\ \/ /\ irKind = "atti" /\ c < irPlace
          /\ c = irPlace - 1 =>
               \A i \in 1 .. c : irBuf[irFetch + i - 1] = [p |-> irPkt, at |-> i]
       \/ irPlace = 0 /\ TailLost

IrWholeOnes ==
  \A r \in 0 .. IrNum - 1 :
    (irReady \/ r * IrSize + IrSize <= irStore)
    /\ (r * IrSize # irFetch \/ (~irAtti /\ irStore # irFetch))
      => IR!Whole(IR!Record(r * IrSize))

IrGood ==
  /\ irGot # IR!None => IR!Whole(irGot)
  /\ IrWholeOnes
  /\ irAtti => IrInPacket

IrTyped == IR!TypeOK /\ IsFiniteSet(irLost)

IrInv ==
  /\ IrTyped /\ IrPlaces /\ IrFilled /\ IR!NeverUnfilled /\ IrNewest
  /\ (HeadLost /\ TailLost) \/ IrGood

LEMMA IrAssumption ==
  /\ IrSize \in Nat /\ IrSize > 0 /\ IrNum \in Nat /\ IrNum > 1
  /\ IrMaxPackets \in Nat /\ IrMaxPackets > 0 /\ IrMaxLost \in Nat
  BY ReadersAssumption DEF IR!ImuReceiverAssumption

LEMMA IrSameCardinality == \A S : IR!Cardinality(S) = Cardinality(S)
  BY Zenon DEF IR!Cardinality, Cardinality

(* The places where records begin.                                         *)
LEMMA Times ==
  ASSUME NEW a \in Nat, NEW b \in Nat
  PROVE  /\ a * IrSize \in Nat
         /\ a < b => a * IrSize + IrSize <= b * IrSize
<1> USE IrAssumption
<1>1. \A d \in Nat : d * IrSize \in Nat
  OBVIOUS
<1>2. ASSUME a < b PROVE a * IrSize + IrSize <= b * IrSize
  <2> DEFINE d == b - a - 1
  <2>1. d \in Nat /\ b = a + 1 + d
    BY <1>2
  <2>2. (a + 1 + d) * IrSize = a * IrSize + IrSize + d * IrSize
    BY <2>1
  <2> QED
    BY <1>1, <2>1, <2>2
<1> QED
  BY <1>1, <1>2

LEMMA Starts ==
  ASSUME NEW r \in 0 .. IrNum - 1
  PROVE  /\ r * IrSize \in 0 .. IR!End - IrSize
         /\ IR!End \in Nat /\ IR!End >= IrSize + IrSize
         /\ r * IrSize = IR!End - IrSize => r = IrNum - 1
         /\ r * IrSize = 0 => r = 0
         /\ \A q \in 0 .. IrNum - 1 :
              q < r => q * IrSize + IrSize <= r * IrSize
<1> USE IrAssumption
<1>1. IR!End \in Nat /\ r * IrSize + IrSize <= IR!End /\ r * IrSize \in Nat
  BY Times DEF IR!End
<1>2. ASSUME r < IrNum - 1 PROVE r * IrSize + IrSize + IrSize <= IR!End
  <2>1. (IrNum - 1) * IrSize + IrSize <= IR!End
    BY Times DEF IR!End
  <2>2. r * IrSize + IrSize <= (IrNum - 1) * IrSize
    BY <1>2, Times
  <2>3. (IrNum - 1) * IrSize \in Nat
    BY Times
  <2> QED
    BY <1>1, <2>1, <2>2, <2>3
<1>3. 0 < r => r * IrSize >= IrSize
  <2>1. 0 * IrSize = 0
    OBVIOUS
  <2> QED
    BY <2>1, <1>1, Times
<1>4. IR!End >= IrSize + IrSize
  <2>1. 0 * IrSize = 0 /\ 1 * IrSize = IrSize
    OBVIOUS
  <2>2. 1 * IrSize + IrSize <= IrNum * IrSize
    BY Times
  <2> QED
    BY <2>1, <2>2 DEF IR!End
<1>5. \A q \in 0 .. IrNum - 1 : q < r => q * IrSize + IrSize <= r * IrSize
  BY Times
<1> QED
  BY <1>1, <1>2, <1>3, <1>4, <1>5

LEMMA Remainders ==
  ASSUME NEW a \in Int
  PROVE  /\ \A r \in Nat : a = r * IrSize => a % IrSize = 0
         /\ \A r \in Nat, c \in 1 .. IrSize - 1 : a = r * IrSize + c => a % IrSize # 0
<1> USE IrAssumption
<1>1. /\ a = IrSize * (a \div IrSize) + (a % IrSize)
      /\ a % IrSize \in 0 .. IrSize - 1 /\ a \div IrSize \in Int
  <2>1. a \div IrSize \in Int
    OBVIOUS
  <2>2. a % IrSize \in 0 .. IrSize - 1
    OBVIOUS
  <2>3. a = IrSize * (a \div IrSize) + (a % IrSize)
    OBVIOUS
  <2> QED
    BY <2>1, <2>2, <2>3
<1>2. ASSUME NEW r \in Nat, NEW c \in 0 .. IrSize - 1, a = r * IrSize + c
      PROVE  a % IrSize = c
  <2> DEFINE q == a \div IrSize
             d == r - q
  <2>1. d \in Int /\ d * IrSize = r * IrSize - IrSize * q
    BY <1>1
  <2>2. d * IrSize = (a % IrSize) - c
    BY <1>1, <1>2, <2>1
  <2>3. d > 0 => d * IrSize >= IrSize
    BY <2>1
  <2>4. d < 0 => d * IrSize <= -IrSize
    BY <2>1
  <2>5. d = 0
    BY <1>1, <2>1, <2>2, <2>3, <2>4
  <2> QED
    BY <2>2, <2>5, <1>1
<1>3. ASSUME NEW r \in Nat, a = r * IrSize PROVE a % IrSize = 0
  <2>1. a = r * IrSize + 0 /\ 0 \in 0 .. IrSize - 1
    BY <1>3, Times
  <2> QED
    BY <2>1, <1>2
<1>4. ASSUME NEW r \in Nat, NEW c \in 1 .. IrSize - 1, a = r * IrSize + c PROVE a % IrSize # 0
  BY <1>4, <1>2
<1> QED
  BY <1>3, <1>4

LEMMA IrInit == IR!Init => IrInv
<1> SUFFICES ASSUME IR!Init PROVE IrInv
  OBVIOUS
<1> USE IrAssumption DEF IR!Init
<1>0. IR!End \in Nat /\ IR!End > 0
  BY Starts
<1>1. IrTyped
  <2>1. irPkt \in 1 .. IrMaxPackets /\ irPlace \in 0 .. IR!Last
    BY DEF IR!Last
  <2>2. irLost \subseteq IR!Frames /\ IR!Cardinality(irLost) <= IrMaxLost
    BY IrSameCardinality, FS_EmptySet
  <2>3. {irGone, irAtti, irReady, irWant} \subseteq BOOLEAN
    OBVIOUS
  <2>4. irFetch \in -1 .. IR!End - 1 /\ irStore \in 0 .. IR!End - 1
    BY <1>0
  <2>5. irBuf \in [0 .. IR!End - 1 -> IR!Frames]
    BY DEF IR!NoFrame, IR!Frames
  <2>6. /\ irKind \in {"atti", "other"}
        /\ irLock = (IF irAtti THEN "recv" ELSE "none")
        /\ irGot = IR!None \/ irGot \in [1 .. IrSize -> IR!Frames]
    OBVIOUS
  <2>7. IsFiniteSet(irLost)
    BY FS_EmptySet
  <2> QED
    BY <2>1, <2>2, <2>3, <2>4, <2>5, <2>6, <2>7, Zenon DEF IrTyped, IR!TypeOK
<1>2. IrPlaces
  <2>1. 0 = 0 * IrSize /\ 0 \in 0 .. IrNum - 1
    OBVIOUS
  <2> QED
    BY <2>1 DEF IrPlaces, IrStart
<1>3. IrFilled
  BY <1>0 DEF IrFilled
<1>4. IrNewest
  BY <1>0 DEF IrNewest, IR!NoFrame
<1>5. IrGood
  <2>1. \A r \in 0 .. IrNum - 1 : ~(r * IrSize + IrSize <= 0)
    BY Starts
  <2> QED
    BY <2>1 DEF IrGood, IrWholeOnes
<1>6. IR!NeverUnfilled
  BY DEF IR!NeverUnfilled
<1> QED
  BY <1>1, <1>2, <1>3, <1>4, <1>5, <1>6 DEF IrInv

(* The next frame on the bus.                                              *)
LEMMA IrSent ==
  ASSUME IrTyped, IR!Sent
  PROVE  /\ irPkt' \in 1 .. IrMaxPackets /\ irPkt <= irPkt'
         /\ irKind' \in {"atti", "other"} /\ irPlace' \in 0 .. IR!Last'
         /\ \/ irPlace' = irPlace + 1 /\ irPkt' = irPkt /\ irKind' = irKind
            \/ irPlace' = 0 /\ IR!IsTail
<1> USE IrAssumption
<1>1. /\ irPkt \in 1 .. IrMaxPackets /\ irKind \in {"atti", "other"}
      /\ irPlace \in 0 .. IR!Last
  BY DEF IrTyped, IR!TypeOK
<1>2. CASE irPlace < IR!Last
  BY <1>1, <1>2 DEF IR!Sent, IR!Last
<1>3. CASE ~(irPlace < IR!Last)
  <2>1. IR!Last \in Nat /\ irPlace = IR!Last
    BY <1>1, <1>3 DEF IR!Last
  <2>2. irPkt' \in 1 .. IrMaxPackets /\ irPkt <= irPkt'
    BY <1>1, <1>3 DEF IR!Sent
  <2>3. irKind' \in {"atti", "other"} /\ irPlace' = 0
    BY <1>3 DEF IR!Sent
  <2>4. IR!Last' \in Nat
    BY <2>3 DEF IR!Last
  <2> QED
    BY <2>1, <2>2, <2>3, <2>4 DEF IR!IsTail
<1> QED
  BY <1>2, <1>3

(* What a packet that ends, be it given up or not, leaves.                 *)
IrEnded ==
  /\ irAtti /\ ~irAtti' /\ irLock' = "none" /\ UNCHANGED <<irFetch, irBuf, irReady>>
  /\ \/ irStore' = irFetch
     \/ irStore' = irStore /\ irKind = "atti" /\ IR!IsTail /\ irStore % IrSize = 0

IrTaken ==
  /\ irAtti /\ irKind = "atti" /\ irPlace \in 1 .. IrSize
  /\ irBuf' = [irBuf EXCEPT ![irStore] = [p |-> irPkt, at |-> irPlace]]
  /\ \/ irStore + 1 = IR!End /\ irStore' = 0 /\ irReady' = TRUE
     \/ irStore + 1 < IR!End /\ irStore' = irStore + 1 /\ irReady' = irReady
  /\ UNCHANGED <<irAtti, irLock, irFetch>>

LEMMA IrFields ==
  ASSUME IrTyped
  PROVE  /\ irPkt \in 1 .. IrMaxPackets /\ irKind \in {"atti", "other"}
         /\ irPlace \in 0 .. IR!Last
         /\ irLost \subseteq IR!Frames /\ Cardinality(irLost) <= IrMaxLost
         /\ IsFiniteSet(irLost)
         /\ irGone \in BOOLEAN /\ irAtti \in BOOLEAN
         /\ irReady \in BOOLEAN /\ irWant \in BOOLEAN
         /\ irLock = (IF irAtti THEN "recv" ELSE "none")
         /\ irFetch \in -1 .. IR!End - 1 /\ irStore \in 0 .. IR!End - 1
         /\ irBuf \in [0 .. IR!End - 1 -> IR!Frames]
         /\ irGot = IR!None \/ irGot \in [1 .. IrSize -> IR!Frames]
         /\ IR!End \in Nat /\ IR!End >= IrSize + IrSize
<1>1. IR!End \in Nat /\ IR!End >= IrSize + IrSize
  <2>1. 0 \in 0 .. IrNum - 1
    BY IrAssumption
  <2> QED
    BY <2>1, Starts
<1> QED
  BY <1>1, IrSameCardinality, Zenon DEF IrTyped, IR!TypeOK

LEMMA IrOutcomes ==
  ASSUME IrTyped, IrPlaces, IR!Recv
  PROVE  /\ IR!Sent /\ UNCHANGED <<irLost, irGone, irWant, irGot>>
         /\ IR!Begin \/ IR!Ignore \/ IrEnded \/ IrTaken
<1> USE IrAssumption
<1>0. /\ irFetch \in -1 .. IR!End - 1 /\ irStore \in 0 .. IR!End - 1 /\ IR!End \in Nat
      /\ irPlace \in 0 .. IR!Last /\ irReady \in BOOLEAN
  BY IrFields
<1>1. IR!Sent /\ UNCHANGED <<irLost, irGone, irWant, irGot>>
  BY DEF IR!Recv, IR!getVars
<1>2. ASSUME IR!GiveUp PROVE IrEnded
  <2>1. irFetch \in 0 .. IR!End - 1
    BY <1>0, <1>2 DEF IR!GiveUp, IrPlaces
  <2>2. ~(irFetch >= IR!End)
    BY <2>1, <1>0
  <2> QED
    BY <1>2, <2>2 DEF IR!GiveUp, IR!Wrapped, IrEnded
<1>3. ASSUME IR!Finish PROVE IrEnded
  <2>1. irFetch \in 0 .. IR!End - 1
    BY <1>0, <1>3 DEF IR!Finish, IrPlaces
  <2>2. ~(irFetch >= IR!End) /\ ~(irStore >= IR!End)
    BY <2>1, <1>0
  <2>3. PICK ok : IR!Wrapped(IF IR!Aligned /\ ok THEN irStore ELSE irFetch)
    BY <1>3 DEF IR!Finish
  <2>4. /\ irStore' = irFetch \/ (irStore' = irStore /\ IR!Aligned)
        /\ irReady' = irReady
    BY <2>2, <2>3 DEF IR!Wrapped
  <2> QED
    BY <1>3, <2>4 DEF IR!Finish, IrEnded, IR!Aligned
<1>4. ASSUME IR!Data PROVE IrTaken
  <2>1. irPlace \in 1 .. IrSize
    BY <1>0, <1>4 DEF IR!Data, IR!IsHead, IR!IsTail, IR!Last
  <2>2. \/ irStore + 1 = IR!End /\ irStore' = 0 /\ irReady' = TRUE
        \/ irStore + 1 < IR!End /\ irStore' = irStore + 1 /\ irReady' = irReady
    BY <1>0, <1>4 DEF IR!Data, IR!Wrapped
  <2> QED
    BY <1>4, <2>1, <2>2 DEF IR!Data, IrTaken
<1> QED
  BY <1>1, <1>2, <1>3, <1>4 DEF IR!Recv

LEMMA IrRecvTypes == ASSUME IrTyped, IrPlaces, IR!Recv PROVE IrTyped'
<1> USE IrAssumption
<1>1. /\ irPkt \in 1 .. IrMaxPackets /\ irPlace \in 0 .. IR!Last
      /\ irLost \subseteq IR!Frames /\ Cardinality(irLost) <= IrMaxLost
      /\ IsFiniteSet(irLost)
      /\ irGone \in BOOLEAN /\ irAtti \in BOOLEAN
      /\ irReady \in BOOLEAN /\ irWant \in BOOLEAN
      /\ irLock = (IF irAtti THEN "recv" ELSE "none")
      /\ irFetch \in -1 .. IR!End - 1 /\ irStore \in 0 .. IR!End - 1
      /\ irBuf \in [0 .. IR!End - 1 -> IR!Frames]
      /\ irGot = IR!None \/ irGot \in [1 .. IrSize -> IR!Frames]
      /\ IR!End \in Nat
  BY IrFields
<1>2. IR!Sent /\ UNCHANGED <<irLost, irGone, irWant, irGot>>
  BY IrOutcomes
<1>3. /\ irPkt' \in 1 .. IrMaxPackets
      /\ irKind' \in {"atti", "other"} /\ irPlace' \in 0 .. IR!Last'
  BY <1>2, IrSent
<1>4. /\ irAtti' \in BOOLEAN /\ irReady' \in BOOLEAN
      /\ irLock' = (IF irAtti' THEN "recv" ELSE "none")
      /\ irFetch' \in -1 .. IR!End - 1 /\ irStore' \in 0 .. IR!End - 1
      /\ irBuf' \in [0 .. IR!End - 1 -> IR!Frames]
  <2>1. CASE IR!Begin
    BY <1>1, <2>1 DEF IR!Begin
  <2>2. CASE IR!Ignore
    BY <1>1, <2>2 DEF IR!Ignore
  <2>3. CASE IrEnded
    <3>1. irFetch \in 0 .. IR!End - 1
      BY <1>1, <2>3 DEF IrEnded, IrPlaces
    <3>2. irAtti' = FALSE
      BY <2>3 DEF IrEnded
    <3> QED
      BY <1>1, <2>3, <3>1, <3>2 DEF IrEnded
  <2>4. CASE IrTaken
    <3>1. [p |-> irPkt, at |-> irPlace] \in IR!Frames
      BY <1>1, <2>4 DEF IrTaken, IR!Frames
    <3>2. irBuf' \in [0 .. IR!End - 1 -> IR!Frames]
      BY <1>1, <2>4, <3>1 DEF IrTaken
    <3>3. irStore' \in 0 .. IR!End - 1
      BY <1>1, <2>4 DEF IrTaken
    <3>4. irReady' \in BOOLEAN
      BY <1>1, <2>4, Zenon DEF IrTaken
    <3> QED
      BY <1>1, <2>4, <3>2, <3>3, <3>4 DEF IrTaken
  <2> QED
    BY <2>1, <2>2, <2>3, <2>4, IrOutcomes
<1>5. /\ irLost' \subseteq IR!Frames /\ IR!Cardinality(irLost') <= IrMaxLost
      /\ IsFiniteSet(irLost')
      /\ {irGone', irAtti', irReady', irWant'} \subseteq BOOLEAN
      /\ irGot' = IR!None \/ irGot' \in [1 .. IrSize -> IR!Frames]
  BY <1>1, <1>2, <1>4, IrSameCardinality
<1> QED
  BY <1>3, <1>4, <1>5, Zenon DEF IrTyped, IR!TypeOK, IR!End, IR!Frames

LEMMA IrLoseFacts ==
  ASSUME IrTyped, IR!Lose
  PROVE  /\ IR!Sent /\ ~irGone
         /\ irLost' = irLost \cup {[p |-> irPkt, at |-> irPlace]}
         /\ UNCHANGED <<irGone, irAtti, irLock, irFetch, irStore, irBuf, irReady,
                        irWant, irGot>>
  BY DEF IR!Lose, IR!recvVars, IR!getVars

LEMMA IrLoseTypes == ASSUME IrTyped, IR!Lose PROVE IrTyped'
<1> USE IrAssumption
<1>1. /\ irPkt \in 1 .. IrMaxPackets /\ irPlace \in 0 .. IR!Last
      /\ irLost \subseteq IR!Frames /\ Cardinality(irLost) \in Nat
      /\ IsFiniteSet(irLost)
  BY IrFields, FS_CardinalityType
<1>2. /\ irPkt' \in 1 .. IrMaxPackets
      /\ irKind' \in {"atti", "other"} /\ irPlace' \in 0 .. IR!Last'
  BY IrLoseFacts, IrSent
<1>3. [p |-> irPkt, at |-> irPlace] \in IR!Frames
  BY <1>1 DEF IR!Frames, IR!Last
<1>4. Cardinality(irLost) < IrMaxLost
  BY IrSameCardinality, Zenon DEF IR!Lose
<1>5. /\ irLost' \subseteq IR!Frames
      /\ IsFiniteSet(irLost') /\ Cardinality(irLost') <= IrMaxLost
  <2> DEFINE l == [p |-> irPkt, at |-> irPlace]
  <2>1. irLost' = irLost \cup {l} /\ l \in IR!Frames
    BY <1>3, IrLoseFacts
  <2> HIDE DEF l
  <2>2. irLost' \subseteq IR!Frames
    BY <2>1, <1>1
  <2>3. IsFiniteSet(irLost') /\ Cardinality(irLost') <= Cardinality(irLost) + 1
    <3>1. IsFiniteSet(irLost) /\ Cardinality(irLost) \in Nat
      BY <1>1, FS_CardinalityType
    <3>2. /\ IsFiniteSet(irLost \cup {l})
          /\ \/ Cardinality(irLost \cup {l}) = Cardinality(irLost)
             \/ Cardinality(irLost \cup {l}) = Cardinality(irLost) + 1
      BY <3>1, FS_AddElement, Zenon
    <3> QED
      BY <2>1, <3>1, <3>2
  <2>4. Cardinality(irLost') \in Nat
    BY <2>3, FS_CardinalityType
  <2> QED
    BY <1>1, <1>4, <2>2, <2>3, <2>4
<1>6. IR!Cardinality(irLost') <= IrMaxLost
  BY <1>5, IrSameCardinality
<1>7. /\ {irGone', irAtti', irReady', irWant'} \subseteq BOOLEAN
      /\ irLock' = (IF irAtti' THEN "recv" ELSE "none")
      /\ irFetch' \in -1 .. IR!End - 1 /\ irStore' \in 0 .. IR!End - 1
      /\ irBuf' \in [0 .. IR!End - 1 -> IR!Frames]
      /\ irGot' = IR!None \/ irGot' \in [1 .. IrSize -> IR!Frames]
  BY IrFields, IrLoseFacts
<1> QED
  BY <1>2, <1>5, <1>6, <1>7, Zenon DEF IrTyped, IR!TypeOK, IR!End, IR!Frames

(* The record before fetch_pos.                                            *)
LEMMA IrBefore ==
  ASSUME IrTyped, IrPlaces, irFetch # -1
  PROVE  /\ \E r \in 0 .. IrNum - 1 : r * IrSize = IR!GetPos /\ r * IrSize # irFetch
         /\ IR!GetPos \in 0 .. IR!End - IrSize
         /\ IR!GetPos + IrSize - 1 = IrPrev(irFetch)
<1> USE IrAssumption
<1>1. IR!End \in Nat /\ IR!End >= IrSize + IrSize
  BY IrFields
<1>2. PICK r \in 0 .. IrNum - 1 : irFetch = r * IrSize
  BY DEF IrPlaces, IrStart
<1>3. CASE irFetch = 0
  <2>1. IrNum - 1 \in 0 .. IrNum - 1 /\ IR!GetPos = (IrNum - 1) * IrSize
    BY <1>3 DEF IR!GetPos
  <2>2. (IrNum - 1) * IrSize = IrNum * IrSize - IrSize
    OBVIOUS
  <2>3. (IrNum - 1) * IrSize = IR!End - IrSize
    BY <2>2 DEF IR!End
  <2> QED
    BY <1>1, <1>3, <2>1, <2>3 DEF IrPrev
<1>4. CASE irFetch # 0
  <2>1. r # 0
    <3>1. 0 * IrSize = 0
      OBVIOUS
    <3> QED
      BY <1>2, <1>4, <3>1
  <2>2. r - 1 \in 0 .. IrNum - 1 /\ (r - 1) * IrSize = r * IrSize - IrSize
    BY <2>1
  <2>3. IR!GetPos = irFetch - IrSize
    BY <1>4 DEF IR!GetPos
  <2>4. (r - 1) * IrSize \in 0 .. IR!End - IrSize
    BY <2>2, Starts
  <2> QED
    BY <1>1, <1>2, <1>4, <2>2, <2>3, <2>4 DEF IrPrev
<1> QED
  BY <1>3, <1>4

LEMMA IrGetFacts ==
  ASSUME IrTyped, IR!Get
  PROVE  /\ ~irAtti
         /\ irWant' = FALSE /\ irGot' = IF irReady THEN IR!Record(IR!GetPos) ELSE irGot
         /\ UNCHANGED <<irPkt, irKind, irPlace, irLost, irGone, irAtti, irLock, irFetch,
                        irStore, irBuf, irReady>>
<1>1. irLock = (IF irAtti THEN "recv" ELSE "none")
  BY IrFields
<1> QED
  BY <1>1 DEF IR!Get, IR!busVars, IR!recvVars

LEMMA IrGetTypes == ASSUME IrTyped, IrPlaces, IrFilled, IR!Get PROVE IrTyped'
<1> USE IrAssumption
<1>1. irGot' = IR!None \/ irGot' \in [1 .. IrSize -> IR!Frames]
  <2>1. CASE irReady
    <3>1. irFetch # -1 /\ irBuf \in [0 .. IR!End - 1 -> IR!Frames] /\ IR!End \in Nat
      BY <2>1, IrFields DEF IrFilled
    <3>2. IR!GetPos \in 0 .. IR!End - IrSize
      BY <3>1, IrBefore
    <3>3. \A k \in 1 .. IrSize : IR!GetPos + k - 1 \in 0 .. IR!End - 1
      BY <3>1, <3>2
    <3>4. IR!Record(IR!GetPos) \in [1 .. IrSize -> IR!Frames]
      BY <3>1, <3>3 DEF IR!Record
    <3> QED
      BY <2>1, <3>4, IrGetFacts
  <2>2. CASE ~irReady
    BY <2>2, IrGetFacts, IrFields
  <2> QED
    BY <2>1, <2>2
<1>2. irWant' \in BOOLEAN
  BY IrGetFacts
<1>3. UNCHANGED <<irPkt, irKind, irPlace, irLost, irGone, irAtti, irLock, irFetch,
                  irStore, irBuf, irReady>>
  BY IrGetFacts
<1>4. IR!Last' = IR!Last
  BY <1>3 DEF IR!Last
<1> QED
  BY <1>1, <1>2, <1>3, <1>4 DEF IrTyped, IR!TypeOK

LEMMA IrAligned ==
  ASSUME IrTyped, irStore % IrSize = 0
  PROVE  IrStart(irStore)
<1> USE IrAssumption
<1>1. irStore \in 0 .. IR!End - 1
  BY IrFields
<1> DEFINE r == irStore \div IrSize
<1>2. r \in Int /\ irStore = r * IrSize
  <2>1. irStore = IrSize * r + (irStore % IrSize)
    BY <1>1
  <2> QED
    BY <1>1, <2>1
<1>3. r >= 0
  <2>1. ASSUME r < 0 PROVE FALSE
    <3>1. r * IrSize < 0
      BY <2>1, <1>2
    <3> QED
      BY <3>1, <1>1, <1>2
  <2> QED
    BY <2>1, <1>2
<1>4. r < IrNum
  <2> HIDE DEF r
  <2>1. ASSUME r >= IrNum PROVE FALSE
    <3>1. r \in Nat /\ IR!End = IrNum * IrSize /\ IR!End \in Nat
      BY <1>2, <1>3, IrFields DEF IR!End
    <3>2. r = IrNum \/ IrNum * IrSize + IrSize <= r * IrSize
      BY <3>1, <2>1, Times
    <3> QED
      BY <3>1, <3>2, <1>1, <1>2
  <2> QED
    BY <2>1, <1>2
<1> HIDE DEF r
<1>5. r \in 0 .. IrNum - 1
  BY <1>2, <1>3, <1>4
<1> QED
  BY <1>2, <1>5 DEF IrStart

LEMMA IrRecvPlaces == ASSUME IrTyped, IrPlaces, IR!Recv PROVE IrPlaces'
<1>0. irFetch' \in Int /\ irAtti \in BOOLEAN
  BY IrRecvTypes, IrFields DEF IrTyped, IR!TypeOK
<1>1. CASE IR!Begin
  <2>1. irStore \in 0 .. IR!End - 1 /\ irFetch' = irStore /\ irAtti' = TRUE /\ ~irAtti
    BY <1>1, IrFields DEF IR!Begin
  <2> QED
    BY <2>1 DEF IrPlaces, IrStart
<1>2. CASE IR!Ignore
  BY <1>2 DEF IR!Ignore, IrPlaces, IrStart
<1>3. CASE IrEnded
  <2>1. IrStart(irFetch) /\ irFetch' = irFetch /\ ~irAtti'
    BY <1>3 DEF IrEnded, IrPlaces
  <2>2. IrStart(irStore')
    <3>1. CASE irStore' = irFetch
      BY <2>1, <3>1
    <3>2. CASE irStore' = irStore /\ irStore % IrSize = 0
      BY <3>2, IrAligned
    <3> QED
      BY <1>3, <3>1, <3>2 DEF IrEnded
  <2> QED
    BY <2>1, <2>2 DEF IrPlaces, IrStart
<1>4. CASE IrTaken
  BY <1>4 DEF IrTaken, IrPlaces, IrStart
<1> QED
  BY <1>1, <1>2, <1>3, <1>4, IrOutcomes

(* A frame put at store_pos is of the packet on the bus.                   *)
LEMMA IrPut ==
  ASSUME IrTyped, IrTaken
  PROVE  /\ irStore \in 0 .. IR!End - 1
         /\ irBuf'[irStore] = [p |-> irPkt, at |-> irPlace]
         /\ \A k \in 0 .. IR!End - 1 : k # irStore => irBuf'[k] = irBuf[k]
  BY IrFields DEF IrTaken

LEMMA IrRecvFilled == ASSUME IrTyped, IrPlaces, IrFilled, IR!Recv PROVE IrFilled'
<1> USE IrAssumption
<1>0. /\ irFetch \in -1 .. IR!End - 1 /\ irStore \in 0 .. IR!End - 1 /\ IR!End \in Nat
      /\ irAtti \in BOOLEAN /\ irReady \in BOOLEAN /\ irGot' = irGot
      /\ irPkt \in 1 .. IrMaxPackets /\ IR!End' = IR!End
  BY IrFields, IrOutcomes DEF IR!End
<1>1. CASE IR!Begin
  <2>1. /\ irFetch' = irStore /\ UNCHANGED <<irStore, irReady, irBuf>>
    BY <1>1 DEF IR!Begin
  <2> QED
    BY <1>0, <2>1 DEF IrFilled
<1>2. CASE IR!Ignore
  BY <1>0, <1>2 DEF IR!Ignore, IrFilled
<1>3. CASE IrEnded
  <2>1. /\ irFetch # -1 /\ irFetch' = irFetch /\ irReady' = irReady /\ irBuf' = irBuf
        /\ ~irAtti' /\ irAtti
    BY <1>3 DEF IrEnded, IrPlaces
  <2>2. ~irReady => irStore' <= irStore
    BY <1>0, <1>3, <2>1 DEF IrEnded, IrFilled
  <2>3. irStore' \in Int
    BY <1>0, <1>3 DEF IrEnded
  <2>4. \A k \in 0 .. IR!End - 1 : irReady \/ k < irStore' => irBuf[k] # IR!NoFrame
    BY <1>0, <2>2, <2>3 DEF IrFilled
  <2> QED
    BY <1>0, <2>1, <2>4 DEF IrFilled
<1>4. CASE IrTaken
  <2>1. /\ irAtti /\ irFetch # -1 /\ irFetch' = irFetch
    BY <1>4 DEF IrTaken, IrPlaces
  <2>2. [p |-> irPkt, at |-> irPlace] # IR!NoFrame
    BY <1>0 DEF IR!NoFrame
  <2>3. \A k \in 0 .. IR!End - 1 : irReady' \/ k < irStore' => irBuf'[k] # IR!NoFrame
    <3> SUFFICES ASSUME NEW k \in 0 .. IR!End - 1, irReady' \/ k < irStore'
                 PROVE  irBuf'[k] # IR!NoFrame
      OBVIOUS
    <3>1. CASE k = irStore
      BY <2>2, <3>1, <1>4, IrPut
    <3>2. CASE k # irStore
      <4>1. irReady \/ k < irStore
        BY <1>0, <1>4, <3>2 DEF IrTaken
      <4> QED
        BY <3>2, <4>1, <1>4, IrPut DEF IrFilled
    <3> QED
      BY <3>1, <3>2
  <2>4. ~irReady' => irFetch' <= irStore'
    BY <1>0, <1>4, <2>1 DEF IrTaken, IrFilled
  <2>5. irGot' # IR!None => irReady'
    <3>1. irReady => irReady'
      BY <1>4, Zenon DEF IrTaken
    <3> QED
      BY <1>0, <3>1, Zenon DEF IrFilled
  <2>6. irFetch' # -1
    BY <2>1
  <2> QED
    BY <1>0, <2>3, <2>4, <2>5, <2>6 DEF IrFilled
<1> QED
  BY <1>1, <1>2, <1>3, <1>4, IrOutcomes

LEMMA IrRecvNewest ==
  ASSUME IrTyped, IrPlaces, IrFilled, IrNewest, IR!Recv PROVE IrNewest'
<1> USE IrAssumption
<1>0. /\ irFetch \in -1 .. IR!End - 1 /\ irStore \in 0 .. IR!End - 1 /\ IR!End \in Nat
      /\ IR!End > 1
      /\ irAtti \in BOOLEAN /\ irReady \in BOOLEAN /\ irGot' = irGot
      /\ irPkt \in Nat /\ IR!End' = IR!End
      /\ irPkt' \in Nat /\ irPkt <= irPkt'
      /\ irBuf \in [0 .. IR!End - 1 -> IR!Frames]
  BY IrFields, IrOutcomes, IrSent DEF IR!End
<1>00. \A k \in 0 .. IR!End - 1 : IrPrev(k) \in 0 .. IR!End - 1 /\ IrPrev(k)' = IrPrev(k)
  BY <1>0 DEF IrPrev
<1>01. \A k \in 0 .. IR!End - 1 : irBuf[k].p \in Nat
  BY <1>0 DEF IR!Frames
<1>02. irGot # IR!None =>
         /\ irReady /\ irFetch \in 0 .. IR!End - 1
         /\ irGot[IrSize].p \in Nat
  <2>1. irGot # IR!None => irGot \in [1 .. IrSize -> IR!Frames] /\ IrSize \in 1 .. IrSize
    BY IrFields
  <2> QED
    BY <1>0, <2>1 DEF IrFilled, IR!Frames
<1>1. CASE IR!Begin
  <2>1. /\ irFetch' = irStore /\ UNCHANGED <<irStore, irReady, irBuf>> /\ irAtti' /\ ~irAtti
    BY <1>1 DEF IR!Begin
  <2>2. \A k \in 0 .. IR!End - 1 : irBuf[k].p <= irPkt'
    BY <1>0, <1>01 DEF IrNewest
  <2>3. irGot # IR!None => irGot[IrSize].p <= irBuf[IrPrev(irStore)].p
    <3> SUFFICES ASSUME irGot # IR!None PROVE irGot[IrSize].p <= irBuf[IrPrev(irStore)].p
      OBVIOUS
    <3>1. irBuf[IrPrev(irFetch)].p <= irBuf[IrPrev(irStore)].p
      BY <1>02, <2>1 DEF IrNewest
    <3>2. irGot[IrSize].p <= irBuf[IrPrev(irFetch)].p
      BY DEF IrNewest
    <3>3. /\ irBuf[IrPrev(irFetch)].p \in Nat /\ irBuf[IrPrev(irStore)].p \in Nat
          /\ irGot[IrSize].p \in Nat
      BY <1>0, <1>00, <1>01, <1>02
    <3> QED
      BY <3>1, <3>2, <3>3
  <2> QED
    BY <1>0, <2>1, <2>2, <2>3 DEF IrNewest, IrPrev
<1>2. CASE IR!Ignore
  <2>1. UNCHANGED <<irAtti, irFetch, irStore, irReady, irBuf>>
    BY <1>2 DEF IR!Ignore
  <2>2. \A k \in 0 .. IR!End - 1 : irBuf[k].p <= irPkt'
    BY <1>0, <1>01 DEF IrNewest
  <2> QED
    BY <1>0, <2>1, <2>2 DEF IrNewest, IrPrev
<1>3. CASE IrEnded
  <2>1. UNCHANGED <<irFetch, irReady, irBuf>> /\ ~irAtti' /\ irAtti /\ irFetch \in 0 .. IR!End - 1
    BY <1>0, <1>3 DEF IrEnded, IrPlaces
  <2>2. \A k \in 0 .. IR!End - 1 : irBuf[k].p <= irPkt'
    BY <1>0, <1>01 DEF IrNewest
  <2>3. irBuf[IrPrev(irFetch)].p <= irBuf[IrPrev(irStore')].p
    <3>0. irBuf[IrPrev(irFetch)].p \in Nat
      BY <2>1, <1>00, <1>01
    <3>1. CASE irStore' = irFetch
      BY <3>0, <3>1
    <3>2. CASE irStore' = irStore /\ irStore # irFetch
      BY <3>2, <2>1, <1>00 DEF IrNewest
    <3> QED
      BY <1>3, <3>1, <3>2 DEF IrEnded
  <2> QED
    BY <1>0, <2>1, <2>2, <2>3 DEF IrNewest, IrPrev
<1>4. CASE IrTaken
  <2>1. /\ irAtti /\ irAtti' = irAtti /\ irFetch' = irFetch /\ irFetch \in 0 .. IR!End - 1
    BY <1>0, <1>4 DEF IrTaken, IrPlaces
  <2>2. \A k \in 0 .. IR!End - 1 :
          /\ irBuf'[k].p = IF k = irStore THEN irPkt ELSE irBuf[k].p
          /\ irBuf'[k].p <= irPkt
          /\ irBuf[k].p <= irBuf'[k].p
    BY <1>0, <1>01, <1>4, IrPut DEF IrNewest
  <2>3. \A k \in 0 .. IR!End - 1 : irBuf'[k].p <= irPkt' /\ irBuf'[k].p \in Nat
    BY <1>0, <1>01, <2>2
  <2>4. irGot # IR!None => irGot[IrSize].p <= irBuf'[IrPrev(irFetch)].p
    <3>1. IrPrev(irFetch) \in 0 .. IR!End - 1
      BY <2>1, <1>00
    <3> QED
      BY <3>1, <2>2, <2>3, <1>01, <1>02 DEF IrNewest
  <2>5. IrPrev(irStore') = irStore
    BY <1>0, <1>4 DEF IrTaken, IrPrev
  <2>6. \A k \in 0 .. IR!End - 1 : irBuf'[k].p <= irBuf'[irStore].p
    BY <1>0, <2>2
  <2>7. IrPrev(irStore)' = irStore /\ IrPrev(irFetch)' = IrPrev(irFetch)
    BY <1>0, <2>1, <2>5 DEF IrPrev
  <2> QED
    BY <1>0, <2>1, <2>3, <2>4, <2>6, <2>7 DEF IrNewest
<1> QED
  BY <1>1, <1>2, <1>3, <1>4, IrOutcomes

(* A record that lies elsewhere, and one whose frames are known.           *)
LEMMA IrElsewhere ==
  ASSUME NEW r \in 0 .. IrNum - 1, NEW q \in 0 .. IrNum - 1, r # q,
         NEW c \in 0 .. IrSize - 1, NEW i \in 1 .. IrSize
  PROVE  /\ r * IrSize + i - 1 # q * IrSize + c
         /\ r * IrSize + i - 1 \in 0 .. IR!End - 1
<1> USE IrAssumption
<1>1. /\ r * IrSize \in 0 .. IR!End - IrSize /\ q * IrSize \in Nat /\ IR!End \in Nat
      /\ r * IrSize + IrSize <= q * IrSize \/ q * IrSize + IrSize <= r * IrSize
  BY Starts
<1> QED
  BY <1>1

LEMMA IrWholeOf ==
  ASSUME NEW x, NEW p, \A i \in 1 .. IrSize : irBuf[x + i - 1] = [p |-> p, at |-> i]
  PROVE  IR!Whole(IR!Record(x))
<1>1. 1 \in 1 .. IrSize
  BY IrAssumption
<1>2. \A i \in 1 .. IrSize : IR!Record(x)[i] = [p |-> p, at |-> i]
  BY DEF IR!Record
<1>3. IR!Record(x)[1].p = p
  <2>1. IR!Record(x)[1] = [p |-> p, at |-> 1]
    BY <1>1, <1>2, Zenon
  <2> QED
    BY <2>1
<1> QED
  BY <1>2, <1>3 DEF IR!Whole

LEMMA IrEndedGood ==
  ASSUME IrTyped, IrPlaces, IrFilled, IrGood, IR!Recv, IrEnded PROVE IrGood'
<1> USE IrAssumption
<1>0. /\ irStore \in 0 .. IR!End - 1 /\ IR!End \in Nat
      /\ irFetch' = irFetch /\ irBuf' = irBuf /\ irReady' = irReady /\ ~irAtti' /\ irAtti
      /\ irGot' = irGot
  BY IrFields, IrOutcomes DEF IrEnded
<1>1. PICK q \in 0 .. IrNum - 1 : irFetch = q * IrSize
  BY <1>0 DEF IrPlaces, IrStart
<1>2. irFetch \in 0 .. IR!End - IrSize
  BY <1>1, Starts
<1>3. /\ \A r : IR!Record(r)' = IR!Record(r)
      /\ \A r : IR!Whole(r)' = IR!Whole(r)
  BY <1>0 DEF IR!Record, IR!Whole
<1>4. ASSUME NEW r \in 0 .. IrNum - 1,
             irReady \/ r * IrSize + IrSize <= irStore',
             r * IrSize # irFetch \/ irStore' # irFetch
      PROVE  IR!Whole(IR!Record(r * IrSize))
  <2>0. r * IrSize \in Nat
    BY Starts
  <2>1. CASE irStore' = irFetch
    <3>1. irReady \/ r * IrSize + IrSize <= irStore
      BY <1>0, <1>2, <1>4, <2>0, <2>1 DEF IrFilled
    <3> QED
      BY <1>4, <2>1, <3>1 DEF IrGood, IrWholeOnes
  <2>2. CASE irStore' # irFetch
    <3>1. /\ irStore' = irStore /\ irStore # irFetch /\ irKind = "atti"
          /\ irStore % IrSize = 0 /\ irPlace = IrSize + 1
      BY <2>2 DEF IrEnded, IR!IsTail, IR!Last
    <3>2. PICK c \in 0 .. IrSize :
            /\ irStore = IF irFetch + c = IR!End THEN 0 ELSE irFetch + c
            /\ c = irPlace - 1 =>
                 \A i \in 1 .. c : irBuf[irFetch + i - 1] = [p |-> irPkt, at |-> i]
      BY <1>0, <3>1 DEF IrGood, IrInPacket
    <3>3. c = IrSize
      <4> SUFFICES ASSUME c # IrSize PROVE FALSE
        OBVIOUS
      <4>1. irStore = q * IrSize + c /\ c \in 1 .. IrSize - 1
        BY <1>0, <1>1, <1>2, <3>1, <3>2
      <4> QED
        BY <1>0, <3>1, <4>1, Remainders
    <3>4. IR!Whole(IR!Record(irFetch))
      <4>1. \A i \in 1 .. IrSize : irBuf[irFetch + i - 1] = [p |-> irPkt, at |-> i]
        BY <3>1, <3>2, <3>3
      <4> QED
        BY <4>1, IrWholeOf
    <3>5. CASE r * IrSize = irFetch
      BY <3>4, <3>5
    <3>6. CASE r * IrSize # irFetch
      BY <1>4, <3>1, <3>6 DEF IrGood, IrWholeOnes
    <3> QED
      BY <3>5, <3>6
  <2> QED
    BY <2>1, <2>2
<1>5. IrWholeOnes'
  <2> SUFFICES ASSUME NEW r \in 0 .. IrNum - 1,
                      irReady' \/ r * IrSize + IrSize <= irStore',
                      r * IrSize # irFetch' \/ (~irAtti' /\ irStore' # irFetch')
               PROVE  IR!Whole(IR!Record(r * IrSize))'
    BY DEF IrWholeOnes
  <2>1. IR!Whole(IR!Record(r * IrSize))
    BY <1>0, <1>4
  <2> QED
    BY <1>0, <2>1 DEF IR!Whole, IR!Record
<1> QED
  BY <1>0, <1>3, <1>5 DEF IrGood

LEMMA IrTakenGood ==
  ASSUME IrTyped, IrPlaces, IrFilled, IrGood, IR!Recv, IrTaken PROVE IrGood'
<1> USE IrAssumption
<1>0. /\ irStore \in 0 .. IR!End - 1 /\ IR!End \in Nat /\ IR!End' = IR!End
      /\ irPlace \in 1 .. IrSize /\ irKind = "atti"
      /\ irFetch' = irFetch /\ irAtti' = irAtti /\ irAtti /\ irGot' = irGot
      /\ irReady \in BOOLEAN
  BY IrFields, IrOutcomes DEF IrTaken, IR!End
<1>1. PICK q \in 0 .. IrNum - 1 : irFetch = q * IrSize
  BY <1>0 DEF IrPlaces, IrStart
<1>2. irFetch \in 0 .. IR!End - IrSize /\ (irFetch = IR!End - IrSize => q = IrNum - 1)
  BY <1>1, Starts
<1>3. PICK c \in 0 .. IrSize :
        /\ irStore = IF irFetch + c = IR!End THEN 0 ELSE irFetch + c
        /\ c < irPlace
        /\ c = irPlace - 1 =>
             \A i \in 1 .. c : irBuf[irFetch + i - 1] = [p |-> irPkt, at |-> i]
  BY <1>0 DEF IrGood, IrInPacket
<1>4. c \in 0 .. IrSize - 1 /\ irStore = irFetch + c
  BY <1>0, <1>2, <1>3
<1>5. irPlace' = irPlace + 1 /\ irPkt' = irPkt /\ irKind' = irKind
  BY <1>0, IrOutcomes DEF IR!Sent, IR!Last
<1>6. irStore' = IF irFetch + c + 1 = IR!End THEN 0 ELSE irFetch + c + 1
  BY <1>0, <1>4 DEF IrTaken
<1>7. IrInPacket'
  <2> DEFINE d == c + 1
  <2>1. d \in 0 .. IrSize /\ d < irPlace' /\ irKind' = "atti"
    BY <1>0, <1>3, <1>4, <1>5
  <2>2. irStore' = IF irFetch' + d = IR!End' THEN 0 ELSE irFetch' + d
    BY <1>0, <1>2, <1>4, <1>6
  <2>3. ASSUME d = irPlace' - 1, NEW i \in 1 .. d
        PROVE  irBuf'[irFetch' + i - 1] = [p |-> irPkt', at |-> i]
    <3>0. c = irPlace - 1
      BY <1>0, <1>4, <1>5, <2>3
    <3>1. CASE i = d
      <4>1. irFetch' + i - 1 = irStore /\ i = irPlace
        BY <1>0, <1>2, <1>4, <3>0, <3>1
      <4> QED
        BY <4>1, <1>5, IrPut
    <3>2. CASE i # d
      <4>1. /\ i \in 1 .. c /\ irFetch + i - 1 \in 0 .. IR!End - 1
            /\ irFetch + i - 1 # irStore
        BY <1>0, <1>2, <1>4, <2>3, <3>2
      <4>2. irBuf'[irFetch + i - 1] = irBuf[irFetch + i - 1]
        BY <4>1, IrPut
      <4> QED
        BY <1>0, <1>3, <1>5, <3>0, <4>1, <4>2
    <3> QED
      BY <3>1, <3>2
  <2> HIDE DEF d
  <2> QED
    BY <2>1, <2>2, <2>3 DEF IrInPacket
<1>8. IrWholeOnes'
  <2> SUFFICES ASSUME NEW r \in 0 .. IrNum - 1,
                      irReady' \/ r * IrSize + IrSize <= irStore',
                      r * IrSize # irFetch
               PROVE  IR!Whole(IR!Record(r * IrSize))'
    BY <1>0 DEF IrWholeOnes
  <2>0. r # q /\ r * IrSize \in 0 .. IR!End - IrSize
    BY <1>1, Starts
  <2>1. \/ r < q /\ r * IrSize + IrSize <= irFetch
        \/ q < r /\ irFetch + IrSize <= r * IrSize
    BY <1>1, <2>0, Starts
  <2>2. irReady \/ r * IrSize + IrSize <= irStore
    <3>1. CASE r < q
      BY <1>0, <1>2, <1>4, <2>0, <2>1, <3>1
    <3>2. CASE q < r
      <4>1. irFetch + IrSize <= r * IrSize
        BY <2>1, <3>2
      <4>2. irStore + 1 < IR!End /\ irStore' = irStore + 1
        BY <1>0, <1>2, <1>4, <1>6, <2>0, <4>1
      <4>3. irReady' = irReady
        BY <1>0, <4>2, IrTaken DEF IrTaken
      <4>4. ~(r * IrSize + IrSize <= irStore')
        BY <1>2, <1>4, <2>0, <4>1, <4>2
      <4> QED
        BY <4>3, <4>4
    <3> QED
      BY <2>0, <2>1, <3>1, <3>2
  <2>3. IR!Whole(IR!Record(r * IrSize))
    BY <2>0, <2>2 DEF IrGood, IrWholeOnes
  <2>4. \A i \in 1 .. IrSize : irBuf'[r * IrSize + i - 1] = irBuf[r * IrSize + i - 1]
    <3> SUFFICES ASSUME NEW i \in 1 .. IrSize
                 PROVE  irBuf'[r * IrSize + i - 1] = irBuf[r * IrSize + i - 1]
      OBVIOUS
    <3>1. /\ r * IrSize + i - 1 # q * IrSize + c
          /\ r * IrSize + i - 1 \in 0 .. IR!End - 1
      BY <1>4, <2>0, IrElsewhere
    <3> QED
      BY <3>1, <1>1, <1>4, IrPut
  <2>5. IR!Record(r * IrSize)' = IR!Record(r * IrSize)
    BY <2>4 DEF IR!Record
  <2> QED
    BY <2>3, <2>5 DEF IR!Whole
<1> QED
  BY <1>0, <1>7, <1>8 DEF IrGood, IR!Whole

LEMMA IrBeginGood ==
  ASSUME IrTyped, IrPlaces, IrGood, IR!Recv, IR!Begin PROVE IrGood'
<1> USE IrAssumption
<1>0. /\ irStore \in 0 .. IR!End - 1 /\ IR!End \in Nat /\ IR!End' = IR!End
      /\ irFetch' = irStore /\ irAtti' = TRUE /\ ~irAtti /\ irGot' = irGot
      /\ UNCHANGED <<irStore, irReady, irBuf>> /\ irPlace = 0 /\ irKind = "atti"
  BY IrFields, IrOutcomes DEF IR!Begin, IR!IsHead, IR!End
<1>1. irPlace' = 1 /\ irKind' = "atti"
  BY <1>0, IrOutcomes DEF IR!Sent, IR!Last
<1>2. IrInPacket'
  <2>1. /\ 0 \in 0 .. IrSize /\ 0 < irPlace'
        /\ irStore' = IF irFetch' + 0 = IR!End' THEN 0 ELSE irFetch' + 0
        /\ \A i \in 1 .. 0 : irBuf'[irFetch' + i - 1] = [p |-> irPkt', at |-> i]
    BY <1>0, <1>1
  <2> QED
    BY <1>1, <2>1 DEF IrInPacket
<1>3. IrWholeOnes'
  <2> SUFFICES ASSUME NEW r \in 0 .. IrNum - 1,
                      irReady \/ r * IrSize + IrSize <= irStore,
                      r * IrSize # irStore
               PROVE  IR!Whole(IR!Record(r * IrSize))'
    BY <1>0 DEF IrWholeOnes
  <2>1. IR!Whole(IR!Record(r * IrSize))
    BY <1>0 DEF IrGood, IrWholeOnes
  <2> QED
    BY <1>0, <2>1 DEF IR!Whole, IR!Record
<1> QED
  BY <1>0, <1>2, <1>3 DEF IrGood, IR!Whole

(* A step that leaves the ring as it is.                                   *)
LEMMA IrSameRing ==
  ASSUME UNCHANGED <<irFetch, irStore, irBuf, irReady, irAtti>>, IrWholeOnes
  PROVE  IrWholeOnes'
  BY DEF IrWholeOnes, IR!Whole, IR!Record

LEMMA IrRecvGood ==
  ASSUME IrTyped, IrPlaces, IrFilled, (HeadLost /\ TailLost) \/ IrGood, IR!Recv
  PROVE  ((HeadLost /\ TailLost) \/ IrGood)'
<1>1. irLost' = irLost /\ irGot' = irGot
  BY IrOutcomes
<1>2. HeadLost' = HeadLost /\ TailLost' = TailLost
  BY <1>1 DEF HeadLost, TailLost
<1>3. ASSUME IrGood PROVE IrGood'
  <2>1. CASE IR!Begin
    BY <1>3, <2>1, IrBeginGood
  <2>2. CASE IR!Ignore
    <3>1. ~irAtti' /\ UNCHANGED <<irFetch, irStore, irBuf, irReady, irAtti>>
      BY <2>2 DEF IR!Ignore
    <3> QED
      BY <1>1, <1>3, <3>1, IrSameRing DEF IrGood, IR!Whole
  <2>3. CASE IrEnded
    BY <1>3, <2>3, IrEndedGood
  <2>4. CASE IrTaken
    BY <1>3, <2>4, IrTakenGood
  <2> QED
    BY <2>1, <2>2, <2>3, <2>4, IrOutcomes
<1> QED
  BY <1>2, <1>3

LEMMA IrLoseGood ==
  ASSUME IrTyped, IrPlaces, (HeadLost /\ TailLost) \/ IrGood, IR!Lose
  PROVE  ((HeadLost /\ TailLost) \/ IrGood)'
<1> USE IrAssumption
<1>0. /\ irLost' = irLost \cup {[p |-> irPkt, at |-> irPlace]}
      /\ UNCHANGED <<irAtti, irFetch, irStore, irBuf, irReady, irGot>> /\ IR!End' = IR!End
      /\ irPlace \in 0 .. IR!Last
  BY IrLoseFacts, IrFields DEF IR!End
<1>1. (HeadLost => HeadLost') /\ (TailLost => TailLost')
  BY <1>0 DEF HeadLost, TailLost
<1> DEFINE l == [p |-> irPkt, at |-> irPlace]
<1>a. l \in irLost' /\ l.at = irPlace
  BY <1>0
<1> HIDE DEF l
<1>2. irPlace = 0 => HeadLost'
  BY <1>a DEF HeadLost
<1>3. irPlace = IrSize + 1 => TailLost'
  BY <1>a DEF TailLost
<1>4. ASSUME IrGood, ~(HeadLost' /\ TailLost') PROVE IrGood'
  <2>1. ASSUME irAtti PROVE IrInPacket'
    <3>1. PICK c \in 0 .. IrSize :
            /\ irStore = IF irFetch + c = IR!End THEN 0 ELSE irFetch + c
            /\ (irKind = "atti" /\ c < irPlace) \/ (irPlace = 0 /\ TailLost)
      BY <1>4, <2>1 DEF IrGood, IrInPacket
    <3>2. irKind = "atti" /\ c < irPlace
      BY <3>1, <1>1, <1>2, <1>4
    <3>3. CASE irPlace = IrSize + 1
      <4>1. irPlace' = 0 /\ TailLost'
        BY <3>2, <3>3, <1>3, IrLoseFacts DEF IR!Sent, IR!Last
      <4> QED
        BY <1>0, <3>1, <4>1 DEF IrInPacket
    <3>4. CASE irPlace # IrSize + 1
      <4>1. irPlace' = irPlace + 1 /\ irKind' = irKind
        BY <1>0, <3>2, <3>4, IrLoseFacts DEF IR!Sent, IR!Last
      <4>2. c < irPlace' /\ c # irPlace' - 1
        BY <1>0, <3>2, <4>1 DEF IR!Last
      <4> QED
        BY <1>0, <3>1, <3>2, <4>1, <4>2 DEF IrInPacket
    <3> QED
      BY <3>3, <3>4
  <2> QED
    BY <1>0, <1>4, <2>1, IrSameRing DEF IrGood, IR!Whole
<1> QED
  BY <1>1, <1>4

LEMMA IrGetGood ==
  ASSUME IrTyped, IrPlaces, IrFilled, IrGood, IR!Get PROVE IrGood'
<1>1. /\ ~irAtti
      /\ irGot' = IF irReady THEN IR!Record(IR!GetPos) ELSE irGot
      /\ UNCHANGED <<irAtti, irFetch, irStore, irBuf, irReady>>
  BY IrGetFacts
<1>2. ASSUME irGot' # IR!None PROVE IR!Whole(irGot')
  <2>1. CASE irReady
    <3>1. irFetch # -1
      BY <2>1 DEF IrFilled
    <3>2. PICK r \in 0 .. IrNum - 1 : r * IrSize = IR!GetPos /\ r * IrSize # irFetch
      BY <3>1, IrBefore
    <3> QED
      BY <1>1, <2>1, <3>2 DEF IrGood, IrWholeOnes
  <2>2. CASE ~irReady
    BY <1>1, <1>2, <2>2 DEF IrGood
  <2> QED
    BY <2>1, <2>2
<1> QED
  BY <1>1, <1>2, IrSameRing DEF IrGood, IR!Whole

LEMMA IrGetFilled ==
  ASSUME IrTyped, IrPlaces, IrFilled, IR!NeverUnfilled, IR!Get PROVE IR!NeverUnfilled'
<1> USE IrAssumption
<1>1. CASE irReady
  <2>1. irFetch # -1 /\ IR!End \in Nat
    BY <1>1, IrFields DEF IrFilled
  <2>2. IR!GetPos \in 0 .. IR!End - IrSize
    BY <2>1, IrBefore
  <2>3. \A i \in 1 .. IrSize : IR!GetPos + i - 1 \in 0 .. IR!End - 1
    BY <2>1, <2>2
  <2>4. \A i \in 1 .. IrSize : irGot'[i] # IR!NoFrame
    BY <1>1, <2>3, IrGetFacts DEF IR!Record, IrFilled
  <2> QED
    BY <2>4 DEF IR!NeverUnfilled, IR!NoFrame
<1>2. CASE ~irReady
  BY <1>2, IrGetFacts DEF IR!NeverUnfilled
<1> QED
  BY <1>1, <1>2

LEMMA IrGetNewest ==
  ASSUME IrTyped, IrPlaces, IrFilled, IrNewest, IR!Get
  PROVE  IrNewest' /\ (irGot # IR!None => irGot'[IrSize].p >= irGot[IrSize].p)
<1> USE IrAssumption
<1>1. /\ ~irAtti
      /\ irGot' = IF irReady THEN IR!Record(IR!GetPos) ELSE irGot
      /\ UNCHANGED <<irPkt, irAtti, irFetch, irStore, irBuf, irReady>>
  BY IrGetFacts
<1>2. IR!End \in Nat /\ IR!End' = IR!End /\ IR!End > 1
      /\ irFetch \in -1 .. IR!End - 1 /\ irBuf \in [0 .. IR!End - 1 -> IR!Frames]
  BY IrFields DEF IR!End
<1>3. ASSUME irReady PROVE irGot'[IrSize].p = irBuf[IrPrev(irFetch)].p
  <2>1. irFetch # -1
    BY <1>3 DEF IrFilled
  <2>2. IR!GetPos + IrSize - 1 = IrPrev(irFetch)
    BY <2>1, IrBefore
  <2>3. irGot'[IrSize] = irBuf[IR!GetPos + IrSize - 1]
    BY <1>1, <1>3 DEF IR!Record
  <2> QED
    BY <2>2, <2>3
<1>4. irGot' # IR!None => irGot'[IrSize].p <= irBuf[IrPrev(irFetch)].p
  <2>1. CASE irReady
    <3>1. IrPrev(irFetch) \in 0 .. IR!End - 1
      BY <1>2, <2>1 DEF IrPrev, IrFilled
    <3>2. irBuf[IrPrev(irFetch)].p \in Nat
      BY <1>2, <3>1 DEF IR!Frames
    <3> QED
      BY <1>3, <2>1, <3>2
  <2>2. CASE ~irReady
    BY <1>1, <2>2 DEF IrNewest
  <2> QED
    BY <2>1, <2>2
<1>5. IrNewest'
  BY <1>1, <1>2, <1>4 DEF IrNewest, IrPrev
<1>6. irGot # IR!None => irGot'[IrSize].p >= irGot[IrSize].p
  <2> SUFFICES ASSUME irGot # IR!None PROVE irGot'[IrSize].p >= irGot[IrSize].p
    OBVIOUS
  <2>1. irReady
    BY DEF IrFilled
  <2>2. irGot[IrSize].p <= irBuf[IrPrev(irFetch)].p
    BY DEF IrNewest
  <2>3. irGot'[IrSize].p = irBuf[IrPrev(irFetch)].p
    BY <1>3, <2>1
  <2>4. irBuf[IrPrev(irFetch)].p \in Nat /\ irGot[IrSize].p \in Nat
    <3>1. IrPrev(irFetch) \in 0 .. IR!End - 1
      BY <1>2, <2>1 DEF IrPrev, IrFilled
    <3>2. irGot \in [1 .. IrSize -> IR!Frames] /\ IrSize \in 1 .. IrSize
      BY IrFields
    <3>3. irGot[IrSize] \in IR!Frames
      BY <3>2
    <3>4. irBuf[IrPrev(irFetch)].p \in Nat
      BY <1>2, <2>1, <3>1 DEF IR!Frames, IrFilled
    <3> QED
      BY <3>3, <3>4 DEF IR!Frames
  <2> QED
    BY <2>2, <2>3, <2>4
<1> QED
  BY <1>5, <1>6

LEMMA IrStep == IrInv /\ [IR!Next]_(IR!vars) => IrInv'
<1> SUFFICES ASSUME IrInv, [IR!Next]_(IR!vars) PROVE IrInv'
  OBVIOUS
<1> USE DEF IrInv
<1>1. CASE IR!Recv
  <2>1. IR!NeverUnfilled'
    <3>1. irGot' = irGot
      BY <1>1, IrOutcomes
    <3> QED
      BY <3>1 DEF IR!NeverUnfilled
  <2> QED
    BY <1>1, <2>1, IrRecvTypes, IrRecvPlaces, IrRecvFilled, IrRecvNewest, IrRecvGood
<1>2. CASE IR!Lose
  <2>1. UNCHANGED <<irAtti, irLock, irFetch, irStore, irBuf, irReady, irGot>>
    BY <1>2, IrLoseFacts
  <2>2. IrPlaces' /\ IrFilled' /\ IR!NeverUnfilled'
    BY <2>1 DEF IrPlaces, IrStart, IrFilled, IR!NeverUnfilled, IR!End
  <2>3. IrNewest'
    <3>1. irPkt \in Nat /\ irPkt' \in Nat /\ irPkt <= irPkt'
      BY <1>2, IrLoseFacts, IrSent, IrFields
    <3>2. irBuf \in [0 .. IR!End - 1 -> IR!Frames]
      BY IrFields
    <3>3. \A k \in 0 .. IR!End - 1 : irBuf[k].p \in Nat
      BY <3>2 DEF IR!Frames
    <3>4. \A k \in 0 .. IR!End - 1 : irBuf[k].p <= irPkt'
      BY <3>1, <3>3 DEF IrNewest
    <3> QED
      BY <2>1, <3>4 DEF IrNewest, IrPrev, IR!End
  <2> QED
    BY <1>2, <2>2, <2>3, IrLoseTypes, IrLoseGood
<1>3. CASE IR!Get
  <2>1. UNCHANGED <<irAtti, irFetch, irStore, irBuf, irReady, irLost>>
    BY <1>3, IrGetFacts
  <2>2. IrPlaces'
    BY <2>1 DEF IrPlaces, IrStart
  <2>3. IrFilled'
    <3>1. irGot' # IR!None => irReady
      BY <1>3, IrGetFacts DEF IrFilled
    <3> QED
      BY <2>1, <3>1 DEF IrFilled, IR!End
  <2>4. ((HeadLost /\ TailLost) \/ IrGood)'
    BY <1>3, <2>1, IrGetGood DEF HeadLost, TailLost
  <2> QED
    BY <1>3, <2>2, <2>3, <2>4, IrGetTypes, IrGetFilled, IrGetNewest
<1>4. CASE IR!Return \/ IR!CallGet \/ UNCHANGED IR!vars
  <2>1. /\ UNCHANGED <<irPkt, irKind, irPlace, irLost, irAtti, irLock, irFetch, irStore,
                       irBuf, irReady, irGot>>
        /\ irGone' \in BOOLEAN /\ irWant' \in BOOLEAN
    BY <1>4, IrFields DEF IR!Return, IR!CallGet, IR!vars, IR!busVars, IR!recvVars, IR!getVars
  <2>2. IrTyped'
    <3>1. IR!Last' = IR!Last
      BY <2>1 DEF IR!Last
    <3> QED
      BY <2>1, <3>1 DEF IrTyped, IR!TypeOK
  <2>3. IrPlaces' /\ IrFilled' /\ IR!NeverUnfilled' /\ IrNewest'
    BY <2>1 DEF IrPlaces, IrStart, IrFilled, IR!NeverUnfilled, IrNewest, IrPrev, IR!End
  <2>4. ((HeadLost /\ TailLost) \/ IrGood)'
    BY <2>1 DEF HeadLost, TailLost, IrGood, IrWholeOnes, IrInPacket, IR!Whole, IR!Record, IR!End
  <2> QED
    BY <2>2, <2>3, <2>4
<1> QED
  BY <1>1, <1>2, <1>3, <1>4 DEF IR!Next

(* What GetIMU returns next is no older.                                   *)
LEMMA IrStepForward ==
  ASSUME IrInv, [IR!Next]_(IR!vars)
  PROVE  [irGot # IR!None => irGot'[IrSize].p >= irGot[IrSize].p]_irGot
<1> USE DEF IrInv
<1>1. CASE IR!Recv
  BY <1>1, IrOutcomes
<1>2. CASE IR!Lose
  BY <1>2, IrLoseFacts
<1>3. CASE IR!Get
  BY <1>3, IrGetNewest
<1>4. CASE IR!Return \/ IR!CallGet \/ UNCHANGED IR!vars
  BY <1>4 DEF IR!Return, IR!CallGet, IR!vars, IR!getVars
<1> QED
  BY <1>1, <1>2, <1>3, <1>4 DEF IR!Next

LEMMA ImuHolds ==
  ImuBehaviour =>
    /\ [](/\ IR!TypeOK /\ IR!AtRecords
          /\ IR!NeverUnfilled /\ IR!MixedOnlyWithoutEnds)
    /\ IR!NeverBack
<1>1. ASSUME IrInv PROVE IR!AtRecords
  <2>1. irFetch \in Int /\ irStore \in Int
    BY <1>1, IrFields DEF IrInv
  <2>2. \A x \in Int : IrStart(x) => x % IrSize = 0
    BY IrAssumption, Remainders DEF IrStart
  <2> QED
    BY <1>1, <2>1, <2>2 DEF IrInv, IrPlaces, IR!AtRecords
<1>2. IrInv => IR!MixedOnlyWithoutEnds
  BY DEF IrInv, IrGood, HeadLost, TailLost, IR!MixedOnlyWithoutEnds
<1>3. IrInv => IR!TypeOK /\ IR!NeverUnfilled
  BY DEF IrInv, IrTyped
<1>4. IrInv /\ [IR!Next]_(IR!vars) =>
        [irGot # IR!None => irGot'[IrSize].p >= irGot[IrSize].p]_irGot
  BY IrStepForward
<1> QED
  BY <1>1, <1>2, <1>3, <1>4, IrInit, IrStep, PTL DEF ImuBehaviour, IR!NeverBack
-----------------------------------------------------------------------------
(***************************************************************************)
(* CanWire: a packet on the CAN bus, byte by byte.                         *)
(***************************************************************************)
CwBehaviour == CW!Init /\ [][CW!Next]_(CW!vars)

LEMMA CwImplemented == ReadersSpec => CwBehaviour
<1>1. ReadersInit => CW!Init
  BY DEF ReadersInit
<1>2. [ReadersNext]_ReaderVars => [CW!Next]_(CW!vars)
  BY DEF ReadersNext, ReaderVars, cwVars, CW!vars, CW!sender
<1> QED
  BY <1>1, <1>2, PTL DEF ReadersSpec, CwBehaviour

LEMMA ByteIs == CW!Byte \subseteq Nat /\ 0 \in CW!Byte
  BY DEF CW!Byte

LEMMA CwAssumption ==
  /\ CwIds \subseteq {146, 904}
  /\ CwCmd \in Nat /\ CwBufSize \in Nat /\ CwBufSize >= 8
  /\ \A c \in CwContents : /\ c \in Seq(CW!Byte) /\ Len(c) + 8 <= CwBufSize
                           /\ CW!Packet(c) \in Seq(CW!Byte)
  /\ \A b \in CW!Byte, bit \in CwBits : XorByte(b, 2^bit) \in CW!Byte
<1>1. CW!CanWireAssumption
  BY ReadersAssumption
<1> QED
  BY <1>1 DEF CW!CanWireAssumption

(* The first four bytes, and the sum that is tested in them.               *)
LEMMA HeadIs ==
  ASSUME NEW a \in Nat, NEW b \in Nat, NEW S, Nat \subseteq S,
         Crc8(<<85, a, b>>) \in S
  PROVE  LET h == CW!Append_CRC8_Check_Sum(<<85, a, b, 0>>)
         IN  /\ h \in Seq(S) /\ Len(h) = 4
             /\ h[1] = 85 /\ h[2] = a /\ h[3] = b /\ h[4] = Crc8(<<85, a, b>>)
<1> DEFINE raw == <<85, a, b, 0>>
           start == <<85, a, b>>
           cut == SubSeq(raw, 1, 3)
           sum == Crc8(start)
<1>1. /\ raw \in Seq(Nat) /\ Len(raw) = 4 /\ start \in Seq(S) /\ Len(start) = 3
      /\ start \in Seq(Nat) /\ sum \in S /\ \A i \in 1 .. 3 : raw[i] \in Nat
      /\ start[1] = 85 /\ start[2] = a /\ start[3] = b
      /\ \A i \in 1 .. 3 : raw[i] = start[i]
  OBVIOUS
<1> HIDE DEF raw, start, sum
<1>2. cut \in Seq(Nat) /\ Len(cut) = 3 /\ \A i \in 1 .. 3 : cut[i] = raw[i]
  BY <1>1, SubSeqProperties
<1>3. cut = start
  <2> HIDE DEF cut
  <2>1. Len(cut) = Len(start) /\ \A i \in 1 .. Len(cut) : cut[i] = start[i]
    BY <1>1, <1>2
  <2> QED
    BY <2>1, <1>1, <1>2, SeqEqual
<1>4. CW!Append_CRC8_Check_Sum(raw) = Append(start, sum)
  <2>1. Len(raw) > 2 /\ Len(raw) - 1 = 3
    BY <1>1
  <2>2. CW!But(raw, 1) = start
    BY <2>1, <1>3 DEF CW!But
  <2> QED
    BY <2>1, <2>2 DEF CW!Append_CRC8_Check_Sum, sum
<1>5. /\ Append(start, sum) \in Seq(S) /\ Len(Append(start, sum)) = 4
      /\ \A i \in 1 .. 3 : Append(start, sum)[i] = start[i]
      /\ Append(start, sum)[4] = sum
  <2>1. start \in Seq(S) /\ sum \in S
    BY <1>1
  <2>2. /\ Append(start, sum) \in Seq(S)
        /\ Len(Append(start, sum)) = Len(start) + 1
        /\ \A i \in 1 .. Len(start) : Append(start, sum)[i] = start[i]
        /\ Append(start, sum)[Len(start) + 1] = sum
    BY <2>1, AppendProperties
  <2> QED
    BY <2>2, <1>1
<1> QED
  <2>1. /\ Append(start, sum)[1] = 85 /\ Append(start, sum)[2] = a
        /\ Append(start, sum)[3] = b
    BY <1>1, <1>5
  <2>2. /\ CW!Append_CRC8_Check_Sum(<<85, a, b, 0>>) = Append(start, sum)
        /\ sum = Crc8(<<85, a, b>>)
    BY <1>4 DEF raw, start, sum
  <2> HIDE DEF start
  <2> QED
    BY <2>1, <2>2, <1>5

LEMMA FrontIs ==
  ASSUME NEW S, NEW s \in Seq(S), NEW t \in Seq(S)
  PROVE  SubSeq(s \o t, 1, Len(s)) = s
<1> DEFINE u == s \o t
           f == SubSeq(u, 1, Len(s))
<1>0. Len(s) \in Nat /\ Len(t) \in Nat /\ \A i \in 1 .. Len(s) : s[i] \in S
  BY LenProperties, ElementOfSeq
<1>1. \A i \in 1 .. Len(s) + Len(t) : u[i] = IF i <= Len(s) THEN s[i] ELSE t[i - Len(s)]
  BY ConcatProperties
<1> HIDE DEF u
<1>2. \A i \in 1 .. Len(s) : u[i] = s[i] /\ u[i] \in S
  BY <1>0, <1>1
<1>3. f \in Seq(S) /\ Len(f) = Len(s) /\ \A i \in 1 .. Len(s) : f[i] = u[i]
  <2>1. /\ f \in Seq(S)
        /\ Len(f) = IF 1 <= Len(s) THEN Len(s) - 1 + 1 ELSE 0
        /\ \A i \in 1 .. Len(s) - 1 + 1 : f[i] = u[1 + i - 1]
    BY <1>0, <1>2, SubSeqProperties
  <2> QED
    BY <2>1, <1>0
<1> HIDE DEF f
<1>4. f = s
  BY <1>2, <1>3, SeqEqual
<1> QED
  BY <1>4 DEF f, u

(* The whole packet ends with the sum of what stands before it.            *)
LEMMA EndIs ==
  ASSUME NEW S, NEW s \in Seq(S), Nat \subseteq S, Len(s) > 0,
         Crc16(s) % 256 \in S, Crc16(s) \div 256 \in S
  PROVE  LET p == CW!Append_CRC16_Check_Sum(s \o <<0, 0>>)
         IN  /\ Len(p) = Len(s) + 2
             /\ \A i \in 1 .. Len(s) : p[i] = s[i]
             /\ SubSeq(p, 1, Len(s)) = s
             /\ <<p[Len(s) + 1], p[Len(s) + 2]>> = CW!LowHigh(Crc16(s))
<1> DEFINE zeros == <<0, 0>>
           raw == s \o zeros
           sum == CW!LowHigh(Crc16(s))
           p == s \o sum
<1>1. /\ zeros \in Seq(S) /\ Len(zeros) = 2
      /\ sum \in Seq(S) /\ Len(sum) = 2 /\ sum = <<sum[1], sum[2]>>
  <2>1. zeros \in Seq(S) /\ Len(zeros) = 2
    OBVIOUS
  <2>2. sum = <<Crc16(s) % 256, Crc16(s) \div 256>>
    BY DEF CW!LowHigh
  <2> HIDE DEF sum
  <2> QED
    BY <2>1, <2>2
<1> HIDE DEF zeros, sum
<1>2. Len(s) \in Nat /\ Len(raw) = Len(s) + 2
  <2>1. zeros \in Seq(S)
    BY <1>1
  <2>2. Len(raw) = Len(s) + Len(zeros)
    BY <2>1, ConcatProperties
  <2> QED
    BY <2>2, <1>1, LenProperties
<1>3. SubSeq(raw, 1, Len(s)) = s
  BY <1>1, FrontIs
<1> HIDE DEF raw
<1>4. Len(raw) > 2 /\ Len(raw) - 2 = Len(s)
  BY <1>2
<1>5. CW!But(raw, 2) = s
  BY <1>3, <1>4 DEF CW!But
<1>6. CW!Append_CRC16_Check_Sum(raw) = p
  BY <1>4, <1>5 DEF CW!Append_CRC16_Check_Sum, sum
<1>7. Len(p) = Len(s) + 2 /\ SubSeq(p, 1, Len(s)) = s
  BY <1>1, FrontIs, ConcatProperties
<1>8. \A i \in 1 .. Len(s) + 2 : p[i] = IF i <= Len(s) THEN s[i] ELSE sum[i - Len(s)]
  <2>1. \A i \in 1 .. Len(s) + Len(sum) : p[i] = IF i <= Len(s) THEN s[i] ELSE sum[i - Len(s)]
    BY <1>1, ConcatProperties
  <2> QED
    BY <2>1, <1>1
<1> HIDE DEF p
<1>9. /\ \A i \in 1 .. Len(s) : p[i] = s[i]
      /\ p[Len(s) + 1] = sum[1] /\ p[Len(s) + 2] = sum[2]
  <2>1. Len(s) + 1 - Len(s) = 1 /\ Len(s) + 2 - Len(s) = 2
    BY <1>2
  <2> QED
    BY <2>1, <1>2, <1>8
<1>10. <<p[Len(s) + 1], p[Len(s) + 2]>> = sum
  BY <1>1, <1>9
<1>11. CW!Append_CRC16_Check_Sum(s \o <<0, 0>>) = p
  BY <1>6 DEF raw, zeros
<1> QED
  BY <1>7, <1>9, <1>10, <1>11 DEF sum

CwSummed(p) ==
  CW!LowHigh(Crc16(SubSeq(p, 1, Len(p) - 2))) = <<p[Len(p) - 1], p[Len(p)]>>

CwIsPacket(p, c) ==
  /\ p \in Seq(CW!Byte) /\ Len(p) = Len(c) + 8
  /\ p[1] = 85 /\ p[2] = Len(p) % 256 /\ p[3] = Len(p) \div 256
  /\ p[4] = Crc8(<<p[1], p[2], p[3]>>)
  /\ p[5] = CwCmd % 256 /\ p[6] = CwCmd \div 256
  /\ \A k \in 1 .. Len(c) : p[6 + k] = c[k]
  /\ CwSummed(p)

LEMMA PacketIs ==
  ASSUME NEW c \in CwContents
  PROVE  CwIsPacket(CW!Packet(c), c)
<1> DEFINE n == Len(c) + 8
           a == n % 256
           b == n \div 256
           head == CW!Append_CRC8_Check_Sum(<<85, a, b, 0>>)
           cmd == CW!LowHigh(CwCmd)
           front == head \o cmd
           body == front \o c
           S == Nat \cup {Crc8(<<85, a, b>>), Crc16(body) % 256, Crc16(body) \div 256}
           p == CW!Append_CRC16_Check_Sum(body \o <<0, 0>>)
<1>1. /\ c \in Seq(CW!Byte) /\ CW!Packet(c) \in Seq(CW!Byte) /\ c \in Seq(Nat)
      /\ Len(c) \in Nat /\ CwCmd \in Nat
  <2>1. c \in Seq(CW!Byte) /\ CW!Packet(c) \in Seq(CW!Byte) /\ CwCmd \in Nat
    BY CwAssumption
  <2>2. c \in Seq(Nat)
    BY <2>1, ByteIs, SeqMonotonic
  <2> QED
    BY <2>1, <2>2, LenProperties
<1>2. CW!Packet(c) = p
  BY DEF CW!Packet
<1>3. a \in Nat /\ b \in Nat
  BY <1>1
<1>4. /\ Nat \subseteq S /\ Crc8(<<85, a, b>>) \in S
      /\ Crc16(body) % 256 \in S /\ Crc16(body) \div 256 \in S
  OBVIOUS
<1> HIDE DEF S, a, b
<1>5. /\ head \in Seq(S) /\ Len(head) = 4
      /\ head[1] = 85 /\ head[2] = a /\ head[3] = b /\ head[4] = Crc8(<<85, a, b>>)
  BY <1>3, <1>4, HeadIs
<1>6. /\ cmd \in Seq(S) /\ Len(cmd) = 2
      /\ cmd[1] = CwCmd % 256 /\ cmd[2] = CwCmd \div 256
  <2>1. CwCmd % 256 \in Nat /\ CwCmd \div 256 \in Nat
    BY <1>1
  <2> QED
    BY <2>1, <1>4 DEF CW!LowHigh
<1>7. c \in Seq(S)
  BY <1>1, <1>4
<1> HIDE DEF head, cmd
<1>8. /\ front \in Seq(S) /\ Len(front) = 6
      /\ \A i \in 1 .. 6 : front[i] = IF i <= 4 THEN head[i] ELSE cmd[i - 4]
  <2>1. head \in Seq(S) /\ cmd \in Seq(S)
    BY <1>5, <1>6
  <2>2. /\ front \in Seq(S) /\ Len(front) = Len(head) + Len(cmd)
        /\ \A i \in 1 .. Len(head) + Len(cmd) :
             front[i] = IF i <= Len(head) THEN head[i] ELSE cmd[i - Len(head)]
    BY <2>1, ConcatProperties
  <2> QED
    BY <2>2, <1>5, <1>6
<1> HIDE DEF front
<1>9. /\ body \in Seq(S) /\ Len(body) = 6 + Len(c)
      /\ \A i \in 1 .. 6 + Len(c) : body[i] = IF i <= 6 THEN front[i] ELSE c[i - 6]
  <2>1. front \in Seq(S)
    BY <1>8
  <2>2. /\ body \in Seq(S) /\ Len(body) = Len(front) + Len(c)
        /\ \A i \in 1 .. Len(front) + Len(c) :
             body[i] = IF i <= Len(front) THEN front[i] ELSE c[i - Len(front)]
    BY <2>1, <1>7, ConcatProperties
  <2> QED
    BY <2>2, <1>8
<1> HIDE DEF body
<1>10. /\ Len(p) = Len(body) + 2
       /\ \A i \in 1 .. Len(body) : p[i] = body[i]
       /\ SubSeq(p, 1, Len(body)) = body
       /\ <<p[Len(body) + 1], p[Len(body) + 2]>> = CW!LowHigh(Crc16(body))
  <2>1. Len(body) > 0
    BY <1>1, <1>9
  <2> QED
    BY <2>1, <1>4, <1>9, EndIs
<1> HIDE DEF p
<1>11. /\ p[1] = 85 /\ p[2] = a /\ p[3] = b /\ p[4] = Crc8(<<85, a, b>>)
       /\ p[5] = CwCmd % 256 /\ p[6] = CwCmd \div 256
  <2>1. \A i \in 1 .. 6 : p[i] = front[i]
    <3>1. \A i \in 1 .. 6 : i \in 1 .. 6 + Len(c) /\ i \in 1 .. Len(body)
      BY <1>1, <1>9
    <3>2. \A i \in 1 .. 6 : body[i] = front[i]
      BY <3>1, <1>9
    <3> QED
      BY <3>1, <3>2, <1>10
  <2>2. \A i \in 1 .. 4 : p[i] = head[i]
    BY <2>1, <1>8
  <2>3. p[5] = cmd[1] /\ p[6] = cmd[2]
    BY <2>1, <1>8
  <2> QED
    BY <2>2, <2>3, <1>5, <1>6
<1>12. \A k \in 1 .. Len(c) : p[6 + k] = c[k]
  <2> TAKE k \in 1 .. Len(c)
  <2>1. 6 + k \in 1 .. Len(body) /\ ~(6 + k <= 6) /\ 6 + k - 6 = k
    BY <1>1, <1>9
  <2> QED
    BY <2>1, <1>9, <1>10
<1>13. Len(p) = n /\ Len(body) = n - 2 /\ Len(body) + 1 = n - 1 /\ Len(body) + 2 = n
  BY <1>1, <1>9, <1>10
<1>14. CwSummed(p)
  <2>1. Len(p) - 2 = Len(body) /\ Len(p) - 1 = Len(body) + 1 /\ Len(p) = Len(body) + 2
    BY <1>1, <1>9, <1>10
  <2>2. <<p[Len(body) + 1], p[Len(body) + 2]>> = CW!LowHigh(Crc16(SubSeq(p, 1, Len(body))))
    BY <1>10
  <2> QED
    BY <2>1, <2>2 DEF CwSummed
<1>15. p[4] = Crc8(<<p[1], p[2], p[3]>>)
  BY <1>11
<1> HIDE DEF n
<1>16. p[2] = n % 256 /\ p[3] = n \div 256
  BY <1>11 DEF a, b
<1>17. Len(p) = Len(c) + 8 /\ p[2] = Len(p) % 256 /\ p[3] = Len(p) \div 256
  BY <1>13, <1>16 DEF n
<1>18. p \in Seq(CW!Byte)
  BY <1>1, <1>2
<1>19. CwIsPacket(p, c)
  BY <1>11, <1>12, <1>14, <1>15, <1>17, <1>18 DEF CwIsPacket
<1> QED
  BY <1>2, <1>19

(* Both ways to cut the content out of a packet find it there.             *)
LEMMA ContentIs ==
  ASSUME NEW c \in CwContents, NEW i \in CwIds
  PROVE  CW!Carries(i, CW!GetContent(i, CW!Packet(c)), c)
<1> DEFINE p == CW!Packet(c)
           n == Len(c) + 8
<1>1. /\ p \in Seq(CW!Byte) /\ Len(p) = n /\ n - 8 = Len(c)
      /\ p[5] = CwCmd % 256 /\ p[6] = CwCmd \div 256
      /\ \A k \in 1 .. Len(c) : p[6 + k] = c[k]
      /\ c \in Seq(CW!Byte) /\ c \in Seq(Nat) /\ CwCmd \in Nat /\ Len(c) \in Nat
  <2>0. CwIsPacket(p, c)
    BY PacketIs
  <2> HIDE DEF p
  <2>1. /\ p \in Seq(CW!Byte) /\ Len(p) = n
        /\ p[5] = CwCmd % 256 /\ p[6] = CwCmd \div 256
        /\ \A k \in 1 .. Len(c) : p[6 + k] = c[k]
    BY <2>0 DEF CwIsPacket
  <2>2. c \in Seq(CW!Byte) /\ CwCmd \in Nat
    BY CwAssumption
  <2>3. c \in Seq(Nat) /\ Len(c) \in Nat
    BY <2>2, ByteIs, SeqMonotonic, LenProperties
  <2> QED
    BY <2>1, <2>2, <2>3
<1> HIDE DEF p, n
<1>2. /\ n \in Nat /\ n >= 8 /\ \A k \in 1 .. n : p[k] \in CW!Byte /\ p[k] \in Nat
  <2>1. n \in Nat /\ n >= 8
    BY <1>1 DEF n
  <2>2. \A k \in 1 .. n : p[k] \in CW!Byte
    BY <1>1, ElementOfSeq
  <2> QED
    BY <2>1, <2>2, ByteIs
<1>3. CASE i = 904
  <2> DEFINE h == SubSeq(p, 5, n - 2)
             cmd == CW!LowHigh(CwCmd)
             s == cmd \o c
  <2>1. /\ h \in Seq(Nat) /\ Len(h) = n - 6 /\ \A k \in 1 .. n - 6 : h[k] = p[4 + k]
    <3>1. n - 2 \in Int /\ 5 \in Int /\ \A k \in 5 .. n - 2 : p[k] \in Nat
      BY <1>2
    <3>2. /\ h \in Seq(Nat) /\ Len(h) = IF 5 <= n - 2 THEN n - 2 - 5 + 1 ELSE 0
          /\ \A k \in 1 .. n - 2 - 5 + 1 : h[k] = p[5 + k - 1]
      BY <3>1, SubSeqProperties
    <3> QED
      BY <3>2, <1>2
  <2>2. /\ cmd \in Seq(Nat) /\ Len(cmd) = 2
        /\ cmd[1] = CwCmd % 256 /\ cmd[2] = CwCmd \div 256
    <3>1. CwCmd % 256 \in Nat /\ CwCmd \div 256 \in Nat
      BY <1>1
    <3> QED
      BY <3>1 DEF CW!LowHigh
  <2> HIDE DEF cmd
  <2>3. /\ s \in Seq(Nat) /\ Len(s) = 2 + Len(c)
        /\ \A k \in 1 .. 2 + Len(c) : s[k] = IF k <= 2 THEN cmd[k] ELSE c[k - 2]
    <3>1. cmd \in Seq(Nat) /\ c \in Seq(Nat)
      BY <2>2, <1>1
    <3>2. /\ s \in Seq(Nat) /\ Len(s) = Len(cmd) + Len(c)
          /\ \A k \in 1 .. Len(cmd) + Len(c) :
               s[k] = IF k <= Len(cmd) THEN cmd[k] ELSE c[k - Len(cmd)]
      BY <3>1, ConcatProperties
    <3> QED
      BY <3>2, <2>2
  <2> HIDE DEF h, s
  <2>4. ASSUME NEW k \in 1 .. Len(h) PROVE h[k] = s[k]
    <3>1. h[k] = p[4 + k] /\ k \in 1 .. n - 6 /\ n - 6 = 2 + Len(c)
      BY <2>1, <1>1, <1>2
    <3>2. CASE k = 1
      BY <3>1, <3>2, <2>2, <2>3, <1>1
    <3>3. CASE k = 2
      BY <3>1, <3>3, <2>2, <2>3, <1>1
    <3>4. CASE k > 2
      <4>1. k - 2 \in 1 .. Len(c) /\ 6 + (k - 2) = 4 + k
        BY <3>1, <3>4, <1>1
      <4>2. s[k] = c[k - 2]
        BY <3>1, <3>4, <2>3
      <4> QED
        BY <4>1, <4>2, <3>1, <1>1
    <3> QED
      BY <3>1, <3>2, <3>3, <3>4
  <2>5. h = s
    <3>1. Len(h) = Len(s)
      BY <2>1, <2>3, <1>1
    <3> QED
      BY <3>1, <2>1, <2>3, <2>4, SeqEqual
  <2> QED
    BY <2>5, <1>1, <1>3 DEF CW!Carries, CW!GetContent, h, s, cmd, p
<1>4. CASE i # 904
  <2> DEFINE V == {XorByte(x, CwKey) : x \in CW!Byte}
             m == SubSeq(p, 7, n - 1)
             h == CW!Xored(m)
             s == SubSeq(h, 1, n - 8)
             x == CW!Xored(c)
  <2>1. /\ m \in Seq(CW!Byte) /\ Len(m) = n - 7 /\ \A k \in 1 .. n - 7 : m[k] = p[6 + k]
    <3>1. n - 1 \in Int /\ 7 \in Int /\ \A k \in 7 .. n - 1 : p[k] \in CW!Byte
      BY <1>2
    <3>2. /\ m \in Seq(CW!Byte) /\ Len(m) = IF 7 <= n - 1 THEN n - 1 - 7 + 1 ELSE 0
          /\ \A k \in 1 .. n - 1 - 7 + 1 : m[k] = p[7 + k - 1]
      BY <3>1, SubSeqProperties
    <3> QED
      BY <3>2, <1>2
  <2> HIDE DEF m
  <2>2. ASSUME NEW t \in Seq(CW!Byte)
        PROVE  /\ CW!Xored(t) \in Seq(V) /\ Len(CW!Xored(t)) = Len(t)
               /\ \A k \in 1 .. Len(t) : CW!Xored(t)[k] = XorByte(t[k], CwKey)
    <3>1. Len(t) \in Nat /\ DOMAIN t = 1 .. Len(t) /\ \A k \in 1 .. Len(t) : t[k] \in CW!Byte
      BY LenProperties, ElementOfSeq
    <3>2. CW!Xored(t) = [k \in 1 .. Len(t) |-> XorByte(t[k], CwKey)]
      BY <3>1 DEF CW!Xored
    <3>3. \A k \in 1 .. Len(t) : XorByte(t[k], CwKey) \in V
      BY <3>1
    <3> HIDE DEF V
    <3>4. CW!Xored(t) \in [1 .. Len(t) -> V]
      BY <3>2, <3>3
    <3>5. CW!Xored(t) \in Seq(V)
      BY <3>1, <3>4, SeqDef
    <3> QED
      BY <3>1, <3>2, <3>5, LenProperties
  <2> HIDE DEF V
  <2>3. /\ h \in Seq(V) /\ Len(h) = n - 7
        /\ \A k \in 1 .. n - 7 : h[k] = XorByte(m[k], CwKey)
    BY <2>1, <2>2
  <2>4. /\ x \in Seq(V) /\ Len(x) = n - 8
        /\ \A k \in 1 .. n - 8 : x[k] = XorByte(c[k], CwKey)
    BY <1>1, <2>2
  <2> HIDE DEF h, x
  <2>5. /\ s \in Seq(V) /\ Len(s) = n - 8 /\ \A k \in 1 .. n - 8 : s[k] = h[k]
    <3>1. n - 8 \in Int /\ 1 \in Int /\ \A k \in 1 .. n - 8 : h[k] \in V
      <4>1. \A k \in 1 .. Len(h) : h[k] \in V
        BY <2>3, ElementOfSeq
      <4> QED
        BY <4>1, <2>3, <1>2
    <3>2. /\ s \in Seq(V) /\ Len(s) = IF 1 <= n - 8 THEN n - 8 - 1 + 1 ELSE 0
          /\ \A k \in 1 .. n - 8 - 1 + 1 : s[k] = h[1 + k - 1]
      BY <3>1, SubSeqProperties
    <3> QED
      BY <3>2, <1>2
  <2> HIDE DEF s
  <2>6. ASSUME NEW k \in 1 .. n - 8 PROVE s[k] = x[k]
    <3>1. k \in 1 .. Len(c) /\ k \in 1 .. n - 7
      BY <1>1, <1>2
    <3>2. s[k] = XorByte(p[6 + k], CwKey)
      BY <3>1, <2>1, <2>3, <2>5
    <3> QED
      BY <3>1, <3>2, <2>4, <1>1
  <2>7. s = x
    BY <2>4, <2>5, <2>6, SeqEqual
  <2>8. CW!GetContent(i, p) = h
    BY <1>1, <1>4 DEF CW!GetContent, h, m
  <2>9. Len(h) - 1 = n - 8
    BY <2>3, <1>2
  <2> QED
    BY <2>7, <2>8, <2>9, <1>4 DEF CW!Carries, s, x, p
<1> QED
  BY <1>3, <1>4

CwReader == [buf : [1 .. CwBufSize -> CW!Byte], size : 0 .. CwBufSize, pos : Nat,
             begin : BOOLEAN]

(* The loop that copies a frame stays within the size of the packet.       *)
LEMMA CopiedIs ==
  ASSUME NEW r \in CwReader, r.pos <= r.size, NEW f \in Seq(CW!Byte)
  PROVE  LET c == CW!Copied(r, f)
             n == IF r.pos + Len(f) < r.size THEN Len(f) ELSE r.size - r.pos
         IN  /\ c \in CwReader /\ c.pos <= c.size
             /\ c.size = r.size /\ c.begin = r.begin /\ c.pos = r.pos + n
             /\ \A k \in 1 .. CwBufSize :
                  c.buf[k] = IF k \in r.pos + 1 .. r.pos + n THEN f[k - r.pos] ELSE r.buf[k]
<1> DEFINE n == IF r.pos + Len(f) < r.size THEN Len(f) ELSE r.size - r.pos
           b == [k \in 1 .. CwBufSize |->
                   IF k \in r.pos + 1 .. r.pos + n THEN f[k - r.pos] ELSE r.buf[k]]
           c == CW!Copied(r, f)
<1>1. /\ CwBufSize \in Nat /\ r.pos \in Nat /\ r.size \in Nat /\ r.size <= CwBufSize
      /\ r.buf \in [1 .. CwBufSize -> CW!Byte] /\ r.begin \in BOOLEAN /\ Len(f) \in Nat
      /\ \A k \in 1 .. Len(f) : f[k] \in CW!Byte
  <2>1. CwBufSize \in Nat /\ Len(f) \in Nat /\ \A k \in 1 .. Len(f) : f[k] \in CW!Byte
    BY CwAssumption, LenProperties, ElementOfSeq
  <2> QED
    BY <2>1 DEF CwReader
<1>2. n \in Nat /\ n <= Len(f) /\ r.pos + n <= r.size
  BY <1>1
<1>3. r = [buf |-> r.buf, size |-> r.size, pos |-> r.pos, begin |-> r.begin]
  BY DEF CwReader
<1>4. c = [buf |-> b, size |-> r.size, pos |-> r.pos + n, begin |-> r.begin]
  <2>1. DOMAIN r.buf = 1 .. CwBufSize
    BY <1>1
  <2>2. c = [r EXCEPT !.buf = b, !.pos = r.pos + n]
    BY <2>1, <1>3 DEF CW!Copied
  <2> HIDE DEF b, c, n
  <2> QED
    BY <2>2, <1>3
<1> HIDE DEF n
<1>5. b \in [1 .. CwBufSize -> CW!Byte]
  <2>1. ASSUME NEW k \in 1 .. CwBufSize
        PROVE  (IF k \in r.pos + 1 .. r.pos + n THEN f[k - r.pos] ELSE r.buf[k]) \in CW!Byte
    <3>1. CASE k \in r.pos + 1 .. r.pos + n
      <4>1. k - r.pos \in 1 .. Len(f)
        BY <1>1, <1>2, <3>1
      <4> QED
        BY <1>1, <3>1, <4>1
    <3>2. CASE k \notin r.pos + 1 .. r.pos + n
      BY <1>1, <3>2
    <3> QED
      BY <3>1, <3>2
  <2> QED
    BY <2>1
<1>6. \A k \in 1 .. CwBufSize :
        b[k] = IF k \in r.pos + 1 .. r.pos + n THEN f[k - r.pos] ELSE r.buf[k]
  OBVIOUS
<1> HIDE DEF b, c
<1>7. /\ c.buf = b /\ c.size = r.size /\ c.pos = r.pos + n /\ c.begin = r.begin
  BY <1>4
<1>8. c \in CwReader
  BY <1>1, <1>2, <1>4, <1>5 DEF CwReader
<1> QED
  BY <1>1, <1>2, <1>6, <1>7, <1>8 DEF c, n

(* What the reader works on when a frame of at most 8 bytes came.          *)
CwHead(f, stale) == CW!CheckHead(cwId, f, stale)
CwAt(f, stale) == IF CwHead(f, stale) THEN CW!Begun(cwRd[cwId], f) ELSE cwRd[cwId]

LEMMA BegunIs ==
  ASSUME NEW r \in CwReader, NEW f
  PROVE  CW!Begun(r, f) = [buf |-> r.buf, size |-> CW!SizeOf(f), pos |-> 0, begin |-> TRUE]
<1> DEFINE z == CW!SizeOf(f)
           r1 == [r EXCEPT !.size = z]
           r2 == [r1 EXCEPT !.pos = 0]
<1>1. r = [buf |-> r.buf, size |-> r.size, pos |-> r.pos, begin |-> r.begin]
  BY DEF CwReader
<1>2. CW!Begun(r, f) = [r2 EXCEPT !.begin = TRUE]
  BY DEF CW!Begun
<1> HIDE DEF z
<1>3. r1 = [buf |-> r.buf, size |-> z, pos |-> r.pos, begin |-> r.begin]
  BY <1>1
<1> HIDE DEF r1
<1>4. r2 = [buf |-> r.buf, size |-> z, pos |-> 0, begin |-> r.begin]
  BY <1>3
<1> HIDE DEF r2
<1> QED
  BY <1>2, <1>4 DEF z

LEMMA SizeIs ==
  ASSUME NEW f \in Seq(CW!Byte), Len(f) >= 4
  PROVE  CW!SizeOf(f) \in Nat
<1>1. f[2] \in CW!Byte /\ f[3] \in CW!Byte
  <2>1. Len(f) \in Nat
    BY LenProperties
  <2>2. 2 \in 1 .. Len(f) /\ 3 \in 1 .. Len(f)
    BY <2>1
  <2> QED
    BY <2>2, ElementOfSeq
<1>2. f[2] \in Nat /\ f[3] \in Nat
  BY <1>1, ByteIs
<1> QED
  BY <1>2 DEF CW!SizeOf

CwEnd(q, n) == IF q + 8 < n THEN q + 8 ELSE n
CwFrame(p, q) == SubSeq(p, q + 1, CwEnd(q, Len(p)))

(* A frame of a packet.                                                    *)
LEMMA CwFrameIs ==
  ASSUME NEW p \in Seq(CW!Byte), NEW q \in Nat, q < Len(p)
  PROVE  LET f == CwFrame(p, q)
         IN  /\ f \in Seq(CW!Byte) /\ Len(f) = CwEnd(q, Len(p)) - q
             /\ Len(f) \in 1 .. 8 /\ f # <<>>
             /\ \A k \in 1 .. Len(f) : f[k] = p[q + k]
<1> DEFINE e == CwEnd(q, Len(p))
           f == CwFrame(p, q)
<1>1. /\ Len(p) \in Nat /\ e \in Nat /\ q < e /\ e <= q + 8 /\ e <= Len(p)
      /\ \A k \in 1 .. Len(p) : p[k] \in CW!Byte
  <2>1. Len(p) \in Nat /\ \A k \in 1 .. Len(p) : p[k] \in CW!Byte
    BY LenProperties, ElementOfSeq
  <2> QED
    BY <2>1 DEF CwEnd
<1>2. f = SubSeq(p, q + 1, e)
  BY DEF CwFrame
<1> HIDE DEF e, f
<1>3. /\ f \in Seq(CW!Byte) /\ Len(f) = IF q + 1 <= e THEN e - (q + 1) + 1 ELSE 0
      /\ \A k \in 1 .. e - (q + 1) + 1 : f[k] = p[q + 1 + k - 1]
  <2>1. q + 1 \in Int /\ e \in Int /\ \A k \in q + 1 .. e : p[k] \in CW!Byte
    BY <1>1
  <2> QED
    BY <2>1, <1>2, SubSeqProperties
<1>4. Len(f) = e - q /\ \A k \in 1 .. Len(f) : f[k] = p[q + k]
  BY <1>1, <1>3
<1>5. Len(f) \in 1 .. 8 /\ f # <<>>
  BY <1>1, <1>4
<1> QED
  BY <1>3, <1>4, <1>5 DEF e, f

(* What has been sent of the packet under way, and what has been read.     *)
CwSent == IF cwSndData = <<>> THEN Len(CW!Packet(cwContent)) ELSE cwSndPos
CwRead == CwSent - Len(cwWire)

CwTypes ==
  /\ cwId \in CwIds /\ cwPackets \in Nat
  /\ cwWire \in Seq(CW!Byte) /\ Len(cwWire) <= 8
  /\ cwRd \in [CwIds -> CwReader] /\ \A i \in CwIds : cwRd[i].pos <= cwRd[i].size

CwSender ==
  /\ cwSndData = <<>> => cwSndPos = 0
  /\ cwPackets = 0 => cwSndData = <<>> /\ cwWire = <<>>
  /\ cwPackets > 0 => cwContent \in CwContents
  /\ cwSndData # <<>> => /\ cwSndData = CW!Packet(cwContent)
                        /\ cwSndPos \in Nat /\ cwSndPos < Len(cwSndData)
                        /\ cwSndPos % 8 = 0

(* The frame on the wire is the next one of the packet.                    *)
CwOnWire(p) ==
  cwWire # <<>> => /\ CwRead \in Nat /\ CwRead % 8 = 0 /\ CwRead < Len(p)
                  /\ CwSent = CwEnd(CwRead, Len(p)) /\ cwWire = CwFrame(p, CwRead)

(* The reader has what was read, and hands it out when it is the whole.    *)
CwGathered(p) ==
  /\ CwRead < Len(p) => cwHanded = <<>>
  /\ 0 < CwRead /\ CwRead < Len(p) =>
       /\ cwRd[cwId].begin = TRUE /\ cwRd[cwId].size = Len(p) /\ cwRd[cwId].pos = CwRead
       /\ \A k \in 1 .. CwRead : cwRd[cwId].buf[k] = p[k]
  /\ CwRead = Len(p) => cwHanded = <<CW!GetContent(cwId, p)>>

CwClear(p) == CW!IsStick(cwId, p[8]) /\ ~CW!MistakenHead(cwId, p)

CwWhole ==
  cwPackets > 0 /\ cwHurt = FALSE =>
    /\ CwOnWire(CW!Packet(cwContent))
    /\ CwClear(CW!Packet(cwContent)) => CwGathered(CW!Packet(cwContent))

CwInv == CwTypes /\ CwSender /\ CwWhole

LEMMA CwBegins == CW!Init => CwInv
<1> SUFFICES ASSUME CW!Init PROVE CwInv
  OBVIOUS
<1> DEFINE r == [buf |-> [k \in 1 .. CwBufSize |-> 0], size |-> 0, pos |-> 0, begin |-> FALSE]
<1>1. r \in CwReader /\ r.pos <= r.size
  <2>1. CwBufSize \in Nat /\ 0 \in CW!Byte
    BY CwAssumption, ByteIs
  <2> QED
    BY <2>1 DEF CwReader
<1> HIDE DEF r
<1>2. cwRd = [i \in CwIds |-> r]
  BY DEF CW!Init, r
<1>3. /\ cwId \in CwIds /\ cwPackets = 0 /\ cwWire = <<>> /\ cwSndData = <<>> /\ cwSndPos = 0
  BY DEF CW!Init
<1>4. CwTypes
  BY <1>1, <1>2, <1>3 DEF CwTypes
<1> QED
  BY <1>3, <1>4 DEF CwInv, CwSender, CwWhole

(* What every step may use.                                                *)
LEMMA PacketOf ==
  ASSUME NEW c \in CwContents
  PROVE  LET p == CW!Packet(c)
         IN  /\ p \in Seq(CW!Byte) /\ Len(p) \in Nat /\ Len(p) >= 8 /\ Len(p) <= CwBufSize
             /\ p # <<>>
<1>1. c \in Seq(CW!Byte) /\ Len(c) + 8 <= CwBufSize
  BY CwAssumption
<1>2. Len(c) \in Nat
  BY <1>1, LenProperties
<1>3. CW!Packet(c) \in Seq(CW!Byte) /\ Len(CW!Packet(c)) = Len(c) + 8
  BY PacketIs, Zenon DEF CwIsPacket
<1> QED
  BY <1>1, <1>2, <1>3

LEMMA CwSetStep ==
  ASSUME CwInv, NEW i \in CwIds, NEW c \in CwContents, CW!SetContent(i, c)
  PROVE  CwInv'
<1> DEFINE p == CW!Packet(c)
<1>1. /\ cwWire = <<>> /\ cwWire' = <<>> /\ cwSndData' = p /\ cwSndPos' = 0 /\ cwRd' = cwRd
      /\ cwPackets' = cwPackets + 1 /\ cwId' = i /\ cwContent' = c /\ cwHanded' = <<>>
  BY DEF CW!SetContent
<1>2. Len(p) \in Nat /\ Len(p) >= 8 /\ p # <<>>
  BY PacketOf
<1>3. CW!Packet(cwContent)' = p
  BY <1>1
<1> HIDE DEF p
<1>4. CwTypes'
  BY <1>1 DEF CwInv, CwTypes
<1>5. CwSender'
  <2>1. cwPackets' # 0
    BY <1>1 DEF CwInv, CwTypes
  <2>2. cwSndData' = CW!Packet(cwContent)' /\ cwSndData' # <<>>
    BY <1>1, <1>2, <1>3
  <2>3. cwSndPos' \in Nat /\ cwSndPos' < Len(cwSndData') /\ cwSndPos' % 8 = 0
    BY <1>1, <1>2
  <2> QED
    BY <2>1, <2>2, <2>3, <1>1 DEF CwSender
<1>6. CwSent' = 0 /\ CwRead' = 0
  <2>1. CwSent' = 0
    BY <1>1, <1>2 DEF CwSent
  <2>2. Len(cwWire') = 0
    BY <1>1
  <2>3. CwRead' = CwSent' - Len(cwWire')
    BY DEF CwRead
  <2> HIDE DEF CwRead, CwSent
  <2> QED
    BY <2>1, <2>2, <2>3
<1>7. CwOnWire(p)' /\ CwGathered(p)'
  <2>1. p' = p
    BY <1>1 DEF p
  <2> QED
    BY <2>1, <1>1, <1>2, <1>6 DEF CwOnWire, CwGathered
<1>8. CwWhole'
  BY <1>3, <1>7 DEF CwWhole, p
<1> QED
  BY <1>4, <1>5, <1>8 DEF CwInv

LEMMA CwSndStep ==
  ASSUME CwInv, CW!SndProcess
  PROVE  CwInv'
<1> DEFINE p == CW!Packet(cwContent)
           upTo == CwEnd(cwSndPos, Len(p))
<1>1. /\ cwSndData # <<>> /\ cwPackets > 0 /\ cwContent \in CwContents /\ cwSndData = p
      /\ cwSndPos \in Nat /\ cwSndPos < Len(p) /\ cwSndPos % 8 = 0 /\ cwWire = <<>>
  <2>1. cwSndData # <<>> /\ cwWire = <<>>
    BY DEF CW!SndProcess
  <2>2. cwPackets \in Nat
    BY DEF CwInv, CwTypes
  <2> QED
    BY <2>1, <2>2 DEF CwInv, CwSender
<1>2. /\ p \in Seq(CW!Byte) /\ Len(p) \in Nat /\ p # <<>>
  BY <1>1, PacketOf
<1>3. /\ cwWire' = CwFrame(p, cwSndPos)
      /\ IF upTo = Len(p) THEN cwSndData' = <<>> /\ cwSndPos' = 0
                          ELSE cwSndPos' = upTo /\ cwSndData' = cwSndData
      /\ cwId' = cwId /\ cwContent' = cwContent /\ cwRd' = cwRd /\ cwPackets' = cwPackets
      /\ cwHurt' = cwHurt /\ cwHanded' = cwHanded
  BY <1>1 DEF CW!SndProcess, CW!FRAME_LEN, CwFrame, CwEnd
<1>4. CW!Packet(cwContent)' = p
  BY <1>3
<1> HIDE DEF p
<1>5. /\ cwWire' \in Seq(CW!Byte) /\ Len(cwWire') = upTo - cwSndPos
      /\ Len(cwWire') \in 1 .. 8 /\ cwWire' # <<>>
  BY <1>1, <1>2, <1>3, CwFrameIs
<1>6. upTo \in Nat /\ upTo <= Len(p) /\ (upTo # Len(p) => upTo = cwSndPos + 8)
  BY <1>1, <1>2 DEF CwEnd
<1> HIDE DEF upTo
<1>7. CwTypes'
  <2>1. Len(cwWire') <= 8
    BY <1>5
  <2> QED
    BY <2>1, <1>3, <1>5 DEF CwInv, CwTypes
<1>8. CwSender'
  <2>1. cwPackets' # 0 /\ cwContent' \in CwContents
    BY <1>1, <1>3
  <2>2. CASE upTo = Len(p)
    BY <2>1, <2>2, <1>3 DEF CwSender
  <2>3. CASE upTo # Len(p)
    <3>1. cwSndData' = CW!Packet(cwContent)' /\ cwSndData' = p /\ cwSndPos' = cwSndPos + 8
      BY <2>3, <1>1, <1>3, <1>4, <1>6
    <3>2. cwSndPos' \in Nat /\ cwSndPos' < Len(p) /\ cwSndPos' % 8 = 0
      BY <3>1, <2>3, <1>1, <1>2, <1>3, <1>6
    <3> QED
      BY <3>1, <3>2, <2>1, <1>2 DEF CwSender
  <2> QED
    BY <2>2, <2>3
<1>9. CwSent' = upTo /\ CwRead' = cwSndPos /\ CwRead = cwSndPos
  <2>1. CwSent' = upTo
    BY <1>1, <1>2, <1>3, <1>4 DEF CwSent
  <2>2. CwRead' = cwSndPos
    BY <2>1, <1>1, <1>5, <1>6 DEF CwRead
  <2> QED
    BY <2>1, <2>2, <1>1 DEF CwRead, CwSent
<1>10. ASSUME NEW m, m = p PROVE CwOnWire(m)' /\ (CwClear(m)' => CwClear(m)) /\ (CwGathered(m) => CwGathered(m)')
  <2>1. CwOnWire(m)'
    BY <1>1, <1>3, <1>9, <1>10 DEF CwOnWire, upTo
  <2>2. CwClear(m)' => CwClear(m)
    BY <1>3 DEF CwClear
  <2>3. CwGathered(m) => CwGathered(m)'
    BY <1>3, <1>9 DEF CwGathered
  <2> QED
    BY <2>1, <2>2, <2>3
<1>11. CwWhole'
  <2> SUFFICES ASSUME cwHurt = FALSE
               PROVE  LET m == CW!Packet(cwContent)
                      IN (CwOnWire(m) /\ (CwClear(m) => CwGathered(m)))'
    BY <1>3 DEF CwWhole
  <2>1. PICK m : m = p
    OBVIOUS
  <2>2. CwClear(m) => CwGathered(m)
    BY <2>1, <1>1 DEF CwInv, CwWhole, p
  <2>3. CwOnWire(m)' /\ (CwClear(m)' => CwGathered(m)')
    BY <2>1, <2>2, <1>10
  <2>4. CW!Packet(cwContent)' = m
    BY <2>1, <1>4
  <2> QED
    BY <2>3, <2>4
<1> QED
  BY <1>7, <1>8, <1>11 DEF CwInv

LEMMA CwBusStep ==
  ASSUME CwInv, CW!Lose \/ \E k \in 1 .. 8, bit \in CwBits : CW!Flip(k, bit)
  PROVE  CwInv'
<1>1. /\ cwWire # <<>> /\ cwHurt' = TRUE /\ cwWire' \in Seq(CW!Byte) /\ Len(cwWire') <= 8
      /\ cwId' = cwId /\ cwContent' = cwContent /\ cwRd' = cwRd /\ cwPackets' = cwPackets
      /\ cwSndData' = cwSndData /\ cwSndPos' = cwSndPos
  <2>1. CASE CW!Lose
    BY <2>1 DEF CW!Lose, CW!sender
  <2>2. ASSUME NEW k \in 1 .. 8, NEW bit \in CwBits, CW!Flip(k, bit)
        PROVE  /\ cwWire # <<>> /\ cwHurt' = TRUE /\ cwWire' \in Seq(CW!Byte)
               /\ Len(cwWire') <= 8
               /\ cwId' = cwId /\ cwContent' = cwContent /\ cwRd' = cwRd
               /\ cwPackets' = cwPackets /\ cwSndData' = cwSndData /\ cwSndPos' = cwSndPos
    <3>1. /\ k \in DOMAIN cwWire /\ cwWire' = [cwWire EXCEPT ![k] = XorByte(cwWire[k], 2^bit)]
          /\ cwHurt' = TRUE /\ cwId' = cwId /\ cwContent' = cwContent /\ cwRd' = cwRd
          /\ cwPackets' = cwPackets /\ cwSndData' = cwSndData /\ cwSndPos' = cwSndPos
      BY <2>2 DEF CW!Flip, CW!sender
    <3>2. /\ cwWire \in [1 .. Len(cwWire) -> CW!Byte] /\ Len(cwWire) \in Nat /\ Len(cwWire) <= 8
          /\ DOMAIN cwWire = 1 .. Len(cwWire)
      BY LenProperties DEF CwInv, CwTypes
    <3>3. cwWire[k] \in CW!Byte
      BY <3>1, <3>2
    <3>4. XorByte(cwWire[k], 2^bit) \in CW!Byte
      BY <3>3, CwAssumption
    <3>5. cwWire' \in [1 .. Len(cwWire) -> CW!Byte]
      BY <3>1, <3>2, <3>4
    <3>6. cwWire' \in Seq(CW!Byte)
      BY <3>2, <3>5, SeqDef
    <3>7. Len(cwWire') = Len(cwWire)
      BY <3>2, <3>5, <3>6, LenProperties
    <3>8. cwWire # <<>>
      BY <3>1, <3>2
    <3> QED
      BY <3>1, <3>2, <3>6, <3>7, <3>8
  <2> QED
    BY <2>1, <2>2
<1>2. CwTypes'
  BY <1>1 DEF CwInv, CwTypes
<1>3. CwSender'
  BY <1>1 DEF CwInv, CwSender
<1>4. CwWhole'
  BY <1>1 DEF CwWhole
<1> QED
  BY <1>2, <1>3, <1>4 DEF CwInv

(* A reader stays one, whatever frame comes.                               *)
LEMMA AtIs ==
  ASSUME CwTypes, NEW stale, ~(CwHead(cwWire, stale) /\ CW!TooLong(cwWire))
  PROVE  CwAt(cwWire, stale) \in CwReader /\ CwAt(cwWire, stale).pos <= CwAt(cwWire, stale).size
<1> DEFINE r == cwRd[cwId]
<1>1. r \in CwReader /\ r.pos <= r.size /\ cwWire \in Seq(CW!Byte)
  BY DEF CwTypes
<1>2. CASE ~CwHead(cwWire, stale)
  BY <1>1, <1>2 DEF CwAt
<1>3. CASE CwHead(cwWire, stale)
  <2> DEFINE z == CW!SizeOf(cwWire)
             b == [buf |-> r.buf, size |-> z, pos |-> 0, begin |-> TRUE]
  <2>1. Len(cwWire) >= 4
    BY <1>3 DEF CwHead, CW!CheckHead
  <2>2. z \in Nat
    BY <1>1, <2>1, SizeIs
  <2>3. ~(z > CwBufSize) /\ CwBufSize \in Nat
    BY <1>3, CwAssumption DEF CW!TooLong
  <2>4. CwAt(cwWire, stale) = b
    BY <1>1, <1>3, BegunIs DEF CwAt
  <2> HIDE DEF z, r
  <2>5. b \in CwReader /\ b.pos <= b.size
    BY <1>1, <2>2, <2>3 DEF CwReader
  <2> QED
    BY <2>4, <2>5
<1> QED
  BY <1>2, <1>3

(* The first four bytes pass the test of CheckHead.                        *)
LEMMA StartIs ==
  ASSUME NEW p \in Seq(CW!Byte), NEW f \in Seq(CW!Byte), Len(f) >= 4,
         \A k \in 1 .. 4 : f[k] = p[k], p[4] = Crc8(<<p[1], p[2], p[3]>>)
  PROVE  CW!Verify_CRC8_Check_Sum(SubSeq(f, 1, 4))
<1> DEFINE t == SubSeq(f, 1, 4)
           u == SubSeq(t, 1, 3)
           s == <<p[1], p[2], p[3]>>
<1>1. Len(f) \in Nat /\ \A k \in 1 .. Len(f) : f[k] \in CW!Byte
  BY LenProperties, ElementOfSeq
<1>2. t \in Seq(CW!Byte) /\ Len(t) = 4 /\ \A k \in 1 .. 4 : t[k] = f[k]
  <2>1. 1 \in Int /\ 4 \in Int /\ \A k \in 1 .. 4 : f[k] \in CW!Byte
    BY <1>1
  <2>2. /\ t \in Seq(CW!Byte) /\ Len(t) = IF 1 <= 4 THEN 4 - 1 + 1 ELSE 0
        /\ \A k \in 1 .. 4 - 1 + 1 : t[k] = f[1 + k - 1]
    BY <2>1, SubSeqProperties
  <2> QED
    BY <2>2
<1> HIDE DEF t
<1>3. u \in Seq(CW!Byte) /\ Len(u) = 3 /\ \A k \in 1 .. 3 : u[k] = t[k]
  <2>1. 1 \in Int /\ 3 \in Int /\ \A k \in 1 .. 3 : t[k] \in CW!Byte
    BY <1>1, <1>2
  <2>2. /\ u \in Seq(CW!Byte) /\ Len(u) = IF 1 <= 3 THEN 3 - 1 + 1 ELSE 0
        /\ \A k \in 1 .. 3 - 1 + 1 : u[k] = t[1 + k - 1]
    BY <2>1, SubSeqProperties
  <2> QED
    BY <2>2
<1> HIDE DEF u
<1>4. u = s
  <2>1. s \in Seq(CW!Byte) /\ Len(s) = 3 /\ s[1] = p[1] /\ s[2] = p[2] /\ s[3] = p[3]
    <3>1. p[1] \in CW!Byte /\ p[2] \in CW!Byte /\ p[3] \in CW!Byte
      BY <1>1
    <3> QED
      BY <3>1
  <2> HIDE DEF s
  <2>2. \A k \in 1 .. 3 : u[k] = s[k]
    BY <1>2, <1>3, <2>1
  <2> QED
    BY <1>3, <2>1, <2>2, SeqEqual
<1>5. CW!But(t, 1) = u
  <2>1. Len(t) - 1 = 3
    BY <1>2
  <2> QED
    BY <2>1 DEF CW!But, u
<1>6. CW!Verify_CRC8_Check_Sum(t)
  <2>1. Len(t) > 2 /\ t[Len(t)] = p[4]
    BY <1>2
  <2> QED
    BY <2>1, <1>4, <1>5 DEF CW!Verify_CRC8_Check_Sum, s
<1> QED
  BY <1>6 DEF t

LEMMA FirstIs ==
  ASSUME NEW c \in CwContents, NEW i, NEW stale, CW!IsStick(i, CW!Packet(c)[8])
  PROVE  LET f == CwFrame(CW!Packet(c), 0)
         IN  /\ CW!CheckHead(i, f, stale) /\ ~CW!TooLong(f)
             /\ CW!SizeOf(f) = Len(CW!Packet(c))
<1> DEFINE p == CW!Packet(c)
           f == CwFrame(p, 0)
           n == Len(p)
<1>1. /\ p \in Seq(CW!Byte) /\ n \in Nat /\ n >= 8 /\ n <= CwBufSize /\ CwBufSize \in Nat
  BY PacketOf, CwAssumption
<1>2. CwIsPacket(p, c)
  BY PacketIs
<1>3. CW!IsStick(i, p[8])
  OBVIOUS
<1> HIDE DEF p
<1>4. CwEnd(0, n) = 8 /\ CwEnd(0, n) - 0 = 8
  <2>1. ASSUME NEW m \in Nat, m >= 8 PROVE CwEnd(0, m) = 8
    BY <2>1 DEF CwEnd
  <2> HIDE DEF n
  <2>2. CwEnd(0, n) = 8
    BY <2>1, <1>1
  <2> QED
    BY <2>2
<1>5. /\ f \in Seq(CW!Byte) /\ Len(f) = 8 /\ \A k \in 1 .. 8 : f[k] = p[k]
  <2>1. 0 \in Nat /\ 0 < n
    BY <1>1
  <2>2. /\ f \in Seq(CW!Byte) /\ Len(f) = CwEnd(0, n) - 0
        /\ \A k \in 1 .. Len(f) : f[k] = p[0 + k]
    BY <1>1, <2>1, CwFrameIs
  <2>3. Len(f) = 8
    BY <2>2, <1>4
  <2>4. \A k \in 1 .. 8 : p[0 + k] = p[k]
    OBVIOUS
  <2> QED
    BY <2>2, <2>3, <2>4
<1> HIDE DEF f
<1>6. CW!Verify_CRC8_Check_Sum(SubSeq(f, 1, 4))
  <2>1. Len(f) >= 4 /\ \A k \in 1 .. 4 : f[k] = p[k]
    BY <1>5
  <2>2. p[4] = Crc8(<<p[1], p[2], p[3]>>)
    BY <1>2 DEF CwIsPacket
  <2>3. p \in Seq(CW!Byte) /\ f \in Seq(CW!Byte)
    BY <1>1, <1>5
  <2> QED
    BY <2>1, <2>2, <2>3, StartIs
<1>7. f[1] = 85 /\ f[2] = n % 256 /\ f[3] = n \div 256 /\ f[8] = p[8]
  BY <1>2, <1>5 DEF CwIsPacket
<1>8. CW!CheckHead(i, f, stale)
  BY <1>3, <1>5, <1>6, <1>7 DEF CW!CheckHead
<1> HIDE DEF n
<1>9. CW!SizeOf(f) = n
  <2>1. n = (n % 256) + 256 * (n \div 256)
    BY <1>1
  <2> QED
    BY <2>1, <1>7 DEF CW!SizeOf
<1>10. ~CW!TooLong(f)
  BY <1>1, <1>9 DEF CW!TooLong
<1> QED
  BY <1>8, <1>9, <1>10 DEF n, f, p

(* A later frame that the reader takes for a head is a mistaken one.       *)
LEMMA LaterIs ==
  ASSUME NEW p \in Seq(CW!Byte), NEW q \in Nat, 0 < q, q < Len(p), q % 8 = 0,
         NEW i, ~CW!MistakenHead(i, p), NEW stale \in CwStale
  PROVE  ~CW!CheckHead(i, CwFrame(p, q), stale)
<1> SUFFICES ASSUME CW!CheckHead(i, CwFrame(p, q), stale) PROVE FALSE
  OBVIOUS
<1>1. PICK k \in Nat : q = 8 * k
  <2>1. q \div 8 \in Nat /\ q = 8 * (q \div 8)
    OBVIOUS
  <2> QED
    BY <2>1
<1>2. Len(p) \in Nat /\ k >= 1
  BY <1>1, LenProperties
<1>3. Len(CwFrame(p, q)) = CwEnd(q, Len(p)) - q /\ Len(CwFrame(p, q)) >= 4
  BY CwFrameIs DEF CW!CheckHead
<1>4. 8 * k + 4 <= Len(p)
  BY <1>1, <1>2, <1>3 DEF CwEnd
<1>5. k \in 1 .. (Len(p) - 4) \div 8
  <2>1. k <= (Len(p) - 4) \div 8
    BY <1>2, <1>4
  <2> QED
    BY <2>1, <1>2
<1>6. CwFrame(p, q) = SubSeq(p, 8 * k + 1, IF 8 * (k + 1) < Len(p) THEN 8 * (k + 1) ELSE Len(p))
  <2>1. q + 8 = 8 * (k + 1)
    BY <1>1
  <2> QED
    BY <2>1, <1>1 DEF CwFrame, CwEnd
<1>7. CW!MistakenHead(i, p)
  BY <1>5, <1>6 DEF CW!MistakenHead, CW!FRAME_LEN
<1> QED
  BY <1>7

(* A buffer that holds the whole packet passes the test of CheckTotal.     *)
LEMMA TotalIs ==
  ASSUME NEW c \in CwContents, NEW i, CW!IsStick(i, CW!Packet(c)[8]),
         NEW x \in CwReader, x.size = Len(CW!Packet(c)),
         \A k \in 1 .. Len(CW!Packet(c)) : x.buf[k] = CW!Packet(c)[k]
  PROVE  SubSeq(x.buf, 1, x.size) = CW!Packet(c) /\ CW!CheckTotal(i, x)
<1> DEFINE p == CW!Packet(c)
           n == Len(p)
           t == SubSeq(x.buf, 1, n)
           u == SubSeq(p, n - 1, n)
<1>1. /\ p \in Seq(CW!Byte) /\ n \in Nat /\ n >= 8 /\ \A k \in 1 .. n : p[k] \in CW!Byte
  BY PacketOf, ElementOfSeq
<1>2. CwSummed(p)
  BY PacketIs, Zenon DEF CwIsPacket
<1>3. CW!IsStick(i, p[8]) /\ x.size = n /\ \A k \in 1 .. n : x.buf[k] = p[k]
  OBVIOUS
<1> HIDE DEF p, n
<1>4. t = p
  <2>1. 1 \in Int /\ n \in Int /\ \A k \in 1 .. n : x.buf[k] \in CW!Byte
    BY <1>1, <1>3
  <2>2. /\ t \in Seq(CW!Byte) /\ Len(t) = IF 1 <= n THEN n - 1 + 1 ELSE 0
        /\ \A k \in 1 .. n - 1 + 1 : t[k] = x.buf[1 + k - 1]
    BY <2>1, SubSeqProperties
  <2> HIDE DEF t
  <2>3. Len(t) = n /\ \A k \in 1 .. n : t[k] = p[k]
    BY <2>2, <1>1, <1>3
  <2>4. Len(t) = Len(p)
    BY <2>3 DEF n
  <2> QED
    BY <2>2, <2>3, <2>4, <1>1, SeqEqual
<1>5. u = <<p[n - 1], p[n]>>
  <2>1. n - 1 \in Int /\ n \in Int /\ \A k \in n - 1 .. n : p[k] \in CW!Byte
    BY <1>1
  <2>2. /\ u \in Seq(CW!Byte) /\ Len(u) = IF n - 1 <= n THEN n - (n - 1) + 1 ELSE 0
        /\ \A k \in 1 .. n - (n - 1) + 1 : u[k] = p[n - 1 + k - 1]
    BY <2>1, SubSeqProperties
  <2> HIDE DEF u
  <2>3. n - (n - 1) + 1 = 2 /\ n - 1 <= n /\ n - 1 + 1 - 1 = n - 1 /\ n - 1 + 2 - 1 = n
    BY <1>1
  <2>4. Len(u) = 2 /\ u[1] = p[n - 1 + 1 - 1] /\ u[2] = p[n - 1 + 2 - 1]
    BY <2>2, <2>3
  <2> QED
    BY <2>2, <2>3, <2>4
<1>6. CW!Verify_CRC16_Check_Sum(p)
  <2>1. Len(p) > 2 /\ CW!But(p, 2) = SubSeq(p, 1, n - 2)
    BY <1>1 DEF CW!But, n
  <2>2. SubSeq(p, Len(p) - 1, Len(p)) = <<p[n - 1], p[n]>>
    BY <1>5 DEF n, u
  <2> QED
    BY <2>1, <2>2, <1>2 DEF CW!Verify_CRC16_Check_Sum, CwSummed, n
<1>7. x.buf[8] = p[8]
  BY <1>1, <1>3
<1>8. CW!CheckTotal(i, x)
  BY <1>3, <1>4, <1>6, <1>7 DEF CW!CheckTotal, t
<1> QED
  BY <1>3, <1>4, <1>8 DEF t, p

CwIdle(stale) ==
  (CwHead(cwWire, stale) /\ CW!TooLong(cwWire)) \/ ~CwAt(cwWire, stale).begin

(* The next frame of a whole packet leaves one more frame in the buffer.   *)
LEMMA NextFrame ==
  ASSUME CwInv, NEW stale \in CwStale, cwWire # <<>>, cwPackets > 0, cwHurt = FALSE,
         CwClear(CW!Packet(cwContent))
  PROVE  LET p == CW!Packet(cwContent)
             a == CwAt(cwWire, stale)
             c == CW!Copied(a, cwWire)
         IN  /\ ~CwIdle(stale)
             /\ c \in CwReader /\ c.begin = TRUE /\ c.size = Len(p)
             /\ c.pos = CwSent /\ CwSent \in Nat /\ 0 < CwSent /\ CwSent <= Len(p)
             /\ \A k \in 1 .. CwSent : c.buf[k] = p[k]
<1> DEFINE p == CW!Packet(cwContent)
           f == cwWire
           q == CwRead
           a == CwAt(f, stale)
           c == CW!Copied(a, f)
           n == Len(p)
<1>1. /\ cwContent \in CwContents /\ CwOnWire(p) /\ CwGathered(p) /\ CwTypes
      /\ CW!IsStick(cwId, p[8]) /\ ~CW!MistakenHead(cwId, p)
  BY DEF CwInv, CwSender, CwWhole, CwClear
<1>2. /\ p \in Seq(CW!Byte) /\ n \in Nat /\ n >= 8 /\ n <= CwBufSize /\ CwBufSize \in Nat
  BY <1>1, PacketOf, CwAssumption
<1>3. /\ q \in Nat /\ q % 8 = 0 /\ q < n /\ CwSent = CwEnd(q, n) /\ f = CwFrame(p, q)
  BY <1>1 DEF CwOnWire
<1>4. f \in Seq(CW!Byte) /\ Len(f) = CwEnd(q, n) - q /\ \A k \in 1 .. Len(f) : f[k] = p[q + k]
  BY <1>2, <1>3, CwFrameIs
<1>5. CwEnd(q, n) \in Nat /\ q < CwEnd(q, n) /\ CwEnd(q, n) <= n
  <2>1. ASSUME NEW x \in Nat, NEW m \in Nat, x < m
        PROVE  CwEnd(x, m) \in Nat /\ x < CwEnd(x, m) /\ CwEnd(x, m) <= m
    BY <2>1 DEF CwEnd
  <2>2. q \in Nat /\ n \in Nat /\ q < n
    BY <1>2, <1>3
  <2> HIDE DEF q, n
  <2>3. CwEnd(q, n) \in Nat /\ q < CwEnd(q, n) /\ CwEnd(q, n) <= n
    BY <2>1, <2>2
  <2> QED
    BY <2>3
<1>6. /\ a \in CwReader /\ a.begin = TRUE /\ a.size = n /\ a.pos = q
      /\ \A k \in 1 .. q : a.buf[k] = p[k]
      /\ ~(CwHead(f, stale) /\ CW!TooLong(f))
  <2>1. CASE q = 0
    <3>1. CW!CheckHead(cwId, f, stale) /\ ~CW!TooLong(f) /\ CW!SizeOf(f) = n
      BY <2>1, <1>1, <1>3, FirstIs
    <3>2. a \in CwReader
      BY <3>1, <1>1, AtIs
    <3>3. cwRd[cwId] \in CwReader
      BY <1>1 DEF CwTypes
    <3>4. a = [buf |-> cwRd[cwId].buf, size |-> n, pos |-> 0, begin |-> TRUE]
      BY <3>1, <3>3, BegunIs DEF CwAt, CwHead
    <3> HIDE DEF a, n, q, f, p
    <3>5. a.begin = TRUE /\ a.size = n /\ a.pos = 0
      BY <3>4
    <3> QED
      BY <3>1, <3>2, <3>5, <2>1
  <2>2. CASE q # 0
    <3>1. 0 < q
      BY <2>2, <1>3
    <3>2. ~CW!CheckHead(cwId, f, stale)
      BY <3>1, <1>1, <1>2, <1>3, LaterIs
    <3>3. a = cwRd[cwId] /\ ~CwHead(f, stale)
      BY <3>2 DEF CwAt, CwHead
    <3>4. cwRd[cwId] \in CwReader
      BY <1>1 DEF CwTypes
    <3>5. /\ cwRd[cwId].begin = TRUE /\ cwRd[cwId].size = n /\ cwRd[cwId].pos = q
          /\ \A k \in 1 .. q : cwRd[cwId].buf[k] = p[k]
      BY <3>1, <1>1, <1>3 DEF CwGathered
    <3> QED
      BY <3>3, <3>4, <3>5
  <2> QED
    BY <2>1, <2>2
<1> HIDE DEF a, q, n, f, p
<1>7. ~CwIdle(stale)
  BY <1>6 DEF CwIdle, a, f
<1>8. DEFINE m == IF a.pos + Len(f) < a.size THEN Len(f) ELSE a.size - a.pos
<1>9. m = CwEnd(q, n) - q
  BY <1>2, <1>3, <1>4, <1>5, <1>6
<1>10. /\ c \in CwReader /\ c.size = a.size /\ c.begin = a.begin /\ c.pos = a.pos + m
       /\ \A k \in 1 .. CwBufSize :
            c.buf[k] = IF k \in a.pos + 1 .. a.pos + m THEN f[k - a.pos] ELSE a.buf[k]
  <2>1. q <= n
    BY <1>2, <1>3
  <2>2. a.pos <= a.size
    BY <2>1, <1>6
  <2> QED
    BY <2>2, <1>4, <1>6, CopiedIs
<1> HIDE DEF c, m
<1>11. c.pos = CwEnd(q, n) /\ c.size = n /\ c.begin = TRUE
  BY <1>3, <1>5, <1>6, <1>9, <1>10
<1>12. ASSUME NEW k \in 1 .. CwEnd(q, n) PROVE c.buf[k] = p[k]
  <2>1. k \in 1 .. CwBufSize
    BY <1>2, <1>5
  <2>2. CASE k \in 1 .. q
    <3>1. ~(k \in q + 1 .. q + m)
      BY <2>2, <1>3
    <3> QED
      BY <3>1, <2>1, <2>2, <1>6, <1>10
  <2>3. CASE k \in q + 1 .. CwEnd(q, n)
    <3>1. k \in q + 1 .. q + m /\ k - q \in 1 .. Len(f) /\ q + (k - q) = k
      BY <2>3, <1>3, <1>4, <1>5, <1>9
    <3>2. c.buf[k] = f[k - q]
      BY <3>1, <2>1, <1>6, <1>10
    <3> QED
      BY <3>1, <3>2, <1>4
  <2> QED
    BY <2>2, <2>3, <1>3, <1>5
<1>13. CwSent \in Nat /\ 0 < CwSent /\ CwSent <= n /\ c.pos = CwSent
  BY <1>3, <1>5, <1>11
<1>14. \A k \in 1 .. CwSent : c.buf[k] = p[k]
  BY <1>3, <1>12
<1> QED
  BY <1>7, <1>10, <1>11, <1>13, <1>14 DEF c, a, f, n, p

LEMMA CwRdStep ==
  ASSUME CwInv, NEW stale \in CwStale, CW!RdProcess(stale)
  PROVE  CwInv'
<1> DEFINE a == CwAt(cwWire, stale)
           c == CW!Copied(a, cwWire)
           d == IF c.pos = c.size THEN [c EXCEPT !.begin = FALSE] ELSE c
<1>1. /\ cwWire # <<>> /\ cwWire' = <<>>
      /\ cwId' = cwId /\ cwContent' = cwContent /\ cwPackets' = cwPackets
      /\ cwSndData' = cwSndData /\ cwSndPos' = cwSndPos /\ cwHurt' = cwHurt
      /\ CwTypes
  BY DEF CW!RdProcess, CW!sender, CwInv
<1>2. IF CwIdle(stale) THEN cwRd' = cwRd /\ cwHanded' = cwHanded
      ELSE /\ cwRd' = [cwRd EXCEPT ![cwId] = d]
           /\ cwHanded' = IF c.pos = c.size /\ CW!CheckTotal(cwId, c)
                          THEN Append(cwHanded, CW!GetContent(cwId, SubSeq(c.buf, 1, c.size)))
                          ELSE cwHanded
  BY DEF CW!RdProcess, CwIdle, CwAt, CwHead
<1>3. /\ CW!Packet(cwContent)' = CW!Packet(cwContent) /\ CwSent' = CwSent
  BY <1>1 DEF CwSent
<1>4. ~CwIdle(stale) => d \in CwReader /\ d.pos <= d.size /\ d.buf = c.buf /\ d.pos = c.pos
                        /\ d.size = c.size /\ (c.pos # c.size => d.begin = c.begin)
  <2> SUFFICES ASSUME ~CwIdle(stale)
               PROVE  /\ d \in CwReader /\ d.pos <= d.size /\ d.buf = c.buf /\ d.pos = c.pos
                      /\ d.size = c.size /\ (c.pos # c.size => d.begin = c.begin)
    OBVIOUS
  <2>1. a \in CwReader /\ a.pos <= a.size
    BY <1>1, AtIs DEF CwIdle
  <2>2. c \in CwReader /\ c.pos <= c.size
    BY <2>1, <1>1, CopiedIs DEF CwTypes
  <2> HIDE DEF c
  <2>3. c = [buf |-> c.buf, size |-> c.size, pos |-> c.pos, begin |-> c.begin]
    BY <2>2 DEF CwReader
  <2>4. CASE c.pos # c.size
    BY <2>2, <2>4
  <2>5. CASE c.pos = c.size
    <3>1. d = [c EXCEPT !.begin = FALSE]
      BY <2>5
    <3>2. d = [buf |-> c.buf, size |-> c.size, pos |-> c.pos, begin |-> FALSE]
      BY <3>1, <2>3
    <3> HIDE DEF d
    <3>3. d \in CwReader
      BY <3>2, <2>2 DEF CwReader
    <3> QED
      BY <3>2, <3>3, <2>2, <2>5
  <2> QED
    BY <2>4, <2>5
<1> HIDE DEF a, c, d
<1>5. CwTypes'
  <2>1. cwWire' \in Seq(CW!Byte) /\ Len(cwWire') <= 8
    BY <1>1
  <2>2. cwRd' \in [CwIds -> CwReader] /\ \A i \in CwIds : cwRd'[i].pos <= cwRd'[i].size
    <3>1. CASE CwIdle(stale)
      BY <3>1, <1>1, <1>2 DEF CwTypes
    <3>2. CASE ~CwIdle(stale)
      <4>1. cwRd' = [cwRd EXCEPT ![cwId] = d] /\ d \in CwReader /\ d.pos <= d.size
        BY <3>2, <1>2, <1>4
      <4> QED
        BY <4>1, <1>1 DEF CwTypes
    <3> QED
      BY <3>1, <3>2
  <2> QED
    BY <2>1, <2>2, <1>1 DEF CwTypes
<1>6. CwSender'
  BY <1>1 DEF CwInv, CwSender
<1>7. ASSUME cwPackets > 0, cwHurt = FALSE, NEW p, p = CW!Packet(cwContent), CwClear(p)
      PROVE  CwGathered(p)'
  <2>1. /\ ~CwIdle(stale)
        /\ c \in CwReader /\ c.begin = TRUE /\ c.size = Len(p)
        /\ c.pos = CwSent /\ CwSent \in Nat /\ 0 < CwSent /\ CwSent <= Len(p)
        /\ \A k \in 1 .. CwSent : c.buf[k] = p[k]
    BY <1>1, <1>7, NextFrame DEF a, c
  <2>2. cwRd' = [cwRd EXCEPT ![cwId] = d]
    BY <2>1, <1>2
  <2>3. cwRd'[cwId'] = d
    BY <2>2, <1>1 DEF CwTypes
  <2>4. CwRead' = CwSent
    <3>1. Len(cwWire') = 0
      BY <1>1
    <3>2. CwRead' = CwSent' - Len(cwWire')
      BY DEF CwRead
    <3> HIDE DEF CwRead, CwSent
    <3> QED
      BY <3>1, <3>2, <2>1, <1>3
  <2>5. cwHanded = <<>>
    <3>1. CwOnWire(p) /\ CwGathered(p)
      BY <1>7 DEF CwInv, CwWhole
    <3>2. CwRead < Len(p)
      BY <3>1, <1>1 DEF CwOnWire
    <3> QED
      BY <3>1, <3>2 DEF CwGathered
  <2>6. CASE CwSent = Len(p)
    <3>1. cwContent \in CwContents
      BY <1>7 DEF CwInv, CwSender
    <3>2. SubSeq(c.buf, 1, c.size) = p /\ CW!CheckTotal(cwId, c)
      <4>1. CW!IsStick(cwId, p[8])
        BY <1>7 DEF CwClear
      <4>2. \A k \in 1 .. Len(p) : c.buf[k] = p[k]
        BY <2>1, <2>6
      <4> QED
        BY <4>1, <4>2, <3>1, <2>1, <1>7, TotalIs
    <3>3. cwHanded' = Append(<<>>, CW!GetContent(cwId, p))
      BY <3>2, <2>1, <2>5, <2>6, <1>2
    <3>4. cwHanded' = <<CW!GetContent(cwId, p)>>
      BY <3>3
    <3>5. ~(CwRead' < Len(p))
      BY <2>1, <2>4, <2>6
    <3> QED
      BY <3>4, <3>5, <1>1 DEF CwGathered
  <2>7. CASE CwSent # Len(p)
    <3>1. cwHanded' = <<>>
      BY <2>1, <2>5, <2>7, <1>2
    <3>2. /\ d.begin = TRUE /\ d.size = Len(p) /\ d.pos = CwSent
          /\ \A k \in 1 .. CwSent : d.buf[k] = p[k]
      BY <2>1, <2>7, <1>4
    <3>3. CwRead' # Len(p)
      BY <2>4, <2>7
    <3> QED
      BY <3>1, <3>2, <3>3, <2>3, <2>4 DEF CwGathered
  <2> QED
    BY <2>6, <2>7
<1>8. CwWhole'
  <2> SUFFICES ASSUME cwPackets > 0, cwHurt = FALSE
               PROVE  LET m == CW!Packet(cwContent)
                      IN (CwOnWire(m) /\ (CwClear(m) => CwGathered(m)))'
    BY <1>1 DEF CwWhole
  <2>1. PICK m : m = CW!Packet(cwContent)
    OBVIOUS
  <2>2. CwOnWire(m)' /\ (CwClear(m)' => CwClear(m))
    BY <1>1 DEF CwOnWire, CwClear
  <2>3. CwClear(m) => CwGathered(m)'
    BY <2>1, <1>7
  <2>4. CW!Packet(cwContent)' = m
    BY <2>1, <1>3
  <2> QED
    BY <2>2, <2>3, <2>4
<1> QED
  BY <1>5, <1>6, <1>8 DEF CwInv

LEMMA CwHolds == CwBehaviour => []CwInv
<1>1. CW!Init => CwInv
  BY CwBegins
<1>2. CwInv /\ [CW!Next]_(CW!vars) => CwInv'
  <2> SUFFICES ASSUME CwInv, [CW!Next]_(CW!vars) PROVE CwInv'
    OBVIOUS
  <2>1. CASE \E i \in CwIds, c \in CwContents : CW!SetContent(i, c)
    BY <2>1, CwSetStep
  <2>2. CASE CW!SndProcess
    BY <2>2, CwSndStep
  <2>3. CASE CW!Lose \/ \E k \in 1 .. 8, bit \in CwBits : CW!Flip(k, bit)
    BY <2>3, CwBusStep
  <2>4. CASE \E stale \in CwStale : CW!RdProcess(stale)
    BY <2>4, CwRdStep
  <2>5. CASE UNCHANGED CW!vars
    BY <2>5 DEF CW!vars, CW!sender, CwInv, CwTypes, CwSender, CwWhole, CwOnWire, CwGathered,
                CwClear, CwSent, CwRead
  <2> QED
    BY <2>1, <2>2, <2>3, <2>4, <2>5 DEF CW!Next, CW!FRAME_LEN
<1> QED
  BY <1>1, <1>2, PTL DEF CwBehaviour

LEMMA CwShown == CwInv => WireDelivers
<1> SUFFICES ASSUME CwInv PROVE WireDelivers
  OBVIOUS
<1>1. CW!TypeOK
  <2>1. cwSndPos \in 0 .. Len(cwSndData)
    <3>1. CASE cwSndData = <<>>
      BY <3>1 DEF CwInv, CwSender
    <3>2. CASE cwSndData # <<>>
      <4>1. /\ cwContent \in CwContents /\ cwSndData = CW!Packet(cwContent)
            /\ cwSndPos \in Nat /\ cwSndPos < Len(cwSndData)
        BY <3>2 DEF CwInv, CwSender, CwTypes
      <4>2. Len(cwSndData) \in Nat
        BY <4>1, PacketOf
      <4> QED
        BY <4>1, <4>2
    <3> QED
      BY <3>1, <3>2
  <2>2. \A i \in CwIds : /\ cwRd[i].buf \in [1 .. CwBufSize -> CW!Byte]
                         /\ cwRd[i].pos <= cwRd[i].size /\ cwRd[i].size <= CwBufSize
    <3> TAKE i \in CwIds
    <3>1. cwRd[i] \in CwReader /\ cwRd[i].pos <= cwRd[i].size
      BY DEF CwInv, CwTypes
    <3> QED
      BY <3>1, CwAssumption DEF CwReader
  <2> QED
    BY <2>1, <2>2 DEF CW!TypeOK, CW!FRAME_LEN, CwInv, CwTypes
<1>2. ASSUME CW!ArrivedWhole, ~CW!MistakenHead(cwId, CW!Packet(cwContent))
      PROVE  Len(cwHanded) = 1 /\ CW!Carries(cwId, cwHanded[1], cwContent)
  <2> DEFINE p == CW!Packet(cwContent)
  <2>1. /\ cwPackets > 0 /\ cwSndData = <<>> /\ cwWire = <<>> /\ cwHurt = FALSE
        /\ CwClear(p)
    BY <1>2 DEF CW!ArrivedWhole, CwClear
  <2>2. cwContent \in CwContents /\ cwId \in CwIds /\ CwGathered(p)
    BY <2>1 DEF CwInv, CwWhole, CwSender, CwTypes
  <2>3. CwRead = Len(p)
    <3>1. Len(cwWire) = 0 /\ CwSent = Len(p) /\ Len(p) \in Nat
      BY <2>1, <2>2, PacketOf DEF CwSent
    <3>2. CwRead = CwSent - Len(cwWire)
      BY DEF CwRead
    <3> HIDE DEF CwRead, CwSent, p
    <3> QED
      BY <3>1, <3>2
  <2>4. cwHanded = <<CW!GetContent(cwId, p)>>
    BY <2>2, <2>3 DEF CwGathered
  <2>5. CW!Carries(cwId, CW!GetContent(cwId, p), cwContent)
    BY <2>2, ContentIs
  <2> QED
    BY <2>4, <2>5
<1> QED
  BY <1>1, <1>2 DEF WireDelivers, CW!WholeIsHanded
-----------------------------------------------------------------------------
(* A packet of 8 bytes and its content, put together by CSndCanCtrl and    *)
(* cut into frames, gets through whole: whatever stands in the buffer of   *)
(* the reader (CNewProtocolCanCtrl::Process, C388CanCtrl), however long    *)
(* the content is, for any checksums that are bytes, it is handed out once *)
(* with its content, if no frame is lost or changed and no later frame     *)
(* looks like a head; and no frame writes past the size of its packet.     *)
THEOREM PacketsWireDelivers == ReadersSpec => []WireDelivers
  BY CwImplemented, CwHolds, CwShown, PTL

(* The head of an S-bus packet is found and is one after whole reads of a  *)
(* stream without bytes that look like it (the two tests of the tool's     *)
(* read loop), and the key of the first IMU packet is right after two      *)
(* whole packets; a wrong one takes what the properties name.              *)
THEOREM PacketsStartIsFound == ReadersSpec => []StartIsFound
  BY SbusImplemented, SbusHolds, StartImplemented, StartHolds, PTL DEF StartIsFound

(* The readers of the first version, which append frames until the length  *)
(* is reached, mix data of two packets only after losses in both, deliver  *)
(* the second of two whole packets unless the frames cut its tail, never   *)
(* deliver one whose tail is cut, and keep the order.                      *)
THEOREM PacketsOldReadersRecover == ReadersSpec => []OldReadersRecover
  BY OldImplemented, OldHolds, PTL DEF OldReadersRecover

(* The ring of IMU records: RecvIMU keeps it aligned whatever is lost, and *)
(* GetIMU returns no record that was never filled, none older than the one *)
(* before it, and a mixed one only after a tail and a head were lost.      *)
THEOREM PacketsImuReaderRight == ReadersSpec => ImuReaderRight
  BY ImuImplemented, ImuHolds, PTL DEF ImuReaderRight
=============================================================================
