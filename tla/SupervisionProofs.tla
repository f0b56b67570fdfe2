-------------------------- MODULE SupervisionProofs -------------------------
(***************************************************************************)
(* The supervisor and what surrounds it, for all values of the constants:  *)
(* visionDaemon runs one instance of each program at most, never loses     *)
(* sight of one, kills only silent ones and starts each only as often as   *)
(* it may (Daemon); what a heartbeat reports (StatusCode), what a store    *)
(* keeps on its disks (ImageStore), and what is left of the supervisor's   *)
(* order when execl fails and a copy of it goes on (Supervisors).          *)
(*                                                                         *)
(* The last three are proved by themselves and then for the behaviours of  *)
(* Supervision, in which one of the modules moves and the others stay.     *)
(***************************************************************************)
EXTENDS Supervision, FiniteSetTheorems, WellFoundedInduction, TLAPS

(* Daemon.                                                                 *)
InfoType == [pid : Pids, times : 0 .. MaxUnrecv + 1, restarts : 0 .. MaxRestart]
PassType == [pc : {"idle", "visit", "wait", "fork"}, at : 0 .. MaxPid]

(* Every pid the daemon knows of was started.                              *)
PidInv ==
  /\ DOMAIN procMap \subseteq DOMAIN progOf
  /\ living \subseteq DOMAIN progOf
  /\ \A n \in 1 .. Len(beats) : beats[n] \in DOMAIN progOf

(* A process that runs is the one its PROC_INFO names: the daemon starts   *)
(* the next one only when the last one is dead, and pids are not reused.   *)
CurrentInv == \A p \in living : info[progOf[p]].pid = p

(* The iterator is on an entry of the map all through a pass, and what the *)
(* pass decided about that entry is still so when it acts on it.           *)
PassInv ==
  /\ pass.pc = "idle" => pass.at = NoKey
  /\ pass.pc # "idle" => pass.at \in DOMAIN procMap
  /\ pass.pc \in {"wait", "fork"} =>
       procMap[pass.at] \in Programs /\ Lost(info[procMap[pass.at]])
  /\ pass.pc = "fork" => info[procMap[pass.at]].pid \notin living

(* times counts the passes that visited a child, silent the passes begun;  *)
(* a pass visits again what it started, so times may be one ahead.         *)
ToVisit(g) ==
  \/ pass.pc # "idle" /\ info[g].pid > pass.at
  \/ pass.pc = "visit" /\ info[g].pid = pass.at

TimesInv ==
  \A g \in Programs :
    /\ info[g].times <= silent[g] + 1
    /\ ToVisit(g) => info[g].times <= silent[g]

(* restart_times is the number of starts since the last beat.              *)
SpentInv == \A g \in Programs : spent[g] = info[g].restarts

DaemonInv ==
  TypeOK /\ PidInv /\ Supervised /\ CurrentInv /\ PassInv /\ TimesInv /\ SpentInv

LEMMA DaemonInitInv == Init => DaemonInv
<1> SUFFICES ASSUME Init PROVE DaemonInv
  OBVIOUS
<1> USE DaemonAssumption DEF Init, Idle, NoKey, Pids
<1>1. Cardinality(Programs) \in Nat
  BY FS_CardinalityType
<1>2. progOf \in Seq(Programs) /\ Len(progOf) = Cardinality(Programs)
  BY <1>1
<1>3. TypeOK
  <2>1. living \in SUBSET Pids /\ DOMAIN procMap \in SUBSET Pids
    BY <1>1, <1>2
  <2>2. \A k \in DOMAIN procMap : procMap[k] \in Programs \cup {Null}
    BY <1>2
  <2>3. info \in [Programs -> [pid : Pids, times : 0 .. MaxUnrecv + 1,
                              restarts : 0 .. MaxRestart]]
    BY <1>1, <1>2
  <2>4. pass \in [pc : {"idle", "visit", "wait", "fork"}, at : 0 .. MaxPid]
    OBVIOUS
  <2>5. beats \in Seq(Pids) /\ Len(progOf) <= MaxPid
    BY <1>1, <1>2
  <2>6. silent \in [Programs -> 0 .. MaxUnrecv + 1]
    OBVIOUS
  <2>7. spent \in [Programs -> Nat] /\ fails \in 0 .. MaxFails
    OBVIOUS
  <2>8. crashed \in BOOLEAN
    OBVIOUS
  <2> QED
    BY <1>2, <2>1, <2>2, <2>3, <2>4, <2>5, <2>6, <2>7, <2>8, Zenon DEF TypeOK
<1>4. PidInv
  BY DEF PidInv
<1>5. Supervised
  BY <1>1, <1>2 DEF Supervised
<1>6. CurrentInv /\ PassInv /\ TimesInv /\ SpentInv
  BY <1>1, <1>2 DEF CurrentInv, PassInv, TimesInv, ToVisit, SpentInv
<1> QED
  BY <1>3, <1>4, <1>5, <1>6 DEF DaemonInv

LEMMA BeatInv ==
  ASSUME DaemonInv, NEW p \in Pids, Beat(p)
  PROVE  DaemonInv'
<1> USE DEF DaemonInv, Beat, daemon, children, history
<1>1. TypeOK'
  BY DEF TypeOK
<1>2. PidInv'
  <2>1. beats' = Append(beats, p) /\ beats \in Seq(Pids)
    BY DEF TypeOK
  <2>2. \A n \in 1 .. Len(beats') : beats'[n] = p \/ \E m \in 1 .. Len(beats) :
                                                    beats'[n] = beats[m]
    BY <2>1
  <2>3. p \in DOMAIN progOf
    BY DEF PidInv
  <2> QED
    BY <2>2, <2>3 DEF PidInv
<1>3. Supervised' /\ CurrentInv' /\ PassInv' /\ TimesInv' /\ SpentInv'
  BY DEF Supervised, CurrentInv, PassInv, Lost, TimesInv, ToVisit, SpentInv
<1> QED
  BY <1>1, <1>2, <1>3

LEMMA DieInv ==
  ASSUME DaemonInv, NEW p \in Pids, Die(p)
  PROVE  DaemonInv'
<1> USE DEF DaemonInv, Die, daemon, history
<1>1. TypeOK' /\ PidInv' /\ CurrentInv'
  BY DEF TypeOK, PidInv, CurrentInv
<1>2. Supervised' /\ PassInv' /\ TimesInv' /\ SpentInv'
  BY DEF Supervised, PassInv, Lost, TimesInv, ToVisit, SpentInv
<1> QED
  BY <1>1, <1>2

LEMMA HandleBeatInv ==
  ASSUME DaemonInv, HandleBeat
  PROVE  DaemonInv'
<1> DEFINE p == Head(beats)
<1> USE DEF DaemonInv
<1>1. /\ p \in DOMAIN progOf /\ p \in Pids
      /\ beats' \in Seq(Pids)
      /\ \A n \in 1 .. Len(beats') : beats'[n] \in DOMAIN progOf
  <2>1. beats \in Seq(Pids) /\ beats # <<>>
    BY DEF HandleBeat, TypeOK
  <2>2. beats' = Tail(beats) /\ p = beats[1] /\ 1 \in 1 .. Len(beats)
    BY <2>1 DEF HandleBeat
  <2>3. beats' \in Seq(Pids) /\ p \in Pids
    BY <2>1, <2>2
  <2>4. \A n \in 1 .. Len(beats') :
          n + 1 \in 1 .. Len(beats) /\ beats'[n] = beats[n + 1]
    BY <2>1, <2>2
  <2> QED
    BY <2>2, <2>3, <2>4 DEF PidInv
<1>2. pass.pc = "idle" /\ UNCHANGED <<pass, crashed, progOf, living, fails>>
  BY DEF HandleBeat, children
<1>3. ASSUME TypeOK', UNCHANGED info,
             DOMAIN procMap' \subseteq DOMAIN procMap \cup {p},
             \A k \in DOMAIN procMap : procMap'[k] = procMap[k],
             p \in DOMAIN procMap' \ DOMAIN procMap => procMap'[p] = Null,
             DOMAIN procMap \subseteq DOMAIN procMap'
      PROVE  PidInv' /\ CurrentInv' /\ Supervised'
  <2>1. PidInv' /\ CurrentInv'
    BY <1>1, <1>2, <1>3 DEF PidInv, CurrentInv
  <2>2. Supervised'
    BY <1>2, <1>3, DaemonAssumption DEF Supervised
  <2> QED
    BY <2>1, <2>2
<1>4. CASE p \in DOMAIN procMap /\ procMap[p] # Null
  <2> DEFINE g == procMap[p]
  <2>1. /\ g \in Programs
        /\ info' = [info EXCEPT ![g] = [pid |-> info[g].pid, times |-> 0,
                                        restarts |-> 0]]
        /\ silent' = [silent EXCEPT ![g] = 0]
        /\ spent' = [spent EXCEPT ![g] = 0]
        /\ procMap' = procMap
    BY <1>4 DEF HandleBeat, TypeOK, Answered
  <2> HIDE DEF g
  <2>2. info' \in [Programs -> InfoType]
    BY <2>1, DaemonAssumption DEF TypeOK, InfoType
  <2>3. TypeOK'
    BY <1>1, <1>2, <2>1, <2>2, DaemonAssumption DEF TypeOK, InfoType
  <2>4. \A h \in Programs : info'[h].pid = info[h].pid
    BY <2>1 DEF TypeOK
  <2>5. PidInv' /\ Supervised'
    BY <1>1, <1>2, <2>1, <2>4 DEF PidInv, Supervised
  <2>6. CurrentInv'
    BY <1>2, <2>4 DEF TypeOK, PidInv, CurrentInv
  <2>7. PassInv' /\ TimesInv' /\ SpentInv'
    BY <1>2, <2>1 DEF TypeOK, PassInv, TimesInv, ToVisit, SpentInv
  <2> QED
    BY <2>3, <2>5, <2>6, <2>7
<1>5. CASE ~(p \in DOMAIN procMap /\ procMap[p] # Null)
  <2>1. /\ UNCHANGED <<info, silent, spent>>
        /\ DOMAIN procMap' = DOMAIN procMap \cup {p}
        /\ \A k \in DOMAIN procMap : procMap'[k] = procMap[k]
        /\ procMap'[p] = Null
    BY <1>5 DEF HandleBeat
  <2>2. TypeOK'
    BY <1>1, <1>2, <2>1 DEF TypeOK
  <2>3. PassInv' /\ TimesInv' /\ SpentInv'
    BY <1>2, <2>1 DEF PassInv, TimesInv, ToVisit, SpentInv
  <2> QED
    BY <1>3, <2>1, <2>2, <2>3
<1> QED
  BY <1>4, <1>5
LEMMA PassBeginInv ==
  ASSUME DaemonInv, PassBegin
  PROVE  DaemonInv'
<1> USE DEF DaemonInv, Idle, NoKey
<1>1. UNCHANGED <<procMap, info, crashed, progOf, living, beats, fails, spent>>
  BY DEF PassBegin, children
<1>2. /\ pass' \in PassType
      /\ pass'.pc = "idle" \/ pass'.pc = "visit"
      /\ pass'.pc = "idle" => pass'.at = 0
      /\ pass'.pc = "visit" => pass'.at \in DOMAIN procMap
  BY DaemonAssumption DEF PassBegin, MoveOn, TypeOK, PassType, Pids
<1>3. /\ silent' \in [Programs -> 0 .. MaxUnrecv + 1]
      /\ \A g \in Programs : info[g].times <= silent'[g]
  <2>1. silent' = [g \in Programs |-> OneMore(silent[g])]
    BY DEF PassBegin
  <2>2. ASSUME NEW g \in Programs
        PROVE  /\ OneMore(silent[g]) \in 0 .. MaxUnrecv + 1
               /\ info[g].times <= OneMore(silent[g])
    <3>1. /\ silent[g] \in 0 .. MaxUnrecv + 1
          /\ info[g].times \in 0 .. MaxUnrecv + 1
      BY DEF TypeOK
    <3>2. info[g].times <= silent[g] + 1
      BY DEF TimesInv
    <3> QED
      BY <3>1, <3>2, DaemonAssumption DEF OneMore
  <2> QED
    BY <2>1, <2>2
<1>4. TypeOK'
  BY <1>1, <1>2, <1>3 DEF TypeOK, PassType
<1>5. PidInv' /\ Supervised' /\ CurrentInv' /\ SpentInv'
  BY <1>1 DEF PidInv, Supervised, CurrentInv, SpentInv
<1>6. PassInv'
  BY <1>1, <1>2 DEF PassInv
<1>7. TimesInv'
  BY <1>1, <1>3, DaemonAssumption DEF TimesInv, TypeOK
<1> QED
  BY <1>4, <1>5, <1>6, <1>7

(* A visit counts in times; nothing but times changes in a PROC_INFO.      *)
LEMMA VisitCounts ==
  ASSUME DaemonInv, NEW g \in Programs, Visiting(g),
         info' = [info EXCEPT ![g].times = OneMore(@)]
  PROVE  /\ info' \in [Programs -> InfoType]
         /\ info[g].pid = pass.at
         /\ info'[g].times = OneMore(info[g].times)
         /\ info'[g].times <= silent[g] + 1
         /\ \A h \in Programs : info'[h].pid = info[h].pid
                              /\ info'[h].restarts = info[h].restarts
         /\ \A h \in Programs \ {g} : info'[h] = info[h]
<1> USE DaemonAssumption DEF DaemonInv
<1>1. info[g] \in InfoType /\ silent[g] \in 0 .. MaxUnrecv + 1
  BY DEF TypeOK, InfoType
<1>2. info'[g] = [info[g] EXCEPT !.times = OneMore(@)]
  BY DEF TypeOK
<1>3. info'[g] \in InfoType
  BY <1>1, <1>2 DEF InfoType, OneMore
<1>4. info' \in [Programs -> InfoType]
  BY <1>3 DEF TypeOK, InfoType
<1>5. info[g].pid = pass.at /\ ToVisit(g)
  BY DEF Visiting, Supervised, PassInv, ToVisit
<1>6. info'[g].times <= silent[g] + 1
  BY <1>1, <1>2, <1>5 DEF InfoType, TimesInv, OneMore
<1> QED
  BY <1>1, <1>2, <1>4, <1>5, <1>6 DEF TypeOK, InfoType

LEMMA VisitKeepInv ==
  ASSUME DaemonInv, NEW g \in Programs, VisitKeep(g)
  PROVE  DaemonInv'
<1> USE DEF DaemonInv, Idle, NoKey
<1>1. /\ Visiting(g)
      /\ info' = [info EXCEPT ![g].times = OneMore(@)]
      /\ UNCHANGED <<procMap, crashed, progOf, living, beats, fails, silent, spent>>
  BY DEF VisitKeep, children, history
<1>2. /\ pass' \in PassType
      /\ pass'.pc = "idle" \/ pass'.pc = "visit"
      /\ pass'.pc = "idle" => pass'.at = 0
      /\ pass'.pc = "visit" => pass'.at \in DOMAIN procMap /\ pass'.at > pass.at
  BY DaemonAssumption DEF VisitKeep, MoveOn, TypeOK, PassType, Pids
<1>3. TypeOK'
  BY <1>1, <1>2, VisitCounts DEF TypeOK, PassType, InfoType
<1>4. PidInv' /\ Supervised' /\ CurrentInv' /\ SpentInv'
  <2>1. \A p \in living : progOf[p] \in Programs
    BY DEF TypeOK, PidInv
  <2> QED
    BY <1>1, <2>1, VisitCounts DEF PidInv, Supervised, CurrentInv, SpentInv
<1>5. PassInv'
  BY <1>1, <1>2 DEF PassInv
<1>6. TimesInv'
  <2> SUFFICES ASSUME NEW h \in Programs
               PROVE  /\ info'[h].times <= silent[h] + 1
                      /\ ToVisit(h)' => info'[h].times <= silent[h]
    BY <1>1 DEF TimesInv
  <2>1. info'[h].pid = info[h].pid /\ info[h].pid \in Nat /\ pass.at \in Nat
    <3>1. info'[h].pid = info[h].pid
      BY <1>1, VisitCounts
    <3>2. info[h].pid \in Pids /\ pass.at \in 0 .. MaxPid
      BY DEF TypeOK
    <3> QED
      BY <3>1, <3>2 DEF Pids
  <2>2. pass'.at \in Nat
    BY <1>2 DEF PassType
  <2>3. CASE h = g
    <3>1. info[h].pid = pass.at /\ info'[h].times <= silent[h] + 1
      BY <1>1, <2>3, VisitCounts
    <3>2. ~ToVisit(h)'
      BY <1>2, <2>1, <2>2, <3>1 DEF ToVisit
    <3> QED
      BY <3>1, <3>2
  <2>4. CASE h # g
    <3>1. info'[h] = info[h]
      BY <1>1, <2>4, VisitCounts
    <3>2. ToVisit(h)' => ToVisit(h)
      BY <1>1, <1>2, <2>1, <2>2 DEF ToVisit, Visiting
    <3> QED
      BY <3>1, <3>2 DEF TimesInv
  <2> QED
    BY <2>3, <2>4
<1> QED
  BY <1>3, <1>4, <1>5, <1>6
LEMMA VisitKillInv ==
  ASSUME DaemonInv, NEW g \in Programs, VisitKill(g) \/ VisitKillFails(g)
  PROVE  DaemonInv'
<1> USE DEF DaemonInv
<1>1. /\ Visiting(g)
      /\ info' = [info EXCEPT ![g].times = OneMore(@)]
      /\ Lost(info'[g])
      /\ living' \subseteq living
      /\ fails' \in 0 .. MaxFails
      /\ UNCHANGED <<procMap, crashed, progOf, beats, silent, spent>>
  BY DaemonAssumption DEF VisitKill, VisitKillFails, TypeOK, children, history
<1>2. /\ pass' = [pc |-> "wait", at |-> pass.at]
      /\ pass' \in PassType
  BY DEF VisitKill, VisitKillFails, TypeOK, PassType
<1>3. TypeOK'
  BY <1>1, <1>2, VisitCounts DEF TypeOK, PassType, InfoType
<1>4. PidInv' /\ Supervised' /\ CurrentInv' /\ SpentInv'
  <2>1. \A p \in living : progOf[p] \in Programs
    BY DEF TypeOK, PidInv
  <2> QED
    BY <1>1, <2>1, VisitCounts DEF PidInv, Supervised, CurrentInv, SpentInv
<1>5. PassInv'
  BY <1>1, <1>2 DEF PassInv, Visiting
<1>6. TimesInv'
  <2> SUFFICES ASSUME NEW h \in Programs
               PROVE  /\ info'[h].times <= silent[h] + 1
                      /\ ToVisit(h)' => info'[h].times <= silent[h]
    BY <1>1 DEF TimesInv
  <2>1. info'[h].pid = info[h].pid /\ info[h].pid \in Nat /\ pass.at \in Nat
    <3>1. info'[h].pid = info[h].pid
      BY <1>1, VisitCounts
    <3>2. info[h].pid \in Pids /\ pass.at \in 0 .. MaxPid
      BY DEF TypeOK
    <3> QED
      BY <3>1, <3>2 DEF Pids
  <2>2. CASE h = g
    <3>1. info[h].pid = pass.at /\ info'[h].times <= silent[h] + 1
      BY <1>1, <2>2, VisitCounts
    <3>2. ~ToVisit(h)'
      BY <1>2, <2>1, <3>1 DEF ToVisit
    <3> QED
      BY <3>1, <3>2
  <2>3. CASE h # g
    <3>1. info'[h] = info[h]
      BY <1>1, <2>3, VisitCounts
    <3>2. ToVisit(h)' => ToVisit(h)
      BY <1>1, <1>2, <2>1 DEF ToVisit, Visiting
    <3> QED
      BY <3>1, <3>2 DEF TimesInv
  <2> QED
    BY <2>2, <2>3
<1> QED
  BY <1>3, <1>4, <1>5, <1>6

LEMMA WaitInv ==
  ASSUME DaemonInv, NEW g \in Programs, Wait(g)
  PROVE  DaemonInv'
<1> USE DEF DaemonInv
<1>1. /\ procMap[pass.at] = g /\ info[g].pid \notin living
      /\ pass.pc = "wait" /\ pass' = [pc |-> "fork", at |-> pass.at]
      /\ UNCHANGED <<procMap, info, crashed, progOf, living, beats, history>>
  BY DEF Wait, children, TypeOK
<1>2. TypeOK' /\ PidInv' /\ Supervised' /\ CurrentInv' /\ SpentInv'
  BY <1>1 DEF TypeOK, PidInv, Supervised, CurrentInv, SpentInv, history
<1>3. PassInv' /\ TimesInv'
  BY <1>1 DEF PassInv, TimesInv, ToVisit, history
<1> QED
  BY <1>2, <1>3

LEMMA ForkFailsInv ==
  ASSUME DaemonInv, NEW g \in Programs, ForkFails(g)
  PROVE  DaemonInv'
<1> USE DEF DaemonInv, Idle, NoKey
<1>1. /\ pass.pc = "fork"
      /\ fails' \in 0 .. MaxFails
      /\ UNCHANGED <<procMap, info, crashed, progOf, living, beats, silent, spent>>
  BY DaemonAssumption DEF ForkFails, children, TypeOK
<1>2. /\ pass' \in PassType
      /\ pass'.pc = "idle" \/ pass'.pc = "visit"
      /\ pass'.pc = "idle" => pass'.at = 0
      /\ pass'.pc = "visit" => pass'.at \in DOMAIN procMap /\ pass'.at > pass.at
  <2>1. MoveOn(procMap, pass.at)
    BY DEF ForkFails
  <2> QED
    BY <2>1, DaemonAssumption DEF MoveOn, TypeOK, PassType, Pids
<1>3. TypeOK' /\ PidInv' /\ Supervised' /\ CurrentInv' /\ SpentInv'
  BY <1>1, <1>2 DEF TypeOK, PassType, PidInv, Supervised, CurrentInv, SpentInv
<1>4. PassInv'
  BY <1>1, <1>2 DEF PassInv
<1>5. TimesInv'
  <2>1. ASSUME NEW h \in Programs, ToVisit(h)' PROVE ToVisit(h)
    <3>1. info[h].pid \in Nat /\ pass.at \in Nat /\ pass'.at \in Nat
      BY <1>2 DEF TypeOK, Pids, PassType
    <3> QED
      BY <1>1, <1>2, <2>1, <3>1 DEF ToVisit
  <2> QED
    BY <1>1, <2>1 DEF TimesInv
<1> QED
  BY <1>3, <1>4, <1>5
LEMMA ForkKeepsInv ==
  ASSUME DaemonInv, NEW g \in Programs, Fork(g)
  PROVE  DaemonInv'
<1> DEFINE p == Len(progOf) + 1
<1> USE DEF DaemonInv, Idle, NoKey
<1>1. /\ pass.pc = "fork" /\ procMap[pass.at] = g /\ p \in Pids
      /\ progOf' = Append(progOf, g)
      /\ living' = living \cup {p}
      /\ silent' = [silent EXCEPT ![g] = 0]
      /\ spent' = [spent EXCEPT ![g] = @ + 1]
      /\ UNCHANGED <<crashed, beats, fails>>
  BY DEF Fork
<1>2. /\ pass.at \in DOMAIN procMap /\ info[g].pid = pass.at
      /\ Lost(info[g]) /\ pass.at \notin living
  BY <1>1 DEF PassInv, Supervised
<1>3. /\ DOMAIN progOf = 1 .. p - 1 /\ p \in Nat /\ pass.at < p
      /\ pass.at \in 1 .. MaxPid
  <2>1. progOf \in Seq(Programs) /\ DOMAIN procMap \in SUBSET Pids
    BY DEF TypeOK
  <2>2. DOMAIN progOf = 1 .. Len(progOf) /\ Len(progOf) \in Nat
    BY <2>1
  <2>3. pass.at \in DOMAIN progOf /\ pass.at \in Pids
    BY <1>2, <2>1 DEF PidInv
  <2> QED
    BY <2>2, <2>3 DEF Pids
<1>4. /\ progOf' \in Seq(Programs) /\ Len(progOf') = p
      /\ progOf'[p] = g /\ \A q \in 1 .. p - 1 : progOf'[q] = progOf[q]
      /\ DOMAIN progOf' = 1 .. p
  BY <1>1 DEF TypeOK
<1>5. /\ DOMAIN procMap' = (DOMAIN procMap \cup {p}) \ {pass.at}
      /\ procMap'[p] = g
      /\ \A k \in DOMAIN procMap \ {pass.at} : procMap'[k] = procMap[k]
  <2>1. procMap' = Rekeyed(procMap, pass.at, p)
    BY DEF Fork
  <2>2. p \notin DOMAIN procMap
    BY <1>3 DEF PidInv
  <2> QED
    BY <1>1, <1>3, <2>1, <2>2 DEF Rekeyed
<1>6. info' = [info EXCEPT ![g] = [pid |-> p, times |-> 0,
                                   restarts |-> info[g].restarts + 1]]
  BY DEF Fork, Restarted
<1>7. /\ info' \in [Programs -> InfoType]
      /\ info'[g] = [pid |-> p, times |-> 0, restarts |-> info[g].restarts + 1]
      /\ \A h \in Programs \ {g} : info'[h] = info[h]
  <2>1. info[g] \in InfoType /\ info[g].restarts < MaxRestart
    BY <1>2 DEF TypeOK, InfoType, Lost
  <2>2. [pid |-> p, times |-> 0, restarts |-> info[g].restarts + 1] \in InfoType
    BY <1>1, <2>1, DaemonAssumption DEF InfoType
  <2> QED
    BY <1>6, <2>2 DEF TypeOK, InfoType
<1>8. /\ pass' \in PassType
      /\ pass'.pc = "idle" \/ pass'.pc = "visit"
      /\ pass'.pc = "idle" => pass'.at = 0
      /\ pass'.pc = "visit" => pass'.at \in DOMAIN procMap' /\ pass'.at > pass.at
  <2>1. MoveOn(procMap', pass.at)
    BY DEF Fork
  <2>2. DOMAIN procMap' \subseteq 1 .. MaxPid
    BY <1>1, <1>5 DEF TypeOK, Pids
  <2> QED
    BY <2>1, <2>2, DaemonAssumption DEF MoveOn, PassType
<1>9. SpentInv' /\ spent' \in [Programs -> Nat]
  <2>1. ASSUME NEW h \in Programs
        PROVE  spent'[h] = info'[h].restarts /\ info'[h].restarts \in 0 .. MaxRestart
    <3>1. info'[h] \in InfoType /\ spent[h] = info[h].restarts
      BY <1>7 DEF SpentInv
    <3>2. spent'[h] = IF h = g THEN spent[h] + 1 ELSE spent[h]
      BY <1>1 DEF TypeOK
    <3> QED
      BY <1>7, <3>1, <3>2 DEF InfoType
  <2>2. spent' \in [Programs -> Nat]
    BY <1>1, <2>1 DEF TypeOK
  <2> QED
    BY <2>1, <2>2 DEF SpentInv
<1>10. TypeOK'
  <2>1. DOMAIN procMap' \in SUBSET Pids /\ living' \in SUBSET Pids
    BY <1>1, <1>5 DEF TypeOK
  <2>2. \A k \in DOMAIN procMap' : procMap'[k] \in Programs \cup {Null}
    BY <1>5 DEF TypeOK
  <2>3. silent' \in [Programs -> 0 .. MaxUnrecv + 1]
    BY <1>1, DaemonAssumption DEF TypeOK
  <2>4. Len(progOf') <= MaxPid
    BY <1>1, <1>4, DaemonAssumption DEF Pids
  <2> QED
    BY <1>1, <1>4, <1>7, <1>8, <1>9, <2>1, <2>2, <2>3, <2>4
       DEF TypeOK, InfoType, PassType
<1>11. PidInv'
  BY <1>1, <1>3, <1>4, <1>5 DEF PidInv
<1>12. Supervised'
  <2> SUFFICES ASSUME NEW h \in Programs
               PROVE  /\ {k \in DOMAIN procMap' : procMap'[k] = h} = {info'[h].pid}
                      /\ progOf'[info'[h].pid] = h
                      /\ \A q \in DOMAIN progOf' :
                           progOf'[q] = h => q <= info'[h].pid
    BY DEF Supervised
  <2>1. CASE h = g
    <3>1. {k \in DOMAIN procMap : procMap[k] = g} = {pass.at}
      BY <1>2 DEF Supervised
    <3>2. {k \in DOMAIN procMap' : procMap'[k] = g} = {p}
      <4>1. p \in DOMAIN procMap' /\ procMap'[p] = g
        BY <1>3, <1>5
      <4>2. ASSUME NEW k \in DOMAIN procMap', procMap'[k] = g, k # p
            PROVE  FALSE
        <5>1. k \in DOMAIN procMap /\ k # pass.at /\ procMap[k] = g
          BY <1>5, <4>2
        <5> QED
          BY <3>1, <5>1
      <4> QED
        BY <4>1, <4>2
    <3> QED
      BY <1>3, <1>4, <1>7, <2>1, <3>2
  <2>2. CASE h # g
    <3>1. /\ {k \in DOMAIN procMap : procMap[k] = h} = {info[h].pid}
          /\ progOf[info[h].pid] = h
          /\ \A q \in DOMAIN progOf : progOf[q] = h => q <= info[h].pid
      BY DEF Supervised
    <3>2. info[h].pid \in 1 .. p - 1
      BY <1>3, <3>1 DEF PidInv
    <3>3. {k \in DOMAIN procMap' : procMap'[k] = h} = {info[h].pid}
      BY <1>1, <1>5, <2>2, <3>1
    <3> QED
      BY <1>3, <1>4, <1>7, <2>2, <3>1, <3>2, <3>3
  <2> QED
    BY <2>1, <2>2
<1>13. CurrentInv'
  <2> SUFFICES ASSUME NEW q \in living'
               PROVE  info'[progOf'[q]].pid = q
    BY DEF CurrentInv
  <2>1. CASE q = p
    BY <1>4, <1>7, <2>1
  <2>2. CASE q # p
    <3>1. q \in living /\ q \in 1 .. p - 1 /\ info[progOf[q]].pid = q
      BY <1>1, <1>3, <2>2 DEF PidInv, CurrentInv
    <3>2. progOf[q] \in Programs /\ progOf[q] # g
      BY <1>2, <1>3, <3>1 DEF TypeOK
    <3> QED
      BY <1>4, <1>7, <3>1, <3>2
  <2> QED
    BY <2>1, <2>2
<1>14. PassInv'
  BY <1>8 DEF PassInv
<1>15. TimesInv'
  <2> SUFFICES ASSUME NEW h \in Programs
               PROVE  /\ info'[h].times <= silent'[h] + 1
                      /\ ToVisit(h)' => info'[h].times <= silent'[h]
    BY DEF TimesInv
  <2>1. CASE h = g
    BY <1>1, <1>7, <2>1 DEF TypeOK
  <2>2. CASE h # g
    <3>1. info'[h] = info[h] /\ silent'[h] = silent[h]
      BY <1>1, <1>7, <2>2 DEF TypeOK
    <3>2. info[h].pid \in Nat /\ pass.at \in Nat /\ pass'.at \in Nat
      BY <1>8 DEF TypeOK, Pids, PassType
    <3>3. ToVisit(h)' => ToVisit(h)
      BY <1>1, <1>8, <3>1, <3>2 DEF ToVisit
    <3> QED
      BY <3>1, <3>3 DEF TimesInv
  <2> QED
    BY <2>1, <2>2
<1> QED
  BY <1>9, <1>10, <1>11, <1>12, <1>13, <1>14, <1>15
LEMMA DaemonStepInv == DaemonInv /\ [Next]_vars => DaemonInv'
<1> SUFFICES ASSUME DaemonInv, [Next]_vars PROVE DaemonInv'
  OBVIOUS
<1>1. ASSUME NEW p \in Pids, Beat(p) \/ Die(p) PROVE DaemonInv'
  BY <1>1, BeatInv, DieInv
<1>2. CASE HandleBeat
  BY <1>2, HandleBeatInv
<1>3. CASE PassBegin
  BY <1>3, PassBeginInv
<1>4. CASE VisitNull \/ UNCHANGED vars
  <2>1. UNCHANGED <<procMap, info, pass, children, beats, history>>
        /\ crashed' \in {crashed, TRUE}
    BY <1>4 DEF VisitNull, vars, daemon
  <2>2. TypeOK' /\ PidInv' /\ Supervised' /\ CurrentInv'
    BY <2>1 DEF DaemonInv, TypeOK, PidInv, Supervised, CurrentInv, children, history
  <2>3. PassInv' /\ TimesInv' /\ SpentInv'
    BY <2>1 DEF DaemonInv, PassInv, TimesInv, ToVisit, SpentInv, children, history
  <2> QED
    BY <2>2, <2>3 DEF DaemonInv
<1>5. ASSUME NEW g \in Programs, DaemonStep(g) PROVE DaemonInv'
  BY <1>5, VisitKeepInv, VisitKillInv, WaitInv, ForkKeepsInv, ForkFailsInv
     DEF DaemonStep
<1> QED
  BY <1>1, <1>2, <1>3, <1>4, <1>5 DEF Next

(***************************************************************************)
(* visionDaemon.cpp:47-187: the keys of the map and the iterator of a pass *)
(* stay pids, every entry is a program's or NULL, and no count of missed   *)
(* beats or restarts passes its limit.                                     *)
(***************************************************************************)
THEOREM DaemonTypeCorrect == Spec => []TypeOK
<1>1. DaemonInv => TypeOK
  BY DEF DaemonInv
<1> QED
  BY <1>1, DaemonInitInv, DaemonStepInv, PTL DEF Spec

(***************************************************************************)
(* visionDaemon.cpp:160-187: kill -9, waitpid and fork of one thread never *)
(* let two instances of a program run together, not even when the kill     *)
(* fails or the fork fails and the entry keeps the pid of a dead process.  *)
(***************************************************************************)
THEOREM DaemonOneInstance == Spec => []OneInstance
<1>1. DaemonInv => OneInstance
  BY DEF DaemonInv, CurrentInv, OneInstance
<1> QED
  BY <1>1, DaemonInitInv, DaemonStepInv, PTL DEF Spec

(***************************************************************************)
(* visionDaemon.cpp:76-82, 119: the map is rekeyed while it is iterated    *)
(* and grows by lookups, and still has one entry for every program, under  *)
(* the pid of the process started last.                                    *)
(***************************************************************************)
THEOREM DaemonSupervises == Spec => []Supervised
<1>1. DaemonInv => Supervised
  BY DEF DaemonInv
<1> QED
  BY <1>1, DaemonInitInv, DaemonStepInv, PTL DEF Spec

(***************************************************************************)
(* visionDaemon.cpp:119: only the beat of a process that is dead leaves a  *)
(* NULL entry behind, so only such a beat can crash the next pass.         *)
(***************************************************************************)
THEOREM DaemonNullOnlyForDead == Spec => []NullOnlyForDead
<1>1. DaemonInv => NullOnlyForDead
  <2> SUFFICES ASSUME DaemonInv, NEW k \in DOMAIN procMap, procMap[k] = Null,
                      k \in living
               PROVE  FALSE
    BY DEF NullOnlyForDead
  <2>1. progOf[k] \in Programs /\ info[progOf[k]].pid = k
    BY DEF DaemonInv, TypeOK, PidInv, CurrentInv
  <2>2. procMap[k] = progOf[k]
    BY <2>1 DEF DaemonInv, Supervised
  <2> QED
    BY <2>1, <2>2, DaemonAssumption
<1> QED
  BY <1>1, DaemonInitInv, DaemonStepInv, PTL DEF Spec

(***************************************************************************)
(* visionDaemon.cpp:64: a child is only killed after MAX_UNRECV_TIMES      *)
(* passes began without a beat of it.                                      *)
(***************************************************************************)
THEOREM DaemonSilentBeforeKill == Spec => []SilentBeforeKill
<1>1. DaemonInv => SilentBeforeKill
  <2> SUFFICES ASSUME DaemonInv, pass.pc \in {"wait", "fork"}
               PROVE  silent[procMap[pass.at]] >= MaxUnrecv
    BY DEF SilentBeforeKill
  <2> DEFINE g == procMap[pass.at]
  <2>1. g \in Programs /\ info[g].times > MaxUnrecv
    BY DEF DaemonInv, PassInv, Lost
  <2>2. info[g].times <= silent[g] + 1
    BY <2>1 DEF DaemonInv, TimesInv
  <2>3. info[g].times \in 0 .. MaxUnrecv + 1 /\ silent[g] \in 0 .. MaxUnrecv + 1
    BY <2>1 DEF DaemonInv, TypeOK
  <2> QED
    BY <2>1, <2>2, <2>3, DaemonAssumption
<1> QED
  BY <1>1, DaemonInitInv, DaemonStepInv, PTL DEF Spec

(***************************************************************************)
(* visionDaemon.cpp:64, 173: MAX_RESTART_TIMES starts without a beat, and  *)
(* no more.                                                                *)
(***************************************************************************)
THEOREM DaemonBudgetRespected == Spec => []BudgetRespected
<1>1. DaemonInv => BudgetRespected
  BY DEF DaemonInv, TypeOK, SpentInv, BudgetRespected
<1> QED
  BY <1>1, DaemonInitInv, DaemonStepInv, PTL DEF Spec

(* m_mapProcInfo names every process started last, and the NULL entries    *)
(* that beats insert stand for killed processes only.                      *)
THEOREM DaemonMapIsRight == Spec => []MapIsRight
  BY DaemonTypeCorrect, DaemonSupervises, DaemonNullOnlyForDead, PTL DEF MapIsRight

(* The supervisor kills a child only after MAX_UNRECV_TIMES silent passes, *)
(* and MAX_RESTART_TIMES times at most without a beat.                     *)
THEOREM DaemonKillsOnlySilent == Spec => []KillsOnlySilent
  BY DaemonSilentBeforeKill, DaemonBudgetRespected, PTL DEF KillsOnlySilent
-----------------------------------------------------------------------------
(***************************************************************************)
(* Whatever moves, a behaviour is one of each module.                      *)
(***************************************************************************)
LEMMA StatusImplemented == AnySpec => SC!Spec
<1>1. AnyInit => SC!Init
  BY DEF AnyInit
<1>2. [AnyNext]_AnyVars => [SC!Next]_(SC!vars)
  BY DEF AnyNext, AnyVars, scVars, SC!vars, SC!child, SC!daemon
<1> QED
  BY <1>1, <1>2, PTL DEF AnySpec, SC!Spec

LEMMA StoreImplemented == AnySpec => ST!Spec
<1>1. AnyInit => ST!Init
  BY DEF AnyInit
<1>2. [AnyNext]_AnyVars => [ST!Next]_(ST!vars)
  BY DEF AnyNext, AnyVars, stVars, ST!vars
<1> QED
  BY <1>1, <1>2, PTL DEF AnySpec, ST!Spec

LEMMA SupervisorsImplemented == AnySpec => SV!Spec
<1>1. AnyInit => SV!Init
  BY DEF AnyInit
<1>2. [AnyNext]_AnyVars => [SV!Next]_(SV!vars)
  BY DEF AnyNext, AnyVars, svVars, SV!vars
<1> QED
  BY <1>1, <1>2, PTL DEF AnySpec, SV!Spec
-----------------------------------------------------------------------------
(***************************************************************************)
(* StatusCode.  Active puts 0 into the set first, nothing takes it out,    *)
(* and no code is larger.                                                  *)
(***************************************************************************)
OkInv ==
  /\ scMain = "start" => scSetErr = {} /\ ~scInSetErr
  /\ scMain \notin {"start", "ended"} => SC!ERR_SYSTIME_OK \in scSetErr
  /\ scSetErr = {} \/ SC!ERR_SYSTIME_OK \in scSetErr
  /\ scInSetErr => SC!ERR_SYSTIME_OK \in scSetErr

(* So the largest code of the set is 0, and that is what m_code stays at.  *)
CodeInv == scCode = SC!ERR_SYSTIME_OK

(* Which errors the set holds at each stage of Active and TransData.       *)
ErrorsInv ==
  /\ scMain \in {"start", "register", "devices", "load"} => ~scImuErr
  /\ scMain \in {"start", "register", "devices"} => SC!Errors = {}
  /\ scMain = "load" => SC!Errors = {SC!ERR_FPGA_UNINITED}
  /\ SC!SetTellsState

StatusInv ==
  SC!TypeOK /\ OkInv /\ CodeInv /\ ErrorsInv /\ SC!NoErrorIsReported

LEMMA StatusInitInv == SC!Init => StatusInv
<1> SUFFICES ASSUME SC!Init PROVE StatusInv
  OBVIOUS
<1> USE SurroundingsAssumption DEF SC!Init, SC!StatusAssumption
<1>1. SC!TypeOK
  <2>1. scMain \in SC!Stages /\ scSetErr \subseteq SC!Codes /\ scCode \in SC!Codes
    BY DEF SC!Stages, SC!Codes, SC!ERR_SYSTIME_OK
  <2>2. scBeats \in Seq([proc : 1 .. ScMaxProcs, code : SC!Codes]) /\ Len(scBeats) <= ScQueueCap
    OBVIOUS
  <2>3. scInfo \in [code : Garbage \cup SC!Codes, times : 0 .. MaxUnrecv + 1,
                   restarts : 0 .. MaxRestart]
    OBVIOUS
  <2>4. scProc \in 1 .. ScMaxProcs /\ scAlarm \in Garbage \cup SC!Codes
    BY DEF SC!Codes, SC!ERR_SYSTIME_OK
  <2> QED
    BY <2>1, <2>2, <2>3, <2>4 DEF SC!TypeOK
<1>2. OkInv /\ CodeInv /\ ErrorsInv /\ SC!NoErrorIsReported
  BY DEF OkInv, CodeInv, ErrorsInv, SC!Errors, SC!SetTellsState,
         SC!NoErrorIsReported, SC!ERR_SYSTIME_OK
<1> QED
  BY <1>1, <1>2 DEF StatusInv
(* The codes are what they are: 0 is the largest.                          *)
LEMMA OkIsLargest ==
  ASSUME NEW S \in SUBSET SC!Codes, SC!ERR_SYSTIME_OK \in S
  PROVE  SC!Stored(S) = SC!ERR_SYSTIME_OK
<1> USE DEF SC!Codes, SC!ERR_SYSTIME_OK, SC!ERR_FPGA_UNINITED,
            SC!ERR_IMU_UNRECEIVE, SC!ERR_PROC_UNINTIED
<1>1. \A y \in S : y <= 0
  OBVIOUS
<1>2. \A x \in S : (\A y \in S : y <= x) => x = 0
  BY <1>1
<1> QED
  BY <1>1, <1>2 DEF SC!Stored, SC!Largest

(* The steps of the child.  No step of it touches the queue or PROC_INFO.  *)
LEMMA ChildStep ==
  ASSUME StatusInv,
         \/ SC!StoreCode \/ SC!Active \/ SC!Register \/ SC!Preprocess4Fpga
         \/ SC!ActiveImpFails \/ SC!FpgaReady
         \/ \E good \in BOOLEAN : SC!GetImuFromCan(good)
         \/ SC!End
  PROVE  StatusInv'
<1> USE DEF StatusInv
<1>1. UNCHANGED <<scProc, scBeats, scCut, scInfo, scAlarm>>
  BY DEF SC!StoreCode, SC!Active, SC!Register, SC!Preprocess4Fpga,
         SC!ActiveImpFails, SC!FpgaReady, SC!GetImuFromCan, SC!End, SC!daemon
<1>2. scCode' = SC!ERR_SYSTIME_OK
  BY OkIsLargest DEF SC!TypeOK, OkInv, CodeInv,
         SC!StoreCode, SC!Active, SC!Register, SC!Preprocess4Fpga,
         SC!ActiveImpFails, SC!FpgaReady, SC!GetImuFromCan, SC!End
<1> USE DEF SC!AtWork, SC!SetErr, SC!RecoverErr
<1>3. /\ scMain' \in SC!Stages /\ scBeating' \in BOOLEAN /\ scInSetErr' \in BOOLEAN
      /\ scImuErr' \in BOOLEAN /\ scSetErr' \subseteq SC!Codes
  BY DEF SC!TypeOK, SC!Stages, SC!Codes, 
         SC!StoreCode, SC!Active, SC!Register, SC!Preprocess4Fpga,
         SC!ActiveImpFails, SC!FpgaReady, SC!GetImuFromCan, SC!End
<1>4. OkInv' /\ ErrorsInv'
  <2> USE DEF SC!TypeOK, SC!Stages, OkInv, ErrorsInv, SC!Errors, SC!SetTellsState,
          SC!ERR_SYSTIME_OK, SC!ERR_FPGA_UNINITED, SC!ERR_IMU_UNRECEIVE,
          SC!ERR_PROC_UNINTIED
  <2>1. CASE SC!StoreCode \/ SC!End
    BY <2>1 DEF SC!StoreCode, SC!End
  <2>2. CASE SC!Active \/ SC!Register \/ SC!Preprocess4Fpga
    BY <2>2 DEF SC!Active, SC!Register, SC!Preprocess4Fpga
  <2>3. CASE SC!ActiveImpFails \/ SC!FpgaReady
    BY <2>3 DEF SC!ActiveImpFails, SC!FpgaReady
  <2>4. ASSUME NEW good \in BOOLEAN, SC!GetImuFromCan(good)
        PROVE  OkInv' /\ ErrorsInv'
    BY <2>4 DEF SC!GetImuFromCan
  <2> QED
    BY <2>1, <2>2, <2>3, <2>4
<1>5. SC!TypeOK' /\ SC!NoErrorIsReported'
  BY <1>1, <1>2, <1>3 DEF SC!TypeOK, SC!NoErrorIsReported, SC!Codes
<1> QED
  BY <1>2, <1>4, <1>5 DEF CodeInv

(* The queue and the supervisor.                                           *)
LEMMA BeatStep ==
  ASSUME StatusInv,
         \/ \E mine \in BOOLEAN : SC!Destory(mine)
         \/ SC!SendHeartMsg \/ SC!ProcessHeartMsg
  PROVE  StatusInv'
<1> USE DEF StatusInv
<1> DEFINE HeartBit == [proc : 1 .. ScMaxProcs, code : SC!Codes]
<1>1. scBeats \in Seq(HeartBit) /\ \A k \in 1 .. Len(scBeats) : scBeats[k].code = 0
  BY DEF SC!TypeOK, SC!NoErrorIsReported, SC!ERR_SYSTIME_OK
<1>2. ASSUME NEW mine \in BOOLEAN, SC!Destory(mine)
      PROVE  StatusInv'
  <2>1. scBeats' = <<>>
    BY <1>2 DEF SC!Destory
  <2>2. /\ UNCHANGED <<scSetErr, scCode, scInSetErr, scImuErr, scProc, scInfo, scAlarm>>
        /\ scMain' \in {scMain, "ended"} /\ scBeating' \in {scBeating, FALSE}
        /\ scCut' \in BOOLEAN
    BY <1>2 DEF SC!Destory, SC!daemon
  <2>3. scBeats' \in Seq(HeartBit) /\ Len(scBeats') <= ScQueueCap
    BY <2>1, SurroundingsAssumption DEF SC!StatusAssumption
  <2>4. SC!TypeOK'
    BY <2>2, <2>3 DEF SC!TypeOK, SC!Stages
  <2> QED
    BY <2>1, <2>2, <2>4 DEF OkInv, CodeInv, ErrorsInv, SC!Errors, SC!SetTellsState,
       SC!NoErrorIsReported
<1>3. CASE SC!SendHeartMsg
  <2>1. /\ scBeats' = Append(scBeats, [proc |-> scProc, code |-> scCode])
        /\ Len(scBeats) < ScQueueCap
        /\ UNCHANGED <<scMain, scBeating, scSetErr, scCode, scInSetErr, scImuErr, scProc,
                       scCut, scInfo, scAlarm>>
    BY <1>3 DEF SC!SendHeartMsg, SC!daemon, SC!child
  <2>2. scBeats' \in Seq(HeartBit) /\ Len(scBeats') <= ScQueueCap
    BY <1>1, <2>1, SurroundingsAssumption DEF SC!TypeOK, SC!StatusAssumption
  <2>3. \A k \in 1 .. Len(scBeats') : scBeats'[k].code = 0
    BY <1>1, <2>1 DEF CodeInv, SC!ERR_SYSTIME_OK
  <2>4. SC!TypeOK' /\ SC!NoErrorIsReported'
    BY <2>1, <2>2, <2>3 DEF SC!TypeOK, SC!NoErrorIsReported, SC!ERR_SYSTIME_OK
  <2> QED
    BY <2>1, <2>4 DEF OkInv, CodeInv, ErrorsInv, SC!Errors, SC!SetTellsState
<1>4. CASE SC!ProcessHeartMsg
  <2>1. /\ scBeats # <<>> /\ scBeats' = Tail(scBeats)
        /\ scInfo' \in {scInfo, [code |-> Head(scBeats).code, times |-> 0, restarts |-> 0]}
        /\ UNCHANGED <<scMain, scBeating, scSetErr, scCode, scInSetErr, scImuErr, scProc,
                       scCut, scAlarm>>
    BY <1>4 DEF SC!ProcessHeartMsg, SC!child
  <2>2. /\ scBeats' \in Seq(HeartBit) /\ Len(scBeats') <= ScQueueCap
        /\ \A k \in 1 .. Len(scBeats') : scBeats'[k] = scBeats[k + 1]
                                         /\ k + 1 \in 1 .. Len(scBeats)
    BY <1>1, <2>1, SurroundingsAssumption DEF SC!TypeOK, SC!StatusAssumption
  <2>3. \A k \in 1 .. Len(scBeats') : scBeats'[k].code = 0
    BY <1>1, <2>2
  <2>4. Head(scBeats).code = 0
    BY <1>1, <2>1
  <2>5. scInfo' \in [code : Garbage \cup SC!Codes, times : 0 .. MaxUnrecv + 1,
                     restarts : 0 .. MaxRestart]
    BY <2>1, <2>4, SurroundingsAssumption
       DEF SC!TypeOK, SC!StatusAssumption, SC!Codes, SC!ERR_SYSTIME_OK
  <2>6. SC!TypeOK' /\ SC!NoErrorIsReported'
    BY <2>1, <2>2, <2>3, <2>5 DEF SC!TypeOK, SC!NoErrorIsReported, SC!ERR_SYSTIME_OK
  <2> QED
    BY <2>1, <2>6 DEF OkInv, CodeInv, ErrorsInv, SC!Errors, SC!SetTellsState
<1> QED
  BY <1>2, <1>3, <1>4

(* A pass starts a fresh child or leaves it as it was.                     *)
LEMMA PassStepInv ==
  ASSUME StatusInv, SC!Pass
  PROVE  StatusInv'
<1> USE DEF StatusInv
<1> DEFINE i == [scInfo EXCEPT !.times = SC!OneMore(@)]
           EntryType == [code : Garbage \cup SC!Codes, times : 0 .. MaxUnrecv + 1,
                        restarts : 0 .. MaxRestart]
<1> USE SurroundingsAssumption DEF SC!StatusAssumption
<1>1. /\ i \in EntryType
      /\ i.code = scInfo.code /\ i.restarts = scInfo.restarts
  <2>1. scInfo \in EntryType
    BY DEF SC!TypeOK
  <2>2. SC!OneMore(scInfo.times) \in 0 .. MaxUnrecv + 1
    BY <2>1 DEF SC!OneMore
  <2> QED
    BY <2>1, <2>2
<1>2. scAlarm' \in Garbage \cup SC!Codes
  BY <1>1 DEF SC!Pass, SC!Smaller, SC!TypeOK, SC!Codes
<1>3. UNCHANGED <<scBeats, scCut>>
  BY DEF SC!Pass
<1>4. CASE SC!Lost(i) /\ scProc < ScMaxProcs
  <2>1. /\ scProc' = scProc + 1
        /\ scInfo' = [i EXCEPT !.times = 0, !.restarts = @ + 1]
        /\ SC!Fresh
    BY <1>4 DEF SC!Pass
  <2>2. scInfo' \in EntryType
    <3> HIDE DEF i
    <3>1. i.restarts + 1 \in 0 .. MaxRestart /\ 0 \in 0 .. MaxUnrecv + 1
      BY <1>1, <1>4 DEF SC!Lost
    <3> QED
      BY <1>1, <3>1, <2>1
  <2> HIDE DEF i
  <2>3. SC!TypeOK'
    <3>1. scProc' \in 1 .. ScMaxProcs /\ scProc \in 1 .. ScMaxProcs
      BY <1>4, <2>1 DEF SC!TypeOK
    <3>2. /\ scMain' \in SC!Stages /\ scBeating' \in BOOLEAN /\ scInSetErr' \in BOOLEAN
          /\ scImuErr' \in BOOLEAN /\ scSetErr' \subseteq SC!Codes /\ scCode' \in SC!Codes
          /\ scCut' \in BOOLEAN
      BY <1>3, <2>1 DEF SC!TypeOK, SC!Fresh, SC!Stages, SC!Codes, SC!ERR_SYSTIME_OK
    <3> QED
      BY <1>2, <1>3, <2>2, <3>1, <3>2 DEF SC!TypeOK
  <2> QED
    BY <1>3, <2>1, <2>3 DEF SC!Fresh, OkInv, CodeInv, ErrorsInv, SC!Errors,
       SC!SetTellsState, SC!NoErrorIsReported, SC!ERR_SYSTIME_OK
<1>5. CASE ~(SC!Lost(i) /\ scProc < ScMaxProcs)
  <2>1. /\ scInfo' = i /\ UNCHANGED <<scProc, scSetErr, scCode, scInSetErr, scImuErr>>
        /\ scMain' \in {scMain, "ended"} /\ scBeating' \in {scBeating, FALSE}
    BY <1>5 DEF SC!Pass, SC!child
  <2>2. scInfo' \in EntryType
    BY <1>1, <2>1
  <2> HIDE DEF i
  <2>3. SC!TypeOK'
    BY <1>2, <1>3, <2>1, <2>2 DEF SC!TypeOK, SC!Stages
  <2> QED
    BY <1>3, <2>1, <2>3 DEF OkInv, CodeInv, ErrorsInv, SC!Errors,
       SC!SetTellsState, SC!NoErrorIsReported
<1> QED
  BY <1>4, <1>5

LEMMA StatusInvariant == SC!Spec => []StatusInv
<1>1. StatusInv /\ [SC!Next]_(SC!vars) => StatusInv'
  <2> SUFFICES ASSUME StatusInv, [SC!Next]_(SC!vars) PROVE StatusInv'
    OBVIOUS
  <2>1. CASE UNCHANGED SC!vars
    BY <2>1 DEF SC!vars, SC!child, SC!daemon, StatusInv, SC!TypeOK, OkInv, CodeInv,
       ErrorsInv, SC!Errors, SC!SetTellsState, SC!NoErrorIsReported
  <2> QED
    BY <2>1, ChildStep, BeatStep, PassStepInv DEF SC!Next
<1> QED
  BY <1>1, StatusInitInv, PTL DEF SC!Spec

(***************************************************************************)
(* What a heartbeat carries is always a code of the set, the set holds     *)
(* what is wrong now, and nothing wrong is ever told: SetErr(0) of Active  *)
(* hides it (base_vision.cpp:90, :673).                                    *)
(***************************************************************************)
THEOREM StatusToldHolds == AnySpec => []StatusTold
<1>1. StatusInv => StatusTold
  BY DEF StatusInv, StatusTold, OkInv, CodeInv, ErrorsInv, SC!CodeIsSet
<1> QED
  BY <1>1, StatusImplemented, StatusInvariant, PTL
-----------------------------------------------------------------------------
(* A set of numbers has a least one, and a CHOOSE of it is it.             *)
LEMMA LeastOne ==
  ASSUME NEW S \in SUBSET Nat, S # {}
  PROVE  \E m \in S : \A n \in S : m <= n
<1> DEFINE R == {ss \in Nat \X Nat : ss[1] < ss[2]}
<1>1. IsWellFoundedOn(R, Nat)
  BY NatLessThanWellFounded DEF OpToRel
<1>2. PICK x \in S : \A y \in S : ~(<<y, x>> \in R)
  <2> HIDE DEF R
  <2> QED
    BY <1>1, WFMin
<1>3. ASSUME NEW n \in S PROVE x <= n
  <2>1. n \in Nat /\ x \in Nat /\ ~(<<n, x>> \in R)
    BY <1>2
  <2>2. ~(n < x)
    BY <2>1
  <2> QED
    BY <2>1, <2>2
<1> QED
  BY <1>3
-----------------------------------------------------------------------------
(***************************************************************************)
(* ImageStore.                                                             *)
(***************************************************************************)
(* Where the process is: the next file has a place in the folder in use,   *)
(* and a folder that is removed is full.                                   *)
PlaceInv ==
  /\ fIndex <= frames
  /\ pc = "remove" => fIndex = option.file
  /\ pc = "up" /\ option.file > 0 => fIndex < option.file
  /\ pc # "down" /\ option.folder > 0 => dIndex < option.folder

(* The folder in use holds no file that is still to be written, unless its *)
(* removal failed.                                                         *)
NextInv ==
  /\ pc = "up" /\ path \in DOMAIN disk \ kept =>
       DOMAIN disk[path] \subseteq 0 .. fIndex - 1
  /\ pc = "create" => ST!Flash(dIndex) \in kept \/ ST!Flash(dIndex) \notin DOMAIN disk

StoreInv ==
  ST!TypeOK /\ PlaceInv /\ NextInv /\ ST!SpaceBounded /\ ST!NamesTellTheOrder

LEMMA StoreInitInv == ST!Init => StoreInv
<1> SUFFICES ASSUME ST!Init PROVE StoreInv
  OBVIOUS
<1> USE SurroundingsAssumption DEF ST!Init, ST!ImageStoreAssumption
<1>1. \A q \in DOMAIN disk :
        /\ q \in {"card", "flash"} \X Nat
        /\ q[2] < Recordings
        /\ disk[q] = [f \in {0} |-> 0]
  BY DEF ST!Card
<1>2. option \in [folder : Nat, file : Nat, num : Nat]
  OBVIOUS
<1>3. ST!TypeOK
  <2>1. path \in {"card", "flash"} \X Nat
    BY DEF ST!Card
  <2>2. \A q \in DOMAIN disk : \A f \in DOMAIN disk[q] :
          f \in Nat /\ disk[q][f] \in 0 .. frames
    BY <1>1
  <2> QED
    BY <1>1, <2>1, <2>2 DEF ST!TypeOK
<1>4. ST!SpaceBounded
  <2>1. option.folder > 0 => Recordings <= option.folder
    OBVIOUS
  <2>2. Recordings \in Nat /\ option.folder \in Nat /\ option.file \in Nat
    BY <1>2
  <2>3. ASSUME option.file > 0, option.folder > 0, NEW q \in DOMAIN disk
        PROVE  q[2] < option.folder /\ DOMAIN disk[q] \subseteq 0 .. option.file - 1
    <3>1. q[2] \in Nat /\ q[2] < Recordings /\ DOMAIN disk[q] = {0}
      BY <1>1
    <3> QED
      BY <2>1, <2>2, <2>3, <3>1
  <2> QED
    BY <2>3, Zenon DEF ST!SpaceBounded
<1>5. ST!NamesTellTheOrder
  BY <1>1 DEF ST!NamesTellTheOrder
<1> QED
  BY <1>2, <1>3, <1>4, <1>5 DEF StoreInv, PlaceInv, NextInv

(* The folder that InitStore takes.                                        *)
LEMMA TakenIsFree ==
  ASSUME ST!TypeOK
  PROVE  /\ ST!Taken \in Nat
         /\ option.folder > 0 => ST!Taken < option.folder
         /\ ST!Free # {} => ST!Card(ST!Taken) \notin DOMAIN disk
         /\ ST!Free = {} => ST!Taken = 0
<1>1. option.folder \in Nat
  BY SurroundingsAssumption DEF ST!TypeOK, ST!ImageStoreAssumption
<1>2. ST!Free \in SUBSET Nat
  BY <1>1 DEF ST!Free
<1>3. ST!Free # {} => ST!Taken \in ST!Free
  BY <1>2, LeastOne DEF ST!Taken
<1> QED
  BY <1>1, <1>2, <1>3 DEF ST!Free, ST!Taken

(* A folder removed or created, and perhaps the process moved to it: what  *)
(* is in the other folders stays, and the one touched is empty, gone, or   *)
(* kept in spite of RemoveDir.                                             *)
Touched(q) ==
  /\ q \in {"card", "flash"} \X Nat
  /\ DOMAIN disk' \subseteq DOMAIN disk \cup {q}
  /\ \A r \in DOMAIN disk' \ {q} : disk'[r] = disk[r]
  /\ q \in DOMAIN disk' =>
       \/ disk'[q] = ST!Empty
       \/ q \in DOMAIN disk \cap kept' /\ disk'[q] = disk[q]
  /\ kept \subseteq kept' \cup {q}
  /\ UNCHANGED <<option, frames>>

LEMMA TouchKeeps ==
  ASSUME StoreInv, NEW q, Touched(q), path' \in {path, q},
         option.folder > 0 => q[2] < option.folder,
         starts' > 0 => starts > 0 \/ path' = q
  PROVE  /\ \A r \in DOMAIN disk' \cup {path'} : r \in {"card", "flash"} \X Nat
         /\ \A r \in DOMAIN disk' : \A f \in DOMAIN disk'[r] :
              f \in Nat /\ disk'[r][f] \in 0 .. frames'
         /\ ST!SpaceBounded' /\ ST!NamesTellTheOrder'
<1> USE DEF StoreInv, Touched
<1>1. \A r \in DOMAIN disk' : \/ DOMAIN disk'[r] = {}
                              \/ r \in DOMAIN disk /\ disk'[r] = disk[r]
  BY DEF ST!Empty
<1>2. \A r \in DOMAIN disk' \cup {path'} : r \in {"card", "flash"} \X Nat
  BY DEF ST!TypeOK
<1>3. \A r \in DOMAIN disk' : \A f \in DOMAIN disk'[r] :
        f \in Nat /\ disk'[r][f] \in 0 .. frames'
  BY <1>1 DEF ST!TypeOK
<1>4. ST!SpaceBounded'
  BY <1>1 DEF ST!SpaceBounded
<1>5. \A r \in DOMAIN disk' \ kept' : DOMAIN disk'[r] = {} \/ r \in DOMAIN disk \ kept
  BY DEF ST!Empty
<1>6. \A r \in DOMAIN disk' \ kept' : \A f, g \in DOMAIN disk'[r] :
        f < g => disk'[r][f] < disk'[r][g]
  BY <1>1, <1>5 DEF ST!NamesTellTheOrder
<1>7. path' \in DOMAIN disk' \ kept' /\ starts' > 0 =>
        \A r \in DOMAIN disk' \ {path'} :
          \A m \in ST!Images(path)', n \in ST!Images(r)' : n < m
  <2> SUFFICES ASSUME path' \in DOMAIN disk' \ kept', starts' > 0,
                      NEW r \in DOMAIN disk' \ {path'}, DOMAIN disk'[path'] # {},
                      DOMAIN disk'[r] # {},
                      NEW m \in ST!Images(path)', NEW n \in ST!Images(r)'
               PROVE  n < m
    BY DEF ST!Images
  <2>1. path' \in DOMAIN disk \ kept /\ disk'[path'] = disk[path'] /\ path' = path
    BY <1>1, <1>5 DEF ST!Empty
  <2>2. starts > 0 /\ r \in DOMAIN disk \ {path} /\ disk'[r] = disk[r]
    BY <1>1, <2>1 DEF ST!Empty
  <2>3. m \in ST!Images(path) /\ n \in ST!Images(r)
    BY <2>1, <2>2 DEF ST!Images
  <2> QED
    BY <2>1, <2>2, <2>3 DEF ST!NamesTellTheOrder
<1> QED
  BY <1>2, <1>3, <1>4, <1>6, <1>7 DEF ST!NamesTellTheOrder

(* What a step of the process leaves of the files, one action after the    *)
(* other.                                                                  *)
NoLoss ==
  \A q \in DOMAIN disk \ kept :
    \/ q \in DOMAIN disk' /\ \A f \in DOMAIN disk[q] :
                               f \in DOMAIN disk'[q] /\ disk'[q][f] = disk[q][f]
    \/ pc = "down" /\ ST!Free = {} /\ q = ST!Card(0)
    \/ pc = "remove" /\ q = ST!Flash(ST!NextIndex) /\ fIndex = option.file

LEMMA FailsInv ==
  ASSUME ST!TypeOK, NEW n \in Nat, ST!Fails(n)
  PROVE  errs' \in 0 .. StMaxErrs
BY SurroundingsAssumption DEF ST!TypeOK, ST!Fails, ST!ImageStoreAssumption

LEMMA StartStep ==
  ASSUME StoreInv, NEW removes \in BOOLEAN, NEW creates \in BOOLEAN,
         ST!Start(removes, creates)
  PROVE  StoreInv' /\ NoLoss
<1> DEFINE q == ST!Card(ST!Taken)
<1> USE DEF StoreInv
<1>1. /\ ST!Taken \in Nat
      /\ option.folder > 0 => ST!Taken < option.folder
      /\ ST!Free # {} => q \notin DOMAIN disk /\ removes
      /\ ST!Free = {} => ST!Taken = 0
  BY TakenIsFree DEF ST!Start
<1>2. /\ path' = q /\ dIndex' = ST!Taken /\ fIndex' = 0
      /\ pc' \in {"up", "down"} /\ starts' = starts + 1 /\ starts < StMaxStarts
      /\ UNCHANGED <<option, frames>> /\ pc = "down"
      /\ kept' = IF removes THEN kept \ {q} ELSE kept \cup {q}
  BY DEF ST!Start, ST!InitMem
<1>3. /\ DOMAIN disk' \subseteq DOMAIN disk \cup {q}
      /\ \A r \in DOMAIN disk \ {q} : r \in DOMAIN disk' /\ disk'[r] = disk[r]
      /\ q \in DOMAIN disk' => \/ disk'[q] = ST!Empty
                               \/ q \in DOMAIN disk /\ ~removes /\ disk'[q] = disk[q]
  BY <1>1 DEF ST!Start, ST!Removed, ST!Created
<1>4. q \in {"card", "flash"} \X Nat /\ q[2] = ST!Taken
  BY <1>1 DEF ST!Card
<1> HIDE DEF q
<1>5. Touched(q)
  BY <1>2, <1>3, <1>4 DEF Touched
<1>6. errs' \in 0 .. StMaxErrs
  <2>1. ST!Failed(removes) + ST!Failed(creates) \in Nat
    BY DEF ST!Failed
  <2> QED
    BY <2>1, FailsInv DEF ST!Start
<1>7. ST!TypeOK' /\ ST!SpaceBounded' /\ ST!NamesTellTheOrder'
  BY <1>1, <1>2, <1>4, <1>5, <1>6, TouchKeeps, SurroundingsAssumption
     DEF ST!TypeOK, ST!ImageStoreAssumption
<1>8. PlaceInv' /\ NextInv'
  BY <1>1, <1>2, <1>3 DEF PlaceInv, NextInv, ST!Empty, ST!TypeOK
<1>9. NoLoss
  BY <1>1, <1>2, <1>3 DEF NoLoss, q
<1> QED
  BY <1>7, <1>8, <1>9

(* One message: one file more in the folder in use.                        *)
LEMMA MessageStep ==
  ASSUME StoreInv, ST!ProcessMsg
  PROVE  StoreInv' /\ NoLoss
<1> USE DEF StoreInv
<1>1. /\ pc = "up" /\ frames < StMaxFrames /\ frames' = frames + 1 /\ fIndex' = fIndex + 1
      /\ pc' = IF fIndex + 1 = option.file THEN "remove" ELSE "up"
      /\ UNCHANGED <<option, path, dIndex, starts, errs, kept>>
  BY DEF ST!ProcessMsg
<1>2. /\ frames \in 0 .. StMaxFrames /\ fIndex \in 0 .. StMaxFrames /\ fIndex <= frames
      /\ StMaxFrames \in Nat
      /\ option.file \in Nat /\ option.folder \in Nat
  BY SurroundingsAssumption DEF ST!TypeOK, PlaceInv, ST!ImageStoreAssumption
<1>3. \/ disk' = disk
      \/ path \in DOMAIN disk /\ disk' = ST!Written(path)
  BY DEF ST!ProcessMsg
<1>4. /\ DOMAIN disk' = DOMAIN disk
      /\ \A r \in DOMAIN disk \ {path} : disk'[r] = disk[r]
      /\ path \in DOMAIN disk =>
           \/ disk'[path] = disk[path]
           \/ /\ DOMAIN disk'[path] = DOMAIN disk[path] \cup {fIndex}
              /\ disk'[path][fIndex] = frames + 1
              /\ \A f \in DOMAIN disk[path] \ {fIndex} : disk'[path][f] = disk[path][f]
  BY <1>3 DEF ST!Written
<1>5. \A r \in DOMAIN disk' : \A f \in DOMAIN disk'[r] :
        \/ r = path /\ f = fIndex /\ disk'[r][f] = frames + 1
        \/ f \in DOMAIN disk[r] /\ disk'[r][f] = disk[r][f]
  BY <1>4
<1>6. \A r \in DOMAIN disk : \A f \in DOMAIN disk[r] : f \in Nat /\ disk[r][f] \in 0 .. frames
  BY DEF ST!TypeOK
<1>7. ST!TypeOK'
  <2>1. \A r \in DOMAIN disk' : \A f \in DOMAIN disk'[r] :
          f \in Nat /\ disk'[r][f] \in 0 .. frames'
    BY <1>1, <1>2, <1>4, <1>5, <1>6
  <2> QED
    BY <1>1, <1>2, <1>4, <2>1 DEF ST!TypeOK
<1>8. ST!SpaceBounded'
  <2>1. option.file > 0 => fIndex < option.file
    BY <1>1 DEF PlaceInv
  <2>2. ASSUME option.file > 0, option.folder > 0, NEW r \in DOMAIN disk'
        PROVE  r[2] < option.folder /\ DOMAIN disk'[r] \subseteq 0 .. option.file - 1
    BY <1>1, <1>2, <1>4, <1>5, <2>1, <2>2 DEF ST!SpaceBounded
  <2> QED
    BY <1>1, <2>2 DEF ST!SpaceBounded
<1>9. path \in DOMAIN disk \ kept => \A f \in DOMAIN disk[path] : f < fIndex
  BY <1>1, <1>2 DEF NextInv
<1>10. ST!NamesTellTheOrder'
  <2>1. ASSUME NEW r \in DOMAIN disk' \ kept', NEW f \in DOMAIN disk'[r],
               NEW g \in DOMAIN disk'[r], f < g
        PROVE  disk'[r][f] < disk'[r][g]
    <3>1. f \in DOMAIN disk[r] /\ disk'[r][f] = disk[r][f]
      BY <1>1, <1>2, <1>4, <1>5, <1>6, <1>9, <2>1
    <3>2. CASE g \in DOMAIN disk[r] /\ disk'[r][g] = disk[r][g]
      BY <1>1, <1>4, <2>1, <3>1, <3>2 DEF ST!NamesTellTheOrder
    <3>3. CASE disk'[r][g] = frames + 1
      BY <1>2, <1>4, <1>6, <3>1, <3>3
    <3> QED
      BY <1>5, <3>2, <3>3
  <2>2. ASSUME path' \in DOMAIN disk' \ kept', starts' > 0,
               NEW r \in DOMAIN disk' \ {path'},
               NEW m \in ST!Images(path)', NEW n \in ST!Images(r)'
        PROVE  n < m
    <3>1. n \in ST!Images(r) /\ n \in 0 .. frames
      BY <1>1, <1>4, <1>6, <2>2 DEF ST!Images
    <3>2. m \in ST!Images(path) \/ m = frames + 1
      BY <1>1, <1>5, <2>2 DEF ST!Images
    <3> QED
      BY <1>1, <1>2, <1>4, <2>2, <3>1, <3>2 DEF ST!NamesTellTheOrder
  <2> QED
    BY <2>1, <2>2 DEF ST!NamesTellTheOrder
<1>11. PlaceInv' /\ NextInv'
  <2>1. PlaceInv'
    BY <1>1, <1>2 DEF PlaceInv
  <2>2. path \in DOMAIN disk \ kept => DOMAIN disk'[path] \subseteq 0 .. fIndex
    BY <1>2, <1>4, <1>6, <1>9
  <2> QED
    BY <1>1, <1>2, <1>4, <2>1, <2>2 DEF NextInv
<1>12. NoLoss
  BY <1>1, <1>2, <1>4, <1>6, <1>9 DEF NoLoss
<1> QED
  BY <1>7, <1>8, <1>10, <1>11, <1>12

(* ResetStore, in its two halves.                                          *)
LEMMA ResetStep ==
  ASSUME StoreInv, NEW ok \in BOOLEAN, ST!ResetRemoves(ok) \/ ST!ResetCreates(ok)
  PROVE  StoreInv' /\ NoLoss
<1> USE DEF StoreInv
<1>1. errs' \in 0 .. StMaxErrs
  <2>1. ST!Failed(ok) \in Nat
    BY DEF ST!Failed
  <2> QED
    BY <2>1, FailsInv DEF ST!ResetRemoves, ST!ResetCreates, ST!ExecCmd
<1>2. option.folder \in Nat /\ dIndex \in Nat
  BY SurroundingsAssumption DEF ST!TypeOK, ST!ImageStoreAssumption
<1>3. CASE ST!ResetRemoves(ok)
  <2> DEFINE q == ST!Flash(ST!NextIndex)
  <2>1. /\ ST!NextIndex \in Nat
        /\ option.folder > 0 => ST!NextIndex < option.folder
    BY <1>2, <1>3 DEF ST!NextIndex, PlaceInv, ST!ResetRemoves
  <2>2. q \in {"card", "flash"} \X Nat /\ q[2] = ST!NextIndex
    BY <2>1 DEF ST!Flash
  <2>3. /\ dIndex' = ST!NextIndex /\ pc = "remove" /\ pc' = "create"
        /\ UNCHANGED <<option, path, fIndex, frames, starts>>
        /\ kept' = IF ok THEN kept \ {q} ELSE kept \cup {q}
        /\ DOMAIN disk' \subseteq DOMAIN disk
        /\ \A r \in DOMAIN disk \ {q} : r \in DOMAIN disk' /\ disk'[r] = disk[r]
        /\ q \in DOMAIN disk' => q \in DOMAIN disk /\ ~ok /\ disk'[q] = disk[q]
    BY <1>3 DEF ST!ResetRemoves, ST!Removed
  <2>4. q = ST!Flash(dIndex)'
    BY <2>3 DEF ST!Flash
  <2> HIDE DEF q
  <2>5. Touched(q)
    BY <2>2, <2>3 DEF Touched
  <2>6. ST!TypeOK' /\ ST!SpaceBounded' /\ ST!NamesTellTheOrder'
    BY <1>1, <2>1, <2>2, <2>3, <2>5, TouchKeeps DEF ST!TypeOK
  <2>7. PlaceInv' /\ NextInv'
    BY <1>2, <2>1, <2>3, <2>4 DEF PlaceInv, NextInv
  <2>8. NoLoss
    BY <2>3 DEF NoLoss, q, PlaceInv
  <2> QED
    BY <2>6, <2>7, <2>8
<1>4. CASE ST!ResetCreates(ok)
  <2> DEFINE q == ST!Flash(dIndex)
  <2>1. q \in {"card", "flash"} \X Nat /\ q[2] = dIndex
    BY <1>2 DEF ST!Flash
  <2>2. /\ pc = "create" /\ pc' = "up" /\ path' = q /\ fIndex' = 0
        /\ UNCHANGED <<option, dIndex, frames, starts, kept>>
        /\ DOMAIN disk' \subseteq DOMAIN disk \cup {q}
        /\ \A r \in DOMAIN disk : r \in DOMAIN disk' /\ disk'[r] = disk[r]
        /\ q \in DOMAIN disk' /\ q \notin DOMAIN disk => disk'[q] = ST!Empty
    BY <1>4 DEF ST!ResetCreates, ST!Created
  <2>3. q \in kept \/ q \notin DOMAIN disk
    BY <2>2 DEF NextInv
  <2> HIDE DEF q
  <2>4. Touched(q)
    BY <2>1, <2>2, <2>3 DEF Touched
  <2>5. option.folder > 0 => q[2] < option.folder
    BY <2>1, <2>2 DEF PlaceInv
  <2>6. ST!TypeOK' /\ ST!SpaceBounded' /\ ST!NamesTellTheOrder'
    BY <1>1, <1>2, <2>1, <2>2, <2>4, <2>5, TouchKeeps, SurroundingsAssumption
       DEF ST!TypeOK, ST!ImageStoreAssumption
  <2>7. PlaceInv' /\ NextInv'
    BY <2>2, <2>3 DEF PlaceInv, NextInv, ST!Empty, ST!TypeOK
  <2>8. NoLoss
    BY <2>2 DEF NoLoss
  <2> QED
    BY <2>6, <2>7, <2>8
<1> QED
  BY <1>3, <1>4

LEMMA StoreStep == StoreInv /\ [ST!Next]_(ST!vars) => StoreInv' /\ NoLoss
<1> SUFFICES ASSUME StoreInv, [ST!Next]_(ST!vars) PROVE StoreInv' /\ NoLoss
  OBVIOUS
<1>1. CASE ST!Killed \/ UNCHANGED ST!vars
  <2>1. /\ UNCHANGED <<option, disk, path, dIndex, fIndex, frames, starts, errs, kept>>
        /\ pc' \in {pc, "down"}
    BY <1>1 DEF ST!Killed, ST!vars
  <2> QED
    BY <2>1 DEF StoreInv, ST!TypeOK, PlaceInv, NextInv, ST!SpaceBounded,
       ST!NamesTellTheOrder, ST!Images, ST!Flash, NoLoss
<1> QED
  BY <1>1, StartStep, MessageStep, ResetStep DEF ST!Next

LEMMA StoreInvariant == ST!Spec => []StoreInv /\ [][NoLoss]_(ST!vars)
BY StoreInitInv, StoreStep, PTL DEF ST!Spec

(***************************************************************************)
(* Whatever the options, the restarts and the commands that fail: folders  *)
(* and files stay within the options, the names follow the messages, and   *)
(* only folder 0 of a full card and the next folder of the flash lose an   *)
(* image (visionStore.cpp:94, :186, :228).                                 *)
(***************************************************************************)
THEOREM ImagesKeptHolds == AnySpec => ImagesKept
<1>1. StoreInv => ST!TypeOK /\ ST!SpaceBounded /\ ST!NamesTellTheOrder
  BY DEF StoreInv
<1>2. [][NoLoss]_(ST!vars) => ST!LosesOnlyTheNext
  BY PTL DEF ST!LosesOnlyTheNext, NoLoss
<1> QED
  BY <1>1, <1>2, StoreImplemented, StoreInvariant, PTL DEF ImagesKept
-----------------------------------------------------------------------------
(***************************************************************************)
(* Supervisors.  What is true of the record S of any supervisor, original  *)
(* or copy, when the processes are P: an entry of its map is the program   *)
(* of that process or NULL, a pass stands on an entry, and a child is      *)
(* replaced only while its budget lasts.                                   *)
(***************************************************************************)
ProcType == [prog : Programs, state : {"runs", "copy", "dead"}, by : 0 .. MaxPid]
ProcInfo(P) ==
  [pid : DOMAIN P, times : 0 .. MaxUnrecv + 1, restarts : 0 .. MaxRestart]

SupData(S, P) ==
  /\ DOMAIN S = {"map", "info", "pc", "at"}
  /\ \A k \in DOMAIN S.map : k \in DOMAIN P /\ S.map[k] \in {Null, P[k].prog}
  /\ S.info \in [Programs -> ProcInfo(P)]
  /\ S.at \in Nat

SupOK(S, P) ==
  /\ SupData(S, P)
  /\ S.pc \in {"idle", "visit", "fork"}
  /\ S.at \in DOMAIN S.map \cup {0}
  /\ S.pc # "idle" => S.at \in DOMAIN S.map
  /\ S.pc = "fork" => S.info[P[S.at].prog].restarts < MaxRestart

(* P became Q: processes end, new ones are added, nothing else changes.    *)
Later(P, Q) ==
  \A k \in DOMAIN P :
    /\ k \in DOMAIN Q /\ Q[k].prog = P[k].prog /\ Q[k].by = P[k].by
    /\ Q[k].state = "runs" => P[k].state = "runs"

(* NextKey is what ++itm does on a map with positive keys.                 *)
LEMMA NextKeyIs ==
  ASSUME NEW m, DOMAIN m \in SUBSET (Nat \ {0}), NEW k \in Nat
  PROVE  \/ SV!NextKey(m, k) = 0 /\ \A j \in DOMAIN m : j <= k
         \/ /\ SV!NextKey(m, k) \in DOMAIN m /\ SV!NextKey(m, k) > k
            /\ \A l \in DOMAIN m : l > k => SV!NextKey(m, k) <= l
<1>1. CASE \A j \in DOMAIN m : j <= k
  BY <1>1 DEF SV!NextKey, SV!NoKey
<1>2. CASE ~ \A j \in DOMAIN m : j <= k
  <2> DEFINE A == {j \in DOMAIN m : j > k}
  <2>1. A \in SUBSET Nat /\ A # {}
    BY <1>2
  <2>2. PICK x \in A : \A n \in A : x <= n
    <3> HIDE DEF A
    <3> QED
      BY <2>1, LeastOne
  <2>3. x \in DOMAIN m /\ x > k /\ \A l \in DOMAIN m : l > k => x <= l
    BY <2>2
  <2> QED
    BY <1>2, <2>3, Zenon DEF SV!NextKey
<1> QED
  BY <1>1, <1>2

LEMMA LaterKeeps ==
  ASSUME NEW S, NEW P, NEW Q, SupOK(S, P), Later(P, Q)
  PROVE  SupOK(S, Q)
<1>1. \A i \in ProcInfo(P) : i \in ProcInfo(Q)
  BY DEF ProcInfo, Later
<1>2. S.info \in [Programs -> ProcInfo(Q)]
  BY <1>1 DEF SupOK, SupData
<1> QED
  BY <1>2 DEF SupOK, SupData, Later

(* The end of a visit, whatever it changed before.                         *)
LEMMA MovedOnOK ==
  ASSUME NEW S, NEW P \in Seq(ProcType), SupData(S, P)
  PROVE  /\ SupOK(SV!MovedOn(S), P)
         /\ SV!MovedOn(S).map = S.map /\ SV!MovedOn(S).info = S.info
         /\ SV!MovedOn(S).pc \in {"idle", "visit"}
<1> DEFINE k == SV!NextKey(S.map, S.at)
<1>1. DOMAIN S.map \in SUBSET (Nat \ {0})
  BY DEF SupData
<1>2. k \in DOMAIN S.map \/ k = 0
  BY <1>1, NextKeyIs DEF SupData
<1>3. /\ DOMAIN SV!MovedOn(S) = {"map", "info", "pc", "at"}
      /\ SV!MovedOn(S).map = S.map /\ SV!MovedOn(S).info = S.info
      /\ SV!MovedOn(S).at = k
      /\ SV!MovedOn(S).pc = IF k = 0 THEN "idle" ELSE "visit"
  BY DEF SV!MovedOn, SupData, SV!NoKey
<1> HIDE DEF k
<1>4. k \in Nat
  BY <1>1, <1>2
<1> QED
  BY <1>2, <1>3, <1>4 DEF SupOK, SupData

(* A visit counts; a child that is lost is the next to be replaced.        *)
Counted(S, g) == [S EXCEPT !.info[g].times = SV!OneMore(@)]

LEMMA VisitedOK ==
  ASSUME NEW S, NEW P \in Seq(ProcType), SupOK(S, P), S.pc = "visit",
         NEW g \in Programs, S.map[S.at] = g,
         NEW V, V = Counted(S, g)
  PROVE  /\ SupData(V, P) /\ V.map = S.map /\ V.at = S.at
         /\ \A h \in Programs : V.info[h].pid = S.info[h].pid
         /\ g = P[S.at].prog /\ S.at \in DOMAIN S.map
         /\ V.info[g].pid \in DOMAIN P
         /\ SV!Lost(V.info[g]) => V.info[g].restarts < MaxRestart
<1> USE SurroundingsAssumption DEF SV!SupervisorsAssumption
<1>1. /\ DOMAIN S = {"map", "info", "pc", "at"} /\ S.at \in DOMAIN S.map
      /\ S.info \in [Programs -> ProcInfo(P)] /\ g = P[S.at].prog
  BY DEF SupOK, SupData
<1>2. /\ DOMAIN V = DOMAIN S /\ V.map = S.map /\ V.at = S.at /\ V.pc = S.pc
      /\ V.info = [S.info EXCEPT ![g] = [S.info[g] EXCEPT !.times = SV!OneMore(@)]]
  BY <1>1 DEF Counted
<1>3. SV!OneMore(S.info[g].times) \in 0 .. MaxUnrecv + 1
  BY <1>1 DEF ProcInfo, SV!OneMore
<1>4. /\ [S.info[g] EXCEPT !.times = SV!OneMore(@)] \in ProcInfo(P)
      /\ [S.info[g] EXCEPT !.times = SV!OneMore(@)].pid = S.info[g].pid
  BY <1>1, <1>3 DEF ProcInfo
<1>5. /\ V.info \in [Programs -> ProcInfo(P)]
      /\ \A h \in Programs : V.info[h].pid = S.info[h].pid
  BY <1>1, <1>2, <1>4
<1>6. SupData(V, P)
  BY <1>1, <1>2, <1>5 DEF SupOK, SupData
<1>7. V.info[g].pid \in DOMAIN P
  BY <1>5 DEF ProcInfo
<1> QED
  BY <1>1, <1>2, <1>5, <1>6, <1>7 DEF SV!Lost

(* The supervisor that forked, with the new process p in Q.                *)
LEMMA ReplacedOK ==
  ASSUME NEW S, NEW P \in Seq(ProcType), NEW Q \in Seq(ProcType),
         SupOK(S, P), S.pc = "fork", Later(P, Q),
         NEW p \in DOMAIN Q \ DOMAIN P, NEW g \in Programs,
         g = P[S.at].prog, Q[p].prog = g,
         NEW R, R = SV!Replaced(S, g, p)
  PROVE  /\ SupOK(R, Q)
         /\ DOMAIN R.map = (DOMAIN S.map \cup {p}) \ {S.at} /\ R.map[p] = g
         /\ \A k \in DOMAIN S.map \ {S.at} : R.map[k] = S.map[k]
         /\ R.info[g].pid = p
         /\ \A h \in Programs \ {g} : R.info[h] = S.info[h]
         /\ R.pc # "fork" /\ S.at \in DOMAIN S.map
<1> USE SurroundingsAssumption DEF SV!SupervisorsAssumption
<1> DEFINE I == [pid |-> p, times |-> 0, restarts |-> S.info[g].restarts + 1]
           T == [S EXCEPT
                  !.info[g] = [pid |-> p, times |-> 0, restarts |-> @.restarts + 1],
                  !.map = [k \in (DOMAIN S.map \cup {p}) \ {S.at} |->
                             IF k = p THEN g ELSE S.map[k]]]
<1>1. R = SV!MovedOn(T)
  BY DEF SV!Replaced
<1>2. /\ DOMAIN S = {"map", "info", "pc", "at"} /\ S.at \in DOMAIN S.map
      /\ S.at \in Nat /\ S.info[g].restarts < MaxRestart
      /\ S.info \in [Programs -> ProcInfo(P)]
      /\ \A k \in DOMAIN S.map : k \in DOMAIN P /\ S.map[k] \in {Null, P[k].prog}
  BY DEF SupOK, SupData
<1>3. /\ DOMAIN T = DOMAIN S /\ T.at = S.at /\ T.info = [S.info EXCEPT ![g] = I]
      /\ T.map = [k \in (DOMAIN S.map \cup {p}) \ {S.at} |->
                    IF k = p THEN g ELSE S.map[k]]
  BY <1>2
<1> HIDE DEF T
<1>4. \A i \in ProcInfo(P) : i \in ProcInfo(Q)
  BY DEF ProcInfo, Later
<1>5. I \in ProcInfo(Q) /\ I.pid = p
  BY <1>2 DEF ProcInfo
<1> HIDE DEF I
<1>6. /\ T.info \in [Programs -> ProcInfo(Q)] /\ T.info[g].pid = p
      /\ \A h \in Programs \ {g} : T.info[h] = S.info[h]
  BY <1>2, <1>3, <1>4, <1>5
<1>7. /\ DOMAIN T.map = (DOMAIN S.map \cup {p}) \ {S.at} /\ p # S.at /\ T.map[p] = g
      /\ \A k \in DOMAIN S.map \ {S.at} : k # p /\ T.map[k] = S.map[k]
  BY <1>2, <1>3
<1>8. \A k \in DOMAIN T.map : k \in DOMAIN Q /\ T.map[k] \in {Null, Q[k].prog}
  BY <1>2, <1>7 DEF Later
<1>9. SupData(T, Q)
  BY <1>2, <1>3, <1>6, <1>8 DEF SupData
<1>10. /\ SupOK(R, Q) /\ R.map = T.map /\ R.info = T.info /\ R.pc \in {"idle", "visit"}
  BY <1>1, <1>9, MovedOnOK
<1> QED
  BY <1>2, <1>6, <1>7, <1>10

(* What is left of it in the child.                                        *)
LEMMA CopiedOK ==
  ASSUME NEW S, NEW P \in Seq(ProcType), SupOK(S, P)
  PROVE  SupOK(SV!Copied(S), P)
<1> DEFINE T == [S EXCEPT !.map = [k \in DOMAIN S.map \ {S.at} |-> S.map[k]]]
<1>1. SV!Copied(S) = SV!MovedOn(T)
  BY DEF SV!Copied
<1>2. /\ DOMAIN T = DOMAIN S /\ T.at = S.at /\ T.info = S.info
      /\ T.map = [k \in DOMAIN S.map \ {S.at} |-> S.map[k]]
  BY DEF SupOK, SupData
<1> HIDE DEF T
<1>3. SupData(T, P)
  BY <1>2 DEF SupOK, SupData
<1> QED
  BY <1>1, <1>3, MovedOnOK

(***************************************************************************)
(* The inductive invariant.                                                *)
(***************************************************************************)
Orig == svSup[SV!Original]
Mine(p) == svProcs[p].by = SV!Original /\ svProcs[p].state = "runs"

ProcsInv == svProcs \in Seq(ProcType) /\ Len(svProcs) <= MaxPid

SupsInv ==
  /\ SV!Original \in DOMAIN svSup
  /\ \A s \in DOMAIN svSup :
       (s = SV!Original \/ s \in DOMAIN svProcs) /\ SupOK(svSup[s], svProcs)

SignalInv ==
  /\ svFails \in 0 .. MaxFails
  /\ svDeact \in [pc : {"no", "walk", "walked", "left"}, at : 0 .. MaxPid]
  /\ svKnown \in 0 .. Len(svProcs) /\ svTold \subseteq DOMAIN svProcs
  /\ svFreed \subseteq Programs /\ svGone \in BOOLEAN

(* A process of the original that runs is the one its PROC_INFO names,     *)
LastInv ==
  \A p \in DOMAIN svProcs : Mine(p) => Orig.info[svProcs[p].prog].pid = p

(* and is dead before the original forks for it.                           *)
ForkInv ==
  Orig.pc = "fork" =>
    /\ svProcs[Orig.info[svProcs[Orig.at].prog].pid].state # "runs"
    /\ svDeact.pc = "no" => Orig.map[Orig.at] # Null

OrderInv == SV!OriginalKeepsAll /\ SV!UnknownOnlyByCopies

(* Whom Deactive did not tell yet is in the map, ahead of the walk: a pass *)
(* that goes on erases the entries of dead processes only.                 *)
WalkInv ==
  svDeact.pc # "no" =>
    \A p \in 1 .. svKnown : Mine(p) =>
      \/ p \in svTold
      \/ svDeact.pc = "walk" /\ p > svDeact.at /\ p \in DOMAIN Orig.map

SvInv ==
  ProcsInv /\ SupsInv /\ SignalInv /\ LastInv /\ ForkInv /\ OrderInv /\ WalkInv

(* What that says of the original.                                         *)
LEMMA OrigIs ==
  ASSUME SvInv
  PROVE  /\ SupOK(Orig, svProcs) /\ DOMAIN Orig = {"map", "info", "pc", "at"}
         /\ Orig.info \in [Programs -> ProcInfo(svProcs)] /\ Orig.at \in Nat
         /\ \A g \in Programs : Orig.info[g].pid \in DOMAIN svProcs
         /\ \A k \in DOMAIN Orig.map :
              k \in DOMAIN svProcs /\ Orig.map[k] \in {Null, svProcs[k].prog}
         /\ Orig.pc # "idle" => Orig.at \in DOMAIN Orig.map
         /\ \A k \in DOMAIN svProcs : svProcs[k].prog \in Programs
<1>1. SupOK(Orig, svProcs)
  BY DEF SvInv, SupsInv, Orig
<1>2. Orig.info \in [Programs -> ProcInfo(svProcs)]
  BY <1>1 DEF SupOK, SupData
<1>3. \A g \in Programs : Orig.info[g].pid \in DOMAIN svProcs
  BY <1>2 DEF ProcInfo
<1>4. ASSUME NEW k \in DOMAIN svProcs PROVE svProcs[k].prog \in Programs
  <2>1. svProcs[k] \in ProcType
    BY DEF SvInv, ProcsInv
  <2> QED
    BY <2>1 DEF ProcType
<1> QED
  BY <1>1, <1>2, <1>3, <1>4 DEF SupOK, SupData

(* What others do leaves the original's order: it sees processes end and   *)
(* new ones that are not its own.                                          *)
LEMMA OthersKeep ==
  ASSUME SvInv, SV!Original \in DOMAIN svSup', Orig' = Orig,
         Later(svProcs, svProcs'),
         \A k \in DOMAIN svProcs' \ DOMAIN svProcs : svProcs'[k].by # SV!Original,
         UNCHANGED <<svDeact, svKnown, svTold>>
  PROVE  LastInv' /\ ForkInv' /\ OrderInv' /\ WalkInv'
<1> USE DEF SvInv, Mine
<1>1. \A k \in DOMAIN svProcs' : Mine(k)' => k \in DOMAIN svProcs /\ Mine(k)
                                             /\ svProcs'[k].prog = svProcs[k].prog
  BY DEF Later
<1>2. LastInv'
  BY <1>1 DEF LastInv
<1>3. /\ Orig.pc = "fork" => Orig.at \in DOMAIN svProcs
                             /\ svProcs[Orig.at].prog \in Programs
      /\ \A g \in Programs : Orig.info[g].pid \in DOMAIN svProcs
      /\ \A k \in DOMAIN Orig.map : k \in DOMAIN svProcs
  BY OrigIs DEF ProcsInv, ProcType
<1>4. ForkInv'
  BY <1>3 DEF ForkInv, Later
<1>5. OrderInv'
  BY <1>3 DEF OrderInv, SV!OriginalKeepsAll, SV!UnknownOnlyByCopies, Later, Orig
<1>6. WalkInv'
  BY <1>1 DEF WalkInv, SignalInv, Later, ProcsInv
<1> QED
  BY <1>2, <1>4, <1>5, <1>6

(* As many processes as programs and no two alike: one of each.            *)
LEMMA OneOfEach ==
  ASSUME SV!Init
  PROVE  /\ svProcs \in Seq(ProcType) /\ Len(svProcs) <= MaxPid
         /\ \A p \in DOMAIN svProcs : /\ svProcs[p].prog \in Programs
                                      /\ svProcs[p].by = 0 /\ svProcs[p].state = "runs"
         /\ \A p, q \in DOMAIN svProcs : svProcs[p].prog = svProcs[q].prog => p = q
         /\ \A g \in Programs : \E p \in DOMAIN svProcs : svProcs[p].prog = g
<1> DEFINE n == Cardinality(Programs)
<1> USE SurroundingsAssumption DEF SV!SupervisorsAssumption
<1>1. SV!Cardinality(Programs) = n
  BY DEF SV!Cardinality, Cardinality
<1>2. IsFiniteSet(Programs) /\ n <= MaxPid
  BY DaemonAssumption DEF DaemonAssumption
<1>3. n \in Nat
  BY <1>2, FS_CardinalityType
<1> HIDE DEF n
<1>4. /\ svProcs \in [1 .. n -> {SV!Instance(g, SV!Original) : g \in Programs}]
      /\ \A p, q \in 1 .. n : svProcs[p] = svProcs[q] => p = q
  BY <1>1 DEF SV!Init
<1>5. ASSUME NEW p \in 1 .. n
      PROVE  /\ svProcs[p].prog \in Programs
             /\ svProcs[p] = [prog |-> svProcs[p].prog, state |-> "runs", by |-> 0]
  BY <1>4 DEF SV!Instance, SV!Original
<1>6. ASSUME NEW p \in 1 .. n, NEW q \in 1 .. n, svProcs[p].prog = svProcs[q].prog
      PROVE  p = q
  <2>1. svProcs[p] = svProcs[q]
    BY <1>5, <1>6, Zenon
  <2> QED
    BY <1>4, <2>1
<1>7. ASSUME NEW p \in 1 .. n PROVE svProcs[p] \in ProcType
  <2>1. 0 \in 0 .. MaxPid
    OBVIOUS
  <2>2. \A g \in Programs : [prog |-> g, state |-> "runs", by |-> 0] \in ProcType
    BY <2>1 DEF ProcType
  <2> QED
    BY <1>5, <2>2, Zenon
<1> DEFINE f == [p \in 1 .. n |-> svProcs[p].prog]
<1>8. f \in Injection(1 .. n, Programs)
  BY <1>5, <1>6 DEF Injection, IsInjective
<1>9. Cardinality(1 .. n) = Cardinality(Programs)
  BY <1>3, FS_Interval DEF n
<1>10. f \in Surjection(1 .. n, Programs)
  <2> HIDE DEF f
  <2> QED
    BY <1>2, <1>8, <1>9, FS_Injection
<1>11. \A g \in Programs : \E p \in 1 .. n : svProcs[p].prog = g
  BY <1>10 DEF Surjection
<1>12. svProcs \in Seq(ProcType) /\ Len(svProcs) = n /\ DOMAIN svProcs = 1 .. n
  BY <1>3, <1>4, <1>7
<1> QED
  BY <1>2, <1>5, <1>6, <1>11, <1>12

LEMMA SvInitInv == SV!Init => SvInv
<1> SUFFICES ASSUME SV!Init PROVE SvInv
  OBVIOUS
<1> USE SurroundingsAssumption DEF SV!SupervisorsAssumption, SV!Original, SV!NoKey
<1>1. ProcsInv
  BY OneOfEach DEF ProcsInv
<1> DEFINE pidOf(g) == CHOOSE p \in DOMAIN svProcs : svProcs[p].prog = g
<1>2. \A g \in Programs : pidOf(g) \in DOMAIN svProcs /\ svProcs[pidOf(g)].prog = g
  BY OneOfEach
<1>3. /\ DOMAIN svSup = {0} /\ DOMAIN Orig = {"map", "info", "pc", "at"}
      /\ Orig.map = [p \in DOMAIN svProcs |-> svProcs[p].prog]
      /\ Orig.info = [g \in Programs |-> [pid |-> pidOf(g), times |-> 0, restarts |-> 0]]
      /\ Orig.pc = "idle" /\ Orig.at = 0
      /\ svDeact = [pc |-> "no", at |-> 0]
      /\ svFails = 0 /\ svKnown = 0 /\ svTold = {} /\ svFreed = {} /\ svGone = FALSE
  BY DEF SV!Init, Orig
<1> HIDE DEF pidOf
<1>4. Orig.info \in [Programs -> ProcInfo(svProcs)]
  BY <1>2, <1>3 DEF ProcInfo
<1>5. SupOK(Orig, svProcs)
  BY <1>3, <1>4, OneOfEach DEF SupOK, SupData
<1>6. SupsInv
  BY <1>3, <1>5 DEF SupsInv, Orig
<1>7. SignalInv
  <2>1. svDeact \in [pc : {"no", "walk", "walked", "left"}, at : 0 .. MaxPid]
    BY <1>3
  <2>2. svKnown \in 0 .. Len(svProcs) /\ svFails \in 0 .. MaxFails
    BY <1>1, <1>3 DEF ProcsInv
  <2>3. svTold \subseteq DOMAIN svProcs /\ svFreed \subseteq Programs /\ svGone \in BOOLEAN
    BY <1>3
  <2> QED
    BY <2>1, <2>2, <2>3 DEF SignalInv
<1>8. \A p \in DOMAIN svProcs : pidOf(svProcs[p].prog) = p
  BY <1>2, OneOfEach
<1>9. LastInv /\ ForkInv /\ WalkInv
  BY <1>3, <1>8, OneOfEach DEF LastInv, ForkInv, WalkInv
<1>10. OrderInv
  <2>1. ASSUME NEW g \in Programs
        PROVE  {k \in DOMAIN Orig.map : Orig.map[k] = g} = {Orig.info[g].pid}
    BY <1>2, <1>3, <1>8
  <2>2. \A k \in DOMAIN Orig.map : Orig.map[k] # Null
    BY <1>3, OneOfEach
  <2> QED
    BY <2>1, <2>2 DEF OrderInv, SV!OriginalKeepsAll, SV!UnknownOnlyByCopies, Orig
<1> QED
  BY <1>1, <1>6, <1>7, <1>9, <1>10 DEF SvInv

(* A process ends, killed or not.                                          *)
LEMMA DeadIs ==
  ASSUME SvInv, NEW p \in DOMAIN svProcs, svProcs' = SV!Dead(p)
  PROVE  /\ ProcsInv' /\ Later(svProcs, svProcs') /\ DOMAIN svProcs' = DOMAIN svProcs
         /\ Len(svProcs') = Len(svProcs)
         /\ svProcs'[p].state = "dead"
         /\ \A s \in DOMAIN svSup : SupOK(svSup[s], svProcs')
<1> DEFINE d == [svProcs[p] EXCEPT !.state = "dead"]
<1>1. svProcs \in Seq(ProcType) /\ svProcs[p] \in ProcType /\ p \in 1 .. Len(svProcs)
  BY DEF SvInv, ProcsInv
<1>2. svProcs' = [svProcs EXCEPT ![p] = d]
  BY DEF SV!Dead
<1>3. /\ d \in ProcType /\ d.state = "dead" /\ d.prog = svProcs[p].prog
      /\ d.by = svProcs[p].by
  BY <1>1 DEF ProcType
<1> HIDE DEF d
<1>4. /\ svProcs' \in Seq(ProcType) /\ Len(svProcs') = Len(svProcs)
      /\ DOMAIN svProcs' = DOMAIN svProcs
  BY <1>1, <1>2, <1>3
<1>5. svProcs'[p] = d /\ \A k \in DOMAIN svProcs \ {p} : svProcs'[k] = svProcs[k]
  BY <1>1, <1>2
<1>6. Later(svProcs, svProcs')
  BY <1>3, <1>4, <1>5 DEF Later
<1>7. \A s \in DOMAIN svSup : SupOK(svSup[s], svProcs')
  BY <1>6, LaterKeeps DEF SvInv, SupsInv
<1> QED
  BY <1>3, <1>4, <1>5, <1>6, <1>7 DEF SvInv, ProcsInv

(* A process ends, or the original does, and no supervisor moves.          *)
LEMMA EndStep ==
  ASSUME SvInv, UNCHANGED <<svSup, svFails, svDeact, svKnown, svTold, svFreed>>,
         svProcs' = svProcs \/ \E p \in DOMAIN svProcs : svProcs' = SV!Dead(p),
         svGone' \in BOOLEAN
  PROVE  SvInv'
<1>1. /\ ProcsInv' /\ Later(svProcs, svProcs') /\ DOMAIN svProcs' = DOMAIN svProcs
      /\ Len(svProcs') = Len(svProcs)
      /\ \A s \in DOMAIN svSup : SupOK(svSup[s], svProcs')
  <2>1. CASE svProcs' = svProcs
    BY <2>1 DEF SvInv, ProcsInv, SupsInv, Later
  <2>2. CASE \E p \in DOMAIN svProcs : svProcs' = SV!Dead(p)
    BY <2>2, DeadIs
  <2> QED
    BY <2>1, <2>2
<1>2. SupsInv' /\ SignalInv'
  BY <1>1 DEF SvInv, SupsInv, SignalInv
<1>3. LastInv' /\ ForkInv' /\ OrderInv' /\ WalkInv'
  BY <1>1, OthersKeep DEF SvInv, SupsInv, Orig
<1> QED
  BY <1>1, <1>2, <1>3 DEF SvInv

(* fork in any supervisor.                                                 *)
Newest == Len(svProcs) + 1

LEMMA ForkedIs ==
  ASSUME SvInv, NEW s \in DOMAIN svSup, NEW g \in Programs, NEW execed \in BOOLEAN,
         SV!Fork(s, g, execed)
  PROVE  /\ ProcsInv' /\ SupsInv' /\ SignalInv' /\ Later(svProcs, svProcs')
         /\ DOMAIN svProcs' = DOMAIN svProcs \cup {Newest} /\ Newest \notin DOMAIN svProcs
         /\ svProcs'[Newest].prog = g /\ svProcs'[Newest].by = s
         /\ svSup'[s] = SV!Replaced(svSup[s], g, Newest)
         /\ \A t \in DOMAIN svSup \ {s} : svSup'[t] = svSup[t]
<1> USE SurroundingsAssumption DEF SV!SupervisorsAssumption, SvInv
<1> DEFINE x == [prog |-> g, state |-> IF execed THEN "runs" ELSE "copy", by |-> s]
<1>1. /\ svProcs' = Append(svProcs, x) /\ Len(svProcs) < MaxPid
      /\ svSup[s].pc = "fork" /\ g = svProcs[svSup[s].at].prog
      /\ UNCHANGED <<svDeact, svKnown, svTold, svFreed, svGone>>
  BY DEF SV!Fork, SV!Instance
<1>2. s \in 0 .. MaxPid
  BY DEF SupsInv, ProcsInv, SV!Original
<1>3. x \in ProcType /\ x.prog = g /\ x.by = s
  BY <1>2 DEF ProcType
<1> HIDE DEF x
<1>4. /\ svProcs \in Seq(ProcType) /\ svProcs' \in Seq(ProcType)
      /\ Len(svProcs') = Len(svProcs) + 1 /\ Len(svProcs) \in Nat
      /\ DOMAIN svProcs' = DOMAIN svProcs \cup {Newest} /\ Newest \notin DOMAIN svProcs
      /\ svProcs'[Newest] = x /\ \A k \in DOMAIN svProcs : svProcs'[k] = svProcs[k]
  BY <1>1, <1>3 DEF ProcsInv, Newest
<1>5. Later(svProcs, svProcs')
  BY <1>4 DEF Later
<1>6. Newest \notin DOMAIN svSup
  BY <1>4 DEF SupsInv, SV!Original
<1>7. /\ svSup'[s] = SV!Replaced(svSup[s], g, Newest)
      /\ \A t \in DOMAIN svSup \ {s} : svSup'[t] = svSup[t]
      /\ \/ DOMAIN svSup' = DOMAIN svSup
         \/ DOMAIN svSup' = DOMAIN svSup \cup {Newest} /\ svSup'[Newest] = SV!Copied(svSup[s])
      /\ svFails' \in {svFails, svFails + 1} /\ (svFails' = svFails \/ svFails < MaxFails)
  BY <1>6 DEF SV!Fork, Newest
<1>8. SupOK(svSup[s], svProcs)
  BY DEF SupsInv
<1>9. SupOK(svSup'[s], svProcs')
  <2>1. Newest \in DOMAIN svProcs' \ DOMAIN svProcs /\ svProcs'[Newest].prog = g
    BY <1>3, <1>4
  <2>2. SupOK(SV!Replaced(svSup[s], g, Newest), svProcs')
    <3>1. svSup[s].pc = "fork" /\ g = svProcs[svSup[s].at].prog
      BY <1>1
    <3>2. svProcs \in Seq(ProcType) /\ svProcs' \in Seq(ProcType)
      BY <1>4
    <3> HIDE SurroundingsAssumption DEF SvInv
    <3> QED
      BY <1>5, <1>8, <2>1, <3>1, <3>2, ReplacedOK
  <2> QED
    BY <1>7, <2>2
<1>10. SupOK(SV!Copied(svSup[s]), svProcs')
  BY <1>4, <1>5, <1>8, CopiedOK, LaterKeeps
<1>11. \A t \in DOMAIN svSup : SupOK(svSup[t], svProcs')
  BY <1>5, LaterKeeps DEF SupsInv
<1>12. SupsInv'
  <2>1. SV!Original \in DOMAIN svSup'
    BY <1>7 DEF SupsInv
  <2>2. ASSUME NEW t \in DOMAIN svSup'
        PROVE  (t = SV!Original \/ t \in DOMAIN svProcs') /\ SupOK(svSup'[t], svProcs')
    <3>1. CASE t = Newest
      BY <1>4, <1>6, <1>7, <1>10, <2>2, <3>1
    <3>2. CASE t \in DOMAIN svSup
      BY <1>4, <1>7, <1>9, <1>11, <3>2 DEF SupsInv
    <3> QED
      BY <1>7, <3>1, <3>2
  <2> QED
    BY <2>1, <2>2 DEF SupsInv
<1>13. SignalInv'
  BY <1>1, <1>4, <1>7 DEF SignalInv
<1> QED
  BY <1>1, <1>3, <1>4, <1>5, <1>7, <1>12, <1>13 DEF ProcsInv

(* The original counts or moves its iterator, and its map stays.           *)
LEMMA OrigCounts ==
  ASSUME SvInv, SV!Original \in DOMAIN svSup', Orig'.map = Orig.map,
         \A h \in Programs : Orig'.info[h].pid = Orig.info[h].pid,
         Later(svProcs, svProcs'), DOMAIN svProcs' = DOMAIN svProcs,
         UNCHANGED <<svDeact, svKnown, svTold>>
  PROVE  LastInv' /\ OrderInv' /\ WalkInv'
<1> USE DEF SvInv, Mine
<1>1. \A k \in DOMAIN svProcs' :
        /\ Mine(k)' => Mine(k)
        /\ svProcs'[k].prog = svProcs[k].prog /\ svProcs'[k].prog \in Programs
        /\ svProcs'[k].by = svProcs[k].by
  BY OrigIs DEF Later
<1>2. LastInv'
  BY <1>1 DEF LastInv
<1>3. OrderInv'
  BY <1>1, OrigIs DEF OrderInv, SV!OriginalKeepsAll, SV!UnknownOnlyByCopies, Orig
<1>4. WalkInv'
  BY <1>1 DEF WalkInv, SignalInv, ProcsInv
<1> QED
  BY <1>2, <1>3, <1>4

(* One supervisor s moves and has the record W then.                       *)
LEMMA OneMoves ==
  ASSUME SvInv, NEW s \in DOMAIN svSup, NEW W, SupOK(W, svProcs'),
         svSup' = [svSup EXCEPT ![s] = W],
         Later(svProcs, svProcs'), DOMAIN svProcs' = DOMAIN svProcs
  PROVE  /\ SupsInv' /\ svSup'[s] = W
         /\ s # SV!Original => SV!Original \in DOMAIN svSup' /\ Orig' = Orig
<1>1. /\ DOMAIN svSup' = DOMAIN svSup /\ svSup'[s] = W
      /\ \A t \in DOMAIN svSup \ {s} : svSup'[t] = svSup[t]
  OBVIOUS
<1>2. \A t \in DOMAIN svSup : SupOK(svSup[t], svProcs')
  BY LaterKeeps DEF SvInv, SupsInv
<1>3. SupsInv'
  BY <1>1, <1>2 DEF SvInv, SupsInv
<1> QED
  BY <1>1, <1>3 DEF SvInv, SupsInv, Orig

LEMMA VisitStep ==
  ASSUME SvInv, NEW s \in DOMAIN svSup, NEW g \in Programs, SV!Visit(s, g)
  PROVE  SvInv'
<1> DEFINE V == Counted(svSup[s], g)
           W == IF SV!Lost(V.info[g]) THEN [V EXCEPT !.pc = "fork"] ELSE SV!MovedOn(V)
<1>1. /\ svSup[s].pc = "visit" /\ svSup[s].map[svSup[s].at] = g
      /\ svSup' = [svSup EXCEPT ![s] = W]
      /\ svProcs' = IF SV!Lost(V.info[g]) THEN SV!Dead(V.info[g].pid) ELSE svProcs
      /\ UNCHANGED <<svFails, svDeact, svKnown, svTold, svFreed, svGone>>
  BY DEF SV!Visit, Counted
<1>2. SupOK(svSup[s], svProcs) /\ svProcs \in Seq(ProcType)
  BY DEF SvInv, SupsInv, ProcsInv
<1>3. V = Counted(svSup[s], g)
  OBVIOUS
<1> HIDE DEF V
<1>4. /\ SupData(V, svProcs) /\ V.map = svSup[s].map /\ V.at = svSup[s].at
      /\ \A h \in Programs : V.info[h].pid = svSup[s].info[h].pid
      /\ g = svProcs[V.at].prog /\ V.at \in DOMAIN V.map
      /\ V.info[g].pid \in DOMAIN svProcs
      /\ SV!Lost(V.info[g]) => V.info[g].restarts < MaxRestart
  <2>1. svSup[s].pc = "visit" /\ svSup[s].map[svSup[s].at] = g
    BY <1>1
  <2> HIDE DEF W
  <2>2. /\ SupData(V, svProcs) /\ V.map = svSup[s].map /\ V.at = svSup[s].at
        /\ \A h \in Programs : V.info[h].pid = svSup[s].info[h].pid
        /\ g = svProcs[svSup[s].at].prog /\ svSup[s].at \in DOMAIN svSup[s].map
        /\ V.info[g].pid \in DOMAIN svProcs
        /\ SV!Lost(V.info[g]) => V.info[g].restarts < MaxRestart
    BY <1>2, <1>3, <2>1, VisitedOK
  <2> QED
    BY <2>2
<1>5. /\ ProcsInv' /\ Later(svProcs, svProcs') /\ DOMAIN svProcs' = DOMAIN svProcs
      /\ Len(svProcs') = Len(svProcs)
      /\ SV!Lost(V.info[g]) => svProcs'[V.info[g].pid].state = "dead"
  <2>1. CASE SV!Lost(V.info[g])
    BY <1>1, <1>4, <2>1, DeadIs
  <2>2. CASE ~SV!Lost(V.info[g])
    BY <1>1, <2>2 DEF SvInv, ProcsInv, Later
  <2> QED
    BY <2>1, <2>2
<1>6. /\ SupOK(W, svProcs) /\ W.map = V.map /\ W.info = V.info
      /\ W.pc = "fork" => SV!Lost(V.info[g]) /\ W.at = V.at
  <2>1. CASE SV!Lost(V.info[g])
    BY <1>4, <2>1 DEF SupOK, SupData
  <2>2. CASE ~SV!Lost(V.info[g])
    BY <1>2, <1>4, <2>2, MovedOnOK
  <2> QED
    BY <2>1, <2>2
<1> HIDE DEF W
<1>7. /\ SupsInv' /\ svSup'[s] = W
      /\ s # SV!Original => SV!Original \in DOMAIN svSup' /\ Orig' = Orig
  BY <1>1, <1>5, <1>6, LaterKeeps, OneMoves
<1>8. SignalInv'
  BY <1>1, <1>5 DEF SvInv, SignalInv
<1>9. LastInv' /\ ForkInv' /\ OrderInv' /\ WalkInv'
  <2>1. CASE s # SV!Original
    BY <1>1, <1>5, <1>7, <2>1, OthersKeep
  <2>2. CASE s = SV!Original
    <3>1. Orig' = W /\ Orig = svSup[s]
      BY <1>7, <2>2 DEF Orig
    <3>2. LastInv' /\ OrderInv' /\ WalkInv'
      BY <1>1, <1>4, <1>5, <1>6, <1>7, <2>2, <3>1, OrigCounts DEF SupsInv
    <3>3. ForkInv'
      <4>1. V.at \in DOMAIN svProcs
        BY <1>4 DEF SupData
      <4>2. svProcs'[V.at].prog = g
        BY <1>4, <1>5, <4>1 DEF Later
      <4> QED
        BY <1>1, <1>4, <1>5, <1>6, <3>1, <4>2, SurroundingsAssumption
           DEF ForkInv, SV!SupervisorsAssumption
    <3> QED
      BY <3>2, <3>3
  <2> QED
    BY <2>1, <2>2
<1> QED
  BY <1>5, <1>7, <1>8, <1>9 DEF SvInv

LEMMA ForkStep ==
  ASSUME SvInv, NEW s \in DOMAIN svSup, NEW g \in Programs, NEW execed \in BOOLEAN,
         SV!Fork(s, g, execed)
  PROVE  SvInv'
<1>1. /\ ProcsInv' /\ SupsInv' /\ SignalInv' /\ Later(svProcs, svProcs')
      /\ DOMAIN svProcs' = DOMAIN svProcs \cup {Newest} /\ Newest \notin DOMAIN svProcs
      /\ svProcs'[Newest].prog = g /\ svProcs'[Newest].by = s
      /\ svSup'[s] = SV!Replaced(svSup[s], g, Newest)
      /\ \A t \in DOMAIN svSup \ {s} : svSup'[t] = svSup[t]
  BY ForkedIs
<1>2. /\ svSup[s].pc = "fork" /\ g = svProcs[svSup[s].at].prog
      /\ UNCHANGED <<svDeact, svKnown, svTold>>
  BY DEF SV!Fork
<1>3. Newest > svKnown /\ \A k \in 1 .. svKnown : k \in DOMAIN svProcs
  <2>1. Len(svProcs) \in Nat /\ DOMAIN svProcs = 1 .. Len(svProcs)
    BY DEF SvInv, ProcsInv
  <2>2. svKnown \in 0 .. Len(svProcs)
    BY DEF SvInv, SignalInv
  <2> QED
    BY <2>1, <2>2 DEF Newest
<1>4. LastInv' /\ ForkInv' /\ OrderInv' /\ WalkInv'
  <2>1. CASE s # SV!Original
    <3>1. Orig' = Orig /\ SV!Original \in DOMAIN svSup'
      BY <1>1, <2>1 DEF SvInv, SupsInv, Orig
    <3>2. \A k \in DOMAIN svProcs' \ DOMAIN svProcs : svProcs'[k].by # SV!Original
      BY <1>1, <2>1
    <3> QED
      BY <1>1, <1>2, <3>1, <3>2, OthersKeep
  <2>2. CASE s = SV!Original
    <3> DEFINE O == Orig
               R == Orig'
    <3>1. O = svSup[s] /\ R = SV!Replaced(O, g, Newest)
      BY <1>1, <2>2 DEF Orig
    <3>2. /\ DOMAIN R.map = (DOMAIN O.map \cup {Newest}) \ {O.at} /\ R.map[Newest] = g
          /\ \A k \in DOMAIN O.map \ {O.at} : R.map[k] = O.map[k]
          /\ R.info[g].pid = Newest
          /\ \A h \in Programs \ {g} : R.info[h] = O.info[h]
          /\ R.pc # "fork" /\ O.at \in DOMAIN O.map
      <4>1. SupOK(O, svProcs) /\ svProcs \in Seq(ProcType)
        BY OrigIs DEF SvInv, ProcsInv
      <4>2. svProcs' \in Seq(ProcType) /\ Newest \in DOMAIN svProcs' \ DOMAIN svProcs
        BY <1>1 DEF ProcsInv
      <4>3. O.pc = "fork" /\ g = svProcs[O.at].prog
        BY <1>2, <3>1
      <4>4. Later(svProcs, svProcs') /\ svProcs'[Newest].prog = g
        BY <1>1
      <4>5. R = SV!Replaced(O, g, Newest)
        BY <3>1
      <4> HIDE DEF O, R
      <4> QED
        BY <4>1, <4>2, <4>3, <4>4, <4>5, ReplacedOK
    <3>3. /\ \A k \in DOMAIN O.map : k \in DOMAIN svProcs
          /\ \A k \in DOMAIN svProcs : svProcs[k].prog \in Programs
          /\ \A h \in Programs : O.info[h].pid \in DOMAIN svProcs
      BY OrigIs
    <3>4. \A k \in DOMAIN svProcs :
            /\ Mine(k)' => Mine(k) /\ svProcs[k].prog # g
            /\ svProcs'[k].prog = svProcs[k].prog /\ svProcs'[k].by = svProcs[k].by
      <4>1. svProcs[O.info[g].pid].state # "runs"
        BY <1>2, <3>1, <2>2 DEF SvInv, ForkInv
      <4> QED
        BY <1>1, <3>3, <4>1 DEF SvInv, LastInv, Mine, Later
    <3>5. LastInv'
      BY <1>1, <3>2, <3>3, <3>4 DEF SvInv, LastInv, Mine
    <3>6. ForkInv'
      BY <3>2 DEF ForkInv
    <3>7. ASSUME svDeact.pc = "no"
          PROVE  SV!OriginalKeepsAll' /\ SV!UnknownOnlyByCopies'
      <4>1. O.map[O.at] = g
        <5>1. O.pc = "fork"
          BY <1>2, <3>1
        <5>2. O.map[O.at] # Null
          BY <3>7, <5>1 DEF SvInv, ForkInv
        <5> QED
          BY <1>2, <3>1, <3>2, <5>2, OrigIs
      <4>2. \A h \in Programs : {k \in DOMAIN O.map : O.map[k] = h} = {O.info[h].pid}
        BY <3>7 DEF SvInv, OrderInv, SV!OriginalKeepsAll, Orig
      <4>3. ASSUME NEW h \in Programs
            PROVE  {k \in DOMAIN R.map : R.map[k] = h} = {R.info[h].pid}
        <5>1. CASE h = g
          BY <1>1, <3>2, <3>3, <4>1, <4>2, <5>1
        <5>2. CASE h # g
          BY <1>1, <3>2, <3>3, <4>1, <4>2, <5>2
        <5> QED
          BY <5>1, <5>2
      <4>4. \A k \in DOMAIN R.map : R.map[k] = Null => svProcs'[k].by # SV!Original
        <5>1. g # Null
          BY SurroundingsAssumption DEF SV!SupervisorsAssumption
        <5>2. \A k \in DOMAIN O.map : O.map[k] = Null => svProcs[k].by # SV!Original
          BY <3>7 DEF SvInv, OrderInv, SV!UnknownOnlyByCopies, Orig
        <5> QED
          BY <3>2, <3>3, <3>4, <5>1, <5>2
      <4> QED
        BY <4>3, <4>4 DEF SV!OriginalKeepsAll, SV!UnknownOnlyByCopies, Orig
    <3>8. OrderInv'
      BY <1>2, <3>7 DEF OrderInv, SV!OriginalKeepsAll, SV!UnknownOnlyByCopies
    <3>9. WalkInv'
      <4>1. ASSUME NEW k \in 1 .. svKnown, Mine(k)'
            PROVE  Mine(k) /\ k # O.at /\ k # Newest
        BY <1>1, <1>2, <1>3, <3>1, <3>4, <4>1
      <4> QED
        BY <1>2, <3>2, <4>1 DEF SvInv, WalkInv
    <3> QED
      BY <3>5, <3>6, <3>8, <3>9
  <2> QED
    BY <2>1, <2>2
<1> QED
  BY <1>1, <1>4 DEF SvInv

(* The iterator goes on: a pass begins, or a fork failed.                  *)
LEMMA MoveStep ==
  ASSUME SvInv, NEW s \in DOMAIN svSup,
         svSup' = [svSup EXCEPT ![s] = SV!MovedOn(@)],
         UNCHANGED <<svProcs, svFails, svDeact, svKnown, svTold, svFreed, svGone>>
  PROVE  SvInv'
<1> DEFINE W == SV!MovedOn(svSup[s])
<1>1. svSup' = [svSup EXCEPT ![s] = W]
  OBVIOUS
<1>2. SupData(svSup[s], svProcs) /\ svProcs \in Seq(ProcType)
  BY DEF SvInv, SupsInv, ProcsInv, SupOK
<1>3. /\ SupOK(W, svProcs) /\ W.map = svSup[s].map /\ W.info = svSup[s].info
      /\ W.pc \in {"idle", "visit"}
  BY <1>2, MovedOnOK
<1> HIDE DEF W
<1>4. Later(svProcs, svProcs')
  BY DEF Later
<1>5. /\ SupsInv' /\ svSup'[s] = W
      /\ s # SV!Original => SV!Original \in DOMAIN svSup' /\ Orig' = Orig
  BY <1>1, <1>3, <1>4, OneMoves
<1>6. ProcsInv' /\ SignalInv'
  BY DEF SvInv, ProcsInv, SignalInv
<1>7. LastInv' /\ ForkInv' /\ OrderInv' /\ WalkInv'
  <2>1. CASE s # SV!Original
    BY <1>4, <1>5, <2>1, OthersKeep
  <2>2. CASE s = SV!Original
    <3>1. Orig' = W /\ Orig = svSup[s]
      BY <1>5, <2>2 DEF Orig
    <3>2. LastInv' /\ OrderInv' /\ WalkInv'
      BY <1>3, <1>4, <1>5, <3>1, OrigCounts DEF SupsInv
    <3>3. ForkInv'
      BY <1>3, <3>1 DEF ForkInv
    <3> QED
      BY <3>2, <3>3
  <2> QED
    BY <2>1, <2>2
<1> QED
  BY <1>5, <1>6, <1>7 DEF SvInv

(* A beat: an answer, or a NULL entry for a process the map does not know, *)
(* which is then none of the original's.                                   *)
LEMMA BeatStepSv ==
  ASSUME SvInv, NEW p \in DOMAIN svProcs, SV!Beat(p)
  PROVE  SvInv'
<1> USE SurroundingsAssumption DEF SV!SupervisorsAssumption
<1> DEFINE O == Orig
<1>1. /\ svProcs[p].state = "runs" /\ svDeact.pc = "no" /\ O.pc = "idle"
      /\ UNCHANGED <<svProcs, svFails, svDeact, svKnown, svTold, svFreed, svGone>>
  BY DEF SV!Beat, Orig
<1>2. /\ DOMAIN O = {"map", "info", "pc", "at"} /\ O.at \in Nat
      /\ O.info \in [Programs -> ProcInfo(svProcs)] /\ SupOK(O, svProcs)
      /\ \A k \in DOMAIN O.map :
           k \in DOMAIN svProcs /\ O.map[k] \in {Null, svProcs[k].prog}
      /\ svProcs[p].prog \in Programs
  BY OrigIs
<1>3. ProcsInv' /\ SignalInv'
  BY <1>1 DEF SvInv, ProcsInv, SignalInv
<1>4. Later(svProcs, svProcs')
  BY <1>1 DEF Later
<1>5. CASE p \in DOMAIN O.map /\ O.map[p] # Null
  <2> DEFINE g == O.map[p]
             W == [O EXCEPT !.info[g] = [pid |-> @.pid, times |-> 0, restarts |-> 0]]
             I == [pid |-> O.info[g].pid, times |-> 0, restarts |-> 0]
  <2>1. svSup' = [svSup EXCEPT ![SV!Original] = W]
    BY <1>5 DEF SV!Beat, Orig
  <2>2. g \in Programs
    BY <1>2, <1>5
  <2> HIDE DEF g
  <2>3. /\ DOMAIN W = DOMAIN O /\ W.map = O.map /\ W.pc = O.pc /\ W.at = O.at
        /\ W.info = [O.info EXCEPT ![g] = I]
    BY <1>2, <2>2
  <2>4. I \in ProcInfo(svProcs) /\ I.pid = O.info[g].pid
    BY <1>2, <2>2 DEF ProcInfo
  <2> HIDE DEF I
  <2>5. /\ W.info \in [Programs -> ProcInfo(svProcs)]
        /\ \A h \in Programs : W.info[h].pid = O.info[h].pid
    BY <1>2, <2>2, <2>3, <2>4
  <2> HIDE DEF W
  <2>6. SupOK(W, svProcs)
    BY <1>1, <1>2, <2>3, <2>5 DEF SupOK, SupData
  <2>7. SupsInv' /\ svSup'[SV!Original] = W
    BY <1>1, <1>4, <2>1, <2>6, OneMoves DEF SvInv, SupsInv
  <2>8. Orig' = W
    BY <2>7 DEF Orig
  <2> HIDE DEF O
  <2>9. LastInv' /\ OrderInv' /\ WalkInv'
    BY <1>1, <1>4, <2>3, <2>5, <2>7, <2>8, OrigCounts DEF SupsInv, O
  <2>10. ForkInv'
    BY <1>1, <2>3, <2>8 DEF ForkInv
  <2> QED
    BY <1>3, <2>7, <2>9, <2>10 DEF SvInv
<1>6. CASE ~(p \in DOMAIN O.map /\ O.map[p] # Null)
  <2> DEFINE W == [O EXCEPT !.map = [k \in DOMAIN O.map \cup {p} |->
                                       IF k = p THEN Null ELSE O.map[k]]]
  <2>1. svSup' = [svSup EXCEPT ![SV!Original] = W]
    BY <1>6 DEF SV!Beat, Orig
  <2>2. /\ DOMAIN W = DOMAIN O /\ W.info = O.info /\ W.pc = O.pc /\ W.at = O.at
        /\ DOMAIN W.map = DOMAIN O.map \cup {p} /\ W.map[p] = Null
        /\ \A k \in DOMAIN O.map \ {p} : W.map[k] = O.map[k]
    BY <1>2
  <2> HIDE DEF W
  <2>3. SupOK(W, svProcs)
    BY <1>1, <1>2, <2>2 DEF SupOK, SupData
  <2>4. SupsInv' /\ svSup'[SV!Original] = W
    BY <1>1, <1>4, <2>1, <2>3, OneMoves DEF SvInv, SupsInv
  <2>5. Orig' = W
    BY <2>4 DEF Orig
  <2>6. LastInv' /\ ForkInv' /\ WalkInv'
    BY <1>1, <2>2, <2>5 DEF SvInv, LastInv, ForkInv, WalkInv, Mine
  <2>7. /\ \A g \in Programs : {k \in DOMAIN O.map : O.map[k] = g} = {O.info[g].pid}
        /\ \A k \in DOMAIN O.map : O.map[k] = Null => svProcs[k].by # SV!Original
    BY <1>1 DEF SvInv, OrderInv, SV!OriginalKeepsAll, SV!UnknownOnlyByCopies, Orig
  <2>8. svProcs[p].by # SV!Original
    <3>1. SUFFICES ASSUME Mine(p) PROVE FALSE
      BY <1>1 DEF Mine
    <3>2. O.info[svProcs[p].prog].pid = p
      BY <3>1 DEF SvInv, LastInv
    <3> QED
      BY <1>2, <1>6, <2>7, <3>2
  <2>9. \A g \in Programs : {k \in DOMAIN W.map : W.map[k] = g} = {W.info[g].pid}
    BY <1>2, <1>6, <2>2, <2>7
  <2>10. OrderInv'
    BY <1>1, <2>2, <2>5, <2>7, <2>8, <2>9
       DEF OrderInv, SV!OriginalKeepsAll, SV!UnknownOnlyByCopies, Orig
  <2> QED
    BY <1>3, <2>4, <2>6, <2>10 DEF SvInv
<1> QED
  BY <1>5, <1>6

(* Deactive: at its start every child of the original that runs is in the  *)
(* map, and the walk passes none of them.                                  *)
LEMMA InterruptStep ==
  ASSUME SvInv, SV!Interrupt
  PROVE  SvInv'
<1>1. /\ svDeact.pc = "no" /\ svDeact' = [pc |-> "walk", at |-> 0]
      /\ svKnown' = Len(svProcs)
      /\ UNCHANGED <<svProcs, svSup, svFails, svTold, svFreed, svGone>>
  BY DEF SV!Interrupt, SV!NoKey
<1>2. ProcsInv' /\ SupsInv'
  BY <1>1 DEF SvInv, ProcsInv, SupsInv
<1>3. svProcs \in Seq(ProcType) /\ Len(svProcs) \in Nat /\ MaxPid \in Nat
  BY DaemonAssumption DEF SvInv, ProcsInv
<1>4. SignalInv'
  <2>1. svDeact' \in [pc : {"no", "walk", "walked", "left"}, at : 0 .. MaxPid]
    BY <1>1, <1>3
  <2> QED
    BY <1>1, <1>3, <2>1 DEF SvInv, SignalInv
<1>5. LastInv' /\ ForkInv' /\ OrderInv'
  BY <1>1 DEF SvInv, LastInv, ForkInv, OrderInv, Mine, Orig,
     SV!OriginalKeepsAll, SV!UnknownOnlyByCopies
<1>6. WalkInv'
  <2>1. ASSUME NEW p \in DOMAIN svProcs, Mine(p) PROVE p \in DOMAIN Orig.map
    <3>1. Orig.info[svProcs[p].prog].pid = p
      BY <2>1 DEF SvInv, LastInv
    <3>2. \A g \in Programs :
            {k \in DOMAIN Orig.map : Orig.map[k] = g} = {Orig.info[g].pid}
      BY <1>1 DEF SvInv, OrderInv, SV!OriginalKeepsAll, Orig
    <3> QED
      BY <3>1, <3>2, OrigIs
  <2> QED
    BY <1>1, <1>3, <2>1 DEF WalkInv, Mine, Orig
<1> QED
  BY <1>2, <1>4, <1>5, <1>6 DEF SvInv

LEMMA WalkStep ==
  ASSUME SvInv, SV!Walk
  PROVE  SvInv'
<1> USE SurroundingsAssumption DEF SV!SupervisorsAssumption
<1> DEFINE O == Orig
           k == SV!NextKey(O.map, svDeact.at)
<1>1. /\ svDeact.pc = "walk"
      /\ svDeact' = [pc |-> IF k = 0 THEN "walked" ELSE "walk", at |-> k]
      /\ svTold' = IF k = 0 THEN svTold ELSE svTold \cup {k}
      /\ svFreed' = IF k = 0 \/ O.map[k] = Null THEN svFreed ELSE svFreed \cup {O.map[k]}
      /\ svSup' = IF k = 0 THEN svSup ELSE [svSup EXCEPT ![SV!Original].map[k] = Null]
      /\ svGone' \in BOOLEAN
      /\ UNCHANGED <<svProcs, svFails, svKnown>>
  BY DEF SV!Walk, SV!NoKey, SV!Walked, Orig
<1>2. /\ DOMAIN O = {"map", "info", "pc", "at"} /\ SupOK(O, svProcs)
      /\ \A j \in DOMAIN O.map : j \in DOMAIN svProcs
                                 /\ O.map[j] \in {Null, svProcs[j].prog}
      /\ \A j \in DOMAIN svProcs : svProcs[j].prog \in Programs
  BY OrigIs
<1>3. /\ svProcs \in Seq(ProcType) /\ Len(svProcs) \in Nat /\ Len(svProcs) <= MaxPid
      /\ DOMAIN svProcs = 1 .. Len(svProcs) /\ svDeact.at \in Nat
  BY DEF SvInv, ProcsInv, SignalInv
<1>4. \/ k = 0 /\ \A j \in DOMAIN O.map : j <= svDeact.at
      \/ k \in DOMAIN O.map /\ k > svDeact.at /\ \A j \in DOMAIN O.map : j > svDeact.at => k <= j
  <2>1. DOMAIN O.map \in SUBSET (Nat \ {0})
    BY <1>2, <1>3
  <2> HIDE DEF O
  <2> QED
    BY <1>3, <2>1, NextKeyIs
<1> HIDE DEF k
<1>5. ProcsInv' /\ Later(svProcs, svProcs') /\ DOMAIN svProcs' = DOMAIN svProcs
  BY <1>1 DEF SvInv, ProcsInv, Later
<1>6. k \in 0 .. MaxPid /\ (k # 0 => k \in DOMAIN svProcs)
  BY <1>2, <1>3, <1>4
<1>7. SignalInv'
  <2>1. svDeact' \in [pc : {"no", "walk", "walked", "left"}, at : 0 .. MaxPid]
    BY <1>1, <1>6
  <2>2. svTold' \subseteq DOMAIN svProcs
    BY <1>1, <1>6 DEF SvInv, SignalInv
  <2>3. svFreed' \subseteq Programs
    BY <1>1, <1>2, <1>4 DEF SvInv, SignalInv
  <2>4. UNCHANGED <<svProcs, svFails, svKnown>> /\ svGone' \in BOOLEAN
    BY <1>1
  <2> QED
    BY <2>1, <2>2, <2>3, <2>4 DEF SvInv, SignalInv
<1>8. svDeact'.pc # "no" /\ svDeact.pc # "no"
  BY <1>1
<1>9. CASE k = 0
  <2>1. Orig' = O /\ SupsInv'
    BY <1>1, <1>9 DEF SvInv, SupsInv, Orig
  <2>2. LastInv' /\ ForkInv' /\ OrderInv'
    BY <1>1, <1>8, <2>1 DEF SvInv, LastInv, ForkInv, OrderInv, Mine,
       SV!OriginalKeepsAll, SV!UnknownOnlyByCopies
  <2>3. WalkInv'
    BY <1>1, <1>3, <1>4, <1>9, <1>2 DEF SvInv, WalkInv, Mine
  <2> QED
    BY <1>5, <1>7, <2>1, <2>2, <2>3 DEF SvInv
<1>10. CASE k # 0
  <2> DEFINE W == [O EXCEPT !.map = [O.map EXCEPT ![k] = Null]]
  <2>1. svSup' = [svSup EXCEPT ![SV!Original] = W]
    BY <1>1, <1>10 DEF Orig
  <2>2. /\ DOMAIN W = DOMAIN O /\ W.info = O.info /\ W.pc = O.pc /\ W.at = O.at
        /\ DOMAIN W.map = DOMAIN O.map
        /\ \A j \in DOMAIN O.map : W.map[j] = O.map[j] \/ W.map[j] = Null
    BY <1>2
  <2> HIDE DEF W
  <2>3. SupOK(W, svProcs)
    BY <1>2, <2>2 DEF SupOK, SupData
  <2>4. SupsInv' /\ Orig' = W
    BY <1>1, <1>5, <2>1, <2>3, OneMoves DEF SvInv, SupsInv, Orig
  <2>5. LastInv' /\ ForkInv' /\ OrderInv'
    BY <1>1, <1>8, <2>2, <2>4 DEF SvInv, LastInv, ForkInv, OrderInv, Mine,
       SV!OriginalKeepsAll, SV!UnknownOnlyByCopies
  <2>6. WalkInv'
    BY <1>1, <1>2, <1>3, <1>4, <1>10, <2>2, <2>4 DEF SvInv, WalkInv, Mine
  <2> QED
    BY <1>5, <1>7, <2>4, <2>5, <2>6 DEF SvInv
<1> QED
  BY <1>9, <1>10

LEMMA ExitStep ==
  ASSUME SvInv, SV!Exit
  PROVE  SvInv'
<1>1. /\ svDeact.pc = "walked" /\ svDeact' = [svDeact EXCEPT !.pc = "left"]
      /\ svGone' = TRUE
      /\ UNCHANGED <<svProcs, svSup, svFails, svKnown, svTold, svFreed>>
  BY DEF SV!Exit
<1>2. svDeact' \in [pc : {"no", "walk", "walked", "left"}, at : 0 .. MaxPid]
      /\ svDeact'.pc = "left"
  BY <1>1 DEF SvInv, SignalInv
<1>3. ProcsInv' /\ SupsInv' /\ SignalInv'
  BY <1>1, <1>2 DEF SvInv, ProcsInv, SupsInv, SignalInv
<1>4. LastInv' /\ ForkInv' /\ OrderInv' /\ WalkInv'
  BY <1>1, <1>2 DEF SvInv, LastInv, ForkInv, OrderInv, WalkInv, Mine, Orig,
     SV!OriginalKeepsAll, SV!UnknownOnlyByCopies
<1> QED
  BY <1>3, <1>4 DEF SvInv

LEMMA SvStep == SvInv /\ [SV!Next]_(SV!vars) => SvInv'
<1> SUFFICES ASSUME SvInv, [SV!Next]_(SV!vars) PROVE SvInv'
  OBVIOUS
<1>1. CASE UNCHANGED SV!vars
  BY <1>1, EndStep DEF SV!vars, SvInv, SignalInv
<1>2. ASSUME NEW p \in DOMAIN svProcs, SV!Die(p) PROVE SvInv'
  BY <1>2, EndStep DEF SV!Die, SvInv, SignalInv
<1>3. ASSUME NEW p \in DOMAIN svProcs, SV!Beat(p) PROVE SvInv'
  BY <1>3, BeatStepSv
<1>4. CASE SV!PassBegin
  BY <1>4, MoveStep DEF SV!PassBegin, SvInv, SupsInv
<1>5. ASSUME NEW s \in DOMAIN svSup, SV!PassStep(s) PROVE SvInv'
  <2>1. CASE SV!VisitNull(s)
    <3>1. s = SV!Original \/ s \in DOMAIN svProcs
      BY DEF SvInv, SupsInv
    <3> QED
      BY <2>1, <3>1, EndStep DEF SV!VisitNull, SvInv, SignalInv
  <2>2. ASSUME NEW g \in Programs, SV!Visit(s, g) PROVE SvInv'
    BY <2>2, VisitStep
  <2>3. ASSUME NEW g \in Programs, NEW execed \in BOOLEAN, SV!Fork(s, g, execed)
        PROVE  SvInv'
    BY <2>3, ForkStep
  <2>4. CASE SV!ForkFails(s)
    BY <2>4, MoveStep DEF SV!ForkFails
  <2> QED
    BY <1>5, <2>1, <2>2, <2>3, <2>4 DEF SV!PassStep
<1>6. CASE SV!FaultInPass
  BY <1>6, EndStep DEF SV!FaultInPass
<1>7. CASE SV!Interrupt \/ SV!Walk \/ SV!Exit
  BY <1>7, InterruptStep, WalkStep, ExitStep
<1> QED
  BY <1>1, <1>2, <1>3, <1>4, <1>5, <1>6, <1>7 DEF SV!Next, SV!Pids

LEMMA SvImplies == SvInv => OriginalKeepsOrder
<1> SUFFICES ASSUME SvInv PROVE OriginalKeepsOrder
  OBVIOUS
<1> USE DEF SvInv
<1>1. SV!TypeOK
  <2>1. ASSUME NEW p \in DOMAIN svProcs PROVE svProcs[p] \in ProcType
    BY DEF ProcsInv
  <2>2. ASSUME NEW s \in DOMAIN svSup
        PROVE  /\ svSup[s].pc \in {"idle", "visit", "fork"}
               /\ svSup[s].at \in DOMAIN svSup[s].map \cup {SV!NoKey}
               /\ \A k \in DOMAIN svSup[s].map : svSup[s].map[k] \in Programs \cup {Null}
               /\ svSup[s].info \in [Programs -> ProcInfo(svProcs)]
    <3>1. SupOK(svSup[s], svProcs)
      BY DEF SupsInv
    <3>2. \A k \in DOMAIN svProcs : svProcs[k].prog \in Programs
      BY OrigIs
    <3> QED
      BY <3>1, <3>2 DEF SupOK, SupData, SV!NoKey
  <2>3. /\ svFails \in 0 .. MaxFails /\ svTold \subseteq DOMAIN svProcs
        /\ svDeact.pc \in {"no", "walk", "walked", "left"} /\ svDeact.at \in 0 .. MaxPid
        /\ svFreed \subseteq Programs /\ svGone \in BOOLEAN
    BY DEF SignalInv
  <2>4. svKnown \in 0 .. MaxPid /\ Len(svProcs) <= MaxPid
    <3>1. Len(svProcs) \in Nat /\ Len(svProcs) <= MaxPid /\ MaxPid \in Nat
      BY DaemonAssumption DEF ProcsInv
    <3> QED
      BY <3>1 DEF SignalInv
  <2> QED
    BY <2>1, <2>2, <2>3, <2>4 DEF SV!TypeOK, SV!Pids, ProcType, ProcInfo
<1>2. SV!OriginalKeepsAll /\ SV!UnknownOnlyByCopies
  BY DEF OrderInv
<1>3. SV!TwiceOnlyByCopies
  <2> SUFFICES ASSUME NEW g \in Programs, NEW p \in SV!Running(g), NEW q \in SV!Running(g),
                      svProcs[p].by = SV!Original, svProcs[q].by = SV!Original
               PROVE  p = q
    BY DEF SV!TwiceOnlyByCopies
  <2> QED
    BY DEF SV!Running, SV!Pids, LastInv, Mine
<1>4. SV!TellsTheKnown
  BY DEF SV!TellsTheKnown, WalkInv, Mine
<1> QED
  BY <1>1, <1>2, <1>3, <1>4 DEF OriginalKeepsOrder

(***************************************************************************)
(* With any number of copies left behind by failing execls: the original's *)
(* map has one entry of each program, it starts no program twice, a NULL   *)
(* entry comes from a copy's child only, and Deactive, which takes no      *)
(* lock, tells every child (visionDaemon.cpp:180, base_vision.cpp:163).    *)
(***************************************************************************)
THEOREM OriginalKeepsOrderHolds == AnySpec => []OriginalKeepsOrder
<1>1. SV!Spec => []SvInv
  BY SvInitInv, SvStep, PTL DEF SV!Spec
<1> QED
  BY <1>1, SvImplies, SupervisorsImplemented, PTL
=============================================================================
