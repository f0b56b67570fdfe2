--------------------------- MODULE NewestChannel ---------------------------
(***************************************************************************)
(* What CMT promises who sends and who receives big messages.  Of each     *)
(* message the newest payload is kept, with a count of those published and *)
(* not yet handed over.  A receiver is handed the newest one; a process    *)
(* that registers drops all of them.  A message whose head was cleared     *)
(* under its lock is dirty: nothing is promised of it until the next       *)
(* process registers, but that published payloads grow.                    *)
(***************************************************************************)
EXTENDS Integers

CONSTANTS
  Ids,         \* messages
  Payloads,    \* integers; a younger payload has a larger number
  Counts,      \* what the count of a message may hold
  MaxOwed      \* how many payloads of a message may wait

VARIABLES
  newest,      \* of each message: the payload published last, 0 for none
  got,         \* the payload handed over last
  owed,        \* published and not handed over
  dirty        \* nothing is promised

chVars == <<newest, got, owed, dirty>>

Init ==
  /\ newest = [i \in Ids |-> 0]
  /\ got = [i \in Ids |-> 0]
  /\ owed = [i \in Ids |-> 0]
  /\ dirty = [i \in Ids |-> FALSE]

Publish(i, n, k) ==
  /\ n > newest[i]
  /\ ~dirty[i] => owed[i] < MaxOwed /\ k = owed[i] + 1
  /\ newest' = [newest EXCEPT ![i] = n]
  /\ owed' = [owed EXCEPT ![i] = k]
  /\ UNCHANGED <<got, dirty>>

HandOver(i, n, k) ==
  /\ ~dirty[i] => owed[i] > 0 /\ k = owed[i] - 1 /\ n = newest[i]
  /\ got' = [got EXCEPT ![i] = n]
  /\ owed' = [owed EXCEPT ![i] = k]
  /\ UNCHANGED <<newest, dirty>>

Drop(d) ==
  /\ owed' = [i \in Ids |-> 0]
  /\ dirty' = d
  /\ UNCHANGED <<newest, got>>

Next ==
  \/ \E i \in Ids, n \in Payloads, k \in Counts : Publish(i, n, k) \/ HandOver(i, n, k)
  \/ \E d \in [Ids -> BOOLEAN] : Drop(d)

Spec == Init /\ [][Next]_chVars
=============================================================================
