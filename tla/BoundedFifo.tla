---------------------------- MODULE BoundedFifo ----------------------------
(***************************************************************************)
(* What a message queue between two threads of a vision process promises:  *)
(* an item is accepted only while there is room, and the items accepted    *)
(* are handed over one at a time, each exactly once, in the order in which *)
(* they were accepted.  A refused push and a pop that finds nothing change *)
(* nothing, so they are stuttering steps here.                             *)
(***************************************************************************)
EXTENDS Naturals, Sequences

CONSTANTS
  Item,      \* the values that travel through the queue
  NoItem,    \* what the consumer holds before it took anything
  Capacity   \* how many items may be waiting

VARIABLES
  queue,     \* the items accepted and not yet handed over, oldest first
  taken      \* the item handed over last

vars == <<queue, taken>>

Init ==
  /\ queue = <<>>
  /\ taken = NoItem

Put(v) ==
  /\ Len(queue) < Capacity
  /\ queue' = Append(queue, v)
  /\ UNCHANGED taken

Get ==
  /\ queue # <<>>
  /\ taken' = Head(queue)
  /\ queue' = Tail(queue)

Next == Get \/ \E v \in Item : Put(v)

Spec == Init /\ [][Next]_vars
=============================================================================
