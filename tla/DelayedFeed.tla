---------------------------- MODULE DelayedFeed ----------------------------
(***************************************************************************)
(* What CCanQueueCtrl promises: who takes a record gets the one that was   *)
(* put Lag records before the newest.  Lag is the delay asked for until    *)
(* the counter of the records wraps; each turn of the counter adds         *)
(* Delay + 1 to it, less full turns of the ring.                           *)
(***************************************************************************)
EXTENDS Integers

CONSTANTS
  Length,      \* records kept
  Delay,       \* the delay asked for
  Word,        \* where the counter of the records wraps
  MaxPushes    \* bound: records put

VARIABLES
  pushed,      \* records put so far
  taken        \* the record taken last, 0 for none

Behind(n) ==
  LET since == n % Word
  IN  (n \div Word) * (Delay + 1) + (IF since > Delay THEN Delay ELSE since - 1)

Lag(n) == Behind(n) % Length

Init == pushed = 0 /\ taken = 0

Put == pushed < MaxPushes /\ pushed' = pushed + 1 /\ UNCHANGED taken

Get == pushed > 0 /\ taken' = pushed - Lag(pushed) /\ UNCHANGED pushed

Spec == Init /\ [][Put \/ Get]_<<pushed, taken>>
=============================================================================
