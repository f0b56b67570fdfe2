-------------------------------- MODULE Sbus --------------------------------
(***************************************************************************)
(* seekHead of the S-bus reader (common/sbus/sbus.cpp): from a byte stream *)
(* of packets it drops one read, finds the head in the next ones, and      *)
(* reads on to the end of a packet.  read returns what has come, one byte  *)
(* at least (VMIN is 1).                                                   *)
(*                                                                         *)
(* A packet is Size bytes from a head (0x0f) to a tail (0x00).  What is in *)
(* between stays the same from packet to packet; its bytes can look like   *)
(* a head or like a tail.                                                  *)
(***************************************************************************)
EXTENDS Integers, FiniteSets, FiniteSetsExt

CONSTANT Size  \* SIZEOFSBUSPACKET

SbusAssumption == Size \in Nat /\ Size > 2

VARIABLES
  heads, zeros,  \* the places in a packet whose byte looks like a head, a tail
  pos,     \* the place in its packet of the byte that comes next
  step,    \* "drop", "first", "scan", "second", "match", "align", "found", "none", "lost"
  buffer,  \* of each byte of the buffer its place in a packet, or Unread, a zero
  i, nLen, \* where a head was seen; the bytes seekHead believes to have read
  whole    \* history: every read returned as much as it asked for

vars == <<heads, zeros, pos, step, buffer, i, nLen, whole>>

Unread == -1

Init ==
  /\ heads \in SUBSET (1 .. Size - 2) /\ zeros \in SUBSET ((1 .. Size - 2) \ heads)
  /\ pos \in 0 .. Size - 1 /\ step = "drop" /\ i = 0 /\ nLen = Size /\ whole = TRUE
  /\ buffer = [k \in 0 .. 3 * Size - 1 |-> Unread]

IsHead(k) == buffer[k] \in heads \cup {0}
IsTail(k) == buffer[k] \in zeros \cup {Size - 1, Unread}

(* readn, n bytes of asked at buffer + at; or it fails.                    *)
Read(at, asked, keep, next) ==
  \/ \E n \in 1 .. asked :
       /\ buffer' = [k \in DOMAIN buffer |->
            IF keep /\ k \in at .. at + n - 1 THEN (pos + k - at) % Size ELSE buffer[k]]
       /\ pos' = (pos + n) % Size /\ whole' = (whole /\ n = asked) /\ step' = next
  \/ step' = "lost" /\ UNCHANGED <<buffer, pos, whole>>

Drop == step = "drop" /\ Read(0, Size, FALSE, "first") /\ UNCHANGED <<heads, zeros, i, nLen>>

First == step = "first" /\ Read(0, Size, TRUE, "scan") /\ UNCHANGED <<heads, zeros, i, nLen>>

(* The first byte that looks like a head asks for a second read.           *)
Scan ==
  /\ step = "scan"
  /\ LET seen == {k \in 0 .. Size - 1 : IsHead(k)} IN
     IF seen = {} THEN step' = "none" /\ UNCHANGED i ELSE step' = "second" /\ i' = Min(seen)
  /\ UNCHANGED <<heads, zeros, pos, buffer, nLen, whole>>

(* What was read is added twice to nLen, once as a whole packet.           *)
Second ==
  /\ step = "second"
  /\ Read(Size, Size, TRUE, "match")
  /\ nLen' = nLen + Size + Cardinality({k \in DOMAIN buffer : buffer'[k] # buffer[k]})
  /\ UNCHANGED <<heads, zeros, i>>

(* Mutant: the tail is looked for one byte too far.                        *)
TailLate(k) == IsHead(k) /\ IsHead(k + Size) /\ IsTail(k + Size)

Matches(k) == IsHead(k) /\ IsHead(k + Size) /\ IsTail(k + Size - 1)

Match ==
  /\ step = "match"
  /\ LET seen == {k \in i .. 2 * Size - 1 : Matches(k)} IN
     IF seen = {} THEN step' = "none" /\ UNCHANGED i ELSE step' = "align" /\ i' = Min(seen)
  /\ UNCHANGED <<heads, zeros, pos, buffer, nLen, whole>>

Left == (nLen - i) % Size

Align ==
  /\ step = "align"
  /\ IF Left = 0 THEN step' = "found" /\ UNCHANGED <<buffer, pos, whole>>
     ELSE Read(0, Left, FALSE, "found")
  /\ UNCHANGED <<heads, zeros, i, nLen>>

Next == Drop \/ First \/ Scan \/ Second \/ Match \/ Align

Spec == Init /\ [][Next]_vars
-----------------------------------------------------------------------------
TypeOK ==
  /\ pos \in 0 .. Size - 1 /\ i \in 0 .. 2 * Size - 1
  /\ buffer \in [0 .. 3 * Size - 1 -> -1 .. Size - 1]
  /\ step \in {"drop", "first", "scan", "second", "match", "align", "found", "none", "lost"}

(***************************************************************************)
(* When all reads were whole and no byte looks like a head, a head is      *)
(* found, and it is one (sbus.cpp:266-301).                                *)
(***************************************************************************)
FindsTheHead ==
  whole /\ heads = {} =>
    /\ step \in {"align", "found"} => buffer[i] = 0
    /\ step # "none"

(***************************************************************************)
(* What seekHead calls a head can be inside a packet only if some byte     *)
(* there looks like one and the byte before it like a tail, or a read was  *)
(* short (sbus.cpp:285).                                                   *)
(***************************************************************************)
WrongHeadNeedsBoth ==
  step \in {"align", "found"} /\ buffer[i] # 0 /\ whole =>
    \E h \in heads : h - 1 \in zeros
=============================================================================
