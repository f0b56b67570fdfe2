------------------------------ MODULE MCCanPump -----------------------------
(***************************************************************************)
(* CanPump as visionRcm uses it: velocities go to can0 under 0x095, the    *)
(* results of the obstacle algorithm to can1 under 0x608.                  *)
(***************************************************************************)
EXTENDS CanPump

RcmRoutes == {<<0, 149>>, <<1, 1544>>}

(* The bounds: what the flight controller sends, and what is pushed.       *)
Packets == [id \in {KeyId} \cup DataIds |-> IF id = KeyId THEN 1 ELSE 2]
Pushes == [r \in RcmRoutes |-> IF r[1] = 0 THEN 3 ELSE 1]
=============================================================================
