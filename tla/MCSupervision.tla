--------------------------- MODULE MCSupervision ----------------------------
(* The options of the store for TLC: a complete configuration, and one     *)
(* with each of the options missing.                                       *)
EXTENDS Supervision

MCOptions ==
  {[folder |-> 2, file |-> 2, num |-> 1], [folder |-> 2, file |-> 2, num |-> 0],
   [folder |-> 2, file |-> 0, num |-> 1], [folder |-> 0, file |-> 2, num |-> 1]}
=============================================================================
