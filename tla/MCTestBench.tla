---------------------------- MODULE MCTestBench ----------------------------
(***************************************************************************)
(* Instances of TestBench.                                                 *)
(***************************************************************************)
EXTENDS TestBench

(* Two DLLs, and one that works on both their results.                     *)
Wide == <<<<"detect", "detect2">>, <<"describe">>>>
=============================================================================
