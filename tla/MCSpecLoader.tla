---------------------------- MODULE MCSpecLoader ----------------------------
(* Two processes, two releases and two versions of the box: enough for two   *)
(* overlapping writes of different lengths, for a file left by another       *)
(* release and for a file older than the box.                                *)
EXTENDS SpecLoader
=============================================================================
