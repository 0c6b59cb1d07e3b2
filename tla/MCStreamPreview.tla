-------------------------- MODULE MCStreamPreview --------------------------
(***************************************************************************)
(* Instances of StreamPreview for TLC.  The candidate displays: enough for *)
(* a stream, its replacement, and one that another program took.           *)
(***************************************************************************)
EXTENDS StreamPreview

MCTaken == {2}
=============================================================================
