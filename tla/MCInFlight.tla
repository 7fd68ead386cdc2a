---------------------------- MODULE MCInFlight ----------------------------
(* Instances of InFlight for TLC; the cfg file gives the model values.  No *)
(* symmetry: the run checks a liveness property too.                       *)
EXTENDS InFlight
=============================================================================
