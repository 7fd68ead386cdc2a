-------------------------- MODULE MCSyncAdmission --------------------------
(* Instances of SyncAdmission for TLC.  No symmetry: the run checks a      *)
(* liveness property too.                                                  *)
EXTENDS SyncAdmission

\* state.rs: Tier 1 takes one unit of three, Tier 2 two.
MCWeight == [t \in Tier |-> IF t = "tier1" THEN 1 ELSE 2]
\* One Tier-1 place fewer than in state.rs, so that three jobs already queue.
MCSlots == [t \in Tier |-> IF t = "tier1" THEN 2 ELSE 1]
=============================================================================
