------------------------------ MODULE MCCache ------------------------------
(* An instance of Cache for TLC: a search, a translation and a memory-only marker. *)
EXTENDS Cache

CONSTANTS k1, k2, v1, v2

MCSize == [v \in Value |-> IF v = v2 THEN 2 ELSE 1]
MCRank == (k1 :> 0) @@ (k2 :> 2)
=============================================================================
