----------------------------- MODULE MCPauses -----------------------------
(* Instances of Pauses for TLC; the cfg files give the model values. *)
EXTENDS Pauses, TLC

Symmetry == Permutations(Downloads) \cup Permutations(Call \ Downloads) \cup Permutations(Key) \cup Permutations(Sem)
=============================================================================
