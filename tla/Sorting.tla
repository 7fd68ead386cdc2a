------------------------------- MODULE Sorting -------------------------------
(***************************************************************************)
(* The sorts of the program (sort_by, sort_by_key, sort_unstable, and      *)
(* `filter` and `retain`, which keep the order), stated by what they do: an *)
(* entry comes after those of a smaller key, and after those of the same   *)
(* key that came before it.                                                *)
(***************************************************************************)
EXTENDS Integers, FiniteSets

(* The keys of a function from numbers to numbers, with their indices, and *)
(* those of them that do not come after one.                               *)
Keyed(key) == {<<key[i], i>> : i \in DOMAIN key}
UpTo(keyed, b) == {a \in keyed : a[1] < b[1] \/ (a[1] = b[1] /\ a[2] <= b[2])}

(* The indices of `key` in the order of their keys.                        *)
Sorted(key) ==
    LET keyed  == Keyed(key)
        placed == {<<Cardinality(UpTo(keyed, b)), b[2]>> : b \in keyed}
    IN  [p \in 1..Cardinality(DOMAIN key) |-> (CHOOSE b \in placed : b[1] = p)[2]]

(* The keys themselves, smallest first.                                    *)
Ascending(key) ==
    LET order == Sorted(key) IN [p \in DOMAIN order |-> key[order[p]]]

(* The entries of s at some of its places, in the order they have in s.    *)
Filtered(s, places) ==
    LET order == Sorted([i \in places |-> i]) IN [p \in DOMAIN order |-> s[order[p]]]
=============================================================================
