----------------------------- MODULE MCRefusals -----------------------------
(* An instance of Refusals for TLC: a show of four episodes and two films;  *)
(* the episodes are interchangeable, and so are the films.                 *)
EXTENDS Refusals, TLC

CONSTANTS e1, e2, e3, e4, f1, f2

Episodes == {e1, e2, e3, e4}
Films == {f1, f2}
MCTitle == Episodes \cup Films
MCSeriesOf(t) == IF t \in Episodes THEN "show" ELSE t

TitleSymmetry == {p @@ q : p \in Permutations(Episodes), q \in Permutations(Films)}
=============================================================================
