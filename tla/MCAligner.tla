----------------------------- MODULE MCAligner ------------------------------
(* One run of each tier, as many of each as a process numbers; a film with   *)
(* enough said in each third, most in the second, and one that ends early.   *)
EXTENDS Aligner
CONSTANTS t1, t2

MCTierOf == [r \in Run |-> IF r = t1 THEN "tier1" ELSE "tier2"]
Said(starts) == [i \in DOMAIN starts |-> [start |-> starts[i], end |-> starts[i] + 1]]
MCFilm == {Said(<<0, 0, 1, 2, 3, 3,  10, 10, 11, 11, 12, 12, 13,  18, 18, 19, 20, 20, 21>>),
           Said(<<0, 0, 1, 2, 3, 3,  10, 10, 20>>)}
MCMove == {[first |-> 0, second |-> 0], [first |-> -40, second |-> 4], [first |-> 0, second |-> 4], [first |-> 40, second |-> 40]}
ASSUME \E film \in MCFilm : Sample(film) # <<>>
ASSUME \E film \in MCFilm : Sample(film) = <<>>
=============================================================================
