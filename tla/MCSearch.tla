------------------------------ MODULE MCSearch ------------------------------
(* An instance of Search for TLC: one title, two installs, three requests, *)
(* and a title whose files tie in score, listed in two orders.             *)
EXTENDS Search

CONSTANTS r1, r2, r3, i1, i2

MCRequest == {r1, r2, r3}
MCInstall == {i1, i2}
MCInstallOf(r) == IF r = r3 THEN i2 ELSE i1

Web   == Named({"film", "1080p", "web", "x264"}, "one")
Disc  == Named({"film", "1080p", "bluray"}, "two")
Dub   == Named({"film", "1080p", "web", "dubbed"}, "one")

MCPlaying(r) == IF r = r1 THEN Web ELSE IF r = r2 THEN Disc ELSE NoFile

Sub(id, lang, hash, machine, partial, release, files) ==
    [id |-> id, lang |-> lang, hash |-> hash, machine |-> machine, partial |-> partial,
     quality |-> 100, release |-> release, files |-> files]

One    == Sub(1, 2, TRUE, FALSE, FALSE, Web, 1)
Two    == Sub(2, 1, TRUE, FALSE, FALSE, Disc, 1)
Three  == Sub(3, 1, FALSE, FALSE, FALSE, Disc, 1)
Discs  == Sub(4, 1, FALSE, FALSE, FALSE, Disc, 2)
Dubbed == Sub(5, 1, FALSE, FALSE, FALSE, Dub, 1)

TwoOrders == {<<One, Discs, Two, Three, Dubbed>>, <<Dubbed, Three, Two, One>>}

=============================================================================
