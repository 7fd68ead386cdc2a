----------------------------- MODULE MCDownload -----------------------------
(* Instances of Download for TLC: a file each for two credentials, one of   *)
(* which takes a sparse body.  They share the CDN only.                     *)
EXTENDS Download
CONSTANTS f1, f2, c1, c2

A3(f, c, sparse) == [file |-> f, cred |-> c, allowSparse |-> sparse]

MCAsked == {A3(f1, c1, TRUE), A3(f2, c2, FALSE)}
=============================================================================
