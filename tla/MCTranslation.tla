--------------------------- MODULE MCTranslation ---------------------------
(* The instance of Translation for TLC; the cfg file gives the model values. *)
EXTENDS Translation
=============================================================================
