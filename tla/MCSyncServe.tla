---------------------------- MODULE MCSyncServe ----------------------------
(* Two requests; a file by reference for two credentials, as it is for one, *)
(* and a text with its anchor known, unknown, or its audio asked for.       *)
EXTENDS SyncServe
CONSTANTS c1, c2

Ask4(b, s, c, known) == [body |-> b, sync |-> s, cred |-> c, anchorKnown |-> known]

MCAsked ==
  {Ask4("file", "tier1", c1, TRUE), Ask4("file", "tier1", c2, TRUE),
   Ask4("text", "tier1", c1, TRUE), Ask4("text", "tier1", c1, FALSE),
   Ask4("text", "tier2", c1, FALSE), Ask4("file", "none", c1, TRUE)}
MCSlots == [t \in Tier |-> 1]
=============================================================================
