----------------------------- MODULE MCSitePaths -----------------------------
(* Every path of up to MaxLen segments over these.                           *)
EXTENDS SitePaths

MCSegments == {"", ".", "..", "a", "b"}
=============================================================================
