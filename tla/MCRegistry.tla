----------------------------- MODULE MCRegistry -----------------------------
(* Two sessions: one the reaper is closing, and one left on its list that  *)
(* a handler touches or deletes, or that shutdown finds.                   *)
EXTENDS Registry
=============================================================================
