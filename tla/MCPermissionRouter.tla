------------------------- MODULE MCPermissionRouter -------------------------
(* Two or three prompts, one of them a question, and tabs that reply more  *)
(* often than there are prompts.                                           *)
EXTENDS PermissionRouter, TLC

CONSTANTS c1, c2, c3, i1, i2

\* Each call has an id of its own.
DistinctIds == (c1 :> i1) @@ (c2 :> i2)
Kinds == (c1 :> "tool") @@ (c2 :> "question")

\* The SDK reuses i1 for a question and for a second tool call.
ReusedIds == (c1 :> i1) @@ (c2 :> i1) @@ (c3 :> i1)
ReusedKinds == (c1 :> "tool") @@ (c2 :> "question") @@ (c3 :> "tool")
=============================================================================
