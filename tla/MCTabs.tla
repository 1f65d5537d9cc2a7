-------------------------------- MODULE MCTabs --------------------------------
(* Instance of Tabs for TLC.                                               *)
EXTENDS Tabs, TLC

Symmetry == Permutations(Tabs) \cup Permutations(Prompts \ Questions)
=============================================================================
