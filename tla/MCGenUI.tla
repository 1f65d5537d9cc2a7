-------------------------------- MODULE MCGenUI -------------------------------
(* Instance of GenUI for TLC.                                              *)
EXTENDS GenUI
=============================================================================
