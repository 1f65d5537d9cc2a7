------------------------------ MODULE MCStream ------------------------------
(* A ring of two under a wire of one or two frames: the ring rolls past a  *)
(* sleeping client and past a stream the network holds up.                 *)
EXTENDS Stream
=============================================================================
