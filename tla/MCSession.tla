------------------------------ MODULE MCSession ------------------------------
(* A queue of two filled by four requests: messages wait in the queue, at   *)
(* the gate and in query() at once, and a request is refused.               *)
EXTENDS Session
=============================================================================
