----------------------------- MODULE MCEventLog -----------------------------
(* The event log on a ring of MaxSize events.  MaxSeq > MaxSize + 1 lets   *)
(* the ring roll past a parked, a yielded and a resuming subscriber.       *)
EXTENDS EventLog
=============================================================================
