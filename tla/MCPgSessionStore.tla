--------------------------- MODULE MCPgSessionStore ---------------------------
(* Instances of PgSessionStore for TLC: appends to one session, some of    *)
(* which repeat an entry, one of a subagent, and a delete; and an append    *)
(* to another session.                                                     *)
EXTENDS PgSessionStore

MCSession == [o \in Ops |-> IF o = "other" THEN "s2" ELSE "s1"]
MCPath == [o \in Ops |-> IF o \in {"sub", "sub2"} THEN "agent" ELSE ""]
MCEntriesOf == [o \in Ops |->
  CASE o = "first" -> <<"a">> [] o = "retry" -> <<"b", "a">> [] o = "sub" -> <<"x">>
    [] o = "sub2" -> <<"x", "y">> [] o = "more" -> <<"b">> [] o = "other" -> <<"y">> [] OTHER -> <<>>]

\* The requests of a session go to one process.
Sticky == [o \in Ops |-> IF o = "other" THEN "p2" ELSE "p1"]

\* They do not.
TwoProcs == [o \in Ops |-> IF o = "first" THEN "p1" ELSE "p2"]

\* hash() is seeded anew in every process: p1's lock of s1 is p2's of s2, and no
\* session has the same lock in both.
Seeded == [p \in Procs |-> [s \in Sessions |-> IF (p = "p1") = (s = "s1") THEN 1 ELSE 2]]
=============================================================================
