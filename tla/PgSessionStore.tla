---------------------------- MODULE PgSessionStore ----------------------------
(***************************************************************************)
(* The Postgres session store (pg_session_store.py): append() and delete() *)
(* as transactions of several statements, started by any number of server  *)
(* processes, each with a pool of connections; load() and the two listings *)
(* as what a statement reads.                                              *)
(*                                                                         *)
(* Postgres is external, at the read committed level: a statement sees what *)
(* is committed, and of its own transaction; one that conflicts with an    *)
(* uncommitted write waits for its transaction; an advisory lock is held   *)
(* to the end of the transaction; a lost connection rolls back.            *)
(*                                                                         *)
(* fold_session_summary (external) is kept as the sequence of the entries  *)
(* it was given.                                                           *)
(***************************************************************************)
EXTENDS Naturals, Sequences, FiniteSets, FiniteSetsExt

CONSTANTS Ops,        \* calls of append() and delete()
          Deletes,    \* those of delete()
          SessionOf,  \* the project and session an operation names
          PathOf,     \* and its subpath
          EntriesOf,  \* the entries of an append
          ProcOf,     \* the server process that makes the call
          Sessions, Paths, Entries, Procs,
          Main,       \* the empty subpath
          Keyed,      \* entries with a uuid, which identifies them
          Keys,       \* numbers of advisory locks
          LockKey,    \* hash(): in each process, the lock of a session
          PoolSize,   \* max_size of a process's pool
          MaxClock,   \* bound of the model: clock_timestamp()
          None        \* no summary; no holder

ASSUME OpsAssumption ==
  /\ Deletes \subseteq Ops
  /\ SessionOf \in [Ops -> Sessions]
  /\ PathOf \in [Ops -> Paths]
  /\ EntriesOf \in [Ops -> Seq(Entries)]
  /\ ProcOf \in [Ops -> Procs]
  /\ Main \in Paths /\ Keyed \subseteq Entries
  /\ LockKey \in [Procs -> [Sessions -> Keys]]
  /\ None \notin Ops

ASSUME BoundAssumption == MaxClock \in Nat \ {0}

\* A summary: the time of its write and the entries folded into it.
Summaries == [at : Nat, folded : Seq(Entries)]

ASSUME NoneAssumption == None \notin Summaries

VARIABLES
  rows,     \* session_entries: [session, path, entry, seq, at]
  summary,  \* session_summaries: [at, folded], or None
  nextSeq,  \* the BIGSERIAL
  lock,     \* who holds an advisory lock
  clock,
  pc,       \* how far each operation has got
  ins,      \* entries an append has inserted
  wrote,    \* rows it has inserted and not committed
  gone,     \* rows a delete has deleted and not committed
  next,     \* the summary an append read, then the one it writes
  merged    \* history: the main appends committed to a session since it was
            \* deleted

local == <<pc, ins, wrote, gone, next>>
vars == <<rows, summary, nextSeq, lock, clock, local, merged>>

IsMain(o) == PathOf[o] = Main
Key(o) == LockKey[ProcOf[o]][SessionOf[o]]
Ended == {"new", "done", "failed"}
Others(o) == Ops \ {o}

Init ==
  /\ rows = {}
  /\ summary = [s \in Sessions |-> None]
  /\ nextSeq = 1
  /\ lock = [k \in Keys |-> None]
  /\ clock = 1
  /\ pc = [o \in Ops |-> "new"]
  /\ ins = [o \in Ops |-> 0]
  /\ wrote = [o \in Ops |-> {}]
  /\ gone = [o \in Ops |-> {}]
  /\ next = [o \in Ops |-> None]
  /\ merged = [s \in Sessions |-> <<>>]
-----------------------------------------------------------------------------
(* Begin and lock.                                                         *)

\* An append of nothing returns; otherwise take a connection of the pool and
\* begin a transaction.
Begin(o) ==
  /\ pc[o] = "new"
  /\ \/ o \notin Deletes /\ EntriesOf[o] = <<>> /\ pc' = [pc EXCEPT ![o] = "done"]
     \/ /\ o \in Deletes \/ EntriesOf[o] # <<>>
        /\ Cardinality({x \in Ops : ProcOf[x] = ProcOf[o] /\ pc[x] \notin Ended}) < PoolSize
        /\ pc' = [pc EXCEPT ![o] = "connected"]
  /\ UNCHANGED <<rows, summary, nextSeq, lock, clock, ins, wrote, gone, next, merged>>

\* Mutant of Lock: no lock is taken.
LockNot(o) ==
  /\ pc[o] = "connected"
  /\ pc' = [pc EXCEPT ![o] = IF o \in Deletes THEN "deleting" ELSE "inserting"]
  /\ UNCHANGED <<rows, summary, nextSeq, lock, clock, ins, wrote, gone, next, merged>>

\* pg_advisory_xact_lock
Lock(o) ==
  /\ pc[o] = "connected"
  /\ lock[Key(o)] = None
  /\ lock' = [lock EXCEPT ![Key(o)] = o]
  /\ pc' = [pc EXCEPT ![o] = IF o \in Deletes THEN "deleting" ELSE "inserting"]
  /\ UNCHANGED <<rows, summary, nextSeq, clock, ins, wrote, gone, next, merged>>
-----------------------------------------------------------------------------
(* append()                                                                *)

\* Mutant of Twins: no index.
TwinsNone(o, e, rs) == {}

\* The rows with the key of the unique index that an entry would have.
Twins(o, e, rs) ==
  {r \in rs : e \in Keyed /\ r.entry = e /\ r.session = SessionOf[o] /\ r.path = PathOf[o]}

\* INSERT ... ON CONFLICT DO NOTHING, one entry of executemany.  A number is
\* drawn in any case.
Insert(o) ==
  /\ pc[o] = "inserting"
  /\ LET e == EntriesOf[o][ins[o] + 1] IN
       /\ \A x \in Others(o) : Twins(o, e, wrote[x] \cup gone[x]) = {}
       /\ wrote' = [wrote EXCEPT ![o] =
            IF Twins(o, e, rows \cup @) # {} THEN @
            ELSE @ \cup {[session |-> SessionOf[o], path |-> PathOf[o], entry |-> e,
                          seq |-> nextSeq, at |-> clock]}]
  /\ nextSeq' = nextSeq + 1
  /\ ins' = [ins EXCEPT ![o] = @ + 1]
  /\ pc' = [pc EXCEPT ![o] =
       IF ins[o] + 1 < Len(EntriesOf[o]) THEN @
       ELSE IF IsMain(o) THEN "reading" ELSE "committing"]
  /\ UNCHANGED <<rows, summary, lock, clock, gone, next, merged>>

\* SELECT of the summary.
ReadSummary(o) ==
  /\ pc[o] = "reading"
  /\ next' = [next EXCEPT ![o] = summary[SessionOf[o]]]
  /\ pc' = [pc EXCEPT ![o] = "folding"]
  /\ UNCHANGED <<rows, summary, nextSeq, lock, clock, ins, wrote, gone, merged>>

\* fold_session_summary, of all the entries, and the time of the write.
Fold(o) ==
  /\ pc[o] = "folding"
  /\ next' = [next EXCEPT ![o] =
       [at |-> clock,
        folded |-> (IF @ = None THEN <<>> ELSE @.folded) \o EntriesOf[o]]]
  /\ pc' = [pc EXCEPT ![o] = "writing"]
  /\ UNCHANGED <<rows, summary, nextSeq, lock, clock, ins, wrote, gone, merged>>

\* An uncommitted write of the summary of o's session, of another operation.
SummaryHeld(o) ==
  \E x \in Others(o) : IsMain(x) /\ SessionOf[x] = SessionOf[o] /\ pc[x] = "committing"

\* INSERT ... ON CONFLICT DO UPDATE.
Upsert(o) ==
  /\ pc[o] = "writing"
  /\ ~SummaryHeld(o)
  /\ pc' = [pc EXCEPT ![o] = "committing"]
  /\ UNCHANGED <<rows, summary, nextSeq, lock, clock, ins, wrote, gone, next, merged>>
-----------------------------------------------------------------------------
(* delete()                                                                *)

\* Main deletes the rows of every subpath.
DeleteRows(o) ==
  /\ pc[o] = "deleting"
  /\ LET rs == {r \in rows : r.session = SessionOf[o] /\ (IsMain(o) \/ r.path = PathOf[o])} IN
       /\ \A x \in Others(o) : gone[x] \cap rs = {}
       /\ gone' = [gone EXCEPT ![o] = rs]
  /\ pc' = [pc EXCEPT ![o] = IF IsMain(o) THEN "sweeping" ELSE "committing"]
  /\ UNCHANGED <<rows, summary, nextSeq, lock, clock, ins, wrote, next, merged>>

DeleteSummary(o) ==
  /\ pc[o] = "sweeping"
  /\ ~SummaryHeld(o)
  /\ pc' = [pc EXCEPT ![o] = "committing"]
  /\ UNCHANGED <<rows, summary, nextSeq, lock, clock, ins, wrote, gone, next, merged>>
-----------------------------------------------------------------------------
(* The end of a transaction.                                               *)

\* Mutant of Release: a lock of the connection, not of the transaction.
ReleaseNot(o) == UNCHANGED lock

\* The end of the transaction gives up its lock and what it had not committed.
Release(o) == lock' = [k \in Keys |-> IF lock[k] = o THEN None ELSE lock[k]]

Clear(o) ==
  /\ ins' = [ins EXCEPT ![o] = 0]
  /\ wrote' = [wrote EXCEPT ![o] = {}]
  /\ gone' = [gone EXCEPT ![o] = {}]
  /\ next' = [next EXCEPT ![o] = None]

\* Mutant of Written: a delete leaves the summary.
WrittenKept(o) ==
  IF o \in Deletes THEN summary
  ELSE IF IsMain(o) THEN [summary EXCEPT ![SessionOf[o]] = next[o]]
  ELSE summary

\* The summaries with the transaction's own: subagents leave them alone.
Written(o) ==
  IF IsMain(o) THEN [summary EXCEPT ![SessionOf[o]] = next[o]] ELSE summary

Commit(o) ==
  /\ pc[o] = "committing"
  /\ pc' = [pc EXCEPT ![o] = "done"]
  /\ rows' = (rows \ gone[o]) \cup wrote[o]
  /\ summary' = Written(o)
  /\ merged' = IF ~IsMain(o) THEN merged
               ELSE [merged EXCEPT ![SessionOf[o]] =
                       IF o \in Deletes THEN <<>> ELSE @ \o EntriesOf[o]]
  /\ Release(o)
  /\ Clear(o)
  /\ UNCHANGED <<nextSeq, clock>>

\* A statement fails or the connection is lost: rollback.
Fail(o) ==
  /\ pc[o] \notin Ended
  /\ pc' = [pc EXCEPT ![o] = "failed"]
  /\ Release(o)
  /\ Clear(o)
  /\ UNCHANGED <<rows, summary, nextSeq, clock, merged>>

Tick ==
  /\ clock < MaxClock
  /\ clock' = clock + 1
  /\ UNCHANGED <<rows, summary, nextSeq, lock, local, merged>>

Work(o) ==
  \/ Insert(o) \/ ReadSummary(o) \/ Fold(o) \/ Upsert(o)
  \/ DeleteRows(o) \/ DeleteSummary(o)
  \/ Commit(o)

Next ==
  \/ \E o \in Ops : Begin(o) \/ Lock(o) \/ Work(o) \/ Fail(o)
  \/ Tick

Spec == Init /\ [][Next]_vars

\* Postgres executes the statements it is given and grants a lock in the order
\* of the requests; so does a pool with its connections.
FairSpec ==
  /\ Spec
  /\ \A o \in Ops : SF_vars(Lock(o)) /\ WF_vars(Work(o))
-----------------------------------------------------------------------------
(* What is read.                                                           *)

\* What load() selects; it returns the entries in the order of seq.
Rows(s, p) == {r \in rows : r.session = s /\ r.path = p}

\* mtime of list_sessions(), which lists the sessions that have rows.
ListedTime(s) == Max({r.at : r \in Rows(s, Main)})
-----------------------------------------------------------------------------
(* Properties.                                                             *)

\* deployment.mdx:103, sticky routing: the requests that name a session go to one
\* process.  The locks of two processes need not agree: hash() is seeded in each.
StickyRouting == \A o, x \in Ops : SessionOf[o] = SessionOf[x] => ProcOf[o] = ProcOf[x]

TypeOK ==
  /\ \A r \in rows :
       r \in [session : Sessions, path : Paths, entry : Entries,
              seq : 1..(nextSeq - 1), at : 1..clock]
  /\ \A s \in Sessions :
       summary[s] # None => summary[s].at \in 1..clock /\ summary[s].folded \in Seq(Entries)
  /\ lock \in [Keys -> Ops \cup {None}]
  /\ \A k \in Keys : lock[k] # None => pc[lock[k]] \notin Ended \cup {"connected"}
  /\ clock \in 1..MaxClock
  /\ pc \in [Ops -> Ended \cup {"connected", "inserting", "reading", "folding",
                                "writing", "deleting", "sweeping", "committing"}]

\* The summary of a session is the fold of exactly the batches committed to it
\* since it was deleted, in the order of their commits: the read, fold and
\* write of concurrent appends, deletes and rollbacks lose and repeat none.
SummaryIsFold ==
  \A s \in Sessions :
    merged[s] = IF summary[s] = None THEN <<>> ELSE summary[s].folded

\* The places among the first n of a sequence whose entry load() is to return: an
\* entry that has a uuid counts at its first place only.
Kept(q, n) ==
  {i \in 1..n : q[i] \in Keyed => \A j \in 1..(i - 1) : q[j] # q[i]}

\* In the order of seq, the rows R are those of the places K of q: one for each.
Listed(K, R, q) ==
  \E row \in [K -> R] :
    /\ \A r \in R : \E i \in K : row[i] = r
    /\ \A i \in K : row[i].entry = q[i]
    /\ \A i, j \in K : i < j => row[i].seq < row[j].seq

\* What load() returns is what the summary was folded from, in the same order, with
\* each entry that has a uuid at its first place only: retries repeat no row, and the
\* numbers that batches draw agree with the order of their commits.
LoadIsMerged ==
  \A s \in Sessions : Listed(Kept(merged[s], Len(merged[s])), Rows(s, Main), merged[s])

\* The two listings agree: a session has a summary exactly when it is listed, and
\* the time of the summary, taken by a statement of its own, is not older than that
\* of its newest row, so that a cached summary that is fresh is never taken for stale.
ListingsAgree ==
  \A s \in Sessions :
    /\ summary[s] = None <=> Rows(s, Main) = {}
    /\ summary[s] # None => summary[s].at >= ListedTime(s)

\* What load() returned stays the beginning of what it returns, until a delete:
\* no commit puts an entry before one that was visible, although numbers are
\* drawn long before.
LoadGrowsAtEnd ==
  [][\A s \in Sessions, p \in Paths :
       \A old \in Rows(s, p), new \in Rows(s, p)' : new \notin rows => old.seq < new.seq]_vars

\* Appends and deletes that have a connection end, whoever holds locks or
\* connections: nobody takes a second connection while holding a lock.  Each
\* operation is one call, so this is: again and again none is under way.
OpsEnd == []<>(\A o \in Ops : pc[o] \in Ended)
-----------------------------------------------------------------------------
(* What the documentation and the comments say, and the code does not do.  *)

\* pg_session_store.py:144-146, "Serialize concurrent appends to the same
\* (project, session) so the read-fold-write of the summary sidecar is
\* race-free": every batch committed to a session is in its summary.
NoBatchLost ==
  \A s \in Sessions :
    \A i \in 1..Len(merged[s]) :
      summary[s] # None /\ \E j \in 1..Len(summary[s].folded) : summary[s].folded[j] = merged[s][i]

\* pg_session_store.py:20-21, "re-appending the same uuid is a no-op": a
\* transaction whose entries were all there changes no row and no time.
ReappendIsNoOp ==
  [][\A o \in Ops :
       (pc[o] = "committing" /\ pc'[o] = "done" /\ IsMain(o) /\ o \notin Deletes
        /\ wrote[o] = {})
         => rows' = rows /\ summary'[SessionOf[o]].at = summary[SessionOf[o]].at]_vars
=============================================================================
