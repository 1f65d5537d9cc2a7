------------------------- MODULE PgSessionStoreProofs -------------------------
(***************************************************************************)
(* Proofs about PgSessionStore for every set of operations, sessions and    *)
(* processes, every size of the pools, any locks the processes compute and  *)
(* any failures, on the assumption that the requests of a session go to one *)
(* process (StickyRouting): the summary is the fold of what was committed,  *)
(* the listings agree, a transcript grows at its end, and what load()       *)
(* returns is what was folded.                                              *)
(***************************************************************************)
EXTENDS PgSessionStore, WellFoundedInduction, TLAPS

USE OpsAssumption, BoundAssumption, NoneAssumption

(* The argument: an operation past its lock is alone in its session, so     *)
(* whatever it has read or prepared stays true until it commits.            *)

Row == [session : Sessions, path : Paths, entry : Entries, seq : Nat, at : Nat]

Quiet == Ended \cup {"connected"}
Critical(o) == pc[o] \notin Quiet
Steps == {"inserting", "reading", "folding", "writing", "deleting", "sweeping", "committing"}

StoreTypes ==
  /\ rows \in SUBSET Row
  /\ summary \in [Sessions -> Summaries \cup {None}]
  /\ nextSeq \in Nat \ {0}
  /\ lock \in [Keys -> Ops \cup {None}]
  /\ clock \in 1..MaxClock
  /\ pc \in [Ops -> Quiet \cup Steps]
  /\ ins \in [Ops -> Nat]
  /\ wrote \in [Ops -> SUBSET Row]
  /\ gone \in [Ops -> SUBSET Row]
  /\ next \in [Ops -> Summaries \cup {None}]
  /\ merged \in [Sessions -> Seq(Entries)]

\* The phases of an append and of a delete.
Phase(o) ==
  /\ pc[o] \in Quiet => wrote[o] = {} /\ gone[o] = {} /\ next[o] = None /\ ins[o] = 0
  /\ o \in Deletes => /\ pc[o] \notin {"inserting", "reading", "folding", "writing"}
                      /\ wrote[o] = {} /\ next[o] = None
  /\ o \notin Deletes => pc[o] \notin {"deleting", "sweeping"} /\ gone[o] = {}
  /\ pc[o] \in {"reading", "folding", "writing", "sweeping"} => IsMain(o)
  /\ o \notin Deletes /\ pc[o] \in {"connected", "inserting"} => ins[o] < Len(EntriesOf[o])
  /\ o \notin Deletes /\ pc[o] \in {"reading", "folding", "writing", "committing"} => ins[o] > 0
  /\ \A w \in wrote[o] : w.session = SessionOf[o] /\ w.path = PathOf[o]
  /\ \A r \in gone[o] : r.session = SessionOf[o]

Phases == \A o \in Ops : Phase(o)

\* Numbers and times have been drawn.
RowBy(r, n, t) == r.seq \in 1..(n - 1) /\ r.at \in 1..t
FoldBy(m, t) == m # None => m.at \in 1..t

Drawn ==
  /\ \A r \in rows : RowBy(r, nextSeq, clock)
  /\ \A o \in Ops : \A r \in wrote[o] : RowBy(r, nextSeq, clock)
  /\ \A s \in Sessions : FoldBy(summary[s], clock)
  /\ \A o \in Ops : FoldBy(next[o], clock)

LockHeld ==
  /\ \A o \in Ops : Critical(o) => lock[Key(o)] = o
  /\ \A k \in Keys : lock[k] # None => Critical(lock[k])

\* What an append has prepared fits what is committed.
AppendReady(o) ==
  /\ pc[o] = "folding" => next[o] = summary[SessionOf[o]]
  /\ IsMain(o) /\ pc[o] \in {"writing", "committing"} =>
       /\ next[o] # None
       /\ next[o].folded = merged[SessionOf[o]] \o EntriesOf[o]
       /\ \A r \in rows \cup wrote[o] :
            r.session = SessionOf[o] /\ r.path = Main => r.at <= next[o].at
  /\ \A w \in wrote[o], r \in rows : r.session = SessionOf[o] => r.seq < w.seq
  /\ ins[o] > 0 => \E r \in rows \cup wrote[o] : r.session = SessionOf[o] /\ r.path = PathOf[o]

\* What a delete has deleted is all there is to delete.
DeleteReady(o) ==
  pc[o] \in {"sweeping", "committing"} =>
    gone[o] = {r \in rows : r.session = SessionOf[o] /\ (IsMain(o) \/ r.path = PathOf[o])}

Ready == \A o \in Ops : IF o \in Deletes THEN DeleteReady(o) ELSE AppendReady(o)

SummariesFit ==
  \A s \in Sessions :
    /\ summary[s] = None <=> Rows(s, Main) = {}
    /\ \A r \in Rows(s, Main) : summary[s] # None => r.at <= summary[s].at

StoreInv ==
  StoreTypes /\ Phases /\ Drawn /\ LockHeld /\ Ready /\ SummaryIsFold /\ SummariesFit

\* The initial state satisfies the invariant.
LEMMA InitInv == Init => StoreInv
<1> SUFFICES ASSUME Init PROVE StoreInv
  OBVIOUS
<1>1. StoreTypes
  BY DEF Init, StoreTypes, Ended, Quiet
<1>2. Phases /\ Drawn /\ LockHeld
  BY DEF Init, Phases, Phase, Drawn, FoldBy, LockHeld, Ended, Quiet, Critical
<1>3. Ready
  BY DEF Init, Ready, AppendReady, DeleteReady
<1>4. SummaryIsFold /\ SummariesFit
  BY DEF Init, SummaryIsFold, SummariesFit, Rows
<1> QED BY <1>1, <1>2, <1>3, <1>4 DEF StoreInv

\* An entry that is inserted is one of the append.
LEMMA EntryInserted ==
  ASSUME StoreTypes, Phases, NEW o \in Ops, pc[o] = "inserting"
  PROVE  /\ o \notin Deletes
         /\ EntriesOf[o] \in Seq(Entries)
         /\ ins[o] \in Nat
         /\ EntriesOf[o][ins[o] + 1] \in Entries
<1>1. o \notin Deletes /\ ins[o] < Len(EntriesOf[o]) /\ ins[o] \in Nat
  BY DEF Phases, Phase, StoreTypes
<1>2. EntriesOf[o] \in Seq(Entries)
  OBVIOUS
<1>3. ins[o] + 1 \in 1..Len(EntriesOf[o])
  BY <1>1, <1>2
<1> QED BY <1>1, <1>2, <1>3

\* What one entry of an append changes.
LEMMA InsertFacts ==
  ASSUME StoreTypes, Phases, NEW o \in Ops, Insert(o)
  PROVE  \E e \in Entries, w \in SUBSET Row :
           /\ wrote' = [wrote EXCEPT ![o] = w]
           /\ \/ w = wrote[o] /\ Twins(o, e, rows \cup wrote[o]) # {}
              \/ w = wrote[o] \cup {[session |-> SessionOf[o], path |-> PathOf[o],
                                     entry |-> e, seq |-> nextSeq, at |-> clock]}
<1> DEFINE e == EntriesOf[o][ins[o] + 1]
           r == [session |-> SessionOf[o], path |-> PathOf[o], entry |-> e,
                 seq |-> nextSeq, at |-> clock]
<1>1. e \in Entries
  BY EntryInserted DEF Insert
<1>2. SessionOf[o] \in Sessions /\ PathOf[o] \in Paths /\ nextSeq \in Nat /\ clock \in Nat
  BY DEF StoreTypes
<1>3. r \in Row /\ wrote[o] \in SUBSET Row
  BY <1>1, <1>2 DEF Row, StoreTypes
<1>4. wrote' = [wrote EXCEPT ![o] = IF Twins(o, e, rows \cup wrote[o]) # {} THEN wrote[o]
                                    ELSE wrote[o] \cup {r}]
  BY DEF Insert
<1> HIDE DEF e
<1>5. CASE Twins(o, e, rows \cup wrote[o]) # {}
  BY <1>1, <1>3, <1>4, <1>5
<1>6. CASE Twins(o, e, rows \cup wrote[o]) = {}
  <2>1. wrote' = [wrote EXCEPT ![o] = wrote[o] \cup {r}]
    BY <1>4, <1>6
  <2> QED BY <1>1, <1>3, <2>1
<1> QED BY <1>5, <1>6

\* What the end of a transaction leaves of an operation.
LEMMA ClearFacts ==
  ASSUME StoreTypes, NEW o \in Ops, Clear(o), Release(o)
  PROVE  /\ ins' \in [Ops -> Nat]
         /\ wrote' \in [Ops -> SUBSET Row]
         /\ gone' \in [Ops -> SUBSET Row]
         /\ next' \in [Ops -> Summaries \cup {None}]
         /\ lock' \in [Keys -> Ops \cup {None}]
         /\ ins'[o] = 0 /\ wrote'[o] = {} /\ gone'[o] = {} /\ next'[o] = None
         /\ \A x \in Ops \ {o} : /\ ins'[x] = ins[x] /\ wrote'[x] = wrote[x]
                                 /\ gone'[x] = gone[x] /\ next'[x] = next[x]
BY DEF StoreTypes, Clear, Release

LEMMA WrittenType ==
  ASSUME StoreTypes, NEW o \in Ops
  PROVE  Written(o) \in [Sessions -> Summaries \cup {None}]
BY DEF StoreTypes, Written

\* What a fold writes.
LEMMA FoldFacts ==
  ASSUME StoreTypes, NEW o \in Ops, Fold(o)
  PROVE  \E f \in Seq(Entries) :
           /\ f = (IF next[o] = None THEN <<>> ELSE next[o].folded) \o EntriesOf[o]
           /\ next' = [next EXCEPT ![o] = [at |-> clock, folded |-> f]]
           /\ [at |-> clock, folded |-> f] \in Summaries
<1> DEFINE old == IF next[o] = None THEN <<>> ELSE next[o].folded
           f == old \o EntriesOf[o]
<1>1. old \in Seq(Entries)
  <2>1. next[o] # None => next[o] \in Summaries
    BY DEF StoreTypes
  <2> QED BY <2>1 DEF Summaries
<1>2. f \in Seq(Entries)
  BY <1>1
<1>3. next' = [next EXCEPT ![o] = [at |-> clock, folded |-> f]]
  BY DEF Fold
<1>4. clock \in Nat
  BY DEF StoreTypes
<1> HIDE DEF f
<1>5. [at |-> clock, folded |-> f] \in Summaries
  BY <1>2, <1>4 DEF Summaries
<1> QED BY <1>2, <1>3, <1>5 DEF f

\* Every step keeps the types.
LEMMA TypesNext == ASSUME StoreTypes, Phases, [Next]_vars PROVE StoreTypes'
<1>1. ASSUME NEW o \in Ops, Begin(o) \/ Lock(o) PROVE StoreTypes'
  <2>1. pc' \in [Ops -> Quiet \cup Steps]
    BY <1>1 DEF StoreTypes, Begin, Lock, Quiet, Ended, Steps
  <2>2. lock' \in [Keys -> Ops \cup {None}]
    BY <1>1 DEF StoreTypes, Begin, Lock
  <2> QED BY <1>1, <2>1, <2>2 DEF StoreTypes, Begin, Lock
<1>2. ASSUME NEW o \in Ops, Insert(o) PROVE StoreTypes'
  <2>1. PICK w \in SUBSET Row : wrote' = [wrote EXCEPT ![o] = w]
    BY <1>2, InsertFacts
  <2>2. wrote' \in [Ops -> SUBSET Row]
    BY <2>1 DEF StoreTypes
  <2>3. pc' \in [Ops -> Quiet \cup Steps]
    BY <1>2 DEF StoreTypes, Insert, Quiet, Steps
  <2>4. nextSeq' \in Nat \ {0} /\ ins' \in [Ops -> Nat]
    BY <1>2 DEF StoreTypes, Insert
  <2> QED BY <1>2, <2>2, <2>3, <2>4 DEF StoreTypes, Insert
<1>3. ASSUME NEW o \in Ops, ReadSummary(o) PROVE StoreTypes'
  BY <1>3 DEF StoreTypes, ReadSummary, Quiet, Steps
<1>4. ASSUME NEW o \in Ops, Fold(o) PROVE StoreTypes'
  <2>1. PICK f \in Seq(Entries) :
          /\ next' = [next EXCEPT ![o] = [at |-> clock, folded |-> f]]
          /\ [at |-> clock, folded |-> f] \in Summaries
    BY <1>4, FoldFacts
  <2>2. next' \in [Ops -> Summaries \cup {None}]
    BY <2>1 DEF StoreTypes
  <2> QED BY <1>4, <2>2 DEF StoreTypes, Fold, Quiet, Steps
<1>5. ASSUME NEW o \in Ops, Upsert(o) \/ DeleteSummary(o) PROVE StoreTypes'
  BY <1>5 DEF StoreTypes, Upsert, DeleteSummary, Quiet, Steps
<1>6. ASSUME NEW o \in Ops, DeleteRows(o) PROVE StoreTypes'
  BY <1>6 DEF StoreTypes, DeleteRows, Quiet, Steps
<1>7. ASSUME NEW o \in Ops, Commit(o) PROVE StoreTypes'
  <2>1. summary' \in [Sessions -> Summaries \cup {None}]
    BY <1>7, WrittenType DEF Commit
  <2>2. rows' \in SUBSET Row
    BY <1>7 DEF Commit, StoreTypes
  <2>3. merged' \in [Sessions -> Seq(Entries)]
    <3>1. \A s \in Sessions : merged[s] \o EntriesOf[o] \in Seq(Entries)
      BY DEF StoreTypes
    <3> QED BY <1>7, <3>1 DEF Commit, StoreTypes
  <2>4. pc' \in [Ops -> Quiet \cup Steps]
    BY <1>7 DEF Commit, StoreTypes, Quiet, Ended
  <2> QED BY <1>7, <2>1, <2>2, <2>3, <2>4, ClearFacts DEF Commit, StoreTypes
<1>8. ASSUME NEW o \in Ops, Fail(o) PROVE StoreTypes'
  <2>1. pc' \in [Ops -> Quiet \cup Steps]
    BY <1>8 DEF Fail, StoreTypes, Quiet, Ended
  <2> QED BY <1>8, <2>1, ClearFacts DEF Fail, StoreTypes
<1>9. CASE Tick
  BY <1>9 DEF Tick, StoreTypes, local
<1>10. CASE UNCHANGED vars
  BY <1>10 DEF vars, local, StoreTypes
<1> QED BY <1>1, <1>2, <1>3, <1>4, <1>5, <1>6, <1>7, <1>8, <1>9, <1>10 DEF Next, Work

\* Every step keeps the order of the phases.
LEMMA PhasesNext == ASSUME StoreTypes, Phases, [Next]_vars PROVE Phases'
<1>1. ASSUME NEW o \in Ops, Begin(o) PROVE Phases'
  <2>1. o \in Deletes \/ EntriesOf[o] = <<>> \/ 0 < Len(EntriesOf[o])
    <3>1. EntriesOf[o] \in Seq(Entries)
      OBVIOUS
    <3> QED BY <3>1
  <2> QED BY <1>1, <2>1 DEF Phases, Phase, Begin, StoreTypes, Quiet, Ended
<1>2. ASSUME NEW o \in Ops, Lock(o) PROVE Phases'
  BY <1>2 DEF Phases, Phase, Lock, StoreTypes, Quiet, Ended
<1>3. ASSUME NEW o \in Ops, Insert(o) PROVE Phases'
  <2>1. PICK e \in Entries, w \in SUBSET Row :
          /\ wrote' = [wrote EXCEPT ![o] = w]
          /\ \/ w = wrote[o]
             \/ w = wrote[o] \cup {[session |-> SessionOf[o], path |-> PathOf[o],
                                    entry |-> e, seq |-> nextSeq, at |-> clock]}
    BY <1>3, InsertFacts
  <2>2. \A v \in w : v.session = SessionOf[o] /\ v.path = PathOf[o]
    BY <2>1 DEF Phases, Phase
  <2>3. o \notin Deletes /\ ins[o] \in Nat /\ ins'[o] = ins[o] + 1 /\ wrote'[o] = w
    BY <1>3, <2>1, EntryInserted DEF Insert, StoreTypes
  <2>4. Len(EntriesOf[o]) \in Nat
    <3>1. EntriesOf[o] \in Seq(Entries)
      OBVIOUS
    <3> QED BY <3>1
  <2>5. pc'[o] = IF ins[o] + 1 < Len(EntriesOf[o]) THEN "inserting"
                 ELSE IF IsMain(o) THEN "reading" ELSE "committing"
    BY <1>3 DEF Insert, StoreTypes
  <2>6. \A x \in Ops \ {o} : pc'[x] = pc[x] /\ ins'[x] = ins[x] /\ wrote'[x] = wrote[x]
    BY <1>3, <2>1 DEF Insert, StoreTypes
  <2>7. gone' = gone /\ next' = next
    BY <1>3 DEF Insert
  <2>8. gone[o] = {}
    BY <2>3 DEF Phases, Phase
  <2>9. Phase(o)'
    <3>1. IsMain(o)' = IsMain(o) /\ next'[o] = next[o] /\ gone'[o] = {}
      BY <2>7, <2>8 DEF IsMain
    <3>2. pc'[o] \notin {"new", "done", "failed", "connected"}
      BY <2>5
    <3> QED BY <2>2, <2>3, <2>4, <2>5, <3>1, <3>2 DEF Phase, Quiet, Ended
  <2>10. ASSUME NEW x \in Ops \ {o} PROVE Phase(x)'
    BY <2>6, <2>7, <2>10 DEF Phases, Phase, IsMain
  <2> QED BY <2>9, <2>10 DEF Phases
<1>4. ASSUME NEW o \in Ops, ReadSummary(o) \/ Fold(o) PROVE Phases'
  <2>1. /\ o \notin Deletes /\ pc[o] \in {"reading", "folding"}
        /\ pc'[o] \in {"folding", "writing"}
    BY <1>4 DEF ReadSummary, Fold, Phases, Phase, StoreTypes
  <2>2. /\ \A x \in Ops \ {o} : pc'[x] = pc[x] /\ next'[x] = next[x]
        /\ ins' = ins /\ wrote' = wrote /\ gone' = gone
    BY <1>4 DEF ReadSummary, Fold, StoreTypes
  <2> QED BY <2>1, <2>2 DEF Phases, Phase, Quiet, Ended, IsMain
<1>5. ASSUME NEW o \in Ops, Upsert(o) \/ DeleteSummary(o) PROVE Phases'
  BY <1>5 DEF Phases, Phase, Upsert, DeleteSummary, StoreTypes, Quiet, Ended
<1>6. ASSUME NEW o \in Ops, DeleteRows(o) PROVE Phases'
  <2>1. o \in Deletes
    BY <1>6 DEF DeleteRows, Phases, Phase
  <2>2. /\ \A r \in gone'[o] : r.session = SessionOf[o]
        /\ pc'[o] = IF IsMain(o) THEN "sweeping" ELSE "committing"
        /\ \A x \in Ops \ {o} : pc'[x] = pc[x] /\ gone'[x] = gone[x]
        /\ ins' = ins /\ wrote' = wrote /\ next' = next
    BY <1>6 DEF DeleteRows, StoreTypes
  <2> QED BY <2>1, <2>2 DEF Phases, Phase, Quiet, Ended, IsMain
<1>7. ASSUME NEW o \in Ops, Commit(o) \/ Fail(o) PROVE Phases'
  <2>1. pc'[o] \in {"done", "failed"} /\ \A x \in Ops \ {o} : pc'[x] = pc[x]
    BY <1>7 DEF Commit, Fail, StoreTypes
  <2>2. Clear(o) /\ Release(o)
    BY <1>7 DEF Commit, Fail
  <2>3. Phase(o)'
    BY <2>1, <2>2, ClearFacts DEF Phase, Quiet, Ended
  <2>4. ASSUME NEW x \in Ops \ {o} PROVE Phase(x)'
    BY <2>1, <2>2, <2>4, ClearFacts DEF Phases, Phase, IsMain
  <2> QED BY <2>3, <2>4 DEF Phases
<1>8. CASE Tick \/ UNCHANGED vars
  BY <1>8 DEF Tick, vars, local, Phases, Phase, IsMain
<1> QED BY <1>1, <1>2, <1>3, <1>4, <1>5, <1>6, <1>7, <1>8 DEF Next, Work

\* Numbers only grow and time only passes.
LEMMA CountersGrow ==
  ASSUME StoreTypes, [Next]_vars
  PROVE  /\ nextSeq \in Nat /\ nextSeq' \in Nat /\ nextSeq' >= nextSeq
         /\ clock \in Nat /\ clock' \in Nat /\ clock' >= clock
<1>1. nextSeq \in Nat /\ clock \in Nat
  BY DEF StoreTypes
<1>2. nextSeq' \in {nextSeq, nextSeq + 1} /\ clock' \in {clock, clock + 1}
  BY DEF Next, vars, Begin, Lock, Work, Insert, ReadSummary, Fold, Upsert, DeleteRows,
         DeleteSummary, Commit, Fail, Tick
<1> QED BY <1>1, <1>2

\* Whatever is drawn was drawn before, or by this step.
LEMMA DrawnNext == ASSUME StoreTypes, Phases, Drawn, [Next]_vars PROVE Drawn'
<1>0. nextSeq \in Nat \ {0} /\ nextSeq' \in Nat /\ clock \in 1..MaxClock
  BY CountersGrow DEF StoreTypes
<1>1. \A r : RowBy(r, nextSeq, clock) => RowBy(r, nextSeq', clock')
  <2> SUFFICES ASSUME NEW n \in 1..(nextSeq - 1), NEW t \in 1..clock
               PROVE  n \in 1..(nextSeq' - 1) /\ t \in 1..clock'
    BY DEF RowBy
  <2> QED BY CountersGrow
<1>2. \A m : FoldBy(m, clock) => FoldBy(m, clock')
  BY CountersGrow DEF FoldBy
<1>3. /\ \A r \in rows : RowBy(r, nextSeq, clock)
      /\ \A x \in Ops : \A r \in wrote[x] : RowBy(r, nextSeq, clock)
      /\ \A s \in Sessions : FoldBy(summary[s], clock)
      /\ \A x \in Ops : FoldBy(next[x], clock)
  BY DEF Drawn
<1>4. FoldBy(None, clock') /\ \A f : FoldBy([at |-> clock, folded |-> f], clock)
  BY <1>0 DEF FoldBy
<1> SUFFICES /\ \A r \in rows' : RowBy(r, nextSeq', clock')
             /\ \A x \in Ops : \A r \in wrote'[x] : RowBy(r, nextSeq', clock')
             /\ \A s \in Sessions : FoldBy(summary'[s], clock')
             /\ \A x \in Ops : FoldBy(next'[x], clock')
  BY DEF Drawn, RowBy, FoldBy
<1>5. ASSUME NEW o \in Ops, Insert(o)
      PROVE  \A x \in Ops : \A r \in wrote'[x] : RowBy(r, nextSeq', clock')
  <2>1. PICK e \in Entries, w \in SUBSET Row :
          /\ wrote' = [wrote EXCEPT ![o] = w]
          /\ \/ w = wrote[o]
             \/ w = wrote[o] \cup {[session |-> SessionOf[o], path |-> PathOf[o],
                                    entry |-> e, seq |-> nextSeq, at |-> clock]}
    BY <1>5, InsertFacts
  <2>2. \A r : r.seq = nextSeq /\ r.at = clock => RowBy(r, nextSeq', clock')
    <3>1. nextSeq' = nextSeq + 1 /\ clock' = clock
      BY <1>5 DEF Insert
    <3>2. nextSeq \in 1..(nextSeq' - 1) /\ clock \in 1..clock'
      BY <1>0, <3>1
    <3> QED BY <3>2 DEF RowBy
  <2>3. \A r \in w : RowBy(r, nextSeq', clock')
    BY <1>1, <1>3, <2>1, <2>2
  <2>4. \A x \in Ops : wrote'[x] = IF x = o THEN w ELSE wrote[x]
    BY <2>1 DEF StoreTypes
  <2> QED BY <1>1, <1>3, <2>3, <2>4
<1>6. ASSUME NEW o \in Ops, Insert(o)
      PROVE  UNCHANGED <<rows, summary, next>>
  BY <1>6 DEF Insert
<1>7. ASSUME NEW o \in Ops, ReadSummary(o) \/ Fold(o)
      PROVE  /\ UNCHANGED <<rows, summary, wrote>>
             /\ \A x \in Ops : FoldBy(next'[x], clock')
  <2>1. UNCHANGED <<rows, summary, wrote>>
    BY <1>7 DEF ReadSummary, Fold
  <2>2. CASE ReadSummary(o)
    <3>1. \A x \in Ops : next'[x] = IF x = o THEN summary[SessionOf[o]] ELSE next[x]
      BY <2>2 DEF ReadSummary, StoreTypes
    <3> QED BY <1>2, <1>3, <2>1, <3>1
  <2>3. CASE Fold(o)
    <3>1. PICK f \in Seq(Entries) : next' = [next EXCEPT ![o] = [at |-> clock, folded |-> f]]
      BY <2>3, FoldFacts
    <3>2. \A x \in Ops : next'[x] = IF x = o THEN [at |-> clock, folded |-> f] ELSE next[x]
      BY <3>1 DEF StoreTypes
    <3> QED BY <1>2, <1>3, <1>4, <2>1, <3>2
  <2> QED BY <1>7, <2>1, <2>2, <2>3
<1>8. ASSUME NEW o \in Ops, Commit(o) \/ Fail(o)
      PROVE  /\ rows' \in SUBSET (rows \cup wrote[o])
             /\ \A x \in Ops : /\ wrote'[x] \in SUBSET wrote[x]
                               /\ next'[x] \in {next[x], None}
             /\ \A s \in Sessions : summary'[s] \in {summary[s], next[o]}
  <2>1. Clear(o) /\ Release(o)
    BY <1>8 DEF Commit, Fail
  <2>2. \A s \in Sessions : summary'[s] \in {summary[s], next[o]}
    BY <1>8 DEF Commit, Fail, Written, StoreTypes
  <2>3. rows' \in SUBSET (rows \cup wrote[o])
    BY <1>8 DEF Commit, Fail
  <2>4. \A x \in Ops : wrote'[x] \in SUBSET wrote[x] /\ next'[x] \in {next[x], None}
    BY <2>1, ClearFacts
  <2> QED BY <2>2, <2>3, <2>4
<1>9. ASSUME UNCHANGED <<rows, summary, wrote, next>>
      PROVE  /\ \A r \in rows' : RowBy(r, nextSeq', clock')
             /\ \A x \in Ops : \A r \in wrote'[x] : RowBy(r, nextSeq', clock')
             /\ \A s \in Sessions : FoldBy(summary'[s], clock')
             /\ \A x \in Ops : FoldBy(next'[x], clock')
  BY <1>1, <1>2, <1>3, <1>9
<1>10. CASE \E o \in Ops : Insert(o)
  BY <1>1, <1>2, <1>3, <1>5, <1>6, <1>10
<1>11. CASE \E o \in Ops : ReadSummary(o) \/ Fold(o)
  BY <1>1, <1>2, <1>3, <1>7, <1>11
<1>12. CASE \E o \in Ops : Commit(o) \/ Fail(o)
  <2>1. PICK o \in Ops : Commit(o) \/ Fail(o)
    BY <1>12
  <2>2. \A r \in rows' : RowBy(r, nextSeq, clock)
    BY <1>3, <1>8, <2>1
  <2>3. \A x \in Ops : \A r \in wrote'[x] : RowBy(r, nextSeq, clock)
    BY <1>3, <1>8, <2>1
  <2>4. \A s \in Sessions : FoldBy(summary'[s], clock)
    BY <1>3, <1>8, <2>1
  <2>5. \A x \in Ops : FoldBy(next'[x], clock')
    BY <1>2, <1>3, <1>4, <1>8, <2>1
  <2> QED BY <1>1, <1>2, <2>2, <2>3, <2>4, <2>5
<1>13. CASE \E o \in Ops : Begin(o) \/ Lock(o) \/ Upsert(o) \/ DeleteRows(o) \/ DeleteSummary(o)
  BY <1>9, <1>13 DEF Begin, Lock, Upsert, DeleteRows, DeleteSummary
<1>14. CASE Tick \/ UNCHANGED vars
  BY <1>9, <1>14 DEF Tick, vars, local
<1> QED BY <1>10, <1>11, <1>12, <1>13, <1>14 DEF Next, Work

\* A lock is held by the operation that is past it, and by no other.
LEMMA LockNext == ASSUME StoreTypes, LockHeld, [Next]_vars PROVE LockHeld'
<1>0. \A o \in Ops : Key(o) \in Keys /\ Key(o)' = Key(o)
  BY DEF Key
<1>1. ASSUME NEW o \in Ops, Begin(o) PROVE LockHeld'
  <2>1. lock' = lock /\ \A x \in Ops : Critical(x)' <=> Critical(x)
    BY <1>1 DEF Begin, StoreTypes, Critical, Quiet, Ended
  <2> QED BY <1>0, <2>1 DEF LockHeld, StoreTypes
<1>2. ASSUME NEW o \in Ops, Lock(o) PROVE LockHeld'
  <2>1. /\ \A x \in Ops : Critical(x)' <=> Critical(x) \/ x = o
        /\ \A k \in Keys : lock'[k] = IF k = Key(o) THEN o ELSE lock[k]
        /\ lock[Key(o)] = None
    BY <1>2 DEF Lock, StoreTypes, Critical, Quiet, Ended
  <2> QED BY <1>0, <2>1 DEF LockHeld, StoreTypes
<1>3. ASSUME NEW o \in Ops, Work(o), ~Commit(o) PROVE LockHeld'
  <2>1. lock' = lock /\ \A x \in Ops : Critical(x)' <=> Critical(x)
    <3>1. CASE Insert(o) \/ ReadSummary(o) \/ Fold(o)
      BY <3>1 DEF Insert, ReadSummary, Fold, StoreTypes, Critical, Quiet, Ended
    <3>2. CASE Upsert(o) \/ DeleteRows(o) \/ DeleteSummary(o)
      BY <3>2 DEF Upsert, DeleteRows, DeleteSummary, StoreTypes, Critical, Quiet, Ended
    <3> QED BY <1>3, <3>1, <3>2 DEF Work
  <2> QED BY <1>0, <2>1 DEF LockHeld, StoreTypes
<1>4. ASSUME NEW o \in Ops, Commit(o) \/ Fail(o) PROVE LockHeld'
  <2>1. /\ \A x \in Ops : Critical(x)' <=> Critical(x) /\ x # o
        /\ \A k \in Keys : lock'[k] = IF lock[k] = o THEN None ELSE lock[k]
    BY <1>4 DEF Commit, Fail, Release, StoreTypes, Critical, Quiet, Ended
  <2> QED BY <1>0, <2>1 DEF LockHeld, StoreTypes
<1>5. CASE Tick \/ UNCHANGED vars
  BY <1>0, <1>5 DEF Tick, vars, local, LockHeld, Critical
<1> QED BY <1>1, <1>2, <1>3, <1>4, <1>5 DEF Next, Work

\* Two operations past their locks are not of one session.
LEMMA Alone ==
  ASSUME StickyRouting, LockHeld, NEW o \in Ops, NEW x \in Ops,
         Critical(o), Critical(x), SessionOf[o] = SessionOf[x]
  PROVE  o = x
<1>1. Key(o) = Key(x)
  BY DEF StickyRouting, Key
<1> QED BY <1>1 DEF LockHeld

\* What another session's operation, or a step that is not past its lock, leaves alone.
Untouched(o) ==
  /\ pc'[o] = pc[o] /\ ins'[o] = ins[o] /\ wrote'[o] = wrote[o]
  /\ gone'[o] = gone[o] /\ next'[o] = next[o]
  /\ summary'[SessionOf[o]] = summary[SessionOf[o]]
  /\ merged'[SessionOf[o]] = merged[SessionOf[o]]
  /\ \A r : r.session = SessionOf[o] => (r \in rows' <=> r \in rows)

\* A step of another operation leaves alone what an operation past its lock relies on.
LEMMA Frame ==
  ASSUME StickyRouting, StoreTypes, Phases, LockHeld, NEW o \in Ops, Critical(o), [Next]_vars
  PROVE  Work(o) \/ Fail(o) \/ Untouched(o)
<1>1. ASSUME NEW x \in Ops, Begin(x) \/ Lock(x) PROVE Untouched(o)
  <2>1. x # o
    BY <1>1 DEF Begin, Lock, Critical, Quiet, Ended
  <2> QED BY <1>1, <2>1 DEF Begin, Lock, Untouched, StoreTypes
<1>2. ASSUME NEW x \in Ops \ {o}, Work(x), ~Commit(x) PROVE Untouched(o)
  <2>1. CASE Insert(x) \/ ReadSummary(x) \/ Fold(x)
    BY <2>1 DEF Insert, ReadSummary, Fold, Untouched, StoreTypes
  <2>2. CASE Upsert(x) \/ DeleteRows(x) \/ DeleteSummary(x)
    BY <2>2 DEF Upsert, DeleteRows, DeleteSummary, Untouched, StoreTypes
  <2> QED BY <1>2, <2>1, <2>2 DEF Work
<1>3. ASSUME NEW x \in Ops \ {o}, Commit(x) PROVE Untouched(o)
  <2>1. SessionOf[x] # SessionOf[o]
    <3>1. Critical(x)
      BY <1>3 DEF Commit, Critical, Quiet, Ended
    <3> QED BY <3>1, Alone
  <2>2. /\ \A r \in wrote[x] : r.session = SessionOf[x]
        /\ \A r \in gone[x] : r.session = SessionOf[x]
    BY DEF Phases, Phase
  <2>3. \A r : r.session = SessionOf[o] => (r \in rows' <=> r \in rows)
    BY <1>3, <2>1, <2>2 DEF Commit
  <2>4. /\ summary'[SessionOf[o]] = summary[SessionOf[o]]
        /\ merged'[SessionOf[o]] = merged[SessionOf[o]]
    BY <1>3, <2>1 DEF Commit, Written, StoreTypes
  <2>5. Clear(x) /\ Release(x) /\ pc'[o] = pc[o]
    BY <1>3 DEF Commit, StoreTypes
  <2> QED BY <2>3, <2>4, <2>5, ClearFacts DEF Untouched
<1>4. ASSUME NEW x \in Ops \ {o}, Fail(x) PROVE Untouched(o)
  <2>1. Clear(x) /\ Release(x) /\ pc'[o] = pc[o] /\ UNCHANGED <<rows, summary, merged>>
    BY <1>4 DEF Fail, StoreTypes
  <2> QED BY <2>1, ClearFacts DEF Untouched
<1>5. CASE Tick \/ UNCHANGED vars
  BY <1>5 DEF Tick, vars, local, Untouched
<1> QED BY <1>1, <1>2, <1>3, <1>4, <1>5 DEF Next, Work

\* The way past the lock is to take it.
LEMMA LockOnly ==
  ASSUME StoreTypes, NEW o \in Ops, ~Critical(o), Critical(o)', [Next]_vars
  PROVE  Lock(o)
<1>1. ASSUME NEW x \in Ops, Begin(x) PROVE FALSE
  BY <1>1 DEF Begin, StoreTypes, Critical, Quiet, Ended
<1>2. ASSUME NEW x \in Ops \ {o}, Lock(x) PROVE FALSE
  BY <1>2 DEF Lock, StoreTypes, Critical, Quiet, Ended
<1>3. ASSUME NEW x \in Ops, Insert(x) \/ ReadSummary(x) \/ Fold(x) \/ Upsert(x) PROVE FALSE
  BY <1>3 DEF Insert, ReadSummary, Fold, Upsert, StoreTypes, Critical, Quiet, Ended
<1>4. ASSUME NEW x \in Ops, DeleteRows(x) \/ DeleteSummary(x) PROVE FALSE
  BY <1>4 DEF DeleteRows, DeleteSummary, StoreTypes, Critical, Quiet, Ended
<1>5. ASSUME NEW x \in Ops, Commit(x) \/ Fail(x) PROVE FALSE
  BY <1>5 DEF Commit, Fail, StoreTypes, Critical, Quiet, Ended
<1>6. CASE Tick \/ UNCHANGED vars
  BY <1>6 DEF Tick, vars, local, Critical
<1> QED BY <1>1, <1>2, <1>3, <1>4, <1>5, <1>6 DEF Next, Work

\* Once past its lock, what an append has prepared fits until it commits.
LEMMA AppendReadyNext ==
  ASSUME StickyRouting, StoreInv, [Next]_vars, NEW o \in Ops, o \notin Deletes
  PROVE  AppendReady(o)'
<1> DEFINE s == SessionOf[o]
<1>0. StoreTypes /\ Phases /\ Drawn /\ LockHeld /\ AppendReady(o) /\ SummaryIsFold
  BY DEF StoreInv, Ready
<1>1. ASSUME ~Critical(o)' PROVE AppendReady(o)'
  <2>1. Phase(o)'
    BY <1>0, PhasesNext DEF Phases
  <2>2. ins'[o] = 0 /\ wrote'[o] = {}
    BY <1>1, <2>1 DEF Phase, Critical
  <2> QED BY <1>1, <2>2 DEF AppendReady, Critical, Quiet, Ended
<1>2. CASE Lock(o)
  <2>1. ins'[o] = 0 /\ wrote'[o] = {} /\ pc'[o] = "inserting"
    BY <1>0, <1>2 DEF Lock, StoreTypes, Phases, Phase, Quiet
  <2> QED BY <2>1 DEF AppendReady
<1>3. ASSUME Untouched(o) PROVE AppendReady(o)'
  <2>1. \A r \in rows' : r.session = s => r \in rows
    BY <1>3 DEF Untouched
  <2>2. \A r \in rows : r.session = s => r \in rows'
    BY <1>3 DEF Untouched
  <2> QED BY <1>0, <1>3, <2>1, <2>2 DEF AppendReady, Untouched, IsMain
<1>4. CASE Insert(o)
  <2>1. PICK e \in Entries, w \in SUBSET Row :
          /\ wrote' = [wrote EXCEPT ![o] = w]
          /\ \/ w = wrote[o] /\ Twins(o, e, rows \cup wrote[o]) # {}
             \/ w = wrote[o] \cup {[session |-> SessionOf[o], path |-> PathOf[o],
                                    entry |-> e, seq |-> nextSeq, at |-> clock]}
    BY <1>0, <1>4, InsertFacts
  <2>2. wrote'[o] = w /\ rows' = rows
    BY <1>0, <1>4, <2>1 DEF Insert, StoreTypes
  <2>3. \E r \in rows \cup w : r.session = SessionOf[o] /\ r.path = PathOf[o]
    <3>1. CASE w = wrote[o] /\ Twins(o, e, rows \cup wrote[o]) # {}
      BY <3>1 DEF Twins
    <3>2. CASE w = wrote[o] \cup {[session |-> SessionOf[o], path |-> PathOf[o],
                                  entry |-> e, seq |-> nextSeq, at |-> clock]}
      <4> DEFINE new == [session |-> SessionOf[o], path |-> PathOf[o],
                         entry |-> e, seq |-> nextSeq, at |-> clock]
      <4>1. new \in rows \cup w /\ new.session = SessionOf[o] /\ new.path = PathOf[o]
        BY <3>2
      <4> QED BY <4>1
    <3> QED BY <2>1, <3>1, <3>2
  <2>4. \A r \in rows : r.seq < nextSeq
    <3>1. \A r \in rows : r.seq \in 1..(nextSeq - 1)
      BY <1>0 DEF Drawn, RowBy
    <3> QED BY <1>0, <3>1 DEF StoreTypes
  <2>5. \A v \in w, r \in rows : r.session = SessionOf[o] => r.seq < v.seq
    BY <1>0, <2>1, <2>4 DEF AppendReady
  <2>6. pc'[o] # "folding" /\ ~(IsMain(o)' /\ pc'[o] \in {"writing", "committing"})
    BY <1>0, <1>4 DEF Insert, StoreTypes, IsMain
  <2> QED BY <2>2, <2>3, <2>5, <2>6 DEF AppendReady
<1>5. CASE ReadSummary(o)
  BY <1>0, <1>5 DEF ReadSummary, AppendReady, StoreTypes
<1>6. CASE Fold(o)
  <2>1. PICK f \in Seq(Entries) :
          /\ f = (IF next[o] = None THEN <<>> ELSE next[o].folded) \o EntriesOf[o]
          /\ next' = [next EXCEPT ![o] = [at |-> clock, folded |-> f]]
          /\ [at |-> clock, folded |-> f] \in Summaries
    BY <1>0, <1>6, FoldFacts
  <2>2. next'[o] = [at |-> clock, folded |-> f] /\ next'[o] # None
    BY <1>0, <2>1 DEF StoreTypes
  <2>3. f = merged[s] \o EntriesOf[o]
    <3>1. next[o] = summary[s]
      BY <1>0, <1>6 DEF Fold, AppendReady
    <3> QED BY <1>0, <2>1, <3>1 DEF SummaryIsFold
  <2>4. \A r \in rows \cup wrote[o] : r.at <= clock
    <3>1. \A r \in rows \cup wrote[o] : r.at \in 1..clock
      BY <1>0 DEF Drawn, RowBy
    <3> QED BY <1>0, <3>1 DEF StoreTypes
  <2>5. pc'[o] = "writing" /\ UNCHANGED <<rows, wrote, merged, ins>>
    BY <1>0, <1>6 DEF Fold, StoreTypes
  <2> QED BY <1>0, <2>2, <2>3, <2>4, <2>5 DEF AppendReady
<1>7. CASE Upsert(o)
  BY <1>0, <1>7 DEF Upsert, AppendReady, StoreTypes, IsMain
<1>8. CASE DeleteRows(o) \/ DeleteSummary(o)
  BY <1>0, <1>8 DEF DeleteRows, DeleteSummary, Phases, Phase
<1>9. CASE Commit(o) \/ Fail(o)
  BY <1>0, <1>1, <1>9 DEF Commit, Fail, Critical, Quiet, Ended, StoreTypes
<1>10. CASE ~Critical(o) /\ Critical(o)'
  <2>1. Lock(o)
    BY <1>0, <1>10, LockOnly
  <2> QED BY <1>2, <2>1
<1>11. CASE Critical(o)
  BY <1>0, <1>3, <1>4, <1>5, <1>6, <1>7, <1>8, <1>9, <1>11, Frame DEF Work
<1> QED BY <1>1, <1>10, <1>11

\* Once past its lock, what a delete has deleted is all there is until it commits.
LEMMA DeleteReadyNext ==
  ASSUME StickyRouting, StoreInv, [Next]_vars, NEW o \in Ops, o \in Deletes
  PROVE  DeleteReady(o)'
<1>0. StoreTypes /\ Phases /\ LockHeld /\ DeleteReady(o)
  BY DEF StoreInv, Ready
<1>1. ASSUME ~Critical(o)' PROVE DeleteReady(o)'
  BY <1>1 DEF DeleteReady, Critical, Quiet, Ended
<1>2. CASE Lock(o)
  BY <1>0, <1>2 DEF Lock, DeleteReady, StoreTypes
<1>3. ASSUME Untouched(o) PROVE DeleteReady(o)'
  <2>1. \A r \in rows' : r.session = SessionOf[o] => r \in rows
    BY <1>3 DEF Untouched
  <2>2. \A r \in rows : r.session = SessionOf[o] => r \in rows'
    BY <1>3 DEF Untouched
  <2>3. {r \in rows : r.session = SessionOf[o] /\ (IsMain(o) \/ r.path = PathOf[o])}
          = {r \in rows' : r.session = SessionOf[o] /\ (IsMain(o) \/ r.path = PathOf[o])}
    BY <2>1, <2>2
  <2> QED BY <1>0, <1>3, <2>3 DEF DeleteReady, Untouched, IsMain
<1>4. CASE Insert(o) \/ ReadSummary(o) \/ Fold(o) \/ Upsert(o)
  BY <1>0, <1>4 DEF Insert, ReadSummary, Fold, Upsert, Phases, Phase
<1>5. CASE DeleteRows(o)
  BY <1>0, <1>5 DEF DeleteRows, DeleteReady, StoreTypes, IsMain
<1>6. CASE DeleteSummary(o)
  BY <1>0, <1>6 DEF DeleteSummary, DeleteReady, StoreTypes, IsMain
<1>7. CASE Commit(o) \/ Fail(o)
  BY <1>0, <1>1, <1>7 DEF Commit, Fail, Critical, Quiet, Ended, StoreTypes
<1>8. CASE ~Critical(o) /\ Critical(o)'
  <2>1. Lock(o)
    BY <1>0, <1>8, LockOnly
  <2> QED BY <1>2, <2>1
<1>9. CASE Critical(o)
  BY <1>0, <1>3, <1>4, <1>5, <1>6, <1>7, <1>9, Frame DEF Work
<1> QED BY <1>1, <1>8, <1>9

LEMMA ReadyNext == ASSUME StickyRouting, StoreInv, [Next]_vars PROVE Ready'
BY AppendReadyNext, DeleteReadyNext DEF Ready

\* Rows, summaries and history change with a commit only.
LEMMA CommitOnly ==
  ASSUME [Next]_vars, ~ \E o \in Ops : Commit(o)
  PROVE  UNCHANGED <<rows, summary, merged>>
BY DEF Next, vars, local, Begin, Lock, Work, Insert, ReadSummary, Fold, Upsert, DeleteRows,
       DeleteSummary, Fail, Tick

\* A commit writes the fold of what was committed.
LEMMA FoldNext == ASSUME StoreInv, [Next]_vars PROVE SummaryIsFold'
<1>0. StoreTypes /\ Phases /\ Ready /\ SummaryIsFold
  BY DEF StoreInv
<1>1. ASSUME NEW o \in Ops, Commit(o) PROVE SummaryIsFold'
  <2> DEFINE s == SessionOf[o]
  <2>1. ASSUME NEW t \in Sessions, t # s \/ ~IsMain(o)
        PROVE  summary'[t] = summary[t] /\ merged'[t] = merged[t]
    BY <1>0, <1>1, <2>1 DEF Commit, Written, StoreTypes
  <2>2. ASSUME IsMain(o)
        PROVE  /\ summary'[s] = next[o]
               /\ merged'[s] = IF o \in Deletes THEN <<>> ELSE merged[s] \o EntriesOf[o]
    BY <1>0, <1>1, <2>2 DEF Commit, Written, StoreTypes
  <2>3. IF o \in Deletes THEN next[o] = None
        ELSE IsMain(o) => next[o] # None /\ next[o].folded = merged[s] \o EntriesOf[o]
    BY <1>0, <1>1 DEF Commit, Phases, Phase, Ready, AppendReady
  <2> QED BY <1>0, <2>1, <2>2, <2>3 DEF SummaryIsFold
<1>2. CASE UNCHANGED <<rows, summary, merged>>
  BY <1>0, <1>2 DEF SummaryIsFold
<1> QED BY <1>1, <1>2, CommitOnly

\* A commit keeps the summaries in step with the rows.
LEMMA FitNext == ASSUME StoreInv, [Next]_vars PROVE SummariesFit'
<1>0. StoreTypes /\ Phases /\ Drawn /\ Ready /\ SummariesFit
  BY DEF StoreInv
<1>1. ASSUME NEW o \in Ops, Commit(o) PROVE SummariesFit'
  <2> DEFINE s == SessionOf[o]
  <2>1. /\ \A r \in wrote[o] : r.session = s /\ r.path = PathOf[o]
        /\ \A r \in gone[o] : r.session = s
        /\ rows' = (rows \ gone[o]) \cup wrote[o]
    BY <1>0, <1>1 DEF Phases, Phase, Commit
  <2>2. ASSUME NEW t \in Sessions, t # s \/ ~IsMain(o)
        PROVE  Rows(t, Main)' = Rows(t, Main) /\ summary'[t] = summary[t]
    <3>1. summary'[t] = summary[t]
      BY <1>0, <1>1, <2>2 DEF Commit, Written, StoreTypes
    <3>2. \A r \in gone[o] : r.session # t \/ r.path # Main
      <4>1. CASE o \in Deletes
        BY <1>0, <1>1, <2>1, <2>2, <4>1 DEF Commit, Ready, DeleteReady, IsMain
      <4>2. CASE o \notin Deletes
        BY <1>0, <4>2 DEF Phases, Phase
      <4> QED BY <4>1, <4>2
    <3>3. \A r \in wrote[o] : r.session # t \/ r.path # Main
      BY <2>1, <2>2 DEF IsMain
    <3>4. Rows(t, Main)' = Rows(t, Main)
      BY <2>1, <3>2, <3>3 DEF Rows
    <3> QED BY <3>1, <3>4
  <2>3. CASE IsMain(o) /\ o \in Deletes
    <3>1. summary'[s] = None
      BY <1>0, <1>1, <2>3 DEF Commit, Written, StoreTypes, Phases, Phase
    <3>2. gone[o] = {r \in rows : r.session = s} /\ wrote[o] = {}
      BY <1>0, <1>1, <2>3 DEF Commit, Ready, DeleteReady, Phases, Phase
    <3>3. Rows(s, Main)' = {}
      BY <2>1, <3>2 DEF Rows
    <3> QED BY <1>0, <2>2, <3>1, <3>3 DEF SummariesFit
  <2>4. CASE IsMain(o) /\ o \notin Deletes
    <3>1. summary'[s] = next[o] /\ next[o] # None
      BY <1>0, <1>1, <2>4 DEF Commit, Written, StoreTypes, Ready, AppendReady
    <3>2. rows' = rows \cup wrote[o]
      BY <1>0, <2>1, <2>4 DEF Phases, Phase
    <3>3. \A r \in rows \cup wrote[o] : r.session = s /\ r.path = Main => r.at <= next[o].at
      BY <1>0, <1>1, <2>4 DEF Commit, Ready, AppendReady
    <3>4. \E r \in rows \cup wrote[o] : r.session = s /\ r.path = Main
      <4>1. ins[o] > 0
        BY <1>0, <1>1, <2>4 DEF Commit, Phases, Phase
      <4> QED BY <1>0, <2>4, <4>1 DEF Ready, AppendReady, IsMain
    <3>5. /\ Rows(s, Main)' # {}
          /\ \A r \in Rows(s, Main)' : r.at <= summary'[s].at
      BY <3>1, <3>2, <3>3, <3>4 DEF Rows
    <3> QED BY <1>0, <2>2, <3>1, <3>5 DEF SummariesFit
  <2>5. CASE ~IsMain(o)
    BY <1>0, <2>2, <2>5 DEF SummariesFit
  <2> QED BY <2>3, <2>4, <2>5
<1>2. CASE UNCHANGED <<rows, summary, merged>>
  BY <1>0, <1>2 DEF SummariesFit, Rows
<1> QED BY <1>1, <1>2, CommitOnly

LEMMA StoreInvNext == ASSUME StickyRouting PROVE StoreInv /\ [Next]_vars => StoreInv'
<1> SUFFICES ASSUME StoreInv, [Next]_vars PROVE StoreInv'
  OBVIOUS
<1>1. StoreTypes /\ Phases /\ Drawn /\ LockHeld
  BY DEF StoreInv
<1>2. StoreTypes' /\ Phases' /\ Drawn' /\ LockHeld'
  BY <1>1, TypesNext, PhasesNext, DrawnNext, LockNext
<1> QED BY <1>2, ReadyNext, FoldNext, FitNext DEF StoreInv

\* The inductive invariant, when the requests of a session go to one process.
THEOREM StoreInvariant == ASSUME StickyRouting PROVE Spec => []StoreInv
<1>1. StoreInv /\ [Next]_vars => StoreInv'
  BY StoreInvNext
<1> QED BY <1>1, InitInv, PTL DEF Spec

\* Type correctness, and that no lock outlives the transaction that took it.
THEOREM StoreTypeCorrect == ASSUME StickyRouting PROVE Spec => []TypeOK
<1>1. StoreInv => TypeOK
  <2> SUFFICES ASSUME StoreInv PROVE TypeOK
    OBVIOUS
  <2>1. StoreTypes /\ Drawn /\ LockHeld
    BY DEF StoreInv
  <2>2. \A r \in rows : r \in [session : Sessions, path : Paths, entry : Entries,
                               seq : 1..(nextSeq - 1), at : 1..clock]
    BY <2>1 DEF StoreTypes, Row, Drawn, RowBy
  <2>3. \A s \in Sessions :
          summary[s] # None => summary[s].at \in 1..clock /\ summary[s].folded \in Seq(Entries)
    BY <2>1 DEF StoreTypes, Drawn, FoldBy, Summaries
  <2>4. \A k \in Keys : lock[k] # None => pc[lock[k]] \notin Ended \cup {"connected"}
    BY <2>1 DEF LockHeld, Critical, Quiet
  <2>5. pc \in [Ops -> Ended \cup {"connected", "inserting", "reading", "folding",
                                   "writing", "deleting", "sweeping", "committing"}]
    BY <2>1 DEF StoreTypes, Quiet, Steps, Ended
  <2> QED BY <2>1, <2>2, <2>3, <2>4, <2>5 DEF TypeOK, StoreTypes
<1> QED BY <1>1, StoreInvariant, PTL

\* The summary of a session is the fold of what was committed to it.
THEOREM SummaryFolds == ASSUME StickyRouting PROVE Spec => []SummaryIsFold
<1>1. StoreInv => SummaryIsFold
  BY DEF StoreInv
<1> QED BY <1>1, StoreInvariant, PTL

\* What load() returned stays the beginning of what it returns, until a delete.
THEOREM TranscriptGrows == ASSUME StickyRouting PROVE Spec => LoadGrowsAtEnd
<1> DEFINE Grows == \A s \in Sessions, p \in Paths :
              \A old \in Rows(s, p), new \in Rows(s, p)' : new \notin rows => old.seq < new.seq
<1>1. StoreInv /\ [Next]_vars => [Grows]_vars
  <2> SUFFICES ASSUME StoreInv, [Next]_vars, NEW s \in Sessions, NEW p \in Paths,
                      NEW old \in Rows(s, p), NEW new \in Rows(s, p)', new \notin rows
               PROVE  old.seq < new.seq
    OBVIOUS
  <2>1. PICK o \in Ops : Commit(o)
    <3>1. rows' # rows
      BY DEF Rows
    <3> QED BY <3>1, CommitOnly
  <2>2. new \in wrote[o] /\ old \in rows /\ old.session = new.session
    BY <2>1 DEF Commit, Rows
  <2>3. Phases /\ Ready
    BY DEF StoreInv
  <2>4. o \notin Deletes /\ new.session = SessionOf[o]
    BY <2>2, <2>3 DEF Phases, Phase
  <2>5. \A w \in wrote[o], r \in rows : r.session = SessionOf[o] => r.seq < w.seq
    BY <2>3, <2>4 DEF Ready, AppendReady
  <2> QED BY <2>2, <2>4, <2>5
<1> QED BY <1>1, StoreInvariant, PTL DEF Spec, LoadGrowsAtEnd

\* The largest of a set of numbers that has a bound.
LEMMA LargestNumber ==
  ASSUME NEW T \in SUBSET Nat, T # {}, NEW b \in Nat, \A x \in T : x <= b
  PROVE  Max(T) \in T
<1> DEFINE Rest == {b - x : x \in T}
<1>1. Rest \subseteq Nat
  <2>1. \A x \in T : x \in Nat /\ x <= b
    OBVIOUS
  <2> QED BY <2>1
<1>2. PICK y \in Rest : \A z \in Rest : ~ (<<z, y>> \in OpToRel(<, Nat))
  <2>1. PICK x \in T : TRUE
    OBVIOUS
  <2>2. b - x \in Rest
    OBVIOUS
  <2> HIDE DEF Rest
  <2> QED BY <1>1, <2>2, NatLessThanWellFounded, WFMin
<1>3. PICK m \in T : y = b - m
  OBVIOUS
<1>4. ASSUME NEW x \in T PROVE m >= x
  <2> DEFINE z == b - x
  <2>1. z \in Rest /\ z \in Nat /\ y \in Nat
    BY <1>1
  <2>2. <<z, y>> \in OpToRel(<, Nat) <=> <<z, y>> \in Nat \X Nat /\ <<z, y>>[1] < <<z, y>>[2]
    BY ZenonT(20) DEF OpToRel
  <2>3. ~ (z < y)
    <3> HIDE DEF z, Rest
    <3> QED BY <1>2, <2>1, <2>2
  <2>4. x \in Nat /\ m \in Nat
    OBVIOUS
  <2> QED BY <1>3, <2>3, <2>4
<1> QED BY <1>3, <1>4 DEF Max

\* A session is listed exactly when it has a summary, which is not older than its rows.
THEOREM ListingsFit == ASSUME StickyRouting PROVE Spec => []ListingsAgree
<1>1. StoreInv => ListingsAgree
  <2> SUFFICES ASSUME StoreInv, NEW s \in Sessions, summary[s] # None
               PROVE  summary[s].at >= ListedTime(s)
    BY DEF StoreInv, SummariesFit, ListingsAgree
  <2> DEFINE times == {r.at : r \in Rows(s, Main)}
  <2>1. StoreTypes /\ SummariesFit
    BY DEF StoreInv
  <2>2. times \in SUBSET Nat /\ times # {}
    BY <2>1 DEF StoreTypes, SummariesFit, Rows, Row
  <2>3. summary[s].at \in Nat /\ \A x \in times : x <= summary[s].at
    BY <2>1 DEF StoreTypes, Summaries, SummariesFit
  <2>4. Max(times) \in times
    BY <2>2, <2>3, LargestNumber
  <2>5. Max(times) \in Nat /\ Max(times) <= summary[s].at
    BY <2>2, <2>3, <2>4
  <2> QED BY <2>3, <2>5 DEF ListedTime
<1> QED BY <1>1, StoreInvariant, PTL
-----------------------------------------------------------------------------
(* What load() returns.                                                    *)
(* The argument: the rows an append has inserted are those of the first    *)
(* places of its entries in what the session will have been given, because *)
(* what it finds in the index is what was committed before it, and stays   *)
(* so while it holds its lock; and their numbers come after.               *)

\* The least of a set of numbers.
LEMMA FirstNumber ==
  ASSUME NEW T, T \subseteq Nat, T # {}
  PROVE  \E x \in T : \A y \in T : x <= y
<1>1. PICK x \in T : \A y \in T : ~ (<<y, x>> \in OpToRel(<, Nat))
  BY NatLessThanWellFounded, WFMin
<1>2. ASSUME NEW y \in T PROVE x <= y
  <2>1. <<y, x>> \in OpToRel(<, Nat) <=> <<y, x>> \in Nat \X Nat /\ <<y, x>>[1] < <<y, x>>[2]
    BY ZenonT(20) DEF OpToRel
  <2>2. <<y, x>> \in Nat \X Nat /\ <<y, x>>[1] = y /\ <<y, x>>[2] = x
    OBVIOUS
  <2>3. ~ (y < x)
    BY <1>1, <2>1, <2>2
  <2> QED BY <2>3
<1> QED BY <1>2

\* Every entry has a place that counts: its own, or the first of that entry.
LEMMA KeptHasAll ==
  ASSUME NEW q, NEW n \in Nat, NEW k \in 1..n
  PROVE  \E i \in Kept(q, n) : q[i] = q[k]
<1> DEFINE T == {j \in 1..n : q[j] = q[k]}
<1>1. PICK i \in T : \A j \in T : i <= j
  <2>1. T \subseteq Nat /\ k \in T
    BY DEF T
  <2> HIDE DEF T
  <2> QED BY <2>1, FirstNumber
<1>2. \A j \in 1..(i - 1) : q[j] # q[i]
  <2> SUFFICES ASSUME NEW j \in 1..(i - 1), q[j] = q[i] PROVE FALSE
    OBVIOUS
  <2>1. i \in 1..n
    OBVIOUS
  <2>2. j \in 1..n /\ ~ (i <= j)
    BY <2>1
  <2>3. j \in T
    BY <2>2
  <2> HIDE DEF T
  <2> QED BY <1>1, <2>2, <2>3
<1> QED BY <1>2 DEF Kept

\* One more entry has a place that counts unless it is a repetition.
LEMMA KeptNext ==
  ASSUME NEW q, NEW n \in Nat
  PROVE  Kept(q, n + 1) =
           IF q[n + 1] \in Keyed /\ \E j \in 1..n : q[j] = q[n + 1]
           THEN Kept(q, n) ELSE Kept(q, n) \cup {n + 1}
<1>1. 1..(n + 1) = (1..n) \cup {n + 1} /\ (n + 1) - 1 = n
  OBVIOUS
<1>2. \A i \in 1..(n + 1) : i \in Kept(q, n + 1) <=>
                            (q[i] \in Keyed => \A j \in 1..(i - 1) : q[j] # q[i])
  BY DEF Kept
<1>3. \A i \in 1..n : i \in Kept(q, n) <=> i \in Kept(q, n + 1)
  BY <1>1, <1>2 DEF Kept
<1>4. n + 1 \in Kept(q, n + 1) <=> ~(q[n + 1] \in Keyed /\ \E j \in 1..n : q[j] = q[n + 1])
  BY <1>1, <1>2
<1>5. Kept(q, n) \subseteq 1..n /\ Kept(q, n + 1) \subseteq 1..(n + 1)
  BY DEF Kept
<1>6. 1..n \subseteq Nat /\ n + 1 \notin 1..n
  OBVIOUS
<1> DEFINE A == Kept(q, n)
           B == Kept(q, n + 1)
           repeated == q[n + 1] \in Keyed /\ \E j \in 1..n : q[j] = q[n + 1]
<1> HIDE DEF A, B, repeated
<1>7. /\ \A i \in 1..n : i \in A <=> i \in B
      /\ n + 1 \in B <=> ~repeated
      /\ A \subseteq 1..n /\ B \subseteq (1..n) \cup {n + 1}
  BY <1>1, <1>3, <1>4, <1>5 DEF A, B, repeated
<1>8. B = IF repeated THEN A ELSE A \cup {n + 1}
  <2>1. CASE repeated
    <3>1. \A x : x \in B <=> x \in A
      BY <1>7, <2>1
    <3> QED BY <2>1, <3>1
  <2>2. CASE ~repeated
    <3>1. \A x : x \in B <=> x \in A \/ x = n + 1
      BY <1>7, <2>2
    <3> QED BY <2>2, <3>1
  <2> QED BY <2>1, <2>2
<1> QED BY <1>8 DEF A, B, repeated

\* The places that count among the first do not depend on what follows.
LEMMA KeptPrefix ==
  ASSUME NEW m \in Seq(Entries), NEW d \in Seq(Entries), NEW n \in Nat, n >= Len(m)
  PROVE  /\ \A i \in 1..Len(m) : (m \o d)[i] = m[i]
         /\ Kept(m \o d, n) \cap (1..Len(m)) = Kept(m, Len(m))
<1> DEFINE q == m \o d
<1>1. Len(m) \in Nat /\ \A i \in 1..Len(m) : q[i] = m[i]
  OBVIOUS
<1> HIDE DEF q
<1>2. \A i \in 1..Len(m) : i \in 1..n /\ \A j \in 1..(i - 1) : j \in 1..Len(m)
  BY <1>1
<1>3. \A i \in 1..Len(m) : i \in Kept(q, n) <=> i \in Kept(m, Len(m))
  BY <1>1, <1>2 DEF Kept
<1>4. Kept(m, Len(m)) \subseteq 1..Len(m)
  BY DEF Kept
<1>5. Kept(q, n) \cap (1..Len(m)) = Kept(m, Len(m))
  BY <1>3, <1>4
<1> QED BY <1>1, <1>5 DEF q

\* Rows of later places and with larger numbers are listed after the others.
LEMMA ListedJoin ==
  ASSUME NEW K1 \in SUBSET Nat, NEW K2 \in SUBSET Nat, NEW R1, NEW R2, NEW q1, NEW q,
         Listed(K1, R1, q1), Listed(K2, R2, q),
         \A i \in K1 : q1[i] = q[i],
         \A i \in K1, j \in K2 : i < j,
         \A r \in R1, w \in R2 : r.seq < w.seq
  PROVE  Listed(K1 \cup K2, R1 \cup R2, q)
<1>1. PICK f \in [K1 -> R1] :
        /\ \A r \in R1 : \E i \in K1 : f[i] = r
        /\ \A i \in K1 : f[i].entry = q1[i]
        /\ \A i, j \in K1 : i < j => f[i].seq < f[j].seq
  BY DEF Listed
<1>2. PICK g \in [K2 -> R2] :
        /\ \A r \in R2 : \E i \in K2 : g[i] = r
        /\ \A i \in K2 : g[i].entry = q[i]
        /\ \A i, j \in K2 : i < j => g[i].seq < g[j].seq
  BY DEF Listed
<1>3. \A i \in K1, j \in K2 : ~(j < i) /\ i # j
  <2> SUFFICES ASSUME NEW i \in K1, NEW j \in K2 PROVE ~(j < i) /\ i # j
    OBVIOUS
  <2>1. i \in Nat /\ j \in Nat /\ i < j
    OBVIOUS
  <2> QED BY <2>1
<1> DEFINE h == [i \in K1 \cup K2 |-> IF i \in K1 THEN f[i] ELSE g[i]]
<1>4. \A i \in K1 : h[i] = f[i] /\ f[i] \in R1
  OBVIOUS
<1>5. \A i \in K2 : h[i] = g[i] /\ g[i] \in R2
  BY <1>3
<1>6. h \in [K1 \cup K2 -> R1 \cup R2]
  OBVIOUS
<1> HIDE DEF h
<1>7. \A r \in R1 \cup R2 : \E i \in K1 \cup K2 : h[i] = r
  BY <1>1, <1>2, <1>4, <1>5
<1>8. \A i \in K1 \cup K2 : h[i].entry = q[i]
  BY <1>1, <1>2, <1>4, <1>5
<1>9. ASSUME NEW i \in K1 \cup K2, NEW j \in K1 \cup K2, i < j PROVE h[i].seq < h[j].seq
  <2>1. CASE i \in K1 /\ j \in K1
    BY <1>1, <1>4, <1>9, <2>1
  <2>2. CASE i \in K2 /\ j \in K2
    BY <1>2, <1>5, <1>9, <2>2
  <2>3. CASE i \in K1 /\ j \in K2
    BY <1>4, <1>5, <2>3
  <2>4. CASE i \in K2 /\ j \in K1
    BY <1>3, <1>9, <2>4
  <2> QED BY <2>1, <2>2, <2>3, <2>4
<1> QED BY <1>6, <1>7, <1>8, <1>9 DEF Listed

\* A single row is listed by itself.
LEMMA ListedOne ==
  ASSUME NEW n \in Nat, NEW r, NEW q, r.entry = q[n]
  PROVE  Listed({n}, {r}, q)
<1> DEFINE f == [i \in {n} |-> r]
<1>1. f \in [{n} -> {r}] /\ f[n] = r
  OBVIOUS
<1>2. ~(n < n)
  OBVIOUS
<1> HIDE DEF f
<1> QED BY <1>1, <1>2 DEF Listed

LEMMA ListedNone == ASSUME NEW q PROVE Listed({}, {}, q) /\ Listed(Kept(<<>>, Len(<<>>)), {}, q)
<1> DEFINE f == [i \in {} |-> i]
<1>1. f \in [{} -> {}]
  OBVIOUS
<1>2. Kept(<<>>, Len(<<>>)) = {}
  BY DEF Kept
<1>3. Listed({}, {}, q)
  BY <1>1 DEF Listed
<1> HIDE DEF f
<1> QED BY <1>2, <1>3

\* Of the first n entries of a batch d for a session given m, the places that count.
NewPlaces(m, d, n) == Kept(m \o d, Len(m) + n) \ (1..Len(m))

\* The index has an entry; a sequence has it among its first n.
Knows(W, e) == \E r \in W : r.entry = e
Among(q, n, e) == \E j \in 1..n : q[j] = e

\* What an append to a transcript has inserted are the rows of its new places.
Placed(o) ==
  o \notin Deletes /\ IsMain(o) /\ Critical(o) =>
    /\ Listed(NewPlaces(merged[SessionOf[o]], EntriesOf[o], ins[o]), wrote[o],
              merged[SessionOf[o]] \o EntriesOf[o])
    /\ pc[o] # "inserting" => ins[o] = Len(EntriesOf[o])

MergedInv == StoreInv /\ LoadIsMerged /\ \A o \in Ops : Placed(o)

\* Together with the places committed before, the new places are all that count.
LEMMA NewPlacesRest ==
  ASSUME NEW m \in Seq(Entries), NEW d \in Seq(Entries), NEW n \in Nat
  PROVE  /\ Kept(m, Len(m)) \in SUBSET (1..Len(m))
         /\ NewPlaces(m, d, n) \in SUBSET ((Len(m) + 1)..(Len(m) + n))
         /\ Kept(m \o d, Len(m) + n) = Kept(m, Len(m)) \cup NewPlaces(m, d, n)
<1>1. Len(m) \in Nat /\ Len(m) + n \in Nat /\ Len(m) + n >= Len(m)
  OBVIOUS
<1>2. Kept(m \o d, Len(m) + n) \cap (1..Len(m)) = Kept(m, Len(m))
  BY <1>1, KeptPrefix
<1>3. Kept(m, Len(m)) \subseteq 1..Len(m)
  BY DEF Kept
<1>4. Kept(m \o d, Len(m) + n) \subseteq 1..(Len(m) + n)
  BY DEF Kept
<1>5. \A i \in 1..(Len(m) + n) : i \notin 1..Len(m) => i \in (Len(m) + 1)..(Len(m) + n)
  BY <1>1
<1> QED BY <1>2, <1>3, <1>4, <1>5 DEF NewPlaces

\* An entry is found in the index exactly when it has a place before.
LEMMA EntryKnown ==
  ASSUME NEW m \in Seq(Entries), NEW d \in Seq(Entries), NEW n \in Nat, NEW R, NEW W, NEW e,
         Listed(Kept(m, Len(m)), R, m), Listed(NewPlaces(m, d, n), W, m \o d)
  PROVE  Knows(R \cup W, e) <=> Among(m \o d, Len(m) + n, e)
<1> DEFINE q == m \o d
           K == Kept(m, Len(m))
           N == NewPlaces(m, d, n)
           t == Len(m) + n
<1>1. /\ K \in SUBSET (1..Len(m)) /\ N \in SUBSET ((Len(m) + 1)..t)
      /\ Kept(q, t) = K \cup N
  BY NewPlacesRest
<1>2. \A i \in 1..Len(m) : q[i] = m[i]
  OBVIOUS
<1>3. Len(m) \in Nat /\ t \in Nat
  OBVIOUS
<1>4. K \subseteq 1..t /\ N \subseteq 1..t
  <2>1. 1..Len(m) \subseteq 1..t /\ (Len(m) + 1)..t \subseteq 1..t
    BY <1>3
  <2> QED BY <1>1, <2>1
<1>5. PICK f \in [K -> R] : /\ \A r \in R : \E i \in K : f[i] = r
                            /\ \A i \in K : f[i].entry = m[i]
  BY DEF Listed
<1>6. PICK g \in [N -> W] : /\ \A r \in W : \E i \in N : g[i] = r
                            /\ \A i \in N : g[i].entry = q[i]
  BY DEF Listed
<1>7. \A i \in K : m[i] = q[i]
  BY <1>1, <1>2
<1>8. ASSUME NEW j \in 1..t PROVE \E i \in K \cup N : q[i] = q[j]
  <2>1. \E i \in Kept(q, t) : q[i] = q[j]
    <3> HIDE DEF q, t
    <3> QED BY <1>3, KeptHasAll
  <2> QED BY <1>1, <2>1
<1> HIDE DEF q, K, N, t
<1>9. ASSUME NEW r \in R \cup W, r.entry = e PROVE \E j \in 1..t : q[j] = e
  <2>1. CASE r \in R
    BY <1>4, <1>5, <1>7, <1>9, <2>1
  <2>2. CASE r \in W
    BY <1>4, <1>6, <1>9, <2>2
  <2> QED BY <2>1, <2>2
<1>10. ASSUME NEW j \in 1..t, q[j] = e PROVE \E r \in R \cup W : r.entry = e
  <2>1. PICK i \in K \cup N : q[i] = e
    BY <1>8, <1>10
  <2>2. CASE i \in K
    BY <1>5, <1>7, <2>1, <2>2
  <2>3. CASE i \in N
    BY <1>6, <2>1, <2>3
  <2> QED BY <2>2, <2>3
<1>11. (\E r \in R \cup W : r.entry = e) <=> \E j \in 1..t : q[j] = e
  BY <1>9, <1>10
<1> QED BY <1>11 DEF q, t, Knows, Among

\* One entry more: a row for it unless the index has it.
LEMMA InsertPlaced ==
  ASSUME NEW m \in Seq(Entries), NEW d \in Seq(Entries), NEW n \in Nat, n < Len(d),
         NEW R, NEW W, NEW new, new.entry = d[n + 1],
         \A w \in W : w.seq < new.seq,
         Listed(Kept(m, Len(m)), R, m), Listed(NewPlaces(m, d, n), W, m \o d)
  PROVE  Listed(NewPlaces(m, d, n + 1),
                IF d[n + 1] \in Keyed /\ \E r \in R \cup W : r.entry = d[n + 1]
                THEN W ELSE W \cup {new}, m \o d)
<1> DEFINE q == m \o d
           N == NewPlaces(m, d, n)
           t == Len(m) + n
           e == d[n + 1]
           known == e \in Keyed /\ \E r \in R \cup W : r.entry = e
<1>1. /\ q[t + 1] = e /\ t \in Nat /\ Len(m) \in Nat
      /\ t + 1 = Len(m) + (n + 1) /\ t + 1 \notin 1..Len(m)
  <2>1. /\ t \in Nat /\ Len(m) \in Nat /\ Len(d) \in Nat
        /\ t + 1 = Len(m) + (n + 1) /\ t + 1 \notin 1..Len(m)
    OBVIOUS
  <2>2. t + 1 \in (Len(m) + 1)..(Len(m) + Len(d)) /\ (t + 1) - Len(m) = n + 1
    BY <2>1
  <2>3. \A k \in (Len(m) + 1)..(Len(m) + Len(d)) : (m \o d)[k] = d[k - Len(m)]
    OBVIOUS
  <2>4. q[t + 1] = e
    <3> HIDE DEF t
    <3> QED BY <2>2, <2>3
  <2> QED BY <2>1, <2>4
<1>2. known <=> e \in Keyed /\ \E j \in 1..t : q[j] = e
  <2>1. \A x : Knows(R \cup W, x) <=> Among(m \o d, Len(m) + n, x)
    <3> SUFFICES ASSUME NEW x
                 PROVE  Knows(R \cup W, x)
                          <=> Among(m \o d, Len(m) + n, x)
      OBVIOUS
    <3> QED BY EntryKnown, Zenon
  <2> HIDE DEF e
  <2> QED BY <2>1 DEF Knows, Among
<1>3. Kept(q, t + 1) = IF known THEN Kept(q, t) ELSE Kept(q, t) \cup {t + 1}
  <2> HIDE DEF q, e, known, t
  <2> QED BY <1>1, <1>2, KeptNext
<1>4. NewPlaces(m, d, n + 1) = IF known THEN N ELSE N \cup {t + 1}
  <2>1. NewPlaces(m, d, n + 1) = Kept(q, t + 1) \ (1..Len(m)) /\ N = Kept(q, t) \ (1..Len(m))
    BY <1>1 DEF NewPlaces
  <2> HIDE DEF q, e, known, t, N
  <2>2. CASE known
    BY <1>3, <2>1, <2>2
  <2>3. CASE ~known
    BY <1>1, <1>3, <2>1, <2>3
  <2> QED BY <2>2, <2>3
<1>5. N \in SUBSET ((Len(m) + 1)..t)
  BY NewPlacesRest
<1>6. N \in SUBSET Nat /\ \A i \in N : i < t + 1
  <2>1. \A i \in (Len(m) + 1)..t : i \in Nat /\ i < t + 1
    BY <1>1
  <2> HIDE DEF N, t
  <2> QED BY <1>5, <2>1
<1>7. Listed({t + 1}, {new}, q)
  <2>1. t + 1 \in Nat /\ new.entry = q[t + 1]
    BY <1>1
  <2> HIDE DEF q, t
  <2> QED BY <2>1, ListedOne
<1>8. Listed(N \cup {t + 1}, W \cup {new}, q)
  <2>1. /\ {t + 1} \in SUBSET Nat /\ Listed(N, W, q)
        /\ \A i \in N, j \in {t + 1} : i < j
        /\ \A w \in W, v \in {new} : w.seq < v.seq
    BY <1>1, <1>6
  <2>2. \A i \in N : q[i] = q[i]
    OBVIOUS
  <2> HIDE DEF N, t, q
  <2> QED BY <1>6, <1>7, <2>1, <2>2, ListedJoin
<1> HIDE DEF known, N, q
<1>9. Listed(NewPlaces(m, d, n + 1), IF known THEN W ELSE W \cup {new}, q)
  BY <1>4, <1>8 DEF N, q
<1> QED BY <1>9 DEF known, q

\* A batch that is complete is listed after what was committed.
LEMMA BatchListed ==
  ASSUME NEW m \in Seq(Entries), NEW d \in Seq(Entries), NEW R, NEW W,
         Listed(Kept(m, Len(m)), R, m), Listed(NewPlaces(m, d, Len(d)), W, m \o d),
         \A r \in R, w \in W : r.seq < w.seq
  PROVE  Listed(Kept(m \o d, Len(m \o d)), R \cup W, m \o d)
<1> DEFINE K == Kept(m, Len(m))
           N == NewPlaces(m, d, Len(d))
           q == m \o d
<1>1. Len(m) \in Nat /\ Len(d) \in Nat /\ Len(q) = Len(m) + Len(d)
  OBVIOUS
<1>2. /\ K \in SUBSET (1..Len(m)) /\ N \in SUBSET ((Len(m) + 1)..(Len(m) + Len(d)))
      /\ Kept(q, Len(m) + Len(d)) = K \cup N
  BY <1>1, NewPlacesRest
<1>3. /\ 1..Len(m) \subseteq Nat /\ (Len(m) + 1)..(Len(m) + Len(d)) \subseteq Nat
      /\ \A i \in 1..Len(m), j \in (Len(m) + 1)..(Len(m) + Len(d)) : i < j
  BY <1>1
<1>4. \A i \in K : m[i] = q[i]
  <2>1. \A i \in 1..Len(m) : m[i] = q[i]
    OBVIOUS
  <2> HIDE DEF K, q
  <2> QED BY <1>2, <2>1
<1>5. K \in SUBSET Nat /\ N \in SUBSET Nat /\ \A i \in K, j \in N : i < j
  <2> HIDE DEF K, N, q
  <2> QED BY <1>2, <1>3
<1>6. Listed(K, R, m) /\ Listed(N, W, q)
  OBVIOUS
<1> HIDE DEF K, N, q
<1>7. Listed(K \cup N, R \cup W, q)
  BY <1>4, <1>5, <1>6, ListedJoin
<1>8. Listed(Kept(q, Len(q)), R \cup W, q)
  BY <1>1, <1>2, <1>7
<1> QED BY <1>8 DEF q

\* A step keeps the rows of an append to a transcript at their places.
LEMMA PlacedNext ==
  ASSUME StickyRouting, StoreInv, LoadIsMerged, [Next]_vars, NEW o \in Ops, Placed(o)
  PROVE  Placed(o)'
<1> DEFINE s == SessionOf[o]
           m == merged[s]
           d == EntriesOf[o]
<1> SUFFICES ASSUME o \notin Deletes, IsMain(o), Critical(o)'
             PROVE  /\ Listed(NewPlaces(merged'[s], d, ins'[o]), wrote'[o], merged'[s] \o d)
                    /\ pc'[o] # "inserting" => ins'[o] = Len(d)
  BY DEF Placed, IsMain
<1>0. StoreTypes /\ Phases /\ Drawn /\ LockHeld
  BY DEF StoreInv
<1>1. s \in Sessions /\ m \in Seq(Entries) /\ d \in Seq(Entries) /\ ins[o] \in Nat
  BY <1>0 DEF StoreTypes
<1>2. CASE Lock(o)
  <2>1. /\ ins'[o] = 0 /\ wrote'[o] = {} /\ pc'[o] = "inserting" /\ merged' = merged
    BY <1>0, <1>2 DEF Lock, StoreTypes, Phases, Phase, Quiet
  <2>2. NewPlaces(m, d, 0) \in SUBSET ((Len(m) + 1)..(Len(m) + 0))
    BY <1>1, NewPlacesRest
  <2>3. (Len(m) + 1)..(Len(m) + 0) = {}
    BY <1>1
  <2>4. NewPlaces(m, d, 0) = {}
    BY <2>2, <2>3
  <2>5. Listed(NewPlaces(m, d, 0), {}, m \o d)
    <3>1. Listed({}, {}, m \o d)
      BY ListedNone, Zenon
    <3> QED BY <2>4, <3>1, Zenon
  <2>6. merged'[s] = m
    BY <2>1
  <2> HIDE DEF m, d
  <2> QED BY <2>1, <2>5, <2>6
<1>3. ASSUME Critical(o), Untouched(o)
      PROVE  /\ Listed(NewPlaces(merged'[s], d, ins'[o]), wrote'[o], merged'[s] \o d)
             /\ pc'[o] # "inserting" => ins'[o] = Len(d)
  BY <1>3 DEF Placed, Untouched
<1>4. CASE Insert(o)
  <2> DEFINE e == d[ins[o] + 1]
             new == [session |-> s, path |-> PathOf[o], entry |-> e,
                     seq |-> nextSeq, at |-> clock]
             known == e \in Keyed /\ \E r \in Rows(s, Main) \cup wrote[o] : r.entry = e
  <2>1. Critical(o) /\ ins[o] < Len(d) /\ Len(d) \in Nat
    BY <1>0, <1>1, <1>4 DEF Insert, Critical, Quiet, Ended, Phases, Phase
  <2>2. /\ merged' = merged /\ ins'[o] = ins[o] + 1
        /\ wrote'[o] = IF Twins(o, e, rows \cup wrote[o]) # {} THEN wrote[o]
                       ELSE wrote[o] \cup {new}
        /\ pc'[o] # "inserting" => ~(ins[o] + 1 < Len(d))
    BY <1>0, <1>4 DEF Insert, StoreTypes
  <2>3. Twins(o, e, rows \cup wrote[o]) # {} <=> known
    <3>1. \A w \in wrote[o] : w.session = s /\ w.path = PathOf[o]
      BY <1>0 DEF Phases, Phase
    <3>2. PathOf[o] = Main
      BY DEF IsMain
    <3> HIDE DEF e
    <3> QED BY <3>1, <3>2 DEF Twins, Rows
  <2>4. \A w \in wrote[o] : w.seq < new.seq
    <3>1. \A w \in wrote[o] : w.seq \in 1..(nextSeq - 1)
      BY <1>0 DEF Drawn, RowBy
    <3>2. nextSeq \in Nat /\ new.seq = nextSeq
      BY <1>0 DEF StoreTypes
    <3> QED BY <3>1, <3>2
  <2>5. Listed(Kept(m, Len(m)), Rows(s, Main), m) /\ Listed(NewPlaces(m, d, ins[o]), wrote[o], m \o d)
    BY <1>1, <2>1 DEF LoadIsMerged, Placed
  <2>6. new.entry = d[ins[o] + 1]
    OBVIOUS
  <2> HIDE DEF new
  <2>7. Listed(NewPlaces(m, d, ins[o] + 1), IF known THEN wrote[o] ELSE wrote[o] \cup {new}, m \o d)
    <3> HIDE DEF m, d, s
    <3> QED BY <1>1, <2>1, <2>4, <2>5, <2>6, InsertPlaced DEF s, m, d
  <2>8. pc'[o] # "inserting" => ins'[o] = Len(d)
    BY <1>1, <2>1, <2>2
  <2> HIDE DEF known, e
  <2> QED BY <2>2, <2>3, <2>7, <2>8
<1>5. CASE ReadSummary(o) \/ Fold(o) \/ Upsert(o)
  <2>1. /\ Critical(o) /\ pc[o] # "inserting"
        /\ ins' = ins /\ wrote' = wrote /\ merged' = merged
    BY <1>5 DEF ReadSummary, Fold, Upsert, Critical, Quiet, Ended
  <2> QED BY <2>1 DEF Placed
<1>6. CASE DeleteRows(o) \/ DeleteSummary(o)
  BY <1>0, <1>6 DEF DeleteRows, DeleteSummary, Phases, Phase
<1>7. CASE Commit(o) \/ Fail(o)
  BY <1>0, <1>7 DEF Commit, Fail, Critical, Quiet, Ended, StoreTypes
<1>8. CASE ~Critical(o)
  <2>1. Lock(o)
    BY <1>0, <1>8, LockOnly
  <2> QED BY <1>2, <2>1
<1>9. CASE Critical(o)
  BY <1>0, <1>3, <1>4, <1>5, <1>6, <1>7, <1>9, Frame DEF Work
<1> QED BY <1>8, <1>9

\* A commit leaves the rows of other transcripts alone.
LEMMA OthersStay ==
  ASSUME StoreInv, NEW o \in Ops, Commit(o), NEW t \in Sessions, t # SessionOf[o] \/ ~IsMain(o)
  PROVE  Rows(t, Main)' = Rows(t, Main) /\ merged'[t] = merged[t]
<1>0. StoreTypes /\ Phases /\ Ready
  BY DEF StoreInv
<1>1. merged'[t] = merged[t]
  BY <1>0 DEF Commit, StoreTypes
<1>2. \A r \in gone[o] : r.session # t \/ r.path # Main
  <2>1. CASE o \in Deletes
    BY <1>0, <2>1 DEF Commit, Phases, Phase, Ready, DeleteReady, IsMain
  <2>2. CASE o \notin Deletes
    BY <1>0, <2>2 DEF Phases, Phase
  <2> QED BY <2>1, <2>2
<1>3. \A r \in wrote[o] : r.session # t \/ r.path # Main
  BY <1>0 DEF Phases, Phase, IsMain
<1>4. rows' = (rows \ gone[o]) \cup wrote[o]
  BY DEF Commit
<1> QED BY <1>1, <1>2, <1>3, <1>4 DEF Rows

\* A commit puts the new rows after those that were there, or deletes all.
LEMMA MergedNext ==
  ASSUME StoreInv, LoadIsMerged, [Next]_vars, \A o \in Ops : Placed(o)
  PROVE  LoadIsMerged'
<1>0. StoreTypes /\ Phases /\ Ready
  BY DEF StoreInv
<1>1. ASSUME NEW o \in Ops, Commit(o) PROVE LoadIsMerged'
  <2> DEFINE s == SessionOf[o]
             m == merged[s]
             d == EntriesOf[o]
  <2>0. s \in Sessions /\ m \in Seq(Entries) /\ d \in Seq(Entries)
    BY <1>0 DEF StoreTypes
  <2>1. ASSUME NEW t \in Sessions, t # s \/ ~IsMain(o)
        PROVE  Listed(Kept(merged'[t], Len(merged'[t])), Rows(t, Main)', merged'[t])
    BY <1>1, <2>1, OthersStay DEF LoadIsMerged
  <2>2. CASE IsMain(o) /\ o \in Deletes
    <3>1. merged'[s] = <<>>
      BY <1>0, <1>1, <2>2 DEF Commit, StoreTypes
    <3>2. gone[o] = {r \in rows : r.session = s} /\ wrote[o] = {}
      BY <1>0, <1>1, <2>2 DEF Commit, Ready, DeleteReady, Phases, Phase
    <3>3. Rows(s, Main)' = {}
      BY <1>1, <3>2 DEF Commit, Rows
    <3>4. Listed(Kept(<<>>, Len(<<>>)), {}, <<>>)
      BY ListedNone
    <3>5. Listed(Kept(merged'[s], Len(merged'[s])), Rows(s, Main)', merged'[s])
      BY <3>1, <3>3, <3>4
    <3> QED BY <2>1, <3>5 DEF LoadIsMerged
  <2>3. CASE IsMain(o) /\ o \notin Deletes
    <3>1. merged'[s] = m \o d
      BY <1>0, <1>1, <2>3 DEF Commit, StoreTypes
    <3>2. Rows(s, Main)' = Rows(s, Main) \cup wrote[o]
      <4>1. rows' = rows \cup wrote[o]
        BY <1>0, <1>1, <2>3 DEF Commit, Phases, Phase
      <4>2. \A r \in wrote[o] : r.session = s /\ r.path = Main
        BY <1>0, <2>3 DEF Phases, Phase, IsMain
      <4> QED BY <4>1, <4>2 DEF Rows
    <3>3. /\ ins[o] = Len(d)
          /\ Listed(NewPlaces(m, d, ins[o]), wrote[o], m \o d)
      <4>1. Critical(o) /\ pc[o] # "inserting"
        BY <1>1 DEF Commit, Critical, Quiet, Ended
      <4> QED BY <2>3, <4>1 DEF Placed
    <3>4. \A r \in Rows(s, Main), w \in wrote[o] : r.seq < w.seq
      BY <1>0, <2>3 DEF Ready, AppendReady, Rows
    <3>5. Listed(Kept(m, Len(m)), Rows(s, Main), m)
      BY <2>0 DEF LoadIsMerged
    <3>6. Listed(Kept(m \o d, Len(m \o d)), Rows(s, Main) \cup wrote[o], m \o d)
      <4>1. Listed(NewPlaces(m, d, Len(d)), wrote[o], m \o d)
        BY <3>3
      <4> HIDE DEF m, d, s
      <4> QED BY <2>0, <3>4, <3>5, <4>1, BatchListed
    <3>7. Listed(Kept(merged'[s], Len(merged'[s])), Rows(s, Main)', merged'[s])
      BY <3>1, <3>2, <3>6
    <3> QED BY <2>1, <3>7 DEF LoadIsMerged
  <2> QED BY <2>1, <2>2, <2>3 DEF LoadIsMerged
<1>2. CASE UNCHANGED <<rows, summary, merged>>
  BY <1>2 DEF LoadIsMerged, Rows
<1> QED BY <1>1, <1>2, CommitOnly

\* What load() returns is what the summary was folded from, each entry with a
\* uuid at its first place only.
THEOREM LoadReturnsMerged == ASSUME StickyRouting PROVE Spec => []LoadIsMerged
<1>1. Init => MergedInv
  <2> SUFFICES ASSUME Init PROVE MergedInv
    OBVIOUS
  <2>1. \A t \in Sessions : Rows(t, Main) = {} /\ merged[t] = <<>>
    BY DEF Init, Rows
  <2>2. Listed(Kept(<<>>, Len(<<>>)), {}, <<>>)
    BY ListedNone
  <2>3. LoadIsMerged
    BY <2>1, <2>2 DEF LoadIsMerged
  <2>4. \A o \in Ops : Placed(o)
    BY DEF Init, Placed, Critical, Quiet, Ended
  <2> QED BY <2>3, <2>4, InitInv DEF MergedInv
<1>2. MergedInv /\ [Next]_vars => MergedInv'
  <2> SUFFICES ASSUME MergedInv, [Next]_vars PROVE MergedInv'
    OBVIOUS
  <2>1. StoreInv /\ LoadIsMerged /\ \A o \in Ops : Placed(o)
    BY DEF MergedInv
  <2>2. StoreInv'
    BY <2>1, StoreInvNext
  <2>3. LoadIsMerged'
    BY <2>1, MergedNext
  <2>4. \A o \in Ops : Placed(o)'
    BY <2>1, PlacedNext
  <2> QED BY <2>2, <2>3, <2>4 DEF MergedInv
<1>3. MergedInv => LoadIsMerged
  BY DEF MergedInv
<1> QED BY <1>1, <1>2, <1>3, PTL DEF Spec
=============================================================================
