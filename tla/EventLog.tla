------------------------------ MODULE EventLog ------------------------------
(***************************************************************************)
(* The per-session event log of the server (event_log.py): a ring of the   *)
(* newest MaxSize events and any number of subscribers, each an            *)
(* asynchronous generator with a cursor of its own.                        *)
(*                                                                         *)
(* An event is represented by its sequence number: the log never looks at  *)
(* its name or its data.  asyncio runs one task at a time, so an action is *)
(* the code between two suspension points: a `yield` of the generator      *)
(* (pc = "yielded": the consumer is writing the event to its socket) or    *)
(* the `await waiter.wait()` (pc = "parked").                              *)
(***************************************************************************)
EXTENDS Integers, Sequences

CONSTANTS Subscribers,  \* generators: one per subscribe() call
          MaxSize,      \* deque(maxlen=max_size)
          MaxSeq        \* bound of the model: the last sequence number used

ASSUME SizeAssumption == MaxSize \in Nat \ {0}
ASSUME SeqAssumption  == MaxSeq \in Nat \ {0}

VARIABLES
  buf,        \* _buf: the ring, oldest event first
  nextSeq,    \* _next_seq
  waiters,    \* _waiters: subscribers whose asyncio.Event is on the list
  signalled,  \* subscribers whose asyncio.Event is set
  closed,     \* _closed
  pc,         \* where each generator is suspended
  after,      \* its after_seq argument
  cursor,     \* its local `cursor`
  snapshot,   \* its local list(self._buf), while it iterates over it
  delivered   \* history: what it has yielded

vars == <<buf, nextSeq, waiters, signalled, closed,
          pc, after, cursor, snapshot, delivered>>

logVars == <<buf, nextSeq, closed>>

LastSeq == nextSeq - 1

OldestSeq == IF Len(buf) = 0 THEN nextSeq ELSE buf[1]

Places == {"idle", "yielded", "parked", "ended", "evicted", "cancelled"}

\* A generator that has started and neither returned, raised nor been closed.
Live(s) == pc[s] \in {"yielded", "parked"}

Init ==
  /\ buf = <<>>
  /\ nextSeq = 1
  /\ waiters = {}
  /\ signalled = {}
  /\ closed = FALSE
  /\ pc = [s \in Subscribers |-> "idle"]
  /\ after = [s \in Subscribers |-> 0]
  /\ cursor = [s \in Subscribers |-> 0]
  /\ snapshot = [s \in Subscribers |-> <<>>]
  /\ delivered = [s \in Subscribers |-> <<>>]
-----------------------------------------------------------------------------
(* The writer side.                                                        *)

\* deque.append on a bounded deque: a full ring drops its oldest event.
Push(ring, e) == Append(IF Len(ring) = MaxSize THEN Tail(ring) ELSE ring, e)

\* Mutant of WakeAll: the list is cleared, its waiters are not set.
WakeAllForgotten == waiters' = {} /\ UNCHANGED signalled

\* Set every registered waiter and drop the set ones from the list.
WakeAll ==
  /\ signalled' = signalled \cup waiters
  /\ waiters' = waiters \ signalled'

Record ==
  /\ ~closed
  /\ buf' = Push(buf, nextSeq)
  /\ nextSeq' = nextSeq + 1
  /\ WakeAll
  /\ UNCHANGED <<pc, after, cursor, snapshot, delivered>>

\* append(): one number is kept back for the final event.
AppendEvent ==
  /\ nextSeq < MaxSeq
  /\ Record
  /\ UNCHANGED closed

\* The end of Session.close(): append("done") and log.close(), with no
\* suspension between them.
CloseLog ==
  /\ Record
  /\ closed' = TRUE
-----------------------------------------------------------------------------
(* The reader side.                                                        *)

\* Mutant of FirstPast: `>=` for `>`.
FirstPastOrAt(events, c, i) ==
  /\ i \in 1..Len(events)
  /\ events[i] >= c
  /\ \A j \in 1..(i-1) : events[j] < c

\* Mutant of FirstPast: any event past the cursor, not the first.
AnyPast(events, c, i) == i \in 1..Len(events) /\ events[i] > c

\* The i-th event of `events` is the first one past c.
FirstPast(events, c, i) ==
  /\ i \in 1..Len(events)
  /\ events[i] > c
  /\ \A j \in 1..(i-1) : events[j] <= c

\* The drain loop finds an event past the cursor and yields it.
YieldNext(s, events, c) ==
  \E i \in 1..Len(events) :
    /\ FirstPast(events, c, i)
    /\ cursor' = [cursor EXCEPT ![s] = events[i]]
    /\ delivered' = [delivered EXCEPT ![s] = Append(@, events[i])]
    /\ snapshot' = [snapshot EXCEPT ![s] = events]
    /\ pc' = [pc EXCEPT ![s] = "yielded"]
    /\ UNCHANGED <<waiters, signalled>>

\* Mutant of EndDrain: `cursor = self.last_seq` before waiting.
EndDrainAtTail(s, events, c) ==
  /\ \A i \in 1..Len(events) : events[i] <= c
  /\ cursor' = [cursor EXCEPT ![s] = LastSeq]
  /\ snapshot' = [snapshot EXCEPT ![s] = <<>>]
  /\ pc' = [pc EXCEPT ![s] = "parked"]
  /\ waiters' = waiters \cup {s}
  /\ signalled' = signalled \ {s}
  /\ UNCHANGED delivered

\* The drain loop is over: return if the log is closed, otherwise register a
\* fresh waiter and wait.  The ring is NOT looked at again before waiting.
EndDrain(s, events, c) ==
  /\ \A i \in 1..Len(events) : events[i] <= c
  /\ cursor' = [cursor EXCEPT ![s] = c]
  /\ snapshot' = [snapshot EXCEPT ![s] = <<>>]
  /\ UNCHANGED delivered
  /\ \/ /\ closed
        /\ pc' = [pc EXCEPT ![s] = "ended"]
        /\ UNCHANGED <<waiters, signalled>>
     \/ /\ ~closed
        /\ pc' = [pc EXCEPT ![s] = "parked"]
        /\ waiters' = waiters \cup {s}
        /\ signalled' = signalled \ {s}

\* The generator runs over `events` with cursor c until it suspends or ends.
Run(s, events, c) == YieldNext(s, events, c) \/ EndDrain(s, events, c)

\* subscribe(k) refuses a cursor the ring has rolled past.
Evicted(k) == k > 0 /\ Len(buf) > 0 /\ k < OldestSeq - 1

\* The first step of a generator: the eviction check, then the first drain.
\* k is what the Last-Event-ID header says: 0 without one, the number of an event,
\* or any other; the endpoint does not compare it with the last number.
Subscribe(s, k) ==
  /\ pc[s] = "idle"
  /\ after' = [after EXCEPT ![s] = k]
  /\ \/ /\ Evicted(k)
        /\ pc' = [pc EXCEPT ![s] = "evicted"]
        /\ UNCHANGED <<cursor, snapshot, delivered, waiters, signalled>>
     \/ /\ ~Evicted(k)
        /\ Run(s, buf, k)
  /\ UNCHANGED logVars

\* The consumer asks for the next event: the loop goes on over its snapshot.
Resume(s) ==
  /\ pc[s] = "yielded"
  /\ Run(s, snapshot[s], cursor[s])
  /\ UNCHANGED <<buf, nextSeq, closed, after>>

\* The waiter was set: a new snapshot of the ring, and a new drain.
Wake(s) ==
  /\ pc[s] = "parked"
  /\ s \in signalled
  /\ Run(s, buf, cursor[s])
  /\ UNCHANGED <<buf, nextSeq, closed, after>>

\* The consumer gives up (aclose, cancellation of __anext__).  A waiter that
\* is on the list stays there until the next append.
Cancel(s) ==
  /\ Live(s)
  /\ pc' = [pc EXCEPT ![s] = "cancelled"]
  /\ snapshot' = [snapshot EXCEPT ![s] = <<>>]
  /\ UNCHANGED <<buf, nextSeq, waiters, signalled, closed,
                 after, cursor, delivered>>

Step(s) == Resume(s) \/ Wake(s)

Next ==
  \/ AppendEvent
  \/ CloseLog
  \/ \E s \in Subscribers :
       \/ \E k \in 0..MaxSeq : Subscribe(s, k)
       \/ Step(s)
       \/ Cancel(s)

Spec == Init /\ [][Next]_vars

\* The event loop runs every task that is ready, and a consumer that stays
\* connected keeps asking for the next event.  Nothing is assumed of the
\* writers: they need not append, nor close the log.
FairSpec == Spec /\ \A s \in Subscribers : WF_vars(Step(s))
-----------------------------------------------------------------------------
(* Properties.                                                             *)

\* What a history of yielded events is asked about.
Contains(h, e) == \E i \in 1..Len(h) : h[i] = e
Increasing(h) == \A i, j \in 1..Len(h) : i < j => h[i] < h[j]
Within(h, low, high) == \A i \in 1..Len(h) : low < h[i] /\ h[i] <= high

TypeOK ==
  /\ buf \in Seq(1..MaxSeq)
  /\ nextSeq \in 1..(MaxSeq + 1)
  /\ waiters \in SUBSET Subscribers
  /\ signalled \in SUBSET Subscribers
  /\ closed \in BOOLEAN
  /\ pc \in [Subscribers -> Places]
  /\ after \in [Subscribers -> 0..MaxSeq]
  /\ cursor \in [Subscribers -> 0..MaxSeq]
  /\ snapshot \in [Subscribers -> Seq(1..MaxSeq)]
  /\ delivered \in [Subscribers -> Seq(1..MaxSeq)]

\* "Subscribers tail with their own cursor" (event_log.py:5): whatever is
\* appended, evicted or re-snapshotted meanwhile, a subscriber sees events in
\* the order of their numbers, none twice, none at or before after_seq.
InOrderOnce ==
  \A s \in Subscribers :
    Increasing(delivered[s]) /\ Within(delivered[s], after[s], LastSeq)

\* The drain over a stale snapshot never jumps over an event the ring still
\* holds: whatever lies behind a cursor was yielded or has been evicted.
SkipsOnlyEvicted(s) ==
  \A e \in (after[s] + 1)..cursor[s] :
    e < OldestSeq \/ Contains(delivered[s], e)

OnlyEvictedSkipped == \A s \in Subscribers : SkipsOnlyEvicted(s)

\* A generator that waits is woken by the next append or by close(): its
\* waiter is set, or is on the list of a log that is still open.
Wakeable(s) ==
  pc[s] = "parked" => s \in signalled \/ (s \in waiters /\ ~closed)

NoLostWaiter == \A s \in Subscribers : Wakeable(s)

\* subscribe() raises EvictedError (412) only when the event the client needs
\* next is really gone, not when its cursor is the one just before the ring.
RefusalIsDue(s) == pc[s] = "evicted" => after[s] + 1 < OldestSeq

RefusedOnlyIfLost == \A s \in Subscribers : RefusalIsDue(s)

\* A resume that is accepted and finds something to yield starts exactly one
\* past the client's Last-Event-ID.
ResumesAtNext ==
  [][\A s \in Subscribers :
       (pc[s] = "idle" /\ pc'[s] = "yielded" /\ after'[s] > 0)
         => delivered'[s] = <<after'[s] + 1>>]_vars

\* close() ends every subscriber: none keeps waiting on a closed log.
CloseEndsSubscribers ==
  \A s \in Subscribers : closed ~> ~Live(s)

(* The invariant that implies the ones above, and is inductive.            *)

\* A run of consecutive numbers, taken from the ring now or earlier: nothing
\* between its first element and today's oldest event is missing from it.
Window(events) ==
  /\ \A i \in 1..Len(events) : events[i] = events[1] + (i - 1)
  /\ \A i \in 1..Len(events) : events[i] <= LastSeq
  /\ Len(events) > 0 => events[1] <= OldestSeq

RingIsTail ==
  /\ Len(buf) <= MaxSize
  /\ OldestSeq = nextSeq - Len(buf)
  /\ Window(buf)
  /\ LastSeq > 0 => Len(buf) > 0
  /\ ~closed => nextSeq <= MaxSeq

CursorBounds(s) ==
  /\ cursor[s] <= LastSeq \/ cursor[s] = after[s]
  /\ pc[s] \in {"idle", "evicted"} => cursor[s] = 0
  /\ pc[s] \notin {"idle", "evicted"} => after[s] <= cursor[s]
  /\ Within(delivered[s], after[s], cursor[s])

\* The ring is the tail of the log and every snapshot is a window of it, so a
\* drain meets the events in order and without holes.
SubscriberInv(s) ==
  /\ Window(snapshot[s])
  /\ CursorBounds(s)
  /\ Increasing(delivered[s])
  /\ SkipsOnlyEvicted(s)
  /\ Wakeable(s)
  /\ RefusalIsDue(s)

IInv == TypeOK /\ RingIsTail /\ \A s \in Subscribers : SubscriberInv(s)

(* What the documentation says of the log; the code does not provide it.   *)

\* event_log.py:62, "Yield events with seq > after_seq, blocking when caught
\* up": a generator that waits with its waiter unset has no event to yield.
BlocksOnlyWhenCaughtUp ==
  \A s \in Subscribers : (pc[s] = "parked" /\ s \notin signalled) =>
    \A i \in 1..Len(buf) : buf[i] <= cursor[s]

\* concepts.mdx:87, "the server replays everything with seq > 247, then
\* transitions to live tailing", 412 otherwise: a resume has no silent gap.
ResumeHasNoGap ==
  \A s \in Subscribers : after[s] > 0 =>
    \A i \in 1..Len(delivered[s]) : delivered[s][i] = after[s] + i

\* wire-protocol.mdx:60, "closes all subscribers with a final `done` event":
\* a generator that returns has yielded the last event of the log, unless its
\* client had named that number already.
EndsWithDone ==
  \A s \in Subscribers :
    pc[s] = "ended" /\ after[s] < LastSeq => Contains(delivered[s], LastSeq)
-----------------------------------------------------------------------------
(* What the log promises: the log, its floor and what each subscriber got  *)
(* refine EventFeed.                                                       *)

PhaseOf(place) == IF place \in {"yielded", "parked"} THEN "reading"
                  ELSE IF place \in {"ended", "cancelled"} THEN "over"
                  ELSE IF place = "evicted" THEN "refused"
                  ELSE "new"

Phases == [s \in Subscribers |-> PhaseOf(pc[s])]

Feed == INSTANCE EventFeed WITH
          Readers   <- Subscribers,
          Cursors   <- 0..MaxSeq,
          published <- LastSeq,
          floor     <- OldestSeq,
          finished  <- closed,
          phase     <- Phases,
          position  <- cursor,
          got       <- delivered

\* Every behaviour of the log is one of the feed.
ImplementsFeed == Feed!Spec
=============================================================================
