---------------------------- MODULE EndpointProofs ----------------------------
(***************************************************************************)
(* Proofs about the two endpoints a client talks to: Stream, the one it    *)
(* reads, and PermissionRouter, the prompts it replies to.                 *)
(*                                                                         *)
(* Stream, for every ring size, length of the log, wire and number of      *)
(* broken connections.  Everything proved of the event log holds under the *)
(* stream: P is EventLogProofs for the one generator a stream has at a     *)
(* time, and LogInv, P!IInv with a cursor that is not beyond the log, is   *)
(* kept also by a new connection's generator.                              *)
(*                                                                         *)
(* PermissionRouter, for any number of calls, replies and ids.  First      *)
(* reply wins, and a tool runs only on an allow that named its id, whether *)
(* or not the SDK reuses ids and whichever request carried the allow; that *)
(* a waiting callback can be answered, and that the router refines         *)
(* one-shot prompts, needs ids that are not reused.                        *)
(***************************************************************************)
EXTENDS Stream, PermissionRouter, TLAPS

P == INSTANCE EventLogProofs WITH Subscribers <- {Conn}

USE RingAssumption, WireAssumption

(* What is on the wire, between what the client has and what its generator   *)
(* has reached, is in order, and nothing the ring still holds is missing.    *)

Frames == 1..Len(wire)

WireInOrder ==
  /\ \A i \in Frames : wire[i] = 0 => i = Len(wire) /\ server = "over"
  /\ \A i \in Frames : wire[i] # 0 => lastId < wire[i] /\ wire[i] <= cursor[Conn]
  /\ \A i, j \in Frames : i < j /\ wire[j] # 0 => wire[i] < wire[j]

WireHasNoHole ==
  server \in {"streaming", "over"} =>
    \A e \in (lastId + 1)..cursor[Conn] : e < P!OldestSeq \/ \E i \in Frames : wire[i] = e

ServerInv ==
  /\ server \in {"idle", "accepted"} => wire = <<>>
  /\ server = "accepted" => pc[Conn] = "idle"
  /\ server = "streaming" => pc[Conn] \in {"yielded", "parked"} /\ lastId <= cursor[Conn]

SeenInv ==
  /\ lastId <= P!LastSeq
  /\ \A i \in 1..Len(seen) : seen[i] <= lastId
  /\ SeenOnceInOrder
  /\ SeenAllRetained

\* The generator of a stream starts after an event that there is.
LogInv == P!IInv /\ after[Conn] <= P!LastSeq

StreamInv ==
  LogInv /\ TypeOK /\ WireInOrder /\ WireHasNoHole /\ ServerInv /\ SeenInv
-----------------------------------------------------------------------------
(* The event log under the stream.                                         *)

\* The definitions of the two instances are the same.
LEMMA SameLog ==
  /\ Log!LastSeq = P!LastSeq /\ Log!OldestSeq = P!OldestSeq
  /\ Log!Init <=> P!Init
  /\ Log!AppendEvent <=> P!AppendEvent
  /\ Log!CloseLog <=> P!CloseLog
  /\ \A k : Log!Subscribe(Conn, k) <=> P!Subscribe(Conn, k)
  /\ Log!Resume(Conn) <=> P!Resume(Conn)
  /\ Log!Wake(Conn) <=> P!Wake(Conn)
  /\ Log!Cancel(Conn) <=> P!Cancel(Conn)
<1>1. Log!LastSeq = P!LastSeq /\ Log!OldestSeq = P!OldestSeq
  BY DEF Log!LastSeq, P!LastSeq, Log!OldestSeq, P!OldestSeq
<1>2. Log!Init <=> P!Init
  BY DEF Log!Init, P!Init
<1>3. Log!Record <=> P!Record
  BY DEF Log!Record, P!Record, Log!Push, P!Push, Log!WakeAll, P!WakeAll
<1>4. (Log!AppendEvent <=> P!AppendEvent) /\ (Log!CloseLog <=> P!CloseLog)
  BY <1>3 DEF Log!AppendEvent, P!AppendEvent, Log!CloseLog, P!CloseLog
<1>5. \A events, c : Log!Run(Conn, events, c) <=> P!Run(Conn, events, c)
  BY DEF Log!Run, P!Run, Log!YieldNext, P!YieldNext, Log!EndDrain, P!EndDrain,
         Log!FirstPast, P!FirstPast
<1>6. \A k : Log!Evicted(k) <=> P!Evicted(k)
  BY <1>1 DEF Log!Evicted, P!Evicted
<1>7. \A k : Log!Subscribe(Conn, k) <=> P!Subscribe(Conn, k)
  BY <1>5, <1>6 DEF Log!Subscribe, P!Subscribe, Log!logVars, P!logVars
<1>8. (Log!Resume(Conn) <=> P!Resume(Conn)) /\ (Log!Wake(Conn) <=> P!Wake(Conn))
  BY <1>5 DEF Log!Resume, P!Resume, Log!Wake, P!Wake
<1>9. Log!Cancel(Conn) <=> P!Cancel(Conn)
  BY DEF Log!Cancel, P!Cancel, Log!Live, P!Live
<1> QED BY <1>1, <1>2, <1>4, <1>7, <1>8, <1>9

\* What the invariant of the log says of its elements.
LEMMA LogFacts ==
  ASSUME LogInv
  PROVE  /\ P!TypeOK
         /\ P!LastSeq \in 0..MaxSeq /\ P!OldestSeq \in Nat
         /\ cursor[Conn] \in 0..MaxSeq /\ cursor[Conn] <= P!LastSeq
<1>1. P!TypeOK /\ P!SubscriberInv(Conn)
  BY DEF LogInv, P!IInv
<1>2. nextSeq \in 1..(MaxSeq + 1) /\ cursor[Conn] \in 0..MaxSeq
  BY <1>1 DEF P!TypeOK
<1>3. P!LastSeq \in 0..MaxSeq
  BY <1>2 DEF P!LastSeq
<1>4. P!OldestSeq \in Nat
  BY <1>1, P!Elements, RingAssumption
<1>5. cursor[Conn] <= P!LastSeq
  BY <1>1 DEF LogInv, P!SubscriberInv, P!CursorBounds
<1> QED BY <1>1, <1>2, <1>3, <1>4, <1>5

\* The same of the next state.
LogBounds ==
  /\ P!LastSeq \in 0..MaxSeq /\ P!OldestSeq \in Nat
  /\ cursor[Conn] \in 0..MaxSeq /\ cursor[Conn] <= P!LastSeq

LEMMA LogFactsNext == LogInv' => LogBounds'
<1>1. LogInv => LogBounds
  BY LogFacts DEF LogBounds
<1> QED BY <1>1, PTL

\* A step of the log, or none, keeps its invariant.
LEMMA LogStep ==
  ASSUME LogInv,
         \/ P!AppendEvent \/ P!CloseLog
         \/ \E k \in 0..P!LastSeq : P!Subscribe(Conn, k)
         \/ P!Resume(Conn) \/ P!Wake(Conn) \/ P!Cancel(Conn)
         \/ UNCHANGED logVars
  PROVE  LogInv'
<1>1. P!Next \/ UNCHANGED P!vars
  <2>1. P!LastSeq \in 0..MaxSeq /\ MaxSeq \in Nat
    BY LogFacts, RingAssumption
  <2>2. P!LastSeq \in 0..MaxSeq /\ \A k \in 0..P!LastSeq : k \in 0..MaxSeq
    BY <2>1
  <2> QED BY <2>2 DEF P!Next, P!Step, logVars, P!vars
<1>2. P!IInv'
  BY <1>1, P!NextInvariant, RingAssumption DEF LogInv
<1>3. after'[Conn] <= P!LastSeq'
  <2>1. nextSeq \in Nat /\ P!TypeOK /\ after[Conn] \in Nat /\ after[Conn] <= nextSeq - 1
    BY LogFacts DEF LogInv, P!TypeOK, P!LastSeq
  <2>2. CASE P!AppendEvent \/ P!CloseLog
    BY <2>1, <2>2 DEF P!AppendEvent, P!CloseLog, P!Record, P!LastSeq
  <2>3. ASSUME NEW k \in 0..P!LastSeq, P!Subscribe(Conn, k) PROVE after'[Conn] <= P!LastSeq'
    <3>1. after'[Conn] = k /\ nextSeq' = nextSeq
      BY <2>1, <2>3 DEF P!Subscribe, P!logVars, P!TypeOK
    <3> QED BY <2>1, <2>3, <3>1 DEF P!LastSeq
  <2>4. CASE P!Resume(Conn) \/ P!Wake(Conn) \/ P!Cancel(Conn) \/ UNCHANGED logVars
    BY <2>1, <2>4 DEF P!Resume, P!Wake, P!Cancel, logVars, P!LastSeq
  <2> QED BY <2>2, <2>3, <2>4
<1> QED BY <1>2, <1>3 DEF LogInv

\* A new generator starts.
LEMMA NewGenerator ==
  ASSUME LogInv, UNCHANGED <<buf, nextSeq, waiters, signalled, closed>>,
         pc' = [pc EXCEPT ![Conn] = "idle"],
         cursor' = [cursor EXCEPT ![Conn] = 0],
         after' = [after EXCEPT ![Conn] = 0],
         snapshot' = [snapshot EXCEPT ![Conn] = <<>>],
         delivered' = [delivered EXCEPT ![Conn] = <<>>]
  PROVE  LogInv'
<1>1. P!TypeOK /\ P!RingIsTail /\ P!LastSeq \in Nat
  BY LogFacts DEF LogInv, P!IInv
<1>2. /\ pc'[Conn] = "idle" /\ cursor'[Conn] = 0 /\ after'[Conn] = 0
      /\ snapshot'[Conn] = <<>> /\ delivered'[Conn] = <<>>
  BY <1>1 DEF P!TypeOK
<1>3. P!TypeOK'
  <2>1. <<>> \in Seq(1..MaxSeq)
    OBVIOUS
  <2>2. /\ snapshot' \in [{Conn} -> Seq(1..MaxSeq)]
        /\ delivered' \in [{Conn} -> Seq(1..MaxSeq)]
    BY <1>1, <2>1 DEF P!TypeOK
  <2>3. /\ cursor' \in [{Conn} -> 0..MaxSeq] /\ after' \in [{Conn} -> 0..MaxSeq]
    BY <1>1 DEF P!TypeOK
  <2>4. pc' \in [{Conn} -> P!Places]
    BY <1>1 DEF P!TypeOK, P!Places
  <2> QED BY <1>1, <2>2, <2>3, <2>4 DEF P!TypeOK
<1>4. P!LastSeq' = P!LastSeq /\ P!OldestSeq' = P!OldestSeq
  BY DEF P!LastSeq, P!OldestSeq
<1>5. P!RingIsTail'
  BY <1>1, <1>4 DEF P!RingIsTail, P!Window
<1>6. P!SubscriberInv(Conn)'
  <2>1. Len(snapshot'[Conn]) = 0 /\ Len(delivered'[Conn]) = 0
    BY <1>2
  <2> QED BY <1>1, <1>2, <1>4, <2>1
          DEF P!SubscriberInv, P!Window, P!CursorBounds, P!Within, P!Increasing,
              P!SkipsOnlyEvicted, P!Wakeable, P!RefusalIsDue
<1>7. after'[Conn] <= P!LastSeq'
  BY <1>1, <1>2, <1>4
<1> QED BY <1>3, <1>5, <1>6, <1>7 DEF LogInv, P!IInv

\* An append moves the ring forward and no cursor.
LEMMA RingMoves ==
  ASSUME LogInv, LogInv', P!AppendEvent \/ P!CloseLog
  PROVE  /\ P!OldestSeq <= P!OldestSeq' /\ P!LastSeq <= P!LastSeq'
         /\ UNCHANGED <<pc, cursor>>
<1>1. P!Record /\ ~closed /\ nextSeq' = nextSeq + 1 /\ buf' = P!Push(buf, nextSeq)
  BY DEF P!AppendEvent, P!CloseLog, P!Record
<1>2. /\ buf \in Seq(1..MaxSeq) /\ nextSeq \in 1..MaxSeq /\ Len(buf) <= MaxSize
      /\ P!OldestSeq = nextSeq - Len(buf)
  BY <1>1 DEF LogInv, P!IInv, P!TypeOK, P!RingIsTail
<1>3. /\ P!OldestSeq' = nextSeq' - Len(buf')
  BY DEF LogInv, P!IInv, P!RingIsTail
<1>4. Len(buf') <= Len(buf) + 1 /\ Len(buf') \in Nat
  BY <1>1, <1>2, P!PushProperties, RingAssumption
<1>5. P!OldestSeq <= P!OldestSeq' /\ P!LastSeq <= P!LastSeq'
  BY <1>1, <1>2, <1>3, <1>4 DEF P!LastSeq
<1> QED BY <1>1, <1>5 DEF P!Record

\* A generator that runs yields the next event the ring still holds, or has
\* reached the end of what it has.
LEMMA RunFacts ==
  ASSUME LogInv, NEW events \in Seq(1..MaxSeq), P!Window(events), NEW c \in 0..MaxSeq,
         P!Run(Conn, events, c)
  PROVE  \/ /\ pc'[Conn] = "yielded" /\ cursor'[Conn] \in 1..MaxSeq /\ c < cursor'[Conn]
            /\ \A e \in (c + 1)..(cursor'[Conn] - 1) : e < P!OldestSeq
         \/ /\ pc'[Conn] \in {"ended", "parked"} /\ cursor'[Conn] = c
<1>1. P!TypeOK
  BY LogFacts
<1>2. CASE P!YieldNext(Conn, events, c)
  <2>1. PICK i \in 1..Len(events) :
          /\ P!FirstPast(events, c, i)
          /\ cursor' = [cursor EXCEPT ![Conn] = events[i]]
          /\ pc' = [pc EXCEPT ![Conn] = "yielded"]
    BY <1>2 DEF P!YieldNext
  <2>2. /\ pc'[Conn] = "yielded" /\ cursor'[Conn] = events[i]
        /\ events[i] \in 1..MaxSeq /\ c < events[i]
    BY <1>1, <2>1 DEF P!TypeOK, P!FirstPast
  <2>3. \A e \in Nat : c < e /\ e < events[i] => e < P!OldestSeq
    BY <1>1, <2>1, P!FirstPastSkipsOnlyEvicted, RingAssumption
  <2>4. \A e \in (c + 1)..(events[i] - 1) : e \in Nat /\ c < e /\ e < events[i]
    BY <2>2
  <2> QED BY <2>2, <2>3, <2>4
<1>3. CASE P!EndDrain(Conn, events, c)
  BY <1>1, <1>3 DEF P!EndDrain, P!TypeOK
<1> QED BY <1>2, <1>3 DEF P!Run
-----------------------------------------------------------------------------
(* The stream.                                                             *)

LEMMA StreamInit == Init => StreamInv
<1> SUFFICES ASSUME Init PROVE StreamInv
  OBVIOUS
<1>1. LogInv
  <2>1. P!IInv /\ P!Init
    BY SameLog, P!InitInvariant, RingAssumption DEF Init
  <2> QED BY <2>1 DEF LogInv, P!Init, P!LastSeq
<1>2. Len(wire) = 0 /\ Len(seen) = 0 /\ lastId = 0
  BY DEF Init
<1>3. TypeOK
  <2>1. <<>> \in Seq(0..MaxSeq) /\ <<>> \in Seq(1..MaxSeq)
    OBVIOUS
  <2>2. registered \in BOOLEAN
    BY DEF Init
  <2>3. lastId \in 0..MaxSeq /\ drops \in 0..MaxDrops /\ Len(wire) <= WireCap
    BY <1>2 DEF Init
  <2> QED BY <2>1, <2>2, <2>3 DEF Init, TypeOK
<1>4. WireInOrder /\ WireHasNoHole /\ ServerInv
  BY <1>2 DEF Init, WireInOrder, WireHasNoHole, ServerInv, Frames
<1>5. SeenInv
  BY <1>1, <1>2, LogFacts DEF SeenInv, SeenOnceInOrder, SeenAllRetained
<1> QED BY <1>1, <1>3, <1>4, <1>5 DEF StreamInv

\* What was seen stays complete when the ring moves on.
LEMMA SeenStays ==
  ASSUME StreamInv, LogInv', UNCHANGED <<lastId, seen>>,
         P!OldestSeq <= P!OldestSeq', P!LastSeq <= P!LastSeq'
  PROVE  SeenInv'
<1>1. /\ P!LastSeq \in Nat /\ P!LastSeq' \in Nat /\ P!OldestSeq \in Nat /\ P!OldestSeq' \in Nat
      /\ Log!OldestSeq = P!OldestSeq /\ Log!OldestSeq' = P!OldestSeq' /\ lastId \in Nat
  <2>1. P!LastSeq \in Nat /\ P!OldestSeq \in Nat
    BY LogFacts DEF StreamInv
  <2>2. P!LastSeq' \in Nat /\ P!OldestSeq' \in Nat
    BY LogFactsNext DEF LogBounds
  <2>3. Log!OldestSeq = P!OldestSeq /\ Log!OldestSeq' = P!OldestSeq'
    BY DEF Log!OldestSeq, P!OldestSeq
  <2> QED BY <2>1, <2>2, <2>3 DEF StreamInv, TypeOK
<1>2. SeenInv
  BY DEF StreamInv
<1>3. SeenAllRetained'
  <2> SUFFICES ASSUME NEW e \in 1..lastId
               PROVE  e < P!OldestSeq' \/ \E i \in 1..Len(seen) : seen[i] = e
    BY <1>1 DEF SeenAllRetained
  <2>1. e < P!OldestSeq \/ \E i \in 1..Len(seen) : seen[i] = e
    BY <1>1, <1>2 DEF SeenInv, SeenAllRetained
  <2> QED BY <1>1, <2>1
<1>4. lastId' <= P!LastSeq'
  BY <1>1, <1>2 DEF SeenInv
<1> QED BY <1>2, <1>3, <1>4 DEF SeenInv, SeenOnceInOrder

\* The log emits or closes.
LEMMA EmitStep == ASSUME StreamInv, Emit \/ Close PROVE StreamInv'
<1>1. P!AppendEvent \/ P!CloseLog
  BY SameLog DEF Emit, Close
<1>2. UNCHANGED <<registered, server, wire, client, lastId, seen, drops>>
  BY DEF Emit, Close, clientVars
<1>3. LogInv'
  BY <1>1, LogStep DEF StreamInv
<1>4. /\ P!OldestSeq <= P!OldestSeq' /\ P!LastSeq <= P!LastSeq'
      /\ UNCHANGED <<pc, cursor>>
  BY <1>1, <1>3, RingMoves DEF StreamInv
<1>5. SeenInv'
  BY <1>2, <1>3, <1>4, SeenStays
<1>6. TypeOK' /\ WireInOrder' /\ ServerInv'
  BY <1>2, <1>4 DEF StreamInv, TypeOK, WireInOrder, ServerInv, Frames
<1>7. WireHasNoHole'
  <2>1. P!OldestSeq \in Nat /\ P!OldestSeq' \in Nat
    BY <1>3, LogFacts, LogFactsNext DEF StreamInv, LogBounds
  <2> SUFFICES ASSUME server \in {"streaming", "over"}, NEW e \in (lastId + 1)..cursor[Conn]
               PROVE  e < P!OldestSeq' \/ \E i \in Frames : wire[i] = e
    BY <1>2, <1>4 DEF WireHasNoHole, Frames
  <2>2. e < P!OldestSeq \/ \E i \in Frames : wire[i] = e
    BY DEF StreamInv, WireHasNoHole
  <2>3. e \in Nat
    BY LogFacts DEF StreamInv, TypeOK
  <2> QED BY <1>4, <2>1, <2>2, <2>3
<1> QED BY <1>3, <1>5, <1>6, <1>7 DEF StreamInv

\* Steps that leave log, wire and what was seen alone: the registry pops the
\* session, the client backs off and connects again.
LEMMA QuietStep == ASSUME StreamInv, Remove \/ Eof \/ Reconnect PROVE StreamInv'
<1>1. UNCHANGED <<logVars, wire, lastId, seen, drops>>
  BY DEF Remove, Eof, Reconnect, clientVars
<1>2. LogInv' /\ P!OldestSeq' = P!OldestSeq /\ P!LastSeq' = P!LastSeq
  BY <1>1, LogStep DEF StreamInv, logVars, P!OldestSeq, P!LastSeq
<1>3. SeenInv'
  BY <1>1, <1>2, SeenStays, LogFacts DEF StreamInv
<1>4. /\ server' = server \/ (server' = "idle" /\ wire = <<>> /\ client' = "sleeping")
      /\ client' = client \/ client = "sleeping" \/ server' = "idle"
      /\ client' \in {"connecting", "sleeping"} \/ client' = client
      /\ registered' \in BOOLEAN
  BY DEF Remove, Eof, Reconnect, clientVars, StreamInv, TypeOK
<1>5. UNCHANGED <<pc, cursor>>
  BY <1>1 DEF logVars
<1>6. ServerInv'
  BY <1>1, <1>4, <1>5 DEF StreamInv, ServerInv
<1>7. TypeOK'
  BY <1>1, <1>4 DEF StreamInv, TypeOK
<1>8. WireInOrder' /\ WireHasNoHole'
  BY <1>1, <1>2, <1>4, <1>5 DEF StreamInv, WireInOrder, WireHasNoHole, Frames
<1> QED BY <1>2, <1>3, <1>6, <1>7, <1>8 DEF StreamInv

\* The pre-flight: refused, or a new generator over an empty wire.
LEMMA RespondStep == ASSUME StreamInv, Respond PROVE StreamInv'
<1>1. /\ UNCHANGED <<buf, nextSeq, waiters, signalled, closed, registered, wire,
                     lastId, seen, drops>>
      /\ client = "connecting"
  BY DEF Respond
<1>2. server = "idle" /\ wire = <<>> /\ Len(wire) = 0
  BY <1>1 DEF StreamInv, TypeOK, ServerInv
<1>3. P!OldestSeq' = P!OldestSeq /\ P!LastSeq' = P!LastSeq
  BY <1>1 DEF P!OldestSeq, P!LastSeq
<1>4. CASE /\ client' \in {"gone404", "gone412"}
           /\ UNCHANGED <<server, pc, cursor, after, snapshot, delivered>>
  <2>1. LogInv'
    BY <1>1, <1>4, LogStep DEF StreamInv, logVars
  <2>2. SeenInv'
    BY <1>1, <1>3, <2>1, SeenStays, LogFacts DEF StreamInv
  <2>3. TypeOK'
    BY <1>1, <1>2, <1>4 DEF StreamInv, TypeOK, Over
  <2>4. WireInOrder' /\ WireHasNoHole' /\ ServerInv'
    BY <1>1, <1>2, <1>3, <1>4 DEF StreamInv, WireInOrder, WireHasNoHole, ServerInv, Frames
  <2> QED BY <2>1, <2>2, <2>3, <2>4 DEF StreamInv
<1>5. CASE /\ client' = "reading" /\ server' = "accepted"
           /\ pc' = [pc EXCEPT ![Conn] = "idle"]
           /\ cursor' = [cursor EXCEPT ![Conn] = 0]
           /\ after' = [after EXCEPT ![Conn] = 0]
           /\ snapshot' = [snapshot EXCEPT ![Conn] = <<>>]
           /\ delivered' = [delivered EXCEPT ![Conn] = <<>>]
  <2>1. LogInv'
    BY <1>1, <1>5, NewGenerator DEF StreamInv
  <2>2. SeenInv'
    BY <1>1, <1>3, <2>1, SeenStays, LogFacts DEF StreamInv
  <2>3. TypeOK'
    BY <1>1, <1>2, <1>5 DEF StreamInv, TypeOK
  <2>4. pc'[Conn] = "idle"
    BY <1>5, LogFacts DEF StreamInv, P!TypeOK
  <2>5. WireInOrder' /\ WireHasNoHole' /\ ServerInv'
    BY <1>1, <1>2, <1>5, <2>4 DEF WireInOrder, WireHasNoHole, ServerInv, Frames
  <2> QED BY <2>1, <2>2, <2>3, <2>5 DEF StreamInv
<1> QED BY <1>4, <1>5 DEF Respond

\* The handler sends what its generator ran to from c, up to which nothing was
\* missing.
LEMMA ForwardStep ==
  ASSUME StreamInv, LogInv', server \in {"accepted", "streaming"},
         NEW c \in 0..MaxSeq, lastId <= c, Len(wire) < WireCap,
         \A i \in Frames : wire[i] # 0 /\ wire[i] <= c,
         \A e \in (lastId + 1)..c : e < P!OldestSeq \/ \E i \in Frames : wire[i] = e,
         UNCHANGED <<buf, nextSeq, registered, clientVars>>,
         \/ /\ pc'[Conn] = "yielded" /\ cursor'[Conn] \in 1..MaxSeq /\ c < cursor'[Conn]
            /\ \A e \in (c + 1)..(cursor'[Conn] - 1) : e < P!OldestSeq
         \/ /\ pc'[Conn] \in {"ended", "parked"} /\ cursor'[Conn] = c,
         Forward
  PROVE  StreamInv'
<1>1. UNCHANGED <<registered, client, lastId, seen, drops>>
  BY DEF clientVars
<1>2. P!OldestSeq' = P!OldestSeq /\ P!LastSeq' = P!LastSeq
  BY DEF P!OldestSeq, P!LastSeq
<1>3. SeenInv'
  BY <1>1, <1>2, SeenStays, LogFacts DEF StreamInv
<1>4. /\ wire \in Seq(0..MaxSeq) /\ Len(wire) \in Nat /\ lastId \in 0..MaxSeq
      /\ \A i \in Frames : wire[i] \in 0..MaxSeq /\ lastId < wire[i]
      /\ \A i, j \in Frames : i < j => wire[i] < wire[j]
      /\ client \in {"reading", "done"}
  BY DEF StreamInv, TypeOK, WireInOrder, Frames
<1>5. CASE pc'[Conn] = "yielded" /\ cursor'[Conn] \in 1..MaxSeq /\ c < cursor'[Conn]
           /\ \A e \in (c + 1)..(cursor'[Conn] - 1) : e < P!OldestSeq
  <2> DEFINE n == cursor'[Conn]
  <2>1. /\ wire' = Append(wire, n)
        /\ server' \in {"over", "streaming"}
    BY <1>5 DEF Forward
  <2>2. n \in 1..MaxSeq /\ c < n /\ lastId < n
    BY <1>4, <1>5
  <2>3. /\ wire' \in Seq(0..MaxSeq) /\ Len(wire') = Len(wire) + 1
        /\ \A i \in Frames : wire'[i] = wire[i]
        /\ wire'[Len(wire) + 1] = n
        /\ \A i \in 1..Len(wire') : i \in Frames \/ i = Len(wire) + 1
        /\ Frames \subseteq 1..Len(wire')
    BY <1>4, <2>1, <2>2 DEF Frames
  <2>4. \A x \in (c + 1)..(n - 1) : x < P!OldestSeq
    BY <1>5
  <2> HIDE DEF n
  <2>5. TypeOK'
    BY <1>1, <1>4, <2>1, <2>3 DEF StreamInv, TypeOK, WireAssumption
  <2>6. ServerInv'
    BY <1>1, <1>4, <1>5, <2>1, <2>2 DEF ServerInv, n
  <2>7. WireInOrder'
    <3>1. \A i \in 1..Len(wire') : wire'[i] # 0 /\ lastId < wire'[i] /\ wire'[i] <= n
      <4>1. ASSUME NEW i \in Frames PROVE wire'[i] # 0 /\ lastId < wire'[i] /\ wire'[i] <= n
        <5>1. wire'[i] = wire[i] /\ wire[i] \in Nat /\ lastId < wire[i] /\ wire[i] <= c
          BY <1>4, <2>3
        <5> QED BY <1>4, <2>2, <5>1
      <4> QED BY <1>4, <2>2, <2>3, <4>1
    <3>2. ASSUME NEW i \in 1..Len(wire'), NEW j \in 1..Len(wire'), i < j
          PROVE  wire'[i] < wire'[j]
      <4>1. i \in Frames
        BY <1>4, <2>3, <3>2 DEF Frames
      <4>2. CASE j \in Frames
        BY <1>4, <2>3, <3>2, <4>1, <4>2
      <4>3. CASE j = Len(wire) + 1
        <5>1. wire'[i] = wire[i] /\ wire[i] \in Nat /\ wire[i] <= c
          BY <1>4, <2>3, <4>1
        <5> QED BY <2>2, <2>3, <4>3, <5>1
      <4> QED BY <2>3, <4>2, <4>3
    <3> QED BY <1>1, <3>1, <3>2 DEF WireInOrder, Frames, n
  <2>8. WireHasNoHole'
    <3> SUFFICES ASSUME NEW e \in (lastId + 1)..n
                 PROVE  e < P!OldestSeq \/ \E i \in 1..Len(wire') : wire'[i] = e
      BY <1>1, <1>2 DEF WireHasNoHole, Frames, n
    <3>1. CASE e = n
      <4>1. Len(wire) + 1 \in 1..Len(wire')
        BY <1>4, <2>3
      <4> QED BY <2>3, <3>1, <4>1
    <3>2. CASE e \in (c + 1)..(n - 1)
      BY <2>4, <3>2
    <3>3. CASE e \in (lastId + 1)..c
      BY <2>3, <3>3
    <3> QED BY <1>4, <2>2, <3>1, <3>2, <3>3
  <2> QED BY <1>3, <2>5, <2>6, <2>7, <2>8 DEF StreamInv
<1>6. CASE pc'[Conn] \in {"ended", "parked"} /\ cursor'[Conn] = c
  <2>1. /\ wire' = wire /\ server' \in {"over", "streaming"}
        /\ server' = "streaming" => pc'[Conn] = "parked"
    BY <1>6 DEF Forward
  <2>2. TypeOK'
    BY <1>1, <1>4, <2>1 DEF StreamInv, TypeOK
  <2>3. ServerInv'
    BY <1>1, <1>6, <2>1 DEF ServerInv
  <2>4. WireInOrder'
    BY <1>1, <1>4, <1>6, <2>1 DEF WireInOrder, Frames
  <2>5. WireHasNoHole'
    BY <1>1, <1>2, <1>6, <2>1 DEF WireHasNoHole, Frames
  <2> QED BY <1>3, <2>2, <2>3, <2>4, <2>5 DEF StreamInv
<1> QED BY <1>5, <1>6

\* The response body starts.
LEMMA OpenStep == ASSUME StreamInv, Open PROVE StreamInv'
<1>1. /\ server = "accepted" /\ P!Subscribe(Conn, lastId) /\ Forward
      /\ UNCHANGED <<registered, clientVars>>
  BY SameLog DEF Open, StartAfter
<1>2. /\ wire = <<>> /\ Len(wire) = 0 /\ Frames = {} /\ lastId \in 0..MaxSeq
      /\ lastId \in 0..P!LastSeq /\ pc[Conn] = "idle"
  BY <1>1, LogFacts DEF StreamInv, ServerInv, SeenInv, TypeOK, Frames
<1>3. LogInv'
  BY <1>1, <1>2, LogStep DEF StreamInv
<1>4. UNCHANGED <<buf, nextSeq>>
  BY <1>1 DEF P!Subscribe, P!logVars
<1>5. CASE ~P!Evicted(lastId) /\ P!Run(Conn, buf, lastId)
  <2>1. buf \in Seq(1..MaxSeq) /\ P!Window(buf)
    BY LogFacts DEF StreamInv, LogInv, P!IInv, P!RingIsTail, P!TypeOK
  <2>2. \/ /\ pc'[Conn] = "yielded" /\ cursor'[Conn] \in 1..MaxSeq /\ lastId < cursor'[Conn]
           /\ \A e \in (lastId + 1)..(cursor'[Conn] - 1) : e < P!OldestSeq
        \/ /\ pc'[Conn] \in {"ended", "parked"} /\ cursor'[Conn] = lastId
    BY <1>2, <1>5, <2>1, RunFacts DEF StreamInv
  <2>3. lastId <= lastId /\ Len(wire) < WireCap
    BY <1>2 DEF WireAssumption
  <2>4. \A e \in (lastId + 1)..lastId : e < P!OldestSeq \/ \E i \in Frames : wire[i] = e
    BY <1>2
  <2> QED BY <1>1, <1>2, <1>3, <1>4, <2>2, <2>3, <2>4, ForwardStep
<1>6. CASE /\ pc' = [pc EXCEPT ![Conn] = "evicted"]
           /\ UNCHANGED <<cursor, snapshot, delivered, waiters, signalled>>
  <2>1. pc'[Conn] = "evicted" /\ cursor' = cursor
    BY <1>6, LogFacts DEF StreamInv, P!TypeOK
  <2>2. cursor[Conn] = 0
    BY <1>2 DEF StreamInv, LogInv, P!IInv, P!SubscriberInv, P!CursorBounds
  <2>3. wire' = Append(wire, 0) /\ server' = "over"
    BY <1>1, <2>1 DEF Forward
  <2>4. wire' \in Seq(0..MaxSeq) /\ Len(wire') = 1 /\ wire'[1] = 0
    BY <1>2, <2>3
  <2>5. UNCHANGED <<registered, client, lastId, seen, drops>>
    BY <1>1 DEF clientVars
  <2>6. P!OldestSeq' = P!OldestSeq /\ P!LastSeq' = P!LastSeq
    BY <1>4 DEF P!OldestSeq, P!LastSeq
  <2>7. SeenInv'
    BY <1>3, <2>5, <2>6, SeenStays, LogFacts DEF StreamInv
  <2>8. TypeOK'
    BY <1>1, <2>3, <2>4, <2>5 DEF StreamInv, TypeOK, WireAssumption
  <2>9. ServerInv'
    BY <2>3 DEF ServerInv
  <2>10. WireInOrder' /\ WireHasNoHole'
    BY <1>2, <2>1, <2>2, <2>3, <2>4, <2>5 DEF WireInOrder, WireHasNoHole, Frames
  <2> QED BY <1>3, <2>7, <2>8, <2>9, <2>10 DEF StreamInv
<1> QED BY <1>1, <1>5, <1>6 DEF P!Subscribe

\* The next event of the generator.
LEMMA AdvanceStep == ASSUME StreamInv, Advance PROVE StreamInv'
<1>1. /\ server = "streaming" /\ Len(wire) < WireCap /\ Forward
      /\ P!Resume(Conn) \/ P!Wake(Conn)
      /\ UNCHANGED <<registered, clientVars>>
  BY SameLog DEF Advance
<1>2. LogInv'
  BY <1>1, LogStep DEF StreamInv
<1>3. PICK events \in Seq(1..MaxSeq) : P!Window(events) /\ P!Run(Conn, events, cursor[Conn])
  <2>1. /\ buf \in Seq(1..MaxSeq) /\ P!Window(buf)
        /\ snapshot[Conn] \in Seq(1..MaxSeq) /\ P!Window(snapshot[Conn])
    BY LogFacts DEF StreamInv, LogInv, P!IInv, P!RingIsTail, P!SubscriberInv, P!TypeOK
  <2> QED BY <1>1, <2>1 DEF P!Resume, P!Wake
<1>4. cursor[Conn] \in 0..MaxSeq /\ lastId <= cursor[Conn]
  BY <1>1, LogFacts DEF StreamInv, ServerInv
<1>5. \/ /\ pc'[Conn] = "yielded" /\ cursor'[Conn] \in 1..MaxSeq /\ cursor[Conn] < cursor'[Conn]
         /\ \A e \in (cursor[Conn] + 1)..(cursor'[Conn] - 1) : e < P!OldestSeq
      \/ /\ pc'[Conn] \in {"ended", "parked"} /\ cursor'[Conn] = cursor[Conn]
  BY <1>3, <1>4, RunFacts DEF StreamInv
<1>6. \A i \in Frames : wire[i] # 0 /\ wire[i] <= cursor[Conn]
  BY <1>1 DEF StreamInv, WireInOrder
<1>7. \A e \in (lastId + 1)..cursor[Conn] : e < P!OldestSeq \/ \E i \in Frames : wire[i] = e
  BY <1>1 DEF StreamInv, WireHasNoHole
<1>8. UNCHANGED <<buf, nextSeq>>
  BY <1>1 DEF P!Resume, P!Wake
<1> QED BY <1>1, <1>2, <1>4, <1>5, <1>6, <1>7, <1>8, ForwardStep

\* The keepalive timeout finishes the generator, and so the response.
LEMMA KeepaliveStep == ASSUME StreamInv, KeepaliveTimeout PROVE StreamInv'
<1>1. /\ server = "streaming" /\ server' = "over" /\ P!Cancel(Conn)
      /\ UNCHANGED <<registered, wire, client, lastId, seen, drops>>
  BY SameLog DEF KeepaliveTimeout, clientVars
<1>2. LogInv'
  BY <1>1, LogStep DEF StreamInv
<1>3. UNCHANGED <<buf, nextSeq, cursor>>
  BY <1>1 DEF P!Cancel
<1>4. P!OldestSeq' = P!OldestSeq /\ P!LastSeq' = P!LastSeq
  BY <1>3 DEF P!OldestSeq, P!LastSeq
<1>5. SeenInv'
  BY <1>1, <1>2, <1>4, SeenStays, LogFacts DEF StreamInv
<1>6. TypeOK' /\ ServerInv'
  BY <1>1 DEF StreamInv, TypeOK, ServerInv
<1>7. WireInOrder' /\ WireHasNoHole'
  BY <1>1, <1>3, <1>4 DEF StreamInv, WireInOrder, WireHasNoHole, Frames
<1> QED BY <1>2, <1>5, <1>6, <1>7 DEF StreamInv

\* The connection is gone, with what was on it.
LEMMA DisconnectStep == ASSUME StreamInv, Drop \/ Detach PROVE StreamInv'
<1>1. /\ wire' = <<>> /\ server' = "idle" /\ UNCHANGED <<registered, lastId, seen>>
      /\ client' \in {"sleeping", "left"}
      /\ P!Cancel(Conn) \/ UNCHANGED logVars
  BY SameLog DEF Drop, Detach, Disconnect
<1>2. LogInv'
  BY <1>1, LogStep DEF StreamInv
<1>3. UNCHANGED <<buf, nextSeq>>
  BY <1>1 DEF P!Cancel, logVars
<1>4. P!OldestSeq' = P!OldestSeq /\ P!LastSeq' = P!LastSeq
  BY <1>3 DEF P!OldestSeq, P!LastSeq
<1>5. SeenInv'
  BY <1>1, <1>2, <1>4, SeenStays, LogFacts DEF StreamInv
<1>6. drops' \in 0..MaxDrops
  BY DEF Drop, Detach, StreamInv, TypeOK, WireAssumption
<1>7. /\ wire' \in Seq(0..MaxSeq) /\ Len(wire') = 0 /\ Len(wire') <= WireCap
  BY <1>1 DEF WireAssumption
<1>8. TypeOK'
  BY <1>1, <1>6, <1>7 DEF StreamInv, TypeOK, Over
<1>9. WireInOrder' /\ WireHasNoHole' /\ ServerInv'
  BY <1>1, <1>7 DEF WireInOrder, WireHasNoHole, ServerInv, Frames
<1> QED BY <1>2, <1>5, <1>8, <1>9 DEF StreamInv

\* The client takes the frame at the head of the wire: it is the next one the
\* ring still holds after lastId.
LEMMA ReadStep == ASSUME StreamInv, Read PROVE StreamInv'
<1> DEFINE n == Head(wire)
<1>1. /\ client = "reading" /\ wire # <<>> /\ wire' = Tail(wire)
      /\ UNCHANGED <<logVars, registered, server, drops>>
  BY DEF Read
<1>2. LogInv' /\ UNCHANGED <<buf, nextSeq, pc, cursor>>
  BY <1>1, LogStep DEF StreamInv, logVars
<1>3. P!OldestSeq' = P!OldestSeq /\ P!LastSeq' = P!LastSeq
  BY <1>2 DEF P!OldestSeq, P!LastSeq
<1>4. /\ wire \in Seq(0..MaxSeq) /\ Len(wire) \in Nat \ {0} /\ n = wire[1] /\ 1 \in Frames
      /\ lastId \in 0..MaxSeq /\ n \in 0..MaxSeq
      /\ wire' \in Seq(0..MaxSeq) /\ Len(wire') = Len(wire) - 1
      /\ \A i \in 1..Len(wire') : wire'[i] = wire[i + 1] /\ i + 1 \in Frames
  BY <1>1 DEF StreamInv, TypeOK, Frames
<1> HIDE DEF n
<1>5. ServerInv'
  <2>1. server \notin {"idle", "accepted"}
    BY <1>1 DEF StreamInv, ServerInv
  <2>2. server = "streaming" => n # 0
    BY <1>4 DEF StreamInv, WireInOrder
  <2>3. n # 0 => lastId' = n /\ n <= cursor[Conn]
    BY <1>4 DEF Read, n, StreamInv, WireInOrder
  <2> QED BY <1>1, <1>2, <2>1, <2>2, <2>3 DEF StreamInv, ServerInv
<1>6. CASE n = 0
  <2>1. UNCHANGED <<client, lastId, seen>>
    BY <1>6 DEF Read, n
  <2>2. Len(wire) = 1 /\ Len(wire') = 0 /\ server = "over"
    <3>1. wire[1] = 0 /\ 1 \in Frames
      BY <1>4, <1>6
    <3>2. 1 = Len(wire) /\ server = "over"
      BY <3>1 DEF StreamInv, WireInOrder
    <3> QED BY <1>4, <3>2
  <2>3. SeenInv'
    BY <1>2, <1>3, <2>1, SeenStays, LogFacts DEF StreamInv
  <2>4. TypeOK'
    <3>1. Len(wire') <= WireCap
      BY <2>2 DEF WireAssumption
    <3> QED BY <1>1, <1>4, <2>1, <3>1 DEF StreamInv, TypeOK
  <2>5. WireInOrder'
    BY <2>2 DEF WireInOrder, Frames
  <2>6. WireHasNoHole'
    <3> SUFFICES ASSUME NEW e \in (lastId + 1)..cursor[Conn] PROVE e < P!OldestSeq
      BY <1>2, <1>3, <2>1 DEF WireHasNoHole
    <3>1. e < P!OldestSeq \/ \E i \in Frames : wire[i] = e
      BY <2>2 DEF StreamInv, WireHasNoHole
    <3>2. \A i \in Frames : wire[i] = 0
      <4>1. Frames = {1} /\ wire[1] = 0
        BY <1>4, <1>6, <2>2 DEF Frames
      <4> QED BY <4>1
    <3>3. e # 0
      BY <1>4
    <3> QED BY <3>1, <3>2, <3>3
  <2> QED BY <1>2, <1>5, <2>3, <2>4, <2>5, <2>6 DEF StreamInv
<1>7. CASE n # 0
  <2>1. /\ lastId' = n /\ seen' = Append(seen, n) /\ client' \in {"done", "reading"}
    BY <1>7 DEF Read, n
  <2>2. /\ lastId < n /\ n <= cursor[Conn] /\ n \in 1..MaxSeq /\ n <= P!LastSeq
        /\ P!LastSeq \in 0..MaxSeq /\ P!OldestSeq \in Nat /\ cursor[Conn] \in 0..MaxSeq
    BY <1>4, <1>7, LogFacts DEF StreamInv, WireInOrder
  <2>3. /\ seen \in Seq(1..MaxSeq) /\ seen' \in Seq(1..MaxSeq) /\ Len(seen') = Len(seen) + 1
        /\ Len(seen) \in Nat /\ seen'[Len(seen) + 1] = n
        /\ \A i \in 1..Len(seen) : seen'[i] = seen[i] /\ seen[i] \in Nat
    BY <2>1, <2>2 DEF StreamInv, TypeOK
  <2>4. \A i \in 1..Len(seen) : seen[i] <= lastId
    BY DEF StreamInv, SeenInv
  <2>5. server \in {"streaming", "over"}
    BY <1>1 DEF StreamInv, ServerInv, TypeOK
  <2>6. \A i \in Frames : i # 1 /\ wire[i] # 0 => n < wire[i]
    BY <1>4 DEF StreamInv, WireInOrder, Frames
  <2>7. lastId \in Nat /\ n \in Nat /\ cursor[Conn] \in Nat
    BY <1>4, <2>2
  <2>8. \A e \in (lastId + 1)..(n - 1) : e < P!OldestSeq
    <3> TAKE e \in (lastId + 1)..(n - 1)
    <3>1. e \in (lastId + 1)..cursor[Conn]
      BY <1>4, <2>2
    <3>2. e < P!OldestSeq \/ \E i \in Frames : wire[i] = e
      BY <2>5, <3>1 DEF StreamInv, WireHasNoHole
    <3>3. ASSUME NEW i \in Frames, wire[i] = e PROVE FALSE
      <4>1. e \in Nat /\ lastId < e /\ e < n /\ e # 0 /\ wire[1] = n
        BY <1>4, <2>2
      <4>2. i # 1 /\ ~(n < wire[i])
        BY <2>7, <3>3, <4>1
      <4> QED BY <2>6, <3>3, <4>1, <4>2
    <3> QED BY <3>2, <3>3
  <2>9. TypeOK'
    BY <1>1, <1>4, <2>1, <2>2, <2>3, <2>5 DEF StreamInv, TypeOK, Over, WireAssumption
  <2>10. WireInOrder'
    <3>1. \A i, j \in 1..Len(wire') : i < j => i + 1 < j + 1 /\ i + 1 # 1
      BY <1>4
    <3>2. \A i \in 1..Len(wire') : i + 1 # 1 /\ (i + 1 = Len(wire) => i = Len(wire'))
      BY <1>4
    <3>3. /\ \A i \in 1..Len(wire') : wire'[i] = 0 => i = Len(wire') /\ server = "over"
          /\ \A i, j \in 1..Len(wire') : i < j /\ wire'[j] # 0 => wire'[i] < wire'[j]
      BY <1>4, <3>1, <3>2 DEF StreamInv, WireInOrder
    <3>4. \A i \in 1..Len(wire') : wire'[i] # 0 => n < wire'[i] /\ wire'[i] <= cursor[Conn]
      BY <1>4, <2>6, <3>2 DEF StreamInv, WireInOrder
    <3> QED BY <1>1, <1>2, <2>1, <3>3, <3>4 DEF WireInOrder, Frames
  <2>11. WireHasNoHole'
    <3> SUFFICES ASSUME NEW e \in (n + 1)..cursor[Conn]
                 PROVE  e < P!OldestSeq \/ \E i \in 1..Len(wire') : wire'[i] = e
      BY <1>2, <1>3, <2>1 DEF WireHasNoHole, Frames
    <3>1. e \in (lastId + 1)..cursor[Conn] /\ e # n
      BY <2>2, <2>7
    <3>2. e < P!OldestSeq \/ \E i \in Frames : wire[i] = e
      BY <2>5, <3>1 DEF StreamInv, WireHasNoHole
    <3>3. ASSUME NEW i \in Frames, wire[i] = e
          PROVE  i - 1 \in 1..Len(wire') /\ wire'[i - 1] = e
      <4>1. i \in 2..Len(wire)
        BY <1>4, <3>1, <3>3 DEF Frames
      <4>2. i - 1 \in 1..Len(wire') /\ (i - 1) + 1 = i
        BY <1>4, <4>1
      <4> QED BY <1>4, <3>3, <4>2
    <3> QED BY <3>2, <3>3
  <2>12. \A k \in 1..Len(seen') : k = Len(seen) + 1 \/ k \in 1..Len(seen)
    BY <2>3
  <2>13. SeenOnceInOrder'
    <3> SUFFICES ASSUME NEW i \in 1..Len(seen'), NEW j \in 1..Len(seen'), i < j
                 PROVE  seen'[i] < seen'[j]
      BY DEF SeenOnceInOrder
    <3>1. i \in 1..Len(seen) /\ seen'[i] = seen[i] /\ seen[i] \in Nat /\ seen[i] <= lastId
      <4>1. i \in 1..Len(seen)
        BY <2>3
      <4> QED BY <2>3, <2>4, <4>1
    <3>2. CASE j = Len(seen) + 1
      <4>1. seen'[i] <= lastId /\ seen'[i] \in Nat /\ seen'[j] = n
        BY <2>3, <3>1, <3>2
      <4> QED BY <2>2, <2>7, <4>1
    <3>3. CASE j \in 1..Len(seen)
      BY <2>3, <3>1, <3>3 DEF StreamInv, SeenInv, SeenOnceInOrder
    <3> QED BY <2>12, <3>2, <3>3
  <2>14. SeenAllRetained'
    <3>1. Log!OldestSeq' = P!OldestSeq' /\ Log!OldestSeq = P!OldestSeq
      BY DEF Log!OldestSeq, P!OldestSeq
    <3> SUFFICES ASSUME NEW e \in 1..n
                 PROVE  e < P!OldestSeq \/ \E i \in 1..Len(seen') : seen'[i] = e
      BY <1>3, <2>1, <3>1 DEF SeenAllRetained
    <3>2. CASE e = n
      <4>1. Len(seen) + 1 \in 1..Len(seen')
        BY <2>3
      <4> QED BY <2>3, <3>2, <4>1
    <3>3. CASE e \in (lastId + 1)..(n - 1)
      BY <2>8, <3>3
    <3>4. CASE e \in 1..lastId
      <4>1. e < P!OldestSeq \/ \E i \in 1..Len(seen) : seen[i] = e
        BY <3>1, <3>4 DEF StreamInv, SeenInv, SeenAllRetained
      <4>2. 1..Len(seen) \subseteq 1..Len(seen')
        BY <2>3
      <4> QED BY <2>3, <4>1, <4>2
    <3> QED BY <1>4, <2>2, <3>2, <3>3, <3>4
  <2>15. \A i \in 1..Len(seen') : seen'[i] <= n
    <3> TAKE i \in 1..Len(seen')
    <3>1. CASE i = Len(seen) + 1
      BY <2>2, <2>3, <3>1
    <3>2. CASE i \in 1..Len(seen)
      <4>1. seen'[i] \in Nat /\ seen'[i] <= lastId
        BY <2>3, <2>4, <3>2
      <4> QED BY <2>2, <2>7, <4>1
    <3> QED BY <2>12, <3>1, <3>2
  <2>16. SeenInv'
    BY <1>3, <2>1, <2>2, <2>13, <2>14, <2>15 DEF SeenInv
  <2> QED BY <1>2, <1>5, <2>9, <2>10, <2>11, <2>16 DEF StreamInv
<1> QED BY <1>6, <1>7

\* Every step preserves the invariant.
LEMMA StreamStep == StreamInv /\ [Next]_vars => StreamInv'
<1> SUFFICES ASSUME StreamInv, [Next]_vars PROVE StreamInv'
  OBVIOUS
<1>1. CASE UNCHANGED vars
  <2>1. UNCHANGED <<logVars, registered, server, wire, client, lastId, seen, drops>>
    BY <1>1 DEF vars, clientVars
  <2>2. LogInv' /\ UNCHANGED <<buf, nextSeq, pc, cursor>>
    BY <2>1, LogStep DEF StreamInv, logVars
  <2>3. P!OldestSeq' = P!OldestSeq /\ P!LastSeq' = P!LastSeq
    BY <2>2 DEF P!OldestSeq, P!LastSeq
  <2>4. SeenInv'
    BY <2>1, <2>2, <2>3, SeenStays, LogFacts DEF StreamInv
  <2> QED BY <2>1, <2>2, <2>3, <2>4
          DEF StreamInv, TypeOK, WireInOrder, WireHasNoHole, ServerInv, Frames
<1>2. CASE Emit \/ Close
  BY <1>2, EmitStep
<1>3. CASE Remove \/ Eof \/ Reconnect
  BY <1>3, QuietStep
<1>4. CASE ServerStep
  BY <1>4, RespondStep, OpenStep, AdvanceStep DEF ServerStep
<1>5. CASE KeepaliveTimeout
  BY <1>5, KeepaliveStep
<1>6. CASE Read
  BY <1>6, ReadStep
<1>7. CASE Drop \/ Detach
  BY <1>7, DisconnectStep
<1> QED BY <1>1, <1>2, <1>3, <1>4, <1>5, <1>6, <1>7 DEF Next, ClientStep
-----------------------------------------------------------------------------
(* The theorems.                                                           *)

\* The inductive invariant.
THEOREM StreamInvariant == Spec => []StreamInv
BY StreamInit, StreamStep, PTL DEF Spec

\* The types: no more on the wire than it holds, a handler only for a client
\* that reads or has stopped after done.
THEOREM StreamTypeCorrect == Spec => []TypeOK
<1>1. StreamInv => TypeOK
  BY DEF StreamInv
<1> QED BY <1>1, StreamInvariant, PTL

\* Over any number of broken connections the application gets each event at
\* most once and in order (lastId in transport.ts, after_seq in fastapi.py).
THEOREM EventsSeenOnceInOrder == Spec => []SeenOnceInOrder
<1>1. StreamInv => SeenOnceInOrder
  BY DEF StreamInv, SeenInv
<1> QED BY <1>1, StreamInvariant, PTL

\* No reconnection loses an event that the ring still holds.
THEOREM NothingRetainedIsLost == Spec => []SeenAllRetained
<1>1. StreamInv => SeenAllRetained
  BY DEF StreamInv, SeenInv
<1> QED BY <1>1, StreamInvariant, PTL
-----------------------------------------------------------------------------
(* The prompts.                                                            *)

USE CallsAssumption, NoneAssumption

\* Where a reply was accepted it settled an open future of the id it names.
LEMMA AcceptFacts ==
  ASSUME PromptInv, NEW r \in Replies, NEW i \in Ids, NEW v \in Results,
         Accept(r, i, v)
  PROVE  \E c \in Calls :
           /\ pending[i] = c /\ IdOf[c] = i
           /\ fut[c] = "pending" /\ winner[c] = None
           /\ fut' = [fut EXCEPT ![c] = "set"]
           /\ value' = [value EXCEPT ![c] = v]
           /\ pending' = [pending EXCEPT ![i] = None]
           /\ reply' = [reply EXCEPT ![r] = "accepted"]
           /\ winner' = [winner EXCEPT ![c] = r]
<1>1. pending[i] \in Calls /\ fut[pending[i]] = "pending"
  BY DEF Accept, HasPending, PromptInv, RouterTypeOK
<1>2. IdOf[pending[i]] = i /\ winner[pending[i]] = None
  BY <1>1 DEF PromptInv
<1> QED BY <1>1, <1>2 DEF Accept, Settle

LEMMA InitPrompt == RouterInit => PromptInv
BY DEF RouterInit, PromptInv, RouterTypeOK, OneWinner, Results, Unset

LEMMA NextPrompt == PromptInv /\ [RouterNext]_routerVars => PromptInv'
<1> SUFFICES ASSUME PromptInv, [RouterNext]_routerVars PROVE PromptInv'
  OBVIOUS
<1>0. RouterTypeOK /\ OneWinner
  BY DEF PromptInv
<1>1. ASSUME NEW c \in Calls, Ask(c)
      PROVE  PromptInv'
  <2>1. RouterTypeOK'
    BY <1>0, <1>1 DEF Ask, RouterTypeOK, PromptInv
  <2> QED BY <2>1, <1>0, <1>1 DEF Ask, PromptInv, RouterTypeOK, OneWinner
<1>2. ASSUME NEW c \in Calls, Return(c)
      PROVE  PromptInv'
  <2> DEFINE d == Outcome(KindOf[c], value[c])
  <2>1. decision' = [decision EXCEPT ![c] = d] /\ fut[c] = "set"
    BY <1>2 DEF Return
  <2>2. d \in {"undecided", "allow", "deny"}
    BY DEF Outcome
  <2>4. call' = [call EXCEPT ![c] = IF d = "undecided" THEN "raised" ELSE "returned"]
    BY <1>0, <1>2, <2>1 DEF Return, RouterTypeOK
  <2> HIDE DEF d
  <2>3. RouterTypeOK'
    BY <1>0, <1>2, <2>1, <2>2, <2>4 DEF Return, RouterTypeOK
  <2> USE DEF d
  <2> QED BY <2>1, <2>3, <2>4, <1>0, <1>2 DEF Return, PromptInv, RouterTypeOK, OneWinner
<1>3. ASSUME NEW c \in Calls, Raise(c)
      PROVE  PromptInv'
  BY <1>0, <1>3 DEF Raise, PromptInv, RouterTypeOK, OneWinner
<1>4. ASSUME NEW c \in Calls, Abandon(c)
      PROVE  PromptInv'
  <2>1. RouterTypeOK'
    BY <1>0, <1>4 DEF Abandon, RouterTypeOK
  <2> QED BY <2>1, <1>0, <1>4 DEF Abandon, PromptInv, RouterTypeOK, OneWinner
<1>5. ASSUME NEW r \in Replies, NEW i \in Ids, NEW v \in Results, Post(r, i, v)
      PROVE  PromptInv'
  <2>1. /\ reply[r] = "unsent" /\ target' = [target EXCEPT ![r] = i]
        /\ call' = call /\ decision' = decision /\ session' = session
        /\ \A c \in Calls : winner[c] # r
    BY <1>5 DEF Post, PromptInv
  <2>2. CASE Accept(r, i, v)
    <3>1. PICK c \in Calls :
           /\ pending[i] = c /\ IdOf[c] = i
           /\ fut[c] = "pending" /\ winner[c] = None
           /\ fut' = [fut EXCEPT ![c] = "set"]
           /\ value' = [value EXCEPT ![c] = v]
           /\ pending' = [pending EXCEPT ![i] = None]
           /\ reply' = [reply EXCEPT ![r] = "accepted"]
           /\ winner' = [winner EXCEPT ![c] = r]
      BY <2>2, AcceptFacts
    <3>6. v # Unset
      <4>1. v.by \in {"permission_response", "question_response"}
        BY DEF Results
      <4>2. Unset.by = "nobody"
        BY DEF Unset
      <4> QED BY <4>1, <4>2
    <3>2. RouterTypeOK'
      <4>1. \A d \in Calls : fut'[d] = "set" <=> value'[d] # Unset
        BY <1>0, <3>1, <3>6 DEF RouterTypeOK
      <4>2. value' \in [Calls -> Results \cup {Unset}]
        BY <1>0, <3>1 DEF RouterTypeOK
      <4> QED BY <4>1, <4>2, <1>0, <2>1, <3>1 DEF RouterTypeOK
    <3>3. OneWinner'
      <4>1. ASSUME NEW q \in Replies, reply'[q] = "accepted"
            PROVE  \E d \in Calls : winner'[d] = q /\ IdOf[d] = target'[q]
        <5>1. CASE q = r
          BY <5>1, <1>0, <2>1, <3>1 DEF RouterTypeOK
        <5>2. CASE q # r
          <6>1. PICK d \in Calls : winner[d] = q /\ IdOf[d] = target[q]
            BY <4>1, <5>2, <1>0, <3>1 DEF RouterTypeOK, OneWinner
          <6> QED BY <6>1, <5>2, <1>0, <2>1, <3>1 DEF RouterTypeOK
        <5> QED BY <5>1, <5>2
      <4>2. \A a, b \in Calls : winner'[a] # None /\ winner'[a] = winner'[b] => a = b
        BY <1>0, <2>1, <3>1 DEF RouterTypeOK, OneWinner
      <4> QED BY <4>1, <4>2 DEF OneWinner
    <3>4. \A j \in Ids : pending'[j] # None => IdOf[pending'[j]] = j
      BY <1>0, <3>1 DEF PromptInv, RouterTypeOK
    <3>5. ASSUME NEW d \in Calls
          PROVE  /\ call'[d] = "new" <=> fut'[d] = "none"
                 /\ winner'[d] # None <=> fut'[d] = "set"
                 /\ winner'[d] # None =>
                      reply'[winner'[d]] = "accepted" /\ target'[winner'[d]] = IdOf[d]
                 /\ decision'[d] # "undecided" =>
                      fut'[d] = "set" /\ decision'[d] = Outcome(KindOf[d], value'[d])
      <4>1. CASE d = c
        BY <4>1, <1>0, <2>1, <3>1 DEF PromptInv, RouterTypeOK
      <4>2. CASE d # c
        <5>1. /\ fut'[d] = fut[d] /\ value'[d] = value[d] /\ winner'[d] = winner[d]
              /\ call'[d] = call[d] /\ decision'[d] = decision[d]
          BY <4>2, <1>0, <2>1, <3>1 DEF RouterTypeOK
        <5>2. ASSUME winner[d] # None
              PROVE  reply'[winner[d]] = "accepted" /\ target'[winner[d]] = IdOf[d]
          BY <5>2, <1>0, <2>1, <3>1 DEF PromptInv, RouterTypeOK
        <5> QED BY <5>1, <5>2 DEF PromptInv
      <4> QED BY <4>1, <4>2
    <3> QED BY <3>2, <3>3, <3>4, <3>5 DEF PromptInv
  <2>3. CASE Refuse(r, i)
    <3>1. /\ reply' = [reply EXCEPT ![r] = "refused"]
          /\ UNCHANGED <<pending, fut, value, winner>>
      BY <2>3 DEF Refuse
    <3>2. RouterTypeOK'
      BY <1>0, <2>1, <3>1 DEF RouterTypeOK
    <3>3. OneWinner'
      BY <1>0, <2>1, <3>1 DEF RouterTypeOK, OneWinner
    <3>4. \A d \in Calls : winner[d] # None =>
            reply'[winner[d]] = "accepted" /\ target'[winner[d]] = IdOf[d]
      BY <1>0, <2>1, <3>1 DEF PromptInv, RouterTypeOK
    <3> QED BY <2>1, <3>1, <3>2, <3>3, <3>4 DEF PromptInv
  <2> QED BY <1>5, <2>2, <2>3 DEF Post
<1>6. CASE CancelAll
  <2>1. RouterTypeOK'
    BY <1>0, <1>6 DEF CancelAll, RouterTypeOK, Released
  <2> QED BY <2>1, <1>0, <1>6 DEF CancelAll, PromptInv, RouterTypeOK, OneWinner, Released
<1>7. CASE CloseLog
  BY <1>0, <1>7 DEF CloseLog, PromptInv, RouterTypeOK, OneWinner
<1>8. CASE UNCHANGED routerVars
  BY <1>0, <1>8 DEF routerVars, PromptInv, RouterTypeOK, OneWinner
<1> QED BY <1>1, <1>2, <1>3, <1>4, <1>5, <1>6, <1>7, <1>8 DEF RouterNext

\* The prompt invariant holds in every reachable state.
THEOREM PromptInvariant == RouterSpec => []PromptInv
BY InitPrompt, NextPrompt, PTL DEF RouterSpec

\* Every variable keeps its type; a future holds a result when it is set.
THEOREM RouterTypeCorrect == RouterSpec => []RouterTypeOK
<1>1. PromptInv => RouterTypeOK
  BY DEF PromptInv
<1> QED BY <1>1, PromptInvariant, PTL

\* First reply wins, also when ids are reused.
THEOREM FirstReplyDecides == RouterSpec => []OneWinner
<1>1. PromptInv => OneWinner
  BY DEF PromptInv
<1> QED BY <1>1, PromptInvariant, PTL

\* A tool is allowed only by behavior "allow" in an accepted reply to its id.
THEOREM AllowIsApproved == RouterSpec => []RunsOnlyOnAllow
<1>1. PromptInv => RunsOnlyOnAllow
  <2> SUFFICES ASSUME PromptInv, NEW c \in Calls, KindOf[c] = "tool", decision[c] = "allow"
               PROVE  /\ value[c].behavior = "allow" /\ winner[c] # None
                      /\ reply[winner[c]] = "accepted" /\ target[winner[c]] = IdOf[c]
    BY DEF RunsOnlyOnAllow
  <2>1. fut[c] = "set" /\ "allow" = Outcome("tool", value[c])
    BY DEF PromptInv
  <2>2. value[c].behavior = "allow"
    BY <2>1 DEF Outcome
  <2> QED BY <2>1, <2>2 DEF PromptInv
<1> QED BY <1>1, PromptInvariant, PTL
-----------------------------------------------------------------------------
(* With ids that are not reused.                                           *)

LEMMA NextRegistered ==
  ASSUME UniqueIds, PromptInv, Registered, [RouterNext]_routerVars
  PROVE  Registered'
<1>0. RouterTypeOK
  BY DEF PromptInv
<1>1. ASSUME NEW c \in Calls, Ask(c)
      PROVE  Registered'
  BY <1>0, <1>1 DEF Ask, Registered, RouterTypeOK, UniqueIds
<1>2. ASSUME NEW c \in Calls, Return(c) \/ Raise(c) \/ Abandon(c)
      PROVE  Registered'
  BY <1>0, <1>2 DEF Return, Raise, Abandon, Registered, RouterTypeOK
<1>3. ASSUME NEW r \in Replies, NEW i \in Ids, NEW v \in Results, Post(r, i, v)
      PROVE  Registered'
  <2>1. CASE Accept(r, i, v)
    <3>1. PICK c \in Calls :
           /\ pending[i] = c /\ IdOf[c] = i
           /\ fut' = [fut EXCEPT ![c] = "set"]
           /\ pending' = [pending EXCEPT ![i] = None]
      BY <2>1, AcceptFacts
    <3> SUFFICES ASSUME NEW d \in Calls, fut'[d] = "pending"
                 PROVE  pending'[IdOf[d]] = d
      BY DEF Registered
    <3>2. d # c /\ fut[d] = "pending"
      BY <1>0, <3>1 DEF RouterTypeOK
    <3>3. IdOf[d] # i
      BY <3>1, <3>2 DEF UniqueIds
    <3> QED BY <1>0, <3>1, <3>2, <3>3 DEF Registered, RouterTypeOK
  <2>2. CASE Refuse(r, i)
    BY <2>2 DEF Refuse, Registered
  <2> QED BY <1>3, <2>1, <2>2 DEF Post
<1>4. CASE CancelAll
  BY <1>0, <1>4 DEF CancelAll, Registered, Released, RouterTypeOK
<1>5. CASE CloseLog \/ UNCHANGED routerVars
  BY <1>5 DEF CloseLog, routerVars, Registered
<1> QED BY <1>1, <1>2, <1>3, <1>4, <1>5 DEF RouterNext

LEMMA AlwaysRegistered == ASSUME UniqueIds PROVE RouterSpec => []Registered
<1>1. RouterInit => Registered
  BY DEF RouterInit, Registered
<1>2. PromptInv /\ Registered /\ [RouterNext]_routerVars => Registered'
  BY NextRegistered
<1> QED BY <1>1, <1>2, PromptInvariant, PTL DEF RouterSpec

\* A waiting callback whose future is open is the one its id leads to.
THEOREM WaitingIsAnswerable ==
  ASSUME UniqueIds PROVE RouterSpec => []AnswerableWhileWaiting
<1>1. Registered => AnswerableWhileWaiting
  BY DEF Registered, AnswerableWhileWaiting
<1> QED BY <1>1, AlwaysRegistered, PTL

LEMMA PromptsInit == RouterInit => Prompts!Init
BY DEF RouterInit, Prompts!Init, PromptOf

LEMMA PromptsStep ==
  ASSUME PromptInv, Registered, [RouterNext]_routerVars
  PROVE  [Prompts!Next]_(Prompts!promptVars)
<1> DEFINE prompt == [c \in Calls |-> PromptOf(fut[c])]
<1>0. RouterTypeOK
  BY DEF PromptInv
<1>1. ASSUME NEW c \in Calls, Ask(c)
      PROVE  Prompts!Ask(c)
  <2>1. fut[c] = "none" /\ prompt' = [prompt EXCEPT ![c] = "open"]
    BY <1>0, <1>1 DEF Ask, PromptInv, RouterTypeOK, PromptOf
  <2> QED BY <1>1, <2>1 DEF Ask, Prompts!Ask, PromptOf
<1>2. ASSUME NEW c \in Calls, Return(c) \/ Raise(c)
      PROVE  UNCHANGED Prompts!promptVars
  BY <1>2 DEF Return, Raise, Prompts!promptVars
<1>3. ASSUME NEW c \in Calls, Abandon(c)
      PROVE  Prompts!Drop(c) \/ UNCHANGED Prompts!promptVars
  <2>1. CASE fut[c] = "pending"
    <3>1. prompt' = [prompt EXCEPT ![c] = "dropped"]
      BY <1>0, <1>3, <2>1 DEF Abandon, RouterTypeOK, PromptOf
    <3> QED BY <1>3, <2>1, <3>1 DEF Abandon, Prompts!Drop, PromptOf
  <2>2. CASE fut[c] = "set"
    <3>1. fut' = fut
      BY <1>0, <1>3, <2>2 DEF Abandon, RouterTypeOK
    <3> QED BY <1>3, <3>1 DEF Abandon, Prompts!promptVars
  <2> QED BY <1>3, <2>1, <2>2 DEF Abandon
<1>4. ASSUME NEW r \in Replies, NEW i \in Ids, NEW v \in Results, Post(r, i, v)
      PROVE  (\E c \in Calls : Prompts!Decide(r, c)) \/ Prompts!Refuse(r, i)
  <2>1. /\ reply[r] = "unsent" /\ target' = [target EXCEPT ![r] = i] /\ session' = session
    BY <1>4 DEF Post
  <2>2. CASE Accept(r, i, v)
    <3>1. PICK c \in Calls :
           /\ IdOf[c] = i /\ fut[c] = "pending"
           /\ fut' = [fut EXCEPT ![c] = "set"]
           /\ reply' = [reply EXCEPT ![r] = "accepted"]
           /\ winner' = [winner EXCEPT ![c] = r]
      BY <2>2, AcceptFacts
    <3>2. prompt' = [prompt EXCEPT ![c] = "decided"]
      BY <1>0, <3>1 DEF RouterTypeOK, PromptOf
    <3>3. Prompts!Decide(r, c)
      BY <2>1, <3>1, <3>2 DEF Prompts!Decide, Prompts!OpenFor, PromptOf
    <3> QED BY <3>3
  <2>3. CASE Refuse(r, i)
    <3>1. ~HasPending(i) => Prompts!OpenFor(i) = {}
      <4> SUFFICES ASSUME NEW c \in Calls, fut[c] = "pending", IdOf[c] = i
                   PROVE  HasPending(i)
        BY <1>0 DEF Prompts!OpenFor, PromptOf, RouterTypeOK
      <4> QED BY DEF Registered, HasPending
    <3> QED BY <2>1, <2>3, <3>1 DEF Refuse, Prompts!Refuse
  <2> QED BY <1>4, <2>2, <2>3 DEF Post
<1>5. CASE CancelAll
  <2>1. prompt' = [c \in Calls |-> IF prompt[c] = "open" THEN "dropped" ELSE prompt[c]]
    <3>1. \A c \in Calls : fut'[c] = IF fut[c] = "pending" THEN "cancelled" ELSE fut[c]
      BY <1>0, <1>5 DEF CancelAll, Released, Registered, RouterTypeOK
    <3> QED BY <1>0, <3>1 DEF PromptOf, RouterTypeOK
  <2>2. Prompts!Close
    BY <1>5, <2>1 DEF CancelAll, Prompts!Close
  <2> QED BY <2>2 DEF Prompts!Next
<1>6. CASE CloseLog
  BY <1>6 DEF CloseLog, Prompts!promptVars
<1>7. CASE UNCHANGED routerVars
  BY <1>7 DEF routerVars, Prompts!promptVars
<1> QED BY <1>1, <1>2, <1>3, <1>4, <1>5, <1>6, <1>7 DEF RouterNext, Prompts!Next

\* The table of futures provides one-shot prompts.
THEOREM RouterImplementsPrompts ==
  ASSUME UniqueIds PROVE RouterSpec => ImplementsPrompts
<1>1. PromptInv /\ Registered /\ [RouterNext]_routerVars => [Prompts!Next]_(Prompts!promptVars)
  BY PromptsStep
<1> QED BY <1>1, PromptsInit, PromptInvariant, AlwaysRegistered, PTL
        DEF RouterSpec, ImplementsPrompts, Prompts!Spec
=============================================================================
