-------------------------------- MODULE Stream --------------------------------
(***************************************************************************)
(* One client reading the stream of a session over any number of           *)
(* connections: the client loop (streamEvents in transport.ts, events() in *)
(* session.ts), the SSE endpoint (stream in fastapi.py) and, under it, the *)
(* event log, whose generator for the current connection is EventLog's     *)
(* subscriber Conn.                                                        *)
(*                                                                         *)
(* A frame on the wire is the number of its event; 0 is the error frame    *)
(* without an id that reports an evicted cursor.                           *)
(***************************************************************************)
EXTENDS Integers, Sequences

CONSTANTS Conn,      \* the generator of the current connection
          MaxSize,   \* of the ring
          MaxSeq,    \* bound of the model: the last sequence number
          WireCap,   \* frames the network holds before the server must wait
          MaxDrops   \* bound of the model: connections that break

ASSUME RingAssumption == MaxSize \in Nat \ {0} /\ MaxSeq \in Nat \ {0}
ASSUME WireAssumption == WireCap \in Nat \ {0} /\ MaxDrops \in Nat

VARIABLES
  buf, nextSeq, waiters, signalled, closed,   \* the event log
  pc, after, cursor, snapshot, delivered,     \* and its generator
  registered,  \* the session is in the registry
  server,      \* the handler: "idle", "accepted" (headers sent), "streaming",
               \* "over" (the response ended)
  wire,        \* frames sent and not read
  client,      \* "connecting", "reading", "sleeping" (backoff), and its ends
               \* "done", "left" (aborted), "gone404", "gone412" (TransportError)
  lastId,      \* lastId, 0 before the first event
  seen,        \* history: the numbered events handed to the application
  drops        \* connections that broke

logVars == <<buf, nextSeq, waiters, signalled, closed,
             pc, after, cursor, snapshot, delivered>>
clientVars == <<client, lastId, seen, drops>>
vars == <<logVars, registered, server, wire, clientVars>>

Log == INSTANCE EventLog WITH Subscribers <- {Conn}

Init ==
  /\ Log!Init
  /\ registered = TRUE
  /\ server = "idle"
  /\ wire = <<>>
  /\ client = "connecting"
  /\ lastId = 0
  /\ seen = <<>>
  /\ drops = 0
-----------------------------------------------------------------------------
(* The session.                                                            *)

\* Some loop or callback appends an event.
Emit == Log!AppendEvent /\ UNCHANGED <<registered, server, wire, clientVars>>

\* The registry pops the session; close() begins.
Remove ==
  /\ registered
  /\ registered' = FALSE
  /\ UNCHANGED <<logVars, server, wire, clientVars>>

\* close() ends: done, the last event, and the log is closed.
Close ==
  /\ ~registered
  /\ Log!CloseLog
  /\ UNCHANGED <<registered, server, wire, clientVars>>

IsDone(e) == closed /\ e = Log!LastSeq
-----------------------------------------------------------------------------
(* The endpoint.                                                           *)

\* The pre-flight subscribe(): EvictedError is 412.
Refused(k) == k # 0 /\ Log!Evicted(k)

\* The request: 404, 412, or the headers of a stream.  The stream has a new
\* generator, which has not run yet.
Respond ==
  /\ client = "connecting"
  /\ \/ /\ ~registered
        /\ client' = "gone404"
        /\ UNCHANGED <<server, pc, cursor, after, snapshot, delivered>>
     \/ /\ registered /\ Refused(lastId)
        /\ client' = "gone412"
        /\ UNCHANGED <<server, pc, cursor, after, snapshot, delivered>>
     \/ /\ registered /\ ~Refused(lastId)
        /\ client' = "reading"
        /\ server' = "accepted"
        /\ pc' = [pc EXCEPT ![Conn] = "idle"]
        /\ cursor' = [cursor EXCEPT ![Conn] = 0]
        /\ after' = [after EXCEPT ![Conn] = 0]
        /\ snapshot' = [snapshot EXCEPT ![Conn] = <<>>]
        /\ delivered' = [delivered EXCEPT ![Conn] = <<>>]
  /\ UNCHANGED <<buf, nextSeq, waiters, signalled, closed, registered, wire,
                 lastId, seen, drops>>

\* What the handler does with where its generator got to: send the event it
\* yielded (and return after done), wait for it, or end the response.
Forward ==
  \/ /\ pc'[Conn] = "yielded"
     /\ wire' = Append(wire, cursor'[Conn])
     /\ server' = IF IsDone(cursor'[Conn]) THEN "over" ELSE "streaming"
  \/ /\ pc'[Conn] = "parked"
     /\ server' = "streaming"
     /\ UNCHANGED wire
  \/ /\ pc'[Conn] = "ended"
     /\ server' = "over"
     /\ UNCHANGED wire
  \/ /\ pc'[Conn] = "evicted"
     /\ wire' = Append(wire, 0)
     /\ server' = "over"

\* after_seq, from the Last-Event-ID header of the request.
StartAfter == lastId

\* The response body starts: the generator runs, on a ring that may have
\* rolled on since the pre-flight.
Open ==
  /\ server = "accepted"
  /\ Log!Subscribe(Conn, StartAfter)
  /\ Forward
  /\ UNCHANGED <<registered, clientVars>>

\* The next event, once the network takes another frame.
Advance ==
  /\ server = "streaming"
  /\ Len(wire) < WireCap
  /\ Log!Resume(Conn) \/ Log!Wake(Conn)
  /\ Forward
  /\ UNCHANGED <<registered, clientVars>>

\* Mutant of KeepaliveTimeout: a comment frame only, and the wait goes on.
KeepaliveOnly ==
  /\ server = "streaming"
  /\ pc[Conn] = "parked"
  /\ UNCHANGED vars

\* wait_for times out: the comment frame is sent, but the cancellation has
\* finished the generator, and its next step ends the response.
KeepaliveTimeout ==
  /\ server = "streaming"
  /\ pc[Conn] = "parked"
  /\ Log!Cancel(Conn)
  /\ server' = "over"
  /\ UNCHANGED <<registered, wire, clientVars>>
-----------------------------------------------------------------------------
(* The client.                                                             *)

\* Mutants of Read: lastId is that of the newest frame received, not of the
\* one handed over; lastId is never updated.
ReadAhead ==
  /\ client = "reading"
  /\ wire # <<>>
  /\ wire' = Tail(wire)
  /\ IF Head(wire) = 0 THEN UNCHANGED <<client, lastId, seen>>
     ELSE /\ lastId' = wire[Len(wire)]
          /\ seen' = Append(seen, Head(wire))
          /\ client' = IF IsDone(Head(wire)) THEN "done" ELSE "reading"
  /\ UNCHANGED <<logVars, registered, server, drops>>

ReadForgetful ==
  /\ client = "reading"
  /\ Len(seen) < MaxSeq
  /\ wire # <<>>
  /\ wire' = Tail(wire)
  /\ seen' = Append(seen, Head(wire))
  /\ UNCHANGED <<logVars, registered, server, client, lastId, drops>>

\* A frame arrives; one with an id moves lastId and is handed over; the
\* application stops after done.
Read ==
  /\ client = "reading"
  /\ wire # <<>>
  /\ wire' = Tail(wire)
  /\ IF Head(wire) = 0 THEN UNCHANGED <<client, lastId, seen>>
     ELSE /\ lastId' = Head(wire)
          /\ seen' = Append(seen, Head(wire))
          /\ client' = IF IsDone(Head(wire)) THEN "done" ELSE "reading"
  /\ UNCHANGED <<logVars, registered, server, drops>>

\* The response has ended: sleep, then connect again.
Eof ==
  /\ client = "reading"
  /\ wire = <<>>
  /\ server = "over"
  /\ client' = "sleeping"
  /\ server' = "idle"
  /\ UNCHANGED <<logVars, registered, wire, lastId, seen, drops>>

Reconnect ==
  /\ client = "sleeping"
  /\ client' = "connecting"
  /\ UNCHANGED <<logVars, registered, server, wire, lastId, seen, drops>>

\* The connection is gone: what was on the wire is lost, the handler's
\* generator is closed.
Disconnect ==
  /\ wire' = <<>>
  /\ server' = "idle"
  /\ IF Log!Live(Conn) THEN Log!Cancel(Conn) ELSE UNCHANGED logVars

\* A request fails, or a stream breaks.
Drop ==
  /\ client \in {"connecting", "reading"}
  /\ drops < MaxDrops
  /\ drops' = drops + 1
  /\ client' = "sleeping"
  /\ Disconnect
  /\ UNCHANGED <<registered, lastId, seen>>

\* detach() or close(): the abort signal.
Detach ==
  /\ client \in {"connecting", "reading", "sleeping"}
  /\ client' = "left"
  /\ Disconnect
  /\ UNCHANGED <<registered, lastId, seen, drops>>

ServerStep == Respond \/ Open \/ Advance
ClientStep == Read \/ Eof \/ Reconnect

Next ==
  \/ Emit \/ Remove \/ Close
  \/ ServerStep \/ KeepaliveTimeout
  \/ ClientStep \/ Drop \/ Detach

Spec == Init /\ [][Next]_vars

\* Requests are served, the wire is read, backoffs and keepalive intervals
\* pass.  Nobody has to emit, close or detach; connections break at most
\* MaxDrops times.
FairSpec ==
  /\ Spec
  /\ WF_vars(ServerStep)
  /\ WF_vars(ClientStep)
  /\ WF_vars(KeepaliveTimeout)
-----------------------------------------------------------------------------
(* Properties.                                                             *)

Over == {"done", "left", "gone404", "gone412"}

TypeOK ==
  /\ registered \in BOOLEAN
  /\ server \in {"idle", "accepted", "streaming", "over"}
  /\ wire \in Seq(0..MaxSeq) /\ Len(wire) <= WireCap
  /\ client \in {"connecting", "reading", "sleeping"} \cup Over
  /\ client \notin {"reading", "done"} => server = "idle"
  /\ lastId \in 0..MaxSeq
  /\ seen \in Seq(1..MaxSeq)
  /\ drops \in 0..MaxDrops

\* Over however many connections, with frames lost and the ring rolling on,
\* the application gets each event at most once and in order.
SeenOnceInOrder == \A i, j \in 1..Len(seen) : i < j => seen[i] < seen[j]

\* What the application has not seen of the events up to its last one has left
\* the ring: no reconnection loses an event the server still has.
SeenAllRetained ==
  \A e \in 1..lastId : e < Log!OldestSeq \/ \E i \in 1..Len(seen) : seen[i] = e

\* An event that was appended is seen, unless the ring rolls past it or the
\* client stops: although a generator can go to sleep on an unread event, the
\* keepalive timeout ends its stream, and the next connection finds the event.
EventuallySeen ==
  \A e \in 1..MaxSeq :
    e <= Log!LastSeq
      ~> (client \in Over \/ e < Log!OldestSeq \/ \E i \in 1..Len(seen) : seen[i] = e)
-----------------------------------------------------------------------------
(* What the documentation says, and the code does not do.                  *)

\* deployment.mdx:74, "The 15s `:keepalive` frame keeps connections warm": a
\* response ends only with done, an evicted cursor or a closed log.
KeepaliveKeepsOpen ==
  [][(server = "streaming" /\ server' = "over")
       => closed \/ (wire' # <<>> /\ wire'[Len(wire')] = 0)]_vars
=============================================================================
