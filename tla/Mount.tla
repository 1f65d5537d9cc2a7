-------------------------------- MODULE Mount --------------------------------
(***************************************************************************)
(* The life of useAgentSession in one component: the effect that creates a  *)
(* session or attaches to one (useAgentSession.ts), over re-runs, StrictMode *)
(* and close(); the client session it holds (session.ts); and the transcript *)
(* and cost that its events are reduced to (reducer.ts).                    *)
(*                                                                         *)
(* A session emits the events of Script; how far the server has come shows   *)
(* only in the chunks the client reads.  Connections that break are left to  *)
(* Stream, prompts to Tabs.  Text is a sequence of pieces.                  *)
(***************************************************************************)
EXTENDS Naturals, Sequences, SequencesExt, FiniteSets

CONSTANTS Script,       \* events of a session: [event, id, content: blocks]
          MaxMounts,    \* bound of the model: runs of the effect
          MaxSessions,  \* bound of the model: sessions on the server
          MaxSends,     \* bound of the model: user messages
          MaxChunk,     \* bound of the model: events read at once
          MaxReplays    \* bound of the model: attaching again with an earlier id

Block == [type : {"text", "tool_use"}, text : Seq(STRING)]

Event == [event : {"message_delta", "message_complete", "tool_result", "result", "done"},
          id : Nat, content : Seq(Block)]

ASSUME ScriptAssumption ==
  /\ Script \in Seq(Event)
  /\ \A i \in 1..Len(Script) : Script[i].event = "message_delta" => Len(Script[i].content) = 1

ASSUME BoundAssumption ==
  {MaxMounts, MaxSessions, MaxSends, MaxChunk, MaxReplays} \subseteq Nat /\ MaxSessions > 0

VARIABLES
  alive,    \* sessions the server has
  created,  \* sessions it has made, numbered from 1
  mounts,   \* the runs of the effect, oldest first
  ref,      \* sessionRef: the run that set it, 0 for null
  sid,      \* sessionId, 0 for null
  view,     \* reducer state: [messages, status, totalCostUsd]
  base,     \* history, by session: the event id its part of the view begins after
  pos,      \* history, by session: the event dispatched last
  latest,   \* history, by session and message: the one about it, 0 for none
  closed,   \* history: close() was called in the run of the effect that is on
  sends, replays  \* counters of the bounds

clientVars == <<mounts, ref, sid, view, base, pos, latest, closed>>
vars == <<alive, created, clientVars, sends, replays>>

Sessions == 1..MaxSessions

ScriptIds == {Script[i].id : i \in 1..Len(Script)}

AboutMessage(i, id) ==
  Script[i].event \in {"message_delta", "message_complete"} /\ Script[i].id = id

initialState == [messages |-> <<>>, status |-> "idle", totalCostUsd |-> 0]

Init ==
  /\ created \in 0..1           \* a session this page may know of
  /\ alive = 1..created
  /\ mounts = <<>>
  /\ ref = 0
  /\ sid = 0
  /\ view = initialState
  /\ base = [s \in Sessions |-> 0]
  /\ pos = [s \in Sessions |-> 0]
  /\ latest = [s \in Sessions |-> [id \in ScriptIds |-> 0]]
  /\ closed = FALSE
  /\ sends = 0
  /\ replays = 0
-----------------------------------------------------------------------------
(* The reducer.                                                            *)

\* Text goes on in the last block if that is text; other blocks are added.
appendDelta(blocks, delta) ==
  IF delta.type = "text" /\ blocks # <<>> /\ Last(blocks).type = "text"
  THEN Append(Front(blocks), [type |-> "text", text |-> Last(blocks).text \o delta.text])
  ELSE Append(blocks, delta)

Entry(kind, id, content, streaming) ==
  [kind |-> kind, id |-> id, content |-> content, streaming |-> streaming]

IndexIn(messages, id) ==
  SelectInSeq(messages, LAMBDA m : m.kind = "assistant" /\ m.id = id)

\* Mutant of Put: a message is always added at the end.
PutLast(messages, e) == Append(messages, e)

\* The assistant message of that id is replaced, or added at the end.
Put(messages, e) ==
  IF IndexIn(messages, e.id) = 0 THEN Append(messages, e)
  ELSE ReplaceAt(messages, IndexIn(messages, e.id), e)

ContentOf(messages, id) ==
  IF IndexIn(messages, id) = 0 THEN <<>> ELSE messages[IndexIn(messages, id)].content

\* Event i of session s.
Reduce(v, s, i) ==
  LET e  == Script[i]
      id == <<s, e.id>>
  IN CASE e.event = "message_delta" ->
            [v EXCEPT !.messages = Put(@, Entry("assistant", id,
                        appendDelta(ContentOf(@, id), e.content[1]), TRUE)),
                      !.status = "streaming"]
       [] e.event = "message_complete" ->
            [v EXCEPT !.messages = Put(@, Entry("assistant", id, e.content, FALSE))]
       [] e.event = "tool_result" ->
            [v EXCEPT !.messages = Append(@, Entry("tool_result", id, <<>>, FALSE))]
       [] e.event = "result" ->
            [v EXCEPT !.totalCostUsd = @ + 1, !.status = "idle"]
       [] e.event = "done" -> [v EXCEPT !.status = "idle"]
-----------------------------------------------------------------------------
(* The effect.                                                             *)

\* A client session of this run; lastEventId is the cursor.
Opened(s, from) ==
  [phase |-> "open", aborted |-> FALSE, detached |-> FALSE,
   session |-> s, cursor |-> from, hand |-> 0]

Creating ==
  [phase |-> "creating", aborted |-> FALSE, detached |-> FALSE,
   session |-> 0, cursor |-> 0, hand |-> 0]

Active == mounts # <<>> /\ ~Last(mounts).aborted

\* The effect without a session id: createSession() is in flight.
EffectCreate ==
  /\ ~Active /\ Len(mounts) < MaxMounts
  /\ mounts' = Append(mounts, Creating)
  /\ closed' = FALSE
  /\ UNCHANGED <<alive, created, ref, sid, view, base, pos, latest, sends, replays>>

\* Mutant of ResumeId: resumeFromEventId is not passed on.
ResumeIdDropped(from) == 0

ResumeId(from) == from

\* The effect with a session id: attachSession() needs no answer.
EffectAttach(s, from) ==
  /\ ~Active /\ Len(mounts) < MaxMounts
  /\ mounts' = Append(mounts, Opened(s, ResumeId(from)))
  /\ ref' = Len(mounts')
  /\ sid' = s
  /\ closed' = FALSE
  /\ UNCHANGED <<alive, created, view, latest, sends>>

\* resumeFromEventId: what an earlier page had stored ...
AttachStored(s, from) ==
  /\ EffectAttach(s, from)
  /\ \A k \in 1..Len(mounts) : mounts[k].session # s
  /\ base' = [base EXCEPT ![s] = from]
  /\ pos' = [pos EXCEPT ![s] = from]
  /\ UNCHANGED replays

\* ... or this one, from its event tap; or an earlier id, as when the property is
\* left as it was and the token changes, which replays the events after it.
AttachAgain(s, from) ==
  /\ EffectAttach(s, from)
  /\ \E k \in 1..Len(mounts) : mounts[k].session = s
  /\ from <= pos[s]
  /\ replays' = IF from < pos[s] THEN replays + 1 ELSE replays
  /\ replays' <= MaxReplays
  /\ UNCHANGED <<base, pos>>

\* Mutant of Created: the flag is not looked at after the await.
CreatedUnchecked(k) ==
  /\ mounts[k].phase = "creating"
  /\ created < MaxSessions
  /\ created' = created + 1
  /\ alive' = alive \cup {created'}
  /\ mounts' = [mounts EXCEPT ![k] = Opened(created', 0)]
  /\ ref' = k
  /\ sid' = created'
  /\ UNCHANGED <<view, base, pos, latest, closed, sends, replays>>

\* createSession() returns.  If the effect was cleaned up meanwhile, the session
\* is left to the server's reaper.
Created(k) ==
  /\ mounts[k].phase = "creating"
  /\ created < MaxSessions
  /\ created' = created + 1
  /\ alive' = alive \cup {created'}
  /\ IF mounts[k].aborted
     THEN /\ mounts' = [mounts EXCEPT ![k].phase = "over", ![k].detached = TRUE,
                                      ![k].session = created']
          /\ UNCHANGED <<ref, sid>>
     ELSE /\ mounts' = [mounts EXCEPT ![k] = Opened(created', 0)]
          /\ ref' = k
          /\ sid' = created'
  /\ UNCHANGED <<view, base, pos, latest, closed, sends, replays>>

\* It rejects: the promise of the effect is not awaited by anybody.
CreateFails(k) ==
  /\ mounts[k].phase = "creating"
  /\ mounts' = [mounts EXCEPT ![k].phase = "over"]
  /\ UNCHANGED <<alive, created, ref, sid, view, base, pos, latest, closed, sends, replays>>

\* The cleanup: unmount, changed dependencies, StrictMode's first pass.
Cleanup ==
  /\ Active
  /\ mounts' = [k \in 1..Len(mounts) |->
                  [mounts[k] EXCEPT !.aborted = @ \/ k = Len(mounts),
                                    !.detached = @ \/ k = ref]]
  /\ ref' = 0
  /\ closed' = FALSE
  /\ UNCHANGED <<alive, created, sid, view, base, pos, latest, sends, replays>>
-----------------------------------------------------------------------------
(* The events.                                                             *)

\* A chunk is read; its n events are handed over one by one.
Chunk(k, n) ==
  /\ mounts[k].phase = "open" /\ ~mounts[k].detached
  /\ mounts[k].session \in alive
  /\ mounts[k].hand = 0
  /\ mounts[k].cursor + n <= Len(Script)
  /\ mounts' = [mounts EXCEPT ![k].hand = n]
  /\ UNCHANGED <<alive, created, ref, sid, view, base, pos, latest, closed, sends, replays>>

\* The loop gets an event: an aborted run breaks, the others dispatch it.
Deliver(k) ==
  LET m == mounts[k]
      i == m.cursor + 1
  IN  /\ m.phase = "open" /\ m.hand > 0
      /\ IF m.aborted
         THEN /\ mounts' = [mounts EXCEPT ![k].phase = "over", ![k].hand = 0]
              /\ UNCHANGED <<view, pos, latest>>
         ELSE /\ mounts' = [mounts EXCEPT ![k].cursor = i,
                   ![k].hand = IF Script[i].event = "done" THEN 0 ELSE @ - 1,
                   ![k].phase = IF Script[i].event = "done" THEN "over" ELSE @]
              /\ view' = Reduce(view, m.session, i)
              /\ pos' = [pos EXCEPT ![m.session] = i]
              /\ latest' = [latest EXCEPT ![m.session] =
                              [id \in ScriptIds |-> IF AboutMessage(i, id) THEN i ELSE @[id]]]
      /\ UNCHANGED <<alive, created, ref, sid, base, closed, sends, replays>>

\* The stream ends for a client session that was aborted.
Ends(k) ==
  /\ mounts[k].phase = "open" /\ mounts[k].hand = 0 /\ mounts[k].detached
  /\ mounts' = [mounts EXCEPT ![k].phase = "over"]
  /\ UNCHANGED <<alive, created, ref, sid, view, base, pos, latest, closed, sends, replays>>

\* It fails with 404, or with 412 when the cursor was evicted: an error event.
Fails(k) ==
  /\ mounts[k].phase = "open" /\ mounts[k].hand = 0 /\ ~mounts[k].detached
  /\ mounts[k].session \notin alive \/ mounts[k].cursor > 0
  /\ mounts' = [mounts EXCEPT ![k].phase = "over"]
  /\ view' = IF mounts[k].aborted THEN view ELSE [view EXCEPT !.status = "error"]
  /\ UNCHANGED <<alive, created, ref, sid, base, pos, latest, closed, sends, replays>>
-----------------------------------------------------------------------------
(* The calls of the component, and the server.                             *)

\* send(): the message is shown first; without a session the call then rejects.
Send ==
  /\ Active /\ sends < MaxSends
  /\ sends' = sends + 1
  /\ view' = [view EXCEPT !.messages = Append(@, Entry("user", <<0, sends'>>, <<>>, FALSE)),
                          !.status = "streaming"]
  /\ UNCHANGED <<alive, created, mounts, ref, sid, base, pos, latest, closed, replays>>

\* close(): with a session, abort and DELETE, whose failure is ignored; without
\* one, as after an earlier close(), nothing.
Close ==
  /\ Active
  /\ closed' = TRUE
  /\ ref' = 0
  /\ mounts' = [k \in 1..Len(mounts) |-> [mounts[k] EXCEPT !.detached = @ \/ k = ref]]
  /\ \/ alive' = IF ref = 0 THEN alive ELSE alive \ {mounts[ref].session}
     \/ alive' = alive
  /\ UNCHANGED <<created, sid, view, base, pos, latest, sends, replays>>

\* The reaper or another tab removes a session.
Expire(s) ==
  /\ s \in alive
  /\ alive' = alive \ {s}
  /\ UNCHANGED <<created, clientVars, sends, replays>>

Next ==
  \/ EffectCreate \/ Cleanup \/ Send \/ Close
  \/ \E s \in 1..created :
       \/ Expire(s)
       \/ \E from \in 0..Len(Script) : AttachStored(s, from) \/ AttachAgain(s, from)
  \/ \E k \in 1..Len(mounts) :
       \/ Created(k) \/ CreateFails(k) \/ Deliver(k) \/ Ends(k) \/ Fails(k)
       \/ \E n \in 1..MaxChunk : Chunk(k, n)

Spec == Init /\ [][Next]_vars
-----------------------------------------------------------------------------
(* Properties.                                                             *)

Run == [phase : {"creating", "open", "over"}, aborted : BOOLEAN, detached : BOOLEAN,
        session : 0..MaxSessions, cursor : 0..Len(Script), hand : 0..Len(Script)]

Message == [kind : {"user", "assistant", "tool_result"}, id : (0..MaxSessions) \X Nat,
            content : Seq(Block), streaming : BOOLEAN]

RunsOK ==
  /\ mounts \in Seq(Run)
  /\ \A k \in 1..Len(mounts) :
       /\ mounts[k].cursor + mounts[k].hand <= Len(Script)
       /\ mounts[k].session <= created
       /\ mounts[k].phase = "open" => mounts[k].session > 0
       /\ k < Len(mounts) => mounts[k].aborted

View == [messages : Seq(Message), status : {"idle", "streaming", "error"},
         totalCostUsd : Nat]

TypeOK ==
  /\ created \in 0..MaxSessions /\ alive \subseteq 1..created
  /\ RunsOK
  /\ ref \in 0..Len(mounts) /\ sid \in 0..created
  /\ view \in View
  /\ base \in [Sessions -> 0..Len(Script)]
  /\ pos \in [Sessions -> 0..Len(Script)]
  /\ latest \in [Sessions -> [ScriptIds -> 0..Len(Script)]]
  /\ closed \in BOOLEAN /\ sends \in 0..MaxSends /\ replays \in 0..MaxReplays

Live(k) == mounts[k].phase = "open" /\ ~mounts[k].detached

\* However StrictMode, changed dependencies and a slow createSession() interleave,
\* the stream of at most one run of the effect is open: that of the session the
\* calls go to, which is the one of the newest run and the sessionId shown.
OneLiveStream ==
  /\ \A k \in 1..Len(mounts) : Live(k) => k = ref
  /\ ref # 0 => /\ ref = Len(mounts) /\ ~mounts[ref].aborted /\ ~mounts[ref].detached
                /\ sid = mounts[ref].session

\* Blocks that grow into those of the whole message, and all pieces that came.
PartOf(content, whole) ==
  /\ Len(content) <= Len(whole)
  /\ \A b \in 1..Len(content) :
       IF b < Len(content) THEN content[b] = whole[b]
       ELSE content[b].type = whole[b].type /\ IsPrefix(content[b].text, whole[b].text)

\* What every message comes to when the first n events are read in order.
Streamed[n \in 0..Len(Script)] ==
  [id \in ScriptIds |->
     IF n = 0 THEN <<>>
     ELSE IF ~AboutMessage(n, id) THEN Streamed[n - 1][id]
     ELSE IF Script[n].event = "message_complete" THEN Script[n].content
     ELSE appendDelta(Streamed[n - 1][id], Script[n].content[1])]

Wholes(id) ==
  {Script[i].content :
     i \in {j \in 1..Len(Script) : Script[j].event = "message_complete" /\ Script[j].id = id}}

\* What the model's API promises: deltas read in order grow into the whole.
ASSUME DeltasAssumption ==
  \A i \in 1..Len(Script) :
    Script[i].event = "message_delta" =>
      \A whole \in Wholes(Script[i].id) : PartOf(Streamed[i][Script[i].id], whole)

\* Positions of the entries of a kind with that id.
Entries(messages, kind, id) ==
  {k \in 1..Len(messages) : messages[k].kind = kind /\ messages[k].id = id}

\* reducer.ts:10, "assistant messages reconciled from delta + complete events (keyed
\* by message_id)": over attaching again, with or without a replay, a message
\* stands once in the list, and whole when its message_complete is dispatched last;
\* while it streams without a replay, what is shown grows into the whole.
Reconciled ==
  \A s \in Sessions, id \in ScriptIds :
    LET last  == latest[s][id]
        shown == Entries(view.messages, "assistant", <<s, id>>)
    IN  last # 0 =>
          \E k \in shown :
            LET m == view.messages[k]
            IN  /\ shown = {k}
                /\ IF Script[last].event = "message_complete"
                   THEN m.content = Script[last].content /\ ~m.streaming
                   ELSE /\ m.streaming
                        /\ replays = 0 /\ base[s] = 0 =>
                             \A whole \in Wholes(id) : PartOf(m.content, whole)

\* Events of a session, dispatched and by number, that count a cost; that
\* bring a tool result.
Costs ==
  {x \in Sessions \X (1..Len(Script)) :
     x[2] \in base[x[1]] + 1 .. pos[x[1]] /\ Script[x[2]].event = "result"}

Results(s, id) ==
  {i \in base[s] + 1 .. pos[s] : Script[i].event = "tool_result" /\ Script[i].id = id}

\* Attaching again with the id of the last event shown neither repeats nor skips
\* a cost or a tool result, although the reducer state is not reset and events
\* of the old stream are still being handed over.
CountedOnce ==
  replays = 0 =>
    /\ view.totalCostUsd = Cardinality(Costs)
    /\ \A s \in Sessions, id \in ScriptIds :
         Cardinality(Entries(view.messages, "tool_result", <<s, id>>)) = Cardinality(Results(s, id))
-----------------------------------------------------------------------------
(* What tests and documents say, and the code does not do.                  *)

\* useAgentSession.test.tsx:5, "Open one session per mount (idempotent under
\* StrictMode double-invoke)": a session that is created is one the hook uses.
OneSessionPerMount == [][created' # created => ref' # 0]_vars

\* useAgentSession.test.tsx:8, "close() is the explicit destroy": after close()
\* no stream is open until the effect runs again.
CloseIsFinal == closed => \A k \in 1..Len(mounts) : ~Live(k)

\* react-api.mdx:80, "Any -> error on a fatal transport or server error": a
\* createSession() that rejects is shown.
FatalIsShown ==
  [][\A k \in 1..Len(mounts) :
       (mounts[k].phase = "creating" /\ ~mounts[k].aborted /\ mounts'[k].phase = "over")
         => view'.status = "error"]_vars
=============================================================================
