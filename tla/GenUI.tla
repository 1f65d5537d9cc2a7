--------------------------------- MODULE GenUI --------------------------------
(***************************************************************************)
(* Generative UI on the client: the stream that turns wire events into      *)
(* updates (genui/stream.ts), and the hook that keeps the latest update of   *)
(* every tool call in React state (useGenerativeUI.ts).                     *)
(*                                                                         *)
(* What makes it hard: fragments of a call's input come interleaved with    *)
(* those of others, with or without the tool's name; the schema arrives     *)
(* while events do; a change of token delivers old events again; and React   *)
(* runs the updaters later than it accepts them, and twice in StrictMode,    *)
(* while the index they share is a ref that reset() clears at once.          *)
(*                                                                         *)
(* An input is its fragments 1..Chunks; fragment 0 is the empty one with     *)
(* which the model's API begins.  The partial-JSON parser is a function of   *)
(* the text so far and gives nothing for none: props is that text.           *)
(***************************************************************************)
EXTENDS Naturals, Sequences, FiniteSets, SequencesExt

CONSTANTS Ids,         \* tool calls (tool_use_id)
          Registered,  \* those whose tool is in the server's schema
          Prefixed,    \* those whose tool has the client's server name and prefix
          Chunks,      \* fragments of an input
          None,        \* no update, no buffer, a hole in the list
          MaxLog,      \* bound of the model: events
          MaxResets,   \* bound of the model: calls of reset()
          MaxAttach    \* bound of the model: times the hook attaches again

ASSUME GenUIAssumption ==
  /\ IsFiniteSet(Ids) /\ Registered \subseteq Ids /\ Prefixed \subseteq Ids
  /\ Chunks \in Nat
  /\ MaxLog \in Nat /\ MaxResets \in Nat /\ MaxAttach \in Nat

\* What the hook is given of a call, and what the stream buffers of one.
Updates == [id : Ids, props : Seq(1..Chunks), complete : BOOLEAN]
Buffers == [named : BOOLEAN, text : Seq(1..Chunks)]

ASSUME NoneAssumption == None \notin Updates /\ None \notin Buffers

VARIABLES
  log,      \* events of the session that concern tool calls
  cursor,   \* events of it that the hook was given
  schema,   \* the schema is loaded
  pending,  \* pendingDeltas: [named, text] of a call, or None
  settled,  \* calls whose final input was seen
  updates,  \* React state: the list that is rendered
  queue,    \* updaters and values React has accepted and not applied
  index,    \* indexRef: position of a call in the list, 0 if none
  emitted,  \* history: updates the stream gave since the last reset()
  torn,     \* history: calls whose fragments were cut off or given twice
  crossed,  \* history: the last reset() found updaters that had not run
  resets, attaches  \* counters of the bounds

streamVars == <<pending, settled>>
hookVars == <<updates, queue, index>>
history == <<emitted, torn, crossed>>
vars == <<log, cursor, schema, streamVars, hookVars, history, resets, attaches>>

Whole == [i \in 1..Chunks |-> i]

Init ==
  /\ log = <<>>
  /\ cursor = 0
  /\ schema \in BOOLEAN
  /\ pending = [id \in Ids |-> None]
  /\ settled = {}
  /\ updates = <<>>
  /\ queue = <<>>
  /\ index = [id \in Ids |-> 0]
  /\ emitted = <<>>
  /\ torn = {}
  /\ crossed = FALSE
  /\ resets = 0
  /\ attaches = 0
-----------------------------------------------------------------------------
(* The session, and the fetch of the schema.                               *)

DeltaEvent(id, k, named) == [event |-> "message_delta", id |-> id, chunk |-> k, named |-> named]
ToolUseEvent(id) == [event |-> "tool_use", id |-> id]

\* Fragments of id among the first n events.
Fragments(id, n) ==
  {i \in 1..n : log[i].event = "message_delta" /\ log[i].id = id}

Called(id) == ToolUseEvent(id) \in {log[i] : i \in 1..Len(log)}

\* The next fragment of an input; some carry the name of the tool.
EmitDelta(id, named) ==
  LET k == Cardinality(Fragments(id, Len(log)))
  IN /\ Len(log) < MaxLog
     /\ ~Called(id) /\ k <= Chunks
     /\ log' = Append(log, DeltaEvent(id, k, named))
     /\ UNCHANGED <<cursor, schema, streamVars, hookVars, history, resets, attaches>>

\* The whole input, after all, some or none of its fragments.
EmitToolUse(id) ==
  /\ Len(log) < MaxLog
  /\ ~Called(id)
  /\ log' = Append(log, ToolUseEvent(id))
  /\ UNCHANGED <<cursor, schema, streamVars, hookVars, history, resets, attaches>>

\* loadSchema(): the response arrives.
LoadSchema ==
  /\ ~schema
  /\ schema' = TRUE
  /\ UNCHANGED <<log, cursor, streamVars, hookVars, history, resets, attaches>>
-----------------------------------------------------------------------------
(* The list: what an updater does, with the index it reads and writes.     *)

Update(id, props, complete) == [id |-> id, props |-> props, complete |-> complete]

\* A call of the index is put at its position, which may lie past the end of
\* the list and leave a hole; another is appended, and entered in the index.
Place(r, u) ==
  LET at == IF r.index[u.id] = 0 THEN Len(r.list) + 1 ELSE r.index[u.id]
      n == IF at > Len(r.list) THEN at ELSE Len(r.list)
  IN [list |-> [i \in 1..n |-> IF i = at THEN u
                               ELSE IF i <= Len(r.list) THEN r.list[i] ELSE None],
      index |-> [r.index EXCEPT ![u.id] = at]]

\* React keeps an updater (put), or a value already known (set).
PutOp(u) == [op |-> "put", update |-> u]
SetOp(l) == [op |-> "set", list |-> l]

Apply(r, o) == IF o.op = "put" THEN Place(r, o.update) ELSE [r EXCEPT !.list = o.list]

\* List and index before the first entry of a queue and after each of them.
Applied(r, q) ==
  LET after[n \in 0..Len(q)] == IF n = 0 THEN r ELSE Apply(after[n - 1], q[n])
  IN  after

\* The queue applied to the rendered list, starting with the index ix.
Pass(ix) == Applied([list |-> updates, index |-> ix], queue)[Len(queue)]

\* setUpdates(updater): React may run the first updater at once, and
\* otherwise keeps it for the next render.
Dispatch(u, eager) ==
  LET now == Place([list |-> updates, index |-> index], u)
  IN IF eager /\ queue = <<>>
     THEN queue' = <<SetOp(now.list)>> /\ index' = now.index
     ELSE queue' = Append(queue, PutOp(u)) /\ UNCHANGED index

Render(passes) ==
  LET r == Pass(IF passes = 2 THEN Pass(index).index ELSE index)
  IN /\ queue # <<>>
     /\ updates' = r.list
     /\ index' = r.index
     /\ queue' = <<>>
     /\ UNCHANGED <<log, cursor, schema, streamVars, history, resets, attaches>>
-----------------------------------------------------------------------------
(* The stream.                                                             *)

\* matchToolName: the schema's list once it is loaded, before that the prefix.
Matches(id) == IF schema THEN id \in Registered ELSE id \in Prefixed

\* Mutant of Buffered: a name that comes late starts the buffer.
BufferedFromName(e) ==
  LET p == IF pending[e.id] = None \/ e.named
           THEN [named |-> e.named /\ Matches(e.id), text |-> <<>>] ELSE pending[e.id]
  IN IF e.chunk = 0 THEN p ELSE [p EXCEPT !.text = Append(@, e.chunk)]

\* What is buffered of a call after one more fragment.  Only its first
\* fragment can name the tool.
Buffered(e) ==
  LET p == IF pending[e.id] = None
           THEN [named |-> e.named /\ Matches(e.id), text |-> <<>>] ELSE pending[e.id]
  IN IF e.chunk = 0 THEN p ELSE [p EXCEPT !.text = Append(@, e.chunk)]

\* feed() gives an update or None, and leaves a buffer and the settled calls.
Fed(u, id, buffer, calls) ==
  [update |-> u, pending |-> [pending EXCEPT ![id] = buffer], settled |-> calls]
Ignored(e) == Fed(None, e.id, pending[e.id], settled)

\* A fragment.
FeedDelta(e) ==
  LET p == Buffered(e)
      u == IF p.named /\ p.text # <<>> THEN Update(e.id, p.text, FALSE) ELSE None
  IN IF e.id \in settled THEN Ignored(e) ELSE Fed(u, e.id, p, settled)

\* Mutants of FeedToolUse: the call is not settled; its buffer stays; a call
\* whose fragments were not named is not reported.
FeedToolUseUnsettled(e) ==
  IF Matches(e.id) THEN Fed(Update(e.id, Whole, TRUE), e.id, None, settled) ELSE Ignored(e)

FeedToolUseKeepsBuffer(e) ==
  IF Matches(e.id)
  THEN Fed(Update(e.id, Whole, TRUE), e.id, pending[e.id], settled \cup {e.id})
  ELSE Ignored(e)

FeedToolUseNamed(e) ==
  IF Matches(e.id) /\ (pending[e.id] = None \/ pending[e.id].named)
  THEN Fed(Update(e.id, Whole, TRUE), e.id, None, settled \cup {e.id}) ELSE Ignored(e)

\* The whole input.
FeedToolUse(e) ==
  IF Matches(e.id)
  THEN Fed(Update(e.id, Whole, TRUE), e.id, None, settled \cup {e.id}) ELSE Ignored(e)
-----------------------------------------------------------------------------
(* The hook.                                                               *)

\* onEvent(): the next event is fed, its update dispatched.
OnEvent(eager) ==
  /\ cursor < Len(log)
  /\ LET e == log[cursor + 1]
         r == IF e.event = "tool_use" THEN FeedToolUse(e) ELSE FeedDelta(e)
     IN /\ pending' = r.pending
        /\ settled' = r.settled
        /\ IF r.update = None THEN UNCHANGED <<queue, index, emitted>>
           ELSE Dispatch(r.update, eager) /\ emitted' = Append(emitted, r.update)
  /\ cursor' = cursor + 1
  /\ UNCHANGED <<log, schema, updates, torn, crossed, resets, attaches>>

\* Mutant of ClearIndex: the positions are left as they are.
ClearIndexNot == index

ClearIndex == [id \in Ids |-> 0]

\* reset(): stream and index are cleared now, the list when React gets to it.
Reset ==
  /\ resets < MaxResets
  /\ pending' = [id \in Ids |-> None]
  /\ settled' = {}
  /\ index' = ClearIndex
  /\ queue' = Append(queue, SetOp(<<>>))
  /\ resets' = resets + 1
  /\ emitted' = <<>>
  /\ torn' = {id \in Ids : Fragments(id, cursor) # {}}
  /\ crossed' = (\E i \in 1..Len(queue) : queue[i].op = "put")
  /\ UNCHANGED <<log, cursor, schema, updates, attaches>>

\* useAgentSession attaches again (a new token), with no resumeFromEventId: all
\* events are delivered once more, to the same stream and list.
Reattach ==
  /\ attaches < MaxAttach
  /\ cursor > 0
  /\ cursor' = 0
  /\ attaches' = attaches + 1
  /\ torn' = {id \in Ids : pending[id] # None}
  /\ UNCHANGED <<log, schema, streamVars, hookVars, emitted, crossed, resets>>

Next ==
  \/ \E id \in Ids : EmitToolUse(id) \/ \E named \in BOOLEAN : EmitDelta(id, named)
  \/ LoadSchema
  \/ \E eager \in BOOLEAN : OnEvent(eager)
  \/ \E passes \in 1..2 : Render(passes)
  \/ Reset
  \/ Reattach

Spec == Init /\ [][Next]_vars

\* Events that arrived are dispatched, and React renders what it accepted: only
\* OnEvent advances the cursor and only Render empties the queue, so each is
\* named by its effect.
Delivered == cursor < Len(log) /\ cursor' = cursor + 1
Rendered == queue' = <<>>

FairSpec == Spec /\ WF_cursor(Delivered) /\ WF_queue(Rendered)
-----------------------------------------------------------------------------
(* Properties.                                                             *)

\* The list is to be cleared.
Resetting == \E i \in 1..Len(queue) : queue[i] = SetOp(<<>>)

\* A settled call has no buffer, a buffer is of a call that was given a
\* fragment; a reset() that crossed updaters leaves holes and positions past
\* the number of calls, and the next one clears them.
TypeOK ==
  /\ cursor \in 0..Len(log) /\ schema \in BOOLEAN
  /\ \A id \in Ids : pending[id] # None => id \notin settled /\ pending[id] \in Buffers
  /\ settled \subseteq Ids
  /\ \A i \in 1..Len(updates) :
       IF updates[i] = None THEN crossed \/ Resetting ELSE updates[i] \in Updates
  /\ \A i \in 1..Len(queue) :
       \/ queue[i].op = "put" /\ queue[i].update \in Updates
       \/ /\ queue[i].op = "set"
          /\ crossed \/ Resetting \/ Len(queue[i].list) \in 0..Cardinality(Ids)
  /\ index \in [Ids -> Nat]
  /\ crossed \/ \A id \in Ids : index[id] \in 0..Cardinality(Ids)
  /\ \A i \in 1..Len(emitted) : emitted[i] \in Updates
  /\ torn \subseteq Ids /\ crossed \in BOOLEAN
  /\ resets \in 0..MaxResets /\ attaches \in 0..MaxAttach

\* An update is the latest of its call; the first update of one call came
\* before that of another.
IsLatest(E, u) ==
  \E k \in 1..Len(E) : E[k] = u /\ \A l \in (k + 1)..Len(E) : E[l].id # u.id
Before(E, id, other) ==
  \E k \in 1..Len(E) : E[k].id = id /\ \A l \in 1..k : E[l].id # other

\* A list is the latest update of each call, in arrival order.
LatestPerCall(E, list) ==
  /\ \A i \in 1..Len(list) : IsLatest(E, list[i])
  /\ \A k \in 1..Len(E) : \E i \in 1..Len(list) : list[i].id = E[k].id
  /\ \A i, j \in 1..Len(list) : i < j => Before(E, list[i].id, list[j].id)

\* useGenerativeUI.ts:29: when React has applied all it accepted, the list is
\* the latest update of each call, in arrival order; over updaters that run
\* early, late or twice, calls that interleave, events delivered again and
\* resets, except one that found updaters still to run.
LatestInArrivalOrder ==
  queue = <<>> /\ ~crossed => LatestPerCall(emitted, updates)

\* What is shown of a call is a prefix of its input, or all of it, whatever
\* other calls stream meanwhile and whenever its name and the schema come.
ShowsPrefix ==
  queue = <<>> =>
    \A i \in 1..Len(updates) :
      LET u == updates[i]
      IN u # None /\ u.id \notin torn => IsPrefix(u.props, Whole) /\ (u.complete => u.props = Whole)

ShownComplete(id) ==
  \E i \in 1..Len(updates) : updates[i] # None /\ updates[i].id = id /\ updates[i].complete

\* A step leaves what is shown complete complete, but for a list to be reset.
CompleteStep ==
  \A id \in Ids : ShownComplete(id) /\ ~crossed /\ ~Resetting => ShownComplete(id)'

\* A call that is shown complete stays so until the list is reset: fragments
\* delivered again do not bring a partial one back.
CompleteStays == [][CompleteStep]_vars

\* The final input of a call that matches by schema and by prefix is still to
\* be delivered.
FinalAhead(id) == \E i \in cursor + 1 .. Len(log) : log[i] = ToolUseEvent(id)

\* Such a call is shown complete in the end, unless the user resets.
EventuallyShown ==
  \A id \in Registered \cap Prefixed, n \in 0..MaxResets :
    (FinalAhead(id) /\ resets = n /\ ~crossed) ~> (ShownComplete(id) \/ resets > n)
-----------------------------------------------------------------------------
(* What the documentation says, and the code does not do.                  *)

\* useGenerativeUI.ts:29, also after a reset() that crossed updaters: those put
\* positions of the old list into the cleared index.
LatestAlways == queue = <<>> => LatestPerCall(emitted, updates)

\* generative-ui.mdx:33, "fetches the schema, taps the wire-event stream, and
\* dispatches each matching tool_use": a call delivered before the schema is
\* matched by the client's prefix, and if that differs it is never shown.
MatchingIsShown ==
  \A id \in Registered :
    (queue = <<>> /\ resets = 0 /\ ToolUseEvent(id) \in {log[i] : i \in 1..cursor})
      => ShownComplete(id)

\* stream.ts:118, "buffer eagerly and try to attach later": a name that comes
\* with a later fragment is not attached.
LateNameAttached ==
  \A id \in Ids :
    (/\ schema /\ id \in Registered /\ pending[id] # None
     /\ \E i \in Fragments(id, cursor) : log[i].named /\ log[i].chunk > 0
     /\ resets = 0 /\ attaches = 0)
      => pending[id].named
=============================================================================
