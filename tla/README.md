# Verification of agent-webkit

agent-webkit puts a Claude Agent SDK session behind HTTP: a Python server
(`packages/agent-webkit-server`) runs one SDK client per session and streams its events over
SSE; a TypeScript core (`packages/core`) reads the stream and reconnects; a React
hook (`packages/react`) turns it into UI state, including the prompts with which
the SDK asks the user for permission. An optional Postgres store persists
transcripts. This directory holds TLA+ models of those parts, TLC configurations
that check them, and theorems that the TLA+ proof system proves about them.

`PROJECT.json` is the index: the source lines of every definition (`map`), the
runs, the mutants, the hazards and the theorems. Source paths below leave out
`src/packages/agent-webkit-server/src/agent_webkit_server/` for the server.

## 1. The system

### Components, state, operations

| Component (source) | State | Operations | Module |
|---|---|---|---|
| Event log (`event_log.py`) | a ring of the newest events, the next number, waiters, `closed`; per subscriber a cursor and a snapshot | `append`, `subscribe`, `close` | EventLog, abstract EventFeed |
| Permission router, `can_use_tool` (`sdk_bridge.py`) | futures by correlation id | `register`, `resolve`, `has_pending`, `cancel_all`, the callback | PermissionRouter, abstract FirstReplyWins |
| Session (`session.py`, class Session) | inbound queue, gate `_turn_done`, two tasks, `_closed` | `submit_user_message`, send loop, receive loop, `close`, `interrupt` and setters | Session |
| Registry (`session.py`, class SessionRegistry) | the sessions, the reaper task | `create`, `get`, `remove`, reaper, `shutdown` | Registry |
| HTTP adapter (`adapters/fastapi.py`) | nothing of its own | the endpoints; the SSE generator with its keepalive | Stream (stream endpoint); the others are actions of the modules they call |
| Transport and client session (`core/src/transport.ts`, `session.ts`) | `lastId`, backoff, abort signal | `streamEvents`, `events()`, calls | Stream, SSEParser, Mount |
| Hook and reducer (`react/src/useAgentSession.ts`, `reducer.ts`) | status, one pending permission, one pending question; the effect's session, messages, cost | events, `send`, `approve`, `deny`, `answer`; the effect, its cleanup, `close` | Tabs (prompts), Mount (effect, transcript) |
| Postgres store (`adapters/pg_session_store.py`) | entries, summaries, advisory locks | `append`, `delete`, `load`, the listings | PgSessionStore |
| SSE parser (`core/src/sse.ts`) | a buffer, the fields of a frame | `feedSSE` | SSEParser |
| GenUI stream and hook (`core/src/genui/stream.ts`, `useGenerativeUI.ts`) | a buffer per tool use, the settled ones; the list, React's queue for it, an index | `feed`, `loadSchema`, `onEvent`, `reset` | GenUI |
| Partial JSON (`core/src/genui/partial-json.ts`) | none | a pure parser, called with every fragment | PartialJSON |
| Auth, models, GenUI registry, entry points, examples, docs | none that changes while serving | – | not modelled |

### How they interact

- A `user_message` request looks its session up, reads its body and puts the
  message on the queue. The **send loop** takes it off, waits for the gate and calls
  `client.query()`. The **receive loop** reads the SDK's messages and appends events;
  a `result` opens the gate.
- The SDK calls `can_use_tool`, which registers a future, appends a prompt event and
  awaits the future. Any browser tab may answer; the endpoint resolves the future, or
  answers 409.
- Every tab has a generator of the event log behind its SSE response. A tab that loses
  its connection sends `Last-Event-ID` and goes on, or gets 412.
- `DELETE`, the reaper and shutdown remove a session from the registry and run
  `Session.close()`: cancel the prompts, join the loops, disconnect, append `done`,
  close the log.
- The reducer of each tab sees the events of the stream and the results of that tab's
  own calls, in whatever order these two arrive.

### Where it is hard, and what correct means

- **Event log.** asyncio interleaves appends with generators that iterate over a
  snapshot, wait, or have been abandoned; the ring moves under all of them. Correct: each
  subscriber gets events in order and once, skips only what was evicted, is never left
  asleep for good, and is refused only if its next event is gone.
- **Router.** Several tabs reply to one prompt, to the wrong one, twice, or after the
  callback was cancelled; the session closes in between. Correct: the first reply
  decides, a tool runs only on an allow in a reply that named its id, closing releases everybody.
- **Session.** Two loops, a gate and a bounded queue under cancellation at any await.
  Correct: one turn at a time, nothing lost or overtaken, no deadlock of the gate after a
  failure, nothing written after `done`.
- **Registry.** Lists computed before an await and used after it; `remove` by three
  parties; a cancellation that is swallowed or cuts a close short. Correct: one closer per
  session, idle sessions go, shutdown ends.
- **Stream.** Frames lost with the connection, a wire that holds the server up, a ring
  that rolls on between pre-flight and stream, a timeout that cancels a generator.
  Correct: seen once, in order, without a hole the server could have filled.
- **SSE parser.** Chunks end anywhere, between CR and LF too; frames come in several forms; a
  connection breaks inside one. Correct: the events handed over are those sent, once and in
  order, each with the chunk that completes it.
- **Tabs.** HTTP answers race events; two tabs race each other; calls fail; pages
  reload. Correct: the newest prompt of a kind is shown, one that waits stays on the screen, one
  tab is told it won.
- **Mount.** StrictMode runs the effect twice, dependencies change, `createSession()` answers
  late or never, events of an old stream are still being handed over, and the reducer state
  outlives all of it. Correct: one stream is live, messages are reconciled by id, costs and
  tool results are counted once.
- **GenUI.** Inputs of several tool calls arrive in interleaved fragments, with or without
  the tool's name, before or after the schema, and once more after a re-attach; React runs
  updaters early, late or twice, and they write an index that `reset()` clears at once.
  Correct: the list is the latest update of each call in arrival order, what is shown of a call
  whose fragments came whole and once is a prefix of its input, a complete call stays complete.
- **Partial JSON.** A number may go on, an escape may be cut in half, a key has no value yet,
  text that is no JSON may follow. Correct: what is shown is what can no longer change, and is
  not taken back.
- **Postgres store.** Concurrent read-fold-write under locks, retries, rollbacks, a
  bounded pool. Correct: the summary is the fold of what was committed and the
  transcript its input without repeats, listings agree, a reader's transcript only grows at the end, nobody waits forever.

The `hazards` of `PROJECT.json` name these line by line with the properties that
would catch each going wrong.

## 2. The modules

| Module | What it is |
|---|---|
| EventFeed | abstract: numbered events with retention, readers that are refused or read in order |
| EventLog, EventLogProofs, MCEventLog | the event log; implements EventFeed |
| FirstReplyWins | abstract: one-shot prompts decided by the first reply that names them |
| PermissionRouter, EndpointProofs, MCPermissionRouter | router, callback and replies; implements FirstReplyWins |
| Session, SessionProofs, MCSession | queue, loops, gate, close() |
| Registry, SessionProofs, MCRegistry | create, remove, reaper, shutdown |
| SSEParser, SSEParserProofs, MCSSEParser | the text of a stream: parser, chunks, broken connections |
| Stream, EndpointProofs, MCStream | composes EventLog (INSTANCE) with the endpoint, the wire and the client |
| Tabs, TabsProofs, MCTabs | composes the server's turns and prompts with several reducers and hooks |
| Mount, MountProofs, MCMount | the effect of the hook, its client sessions, transcript and cost |
| GenUI, GenUIProofs, MCGenUI | the stream of tool inputs, the schema, the hook's list under React |
| PartialJSON, MCPartialJSON | what is shown of an input that has come in part |
| PgSessionStore, PgSessionStoreProofs, MCPgSessionStore | the store's transactions over Postgres |

**The unit of a step.** Server code is asyncio: one task runs at a time, so an action is
the code between two suspension points (`await`, `yield`). Where a task is suspended is a
variable (`pc`, `call`, `send`, `recv`, `phase`, `server`). In the browser a step is one
dispatch or one call. In Postgres it is one statement. Operators named as mutants (their
comments say "Mutant of") are faulty variants of the definition that follows them; they
are not part of the specification, and `PROJECT.json` says which property each must break.

**EventLog** ↔ `event_log.py`. `AppendEvent` is `append` (push on the bounded deque, set
the waiters, prune the list); `CloseLog` is the end of `Session.close()`, which appends
`done` and closes with no suspension between. `Subscribe` is the first step of a generator:
eviction check, snapshot, run to the first `yield` or wait; its cursor may lie beyond the last
event, as the endpoint takes any number for a `Last-Event-ID`. `Resume` goes on over the *old*
snapshot; `Wake` takes a new one; `Cancel` is `aclose` or a cancelled `__anext__`. An event
is its number. EventFeed is instantiated with the cursors its readers may name (`Cursors`).

**PermissionRouter** ↔ `sdk_bridge.py`. `Ask` is the callback up to its await, `Return`,
`Raise` and `Abandon` how the await ends, `Post` an HTTP reply (look-up and `resolve`
without a suspension), `CancelAll` and `CloseLog` the two ends of `close()`. `Results` is what a
reply sets: a `permission_response` a mapping with its behavior, a `question_response` its answers
as they are, a mapping with any behavior or none, or no mapping at all. `Outcome` is what the callback
makes of it. The table does not know the kind of a prompt, so answers that name a permission and
have `behavior: "allow"` are an allow (`AnsweredInKind`); other answers are a deny, or raise.

**Session** ↔ `session.py:60-230`. `Post`/`Submit` are a request before and after its body
is read, `Take`, `Pass`, `QueryTaken`, `QueryReturns`, `QueryFails` the send loop,
`Result`, `StreamEnds`, `StreamRaises` the receive loop, `CloseStart` to `Closed` close().
`interrupt`, `set_model`, `set_permission_mode`, `stop_task` forward to the SDK and touch
the session; an interrupted turn ends with a `Result` like any other.

**Registry** ↔ `session.py:231-300`. `RemoveSession` pops the session and is shared by `Delete`,
`Sweep`/`ReapNext` and `ShutdownList`/`ShutdownNext`. `ShutdownStart` cancels the reaper,
with the three outcomes the code has: asleep it ends; waiting for the loops of a session it
swallows the cancellation (close() catches it) and goes on; in `disconnect()` it ends and
leaves that close() unfinished (`cut`).

**Stream** ↔ `fastapi.py` (stream), `transport.ts`, `core/src/session.ts`. `Respond` is the
pre-flight, `Open` the first step of the response body, `Advance` the next event,
`KeepaliveTimeout` the `wait_for` that cancels `__anext__`; `Read`, `Eof`, `Reconnect`,
`Drop`, `Detach` the client. A first connection sends no id and can get no 412.

**SSEParser** ↔ `sse.ts`, `transport.ts`. A text is a sequence of tokens, and a chunk may end
after any of them. `feedSSE` and `TakeLine` are the parser, `Connect`, `Read`, `Break` the loop around
it: the parser starts anew with every connection, and `lastId` is the id of the last event
handed over. `TakeLines` is the loop of `feedSSE`, `Turn` one turn of it. `LinesOf` and `Encode` are the
other side: the frames the server writes, and the forms the parser is written for (CR LF,
comments, unknown fields, an id at the end). What a frame and a form may be is an assumption
(`FrameAssumption`, `FormAssumption`): values of one line, ids that are told apart, an event with
an id. What the server leaves out of the next response is by number, as in Stream.

**Tabs** ↔ `reducer.ts`, `useAgentSession.ts`. `Reduce` and `Resolved` are the reducer's
cases that touch status and prompts; the hook's calls are `Send`, `Reply`, `Ack`,
`Conflict`, and the faults `CallFails`, `SendFails`, `Reload`. The server side keeps what a
tab can tell: turns, log, waiting prompts, and `CloseStart` and `Done`, the two ends of a close(). Streams deliver in order and without a gap, which
Stream justifies for a client the ring does not overrun.

**Mount** ↔ `useAgentSession.ts`, `session.ts`, `reducer.ts`. `EffectCreate`, `EffectAttach`, `Created`,
`CreateFails`, `Cleanup` are the effect, the two sides of its await and its cleanup; a run keeps the
`aborted` flag of its closure, and `ref` is `sessionRef`. `Chunk` and `Deliver` are the stream handing
over what it has read, event by event, `Ends` and `Fails` its ends, `Reduce` the reducer's cases for
transcript, cost and status. `AttachAgain` is the effect run again, from the last event shown or, by a
new token with the `resumeFromEventId` prop unchanged, from any before it (a replay). `latest`
is history: the event about a message that was dispatched last. Sessions emit one script of events; text is a sequence of pieces.

**GenUI** ↔ `genui/stream.ts`, `useGenerativeUI.ts`. `FeedDelta` and `FeedToolUse` are the two
branches of `feed()`, `Matches` is `matchToolName`, `Place` the state updater. `OnEvent` feeds an
event and hands the updater to React, which is external: it may run the first updater at
once (`Dispatch`), and `Render` applies the queue, twice to the same list in StrictMode. `Reset`
clears stream and index and enqueues the empty list. An input is a sequence of fragments, the
first of them empty; what the partial-JSON parser shows is a function of the text so far. The
server emits `tool_use`; fragments are what its reserved branch and the client's tests say.

**PartialJSON** ↔ `partial-json.ts`. The scan's state is a record, one operator per kind of
character (`OpenBracket`, `CloseBracket`, `Comma`, `Colon`, `String`, `Literal`); `Candidate` closes the
brackets of a checkpoint. `JSON.parse` is external (`JSONparse`). Documents are trees, `Encode`
writes them, and the reference is `Final`, the part of the tree that n tokens fix. A number
or literal at the root is left out, as no tool input is one.

**PgSessionStore** ↔ `pg_session_store.py`, `_summary_bridge.py`. One action per statement
of `append` and `delete`, `Commit` and `Fail` for the end of the transaction. Postgres is
external, at read committed: a statement that meets an uncommitted conflicting row waits,
advisory locks last to the end of the transaction. The fold is kept as the sequence of
entries it was given. `LockKey` is `hash()` in each process, and need not agree
between two. `ProcOf` says which process serves a request; `StickyRouting`, that one serves a session.

## 3. What is checked

Runs that pass, one per component. `GenUI` also checks its type invariant; those of the modules
with proofs are proved, and that of PartialJSON would say nothing that the
properties do not.

| Run | Instance | Shows |
|---|---|---|
| EventLog | 2 subscribers, ring 2, 5 events, cursors from 0 to 5 | `InOrderOnce`, `OnlyEvictedSkipped`; `ImplementsFeed` (refinement); `CloseEndsSubscribers` (liveness) |
| PermissionRouter | a tool and a question, 3 replies | `OneWinner`, `RunsOnlyOnAllow`, `AnswerableWhileWaiting`; `ImplementsPrompts` (refinement); `ReleasedOnClose` (liveness) |
| Session | 4 messages, queue 2 | `OneTurnAtATime`, `NothingLost`; `Answered`, `CloseCompletes` (liveness) |
| Registry | 2 sessions | `OneAtATime`; `ClosedOrCut`, `IdleGoes`, `ShutdownCompletes` (liveness) |
| Stream | ring 2, wire 2, 6 events, 2 broken connections | `SeenOnceInOrder`, `SeenAllRetained`; `EventuallySeen` (liveness) |
| Tabs | 2 tabs, 2 permissions, 1 question, 3 events, 1 message, 1 fault, a close() | `OnlyNewestShown`, `WaitingStaysOnScreen`, `OneTabTold` |
| GenUI | 2 calls of 3 fragments, one outside the schema, 4 events, 1 reset, 1 re-attach | `LatestInArrivalOrder`, `ShowsPrefix`, `CompleteStays`; `EventuallyShown` (liveness) |
| PgSessionStore | 4 appends, 1 delete, 2 sessions on 2 processes, whose locks collide, pools of 2, 2 instants | `SummaryIsFold`, `LoadIsMerged`, `ListingsAgree`, `LoadGrowsAtEnd`; `OpsEnd` (liveness) |
| SSEParser | 3 frames, each in one of 4 forms, 1 broken connection, every way to cut | `OnceInOrder`, `NothingHeldBack` |
| PartialJSON | some 100 documents in 2 layouts, every prefix, 1 fragment that need not continue it | `ShowsFinalPart`, `NeverTakenBack` |
| Mount | 2 runs of the effect, 2 sessions, 7 events, chunks of 1, 1 message, 1 replay from any earlier event | `OneLiveStream`, `Reconciled`, `CountedOnce` |

The state spaces: EventLog 84,221 distinct states, PermissionRouter 24,192, Registry 7,312, Stream
30,004, Tabs 1,177,534, PgSessionStore 112,250, Mount 688,586.

`IdleGoes` speaks of sessions that nobody streams; that a streamed one stays is `StreamKeepsWarm`, which
the code violates (below). `ShowsPrefix` leaves out a call whose fragments came twice or in part, `CountedOnce`
a hook that replays, and `ShutdownCompletes` begins once the reaper has gone: the `hazards` these leave open
are listed with a note.

A run in which the code does not do what a comment says; TLC finds its one property violated:

| Run | Property | What happens |
|---|---|---|
| EventLog_blocking | `BlocksOnlyWhenCaughtUp` | `append` between the drain of a snapshot and the registration of the waiter: the generator sleeps on an unread event |

EventLog_blocking meets a divergence of the stream endpoint listed below, `KeepaliveKeepsOpen`, in
`EventuallySeen`, which holds *because* of that one: the generator that the keepalive timeout
cancels forces a reconnection, and that finds the event the lost wake-up had left behind. A fix
of one without the other would lose liveness.

### Known divergences that are stated but are not runs

Stated at the end of their modules, violated by the code; put the name in place of the
properties of the run given, under `INVARIANT` or `PROPERTY`, to see the trace.

- `EventLog!ResumeHasNoGap` (EventLog_blocking): `concepts.mdx:87` promises everything after
  the cursor or 412; a subscriber slower than the ring skips without an error, because
  eviction is checked once.
- `EventLog!EndsWithDone` (EventLog_blocking): `wire-protocol.mdx:60` promises a final `done`;
  a generator whose snapshot is older than `done` returns without it. In Stream the client
  then reconnects and gets 404, its session having left the registry.
- `PermissionRouter!AnsweredInKind` (PermissionRouter): `wire-protocol.mdx:89`, a `permission_request`
  awaits a `permission_response`; the answers of a `question_response` that names a permission are
  passed to the same future, and `behavior` is read from them.
- `Session!SendLoopExits` (Session): the comment at `session.py:108-109` opens the gate "so the
  send loop can exit promptly" when the receive loop stops; the send loop goes back to `get()`
  and waits there, since only `_closed` ends it.
- `Session!OneInFlightQuery` (Session): `concepts.mdx:20`; when the receive loop crashes,
  the gate opens while the SDK is still in a turn.
- `Stream!KeepaliveKeepsOpen` (Stream): `deployment.mdx:74` says the keepalive frame keeps the
  connection warm; the timeout cancels the generator, so that the stream ends after its first
  keepalive, and the client reconnects.
- `Registry!StreamKeepsWarm` (Registry, with `SPECIFICATION RegistrySpec`): `deployment.mdx:30`; a session
  somebody watches is evicted, as streams do not count as activity.
- `Registry!EvictedOnlyIdle` (Registry): `concepts.mdx:15`; the reaper's list is stale
  after its first close().
- `Tabs!DecidedIsCleared` (Tabs): `permissions.mdx:85` says both tabs clear the prompt; no
  event tells the losing tab.
- `Tabs!IdleUntilSend` (Tabs): `react-api.mdx:77-81`; a 204 that comes after the turn's `result`
  sets an idle tab to `streaming`.
- `Mount!OneSessionPerMount` (Mount): `useAgentSession.test.tsx:5`; a StrictMode mount creates two
  sessions on the server, one of which nobody uses or closes.
- `Mount!CloseIsFinal` (Mount): `useAgentSession.test.tsx:8`; `close()` while `createSession()` is in
  flight does nothing, and the stream opens afterwards (`closedRef` is written and never read).
- `Mount!FatalIsShown` (Mount): `react-api.mdx:80`; a `createSession()` that rejects is a promise nobody
  awaits, and the status stays as it was.
- `GenUI!LatestAlways` (GenUI): `useGenerativeUI.ts:29` promises the latest update of each call in
  arrival order; after a `reset()` that finds updaters still to run, these put positions of
  the old list into the cleared index, and a card overwrites another or leaves a hole.
- `GenUI!MatchingIsShown` (GenUI, with a registered call that has not the prefix):
  `generative-ui.mdx:33` promises each matching `tool_use`; one that comes before the schema
  is matched by the client's own prefix and dropped for good if that differs.
- `GenUI!LateNameAttached` (GenUI): `stream.ts:118` buffers "and try to attach later"; a name in a
  later fragment is never attached.
- `PgSessionStore!NoBatchLost` (PgSessionStore, with `ProcOf <- TwoProcs`, `Ops = {"first", "more"}`,
  `Deletes = {}`, `Keyed = {"a", "b"}` and `SPECIFICATION Spec`): `pg_session_store.py:144-146`; `hash()` is
  seeded anew in every process, so that two of them take two locks for one session, and a batch
  vanishes from the summary.
- `PgSessionStore!ReappendIsNoOp` (PgSessionStore, with `Ops = {"first", "retry", "sub"}`, `Deletes = {}`,
  `Keyed = {"a", "b", "x"}` and `SPECIFICATION Spec`): the module docstring says re-appending a uuid is a
  no-op; the entries are folded again and the summary's mtime moves.

Two more, found while modelling and not contradicted by any text: a reaper that waits for
the loops of a session swallows shutdown's cancellation, and `shutdown()` then waits for it
for ever (`ShutdownCompletes` therefore begins once the reaper has gone); and a session whose
factory returns while shutdown runs is entered and never closed.

### Bounds, and why they are enough

- *Ring of two.* The ring is empty, partly full, full and rolling; with five or six events it
  rolls past a parked, a yielded and a resuming subscriber, by one event and by more. One
  number is kept for `done`, so the log can always close.
- *Two subscribers* share nothing but the list of waiters; two show that waking one does not
  lose the other. The proofs cover any number.
- *Queue of two, four messages.* One in `query()`, one at the gate, two queued: a full queue,
  a refusal and an overtaking are all possible.
- *Two calls, three replies* with every id and every result of either request: a winner, a
  loser, and a misdirected reply. Ids that the SDK reuses are covered by the theorems, which do not assume
  `UniqueIds` except where said below.
- *Two sessions:* one the reaper is closing, one on its list that is touched, deleted or
  found by shutdown. The safety theorems hold for any set.
- *Two tabs, two prompts of one slot and one of the other, one fault:* a late ack over a newer
  prompt, both slots full, a race, a lost response, a reload from the start or from the stored
  id. Tabs and prompts of a kind are interchangeable, hence the symmetry; no liveness is
  checked in that run.
- *Two tool calls, four events, one reset, one re-attach:* a whole input with its fragments, or two calls
  whose fragments interleave, delivered twice, with the list cleared in between; one tool matches by
  prefix until the schema, which lacks it, arrives.
- *Three frames in four forms, one break:* every pair of forms is adjacent, every token can end a
  chunk, and the connection may break in each frame, in a name, before a line end, between CR
  and LF. What a break leaves is over with the next connection, so a second one meets nothing new.
- *Documents:* all arrays and objects of at most two items out of numbers with two digits and a
  sign, a literal, strings with brackets, commas and escaped quotes, and containers up to three
  levels; any one token, an invalid escape or an empty item may come at any point.
- *Two runs of the effect, two sessions, one replay:* both runs create, one creates and one
  attaches, both attach to one session, the second from any event up to the last shown; the older answers before, between or after. The
  script interleaves two messages, one of which is cut short, with a tool call, a tool
  result and a cost. Chunks are of one event: a
  chunk of which a part was handed over is one handed over and another in hand. The theorems hold for any
  number of runs, chunk and script.
- *Five operations, two processes with a pool of two each, two instants:* two main appends (one
  repeats an entry of the other), a subagent's, a delete, and an append of another session by the
  other process, whose key for it is that of the first session here; every prefix may be
  rolled back.
- Counters of the models (`MaxSeq`, `MaxDrops`, `MaxLog`, `MaxSends`, `MaxFaults`, `MaxClock`, `MaxResets`,
  `MaxAttach`, `MaxBreaks`, `MaxGarbage`, `MaxMounts`, `MaxSessions`, `MaxChunk`, `MaxReplays`) are guards of the actions they bound. `CHECK_DEADLOCK FALSE` is set where the system stops
  when its bounded supply of events, messages, operations or replies is used up; Registry
  never stops and is checked for deadlock.

### Fairness

Only what the schedulers give: the event loop runs tasks that can run (`Step`, `Return`,
`Raise`, `SendStep`, `CloseStep`, `CloserStep`, `ReaperStep`, `ShutdownStep`, `ServerStep`); the SDK takes or
refuses a query and answers those it took, and `disconnect()` returns; backoffs, keepalive
intervals and the reaper's sleep pass; Postgres executes statements and grants an advisory
lock in the order of requests (strong fairness of `Lock`); React renders what it accepted, and
events that arrived are dispatched (`Rendered`, `Delivered`). Nothing is assumed of users,
writers, the network or shutdown: nobody has to append, send, reply, close, detach or begin.
Connections break at most `MaxDrops` times.

## 4. What is proved

The theorems hold for every value of the constants under the named assumptions on them
(a positive ring size and queue size, sentinels that are not members of the sets they are
told apart from, `IdOf` and `KindOf` total functions, and, for the store, `StickyRouting`).

- **EventLogProofs.** `IInv` = types, `RingIsTail` and `SubscriberInv`. Delivery in order is not
  inductive alone: a step yields from a snapshot, so one must know that every snapshot is
  a *window* — consecutive numbers, starting no later than today's oldest event — which in turn
  needs the ring to be the tail of the log. From it follow order, no hole, reachable waiters,
  justified refusals, `ResumesAtNext` (an accepted cursor continues with its successor), also for
  cursors beyond the last event, and,
  step by step, that EventLog implements EventFeed.
- **EndpointProofs, PermissionRouter.** `PromptInv` ties the table, the futures and the winners: an entry
  is of a call of its id, a future is set exactly when a reply to that id won it, and a
  decision is the outcome of the value set. It implies `OneWinner` and `RunsOnlyOnAllow`, for ids
  that may be reused and for replies of either kind to either prompt: what approves a tool is an
  accepted reply that named its id and has behavior allow, be it the answers of a question. `AnswerableWhileWaiting` and the refinement of FirstReplyWins assume
  `UniqueIds`: when an id is reused, `register` overwrites an entry and the first callback waits
  until it is cancelled by the SDK.
- **SessionProofs.** `SessionInv` holds its six parts together: the gate's meaning
  (`OneTurnAtATime`) needs to know what is in flight, conservation (`NothingLost`) where the held
  message is, and both are used by `EndsInOrder`.
- **SessionProofs, Registry.** The names of the two modules are told apart (`RegistryInit`,
  `RegistryNext`), so that one module proves about both. `RegistryInv` = types, `OneAtATime`, `ReaperFirst`. `OneAtATime` needs that only
  a removed session has a closer (types) and that shutdown removes only once the reaper is
  gone (`ReaperFirst`). `CloserKept` is an action property from the same invariant.

- **EndpointProofs, Stream.** The second of the endpoints a client talks to; the names of the router
  (`RouterInit`, `RouterNext`) are told apart from those of Stream, so that one module proves about both. `StreamInv` takes the event log's `IInv`, through an instance of EventLogProofs with
  the connection as its one subscriber, together with a cursor that is not beyond the log (`LogInv`: a
  client resumes only from what it has read), and adds what stands on the wire: ascending numbers
  after `lastId` (`WireInOrder`), and no retained number missing between what was seen, the wire and
  the generator's cursor (`WireHasNoHole`), which a new connection has only because `lastId` is
  the last frame *read*. From it follow `SeenOnceInOrder` and `SeenAllRetained`.
- **TabsProofs.** `TabsInv` adds three facts to the types: the name of an event goes with the kind of
  its prompt, a prompt some tab was told about is closed and was asked, and one tab was told.
  Without the second a stale answer could clear a prompt that waits.
- **MountProofs.** `MountInv` = types, `OneLiveStream`, and that `sessionRef` is a run which has a session.
  That all runs but the newest are aborted is part of the types of a run (`RunsOK`); a late
  `createSession()` finds its own flag set and leaves `sessionRef` alone.
  `TranscriptInv` adds why the transcript agrees with the script. The one run that is not aborted
  goes on where the last one stopped, or from the start when it replays (`Reader`); a session no
  run is of has contributed nothing (`Untouched`); the event about a message that was dispatched
  last (`latest`, which a replay may set back) is what is shown of it (`LastKept`); without a replay all of a session's messages are what its events up to `pos`
  come to (`InOrder`, over `Streamed`, the fold of the script); and costs and results are those
  of the positions read (`CountedOnce`). From it follows `Reconciled`, with one assumption on
  the script, `DeltasAssumption`: deltas read in order grow into the whole message, which is what
  the model's API promises. TLC evaluates it on the script of the run.
- **PgSessionStoreProofs.** Processes may compute any locks, and those of two need not agree, as
  `hash()` is seeded in each. What is assumed is `StickyRouting`, that the requests of a session go to
  one process, which `deployment.mdx:103` asks for when there are several; `NoBatchLost` shows
  that it is needed, and a session moved from a process that still has a transaction under way is
  outside it. Two operations of a session then ask for one lock, and an operation past its lock is alone in its
  session (`Alone`), so a step of another leaves untouched what it has read or prepared
  (`Frame`), and `Ready` — the summary read is the one committed, the fold extends what was
  merged, every row it wrote has a number above those visible, what a delete took is all
  there is — holds until it commits. From it follow `SummaryIsFold`, `ListingsAgree` and
  `LoadGrowsAtEnd`. `LoadIsMerged` needs more, as rows become visible together at the commit while
  they are numbered one by one: `Placed` says of a batch under way that the rows it wrote are
  those of the places that count in what was merged with the batch behind it (`NewPlaces`: entries
  without a uuid, and those with one at its first place). That the rows of a key can be listed in
  the order of their numbers is an existence (`Listed`), which joins at a commit (`ListedJoin`).
- **GenUIProofs.** The rendered list says little between renders: React may hold updaters back,
  run the first at once, or run them all twice over a shared index. The invariant is therefore
  about `Coming`, the list and index that the whole queue makes of the rendered ones. A new
  update does to `Coming` what the updater says, whether React takes it at once or not
  (`DispatchPlaces`); a render makes it the rendered list and does not change it, also when the
  updaters run twice, as a position once given stays (`PositionStays`, `SecondRun`); a reset
  empties it. `ListInv` then says that an entry of `Coming` is where the index says and is the
  latest update of its call (`Fresh`, also of a list with holes), that without crossed updaters
  `Coming` has no hole and is in arrival order (`Tidy`), and that what is rendered complete is
  complete in it. `StreamInv` is about the buffers: a fragment carries the number of those before
  it (`Numbered`), a call that was not torn has all of them in its buffer (`Buffering`), and the
  last update of a call is final or of a buffer that is still there (`Emitting`), without which a
  call that leaves `torn` could show a torn input. The proof found the type invariant too
  narrow: with two resets a hole outlives the flag `crossed` until the second is rendered, and the
  run has one reset only. Both invariants were checked by TLC with two resets first.

- **SSEParserProofs.** For every list of events, every set of forms, every way to cut a response and
  any number of breaks. `ParserInv` says that the parser is where the text read has brought it
  (`Reader`): the lines of the response divide into those taken, whose fold gives the events handed
  over and the frame begun, and those to come, whose text begins in the buffer. It needs four
  facts, each a lemma. A text divides in one way into lines and a rest without a line end
  (`TextSplits`, `LinesBegin`), so a chunk that ends anywhere completes the same lines as the whole would;
  the loop takes exactly these, in order (`TakesItsLines`), and to take them in two calls is to take
  them in one (`FoldedConcat`, `FoldedOut`); the lines of a frame in any of its forms hand over that
  frame and leave nothing (`FrameTaken`), and hand over nothing before the last (`FrameTaking`); and what
  waits in the buffer is shorter than the line it is part of (`BufferShort`), so the frames complete in
  what was taken are those that have come (`ArrivedIsComplete`). `Received` then brings `lastId` along: it
  stands for as many events as were handed over, which is what the next connection asks for.
  From `ParserInv` follow `OnceInOrder` and `NothingHeldBack`. `FormAssumption` lets a form add only
  lines the parser skips, blank ones only before a frame; `Fits` asks that a value which begins
  with a space has another before it, as the parser drops one.

`RefusedOnlyIfLost`, `NoLostWaiter`, `ResumesAtNext`, `EndsInOrder`, `LoopsEndFirst`, `CloserKept` and the
type invariants are proved and not properties of a run; what they say of the instances is
covered there by `ImplementsFeed`, `CloseEndsSubscribers`, `NothingLost` and `OneAtATime`.

Model-checked only: liveness (TLAPS has no rule for fairness and ENABLED here), and PartialJSON,
whose parsers and documents are recursive over data. What the theorems need of recursion over
numbers (React's queue, the script, a batch, the lines of a buffer) is written as recursive functions, and proved by the least-number argument
(`LeastNumber`, `Climb`). The modules with proofs have no recursive operator.

## 5. Not modelled

- Payloads beyond what a property tells apart. Events are numbers (EventLog, Stream), names with a
  prompt (Tabs), fragments of an input (GenUI), tokens (SSEParser, PartialJSON) or blocks of text
  pieces (Mount). JSON of an event is parsed whole by the engine.
- `interrupt` and the setters beyond what they do to a turn: they forward to the SDK.
- Authentication, request validation, the app's factory set-up, `genui.py`: no state that
  changes while serving.
- Backoff times, the 15 s, 30 s and 5 min: "some time".
- The SDK and Postgres are external and modelled by what the code relies on.
- In PartialJSON, an input whose beginning was lost, and the `\u` escapes among the escapes.
- In Mount, connections that break (Stream) and prompts (Tabs).

## 6. Plan

What is left, in order:

1. A composition of Session and Registry, in which `disconnect()` and the loops are those of
   Session, to state the shutdown hang at its source.
2. A composition of SSEParser and Stream, in which a frame of the one is a text of the other:
   `Reader` is the invariant that would join them.
