------------------------------- MODULE Session -------------------------------
(***************************************************************************)
(* One session (session.py): HTTP handlers put user messages on a bounded  *)
(* queue; the send loop takes them off and calls client.query(), one turn  *)
(* at a time, behind the _turn_done gate; the receive loop opens the gate  *)
(* when the SDK reports a result; close() cancels both loops, waits for    *)
(* them, disconnects and closes the event log.                             *)
(*                                                                         *)
(* One step is the code a task or a handler runs between two suspensions.  *)
(* The SDK is external: it takes a query or raises, answers each query it  *)
(* took with one result (an interrupted turn too), and its stream may end  *)
(* or raise.                                                               *)
(***************************************************************************)
EXTENDS Naturals, Sequences, SequencesExt

CONSTANTS Msgs,      \* user_message requests
          QueueCap,  \* maxsize of _inbound, 128 in the code
          None       \* not a message

ASSUME CapAssumption == QueueCap \in Nat \ {0}
ASSUME NoMessageAssumption == None \notin Msgs

VARIABLES
  inbound,   \* _inbound
  turnDone,  \* _turn_done: the gate is open
  send,      \* where the send loop is suspended: in _inbound.get() ("get"),
             \* at the gate, in query() before and after the SDK took the
             \* message ("query", "taken"); "ended"
  held,      \* the message it holds, or None
  recv,      \* the receive loop: "running", "ended"
  phase,     \* "open"; in close(): "joining" the loops, "disconnecting"; "closed"
  post,      \* each request: "unsent", "reading" its body, then "accepted"
             \* (204), "refused" (503), "gone" (404)
  sdk,       \* external: the SDK process, "up" or "gone"
  inTurn,    \* external: queries the SDK took and has not answered
  accepted,  \* history: messages answered with 204
  handed,    \* history: messages passed to query()
  over       \* history: messages whose result or query_failed was emitted

vars == <<inbound, turnDone, send, held, recv, phase, post, sdk, inTurn,
          accepted, handed, over>>

Init ==
  /\ inbound = <<>>
  /\ turnDone = TRUE
  /\ send = "get"
  /\ held = None
  /\ recv = "running"
  /\ phase = "open"
  /\ post = [m \in Msgs |-> "unsent"]
  /\ sdk = "up"
  /\ inTurn = <<>>
  /\ accepted = <<>>
  /\ handed = <<>>
  /\ over = <<>>
-----------------------------------------------------------------------------
(* HTTP handlers.                                                          *)

\* input_message looks the session up, then awaits the request's body.  A
\* session leaves the registry in the step that starts its close().
Post(m) ==
  /\ post[m] = "unsent"
  /\ post' = [post EXCEPT ![m] = IF phase = "open" THEN "reading" ELSE "gone"]
  /\ UNCHANGED <<inbound, turnDone, send, held, recv, phase, sdk, inTurn,
                 accepted, handed, over>>

\* Mutant of Enqueue: a message is answered 204 and dropped when the queue is full.
EnqueueOrDrop(m) ==
  /\ inbound' = IF Len(inbound) < QueueCap THEN Append(inbound, m) ELSE inbound
  /\ post' = [post EXCEPT ![m] = "accepted"]
  /\ accepted' = Append(accepted, m)

Enqueue(m) ==
  /\ Len(inbound) < QueueCap
  /\ inbound' = Append(inbound, m)
  /\ post' = [post EXCEPT ![m] = "accepted"]
  /\ accepted' = Append(accepted, m)

\* put_nowait raises QueueFull: BackpressureError, 503.
Refuse(m) ==
  /\ Len(inbound) = QueueCap
  /\ post' = [post EXCEPT ![m] = "refused"]
  /\ UNCHANGED <<inbound, accepted>>

\* submit_user_message, once the body is there.  It does not look at _closed.
Submit(m) ==
  /\ post[m] = "reading"
  /\ Enqueue(m) \/ Refuse(m)
  /\ UNCHANGED <<turnDone, send, held, recv, phase, sdk, inTurn, handed, over>>
-----------------------------------------------------------------------------
(* The send loop.  Its task is cancelled once close() has started.         *)

\* Mutant of Dispatch: the gate stays open.
DispatchNoClear(m) ==
  /\ send' = "query"
  /\ handed' = Append(handed, m)
  /\ UNCHANGED turnDone

\* Close the gate and call client.query().
Dispatch(m) ==
  /\ turnDone' = FALSE
  /\ send' = "query"
  /\ handed' = Append(handed, m)

\* get() returns; an open gate does not suspend the loop.
Take ==
  /\ phase = "open"
  /\ send = "get"
  /\ inbound # <<>>
  /\ held' = Head(inbound)
  /\ inbound' = Tail(inbound)
  /\ \/ turnDone /\ Dispatch(Head(inbound))
     \/ ~turnDone /\ send' = "gate" /\ UNCHANGED <<turnDone, handed>>
  /\ UNCHANGED <<recv, phase, post, sdk, inTurn, accepted, over>>

\* _turn_done.wait() returns.
Pass ==
  /\ phase = "open"
  /\ send = "gate"
  /\ turnDone
  /\ Dispatch(held)
  /\ UNCHANGED <<inbound, held, recv, phase, post, sdk, inTurn, accepted, over>>

\* The SDK takes the message (external).
QueryTaken ==
  /\ send = "query"
  /\ sdk = "up"
  /\ send' = "taken"
  /\ inTurn' = Append(inTurn, held)
  /\ UNCHANGED <<inbound, turnDone, held, recv, phase, post, sdk, accepted,
                 handed, over>>

\* query() returns: touch(), and round the loop.
QueryReturns ==
  /\ phase = "open"
  /\ send = "taken"
  /\ send' = "get"
  /\ held' = None
  /\ UNCHANGED <<inbound, turnDone, recv, phase, post, sdk, inTurn, accepted,
                 handed, over>>

\* Mutant of Reopen: the except branch leaves the gate closed.
ReopenNot == UNCHANGED turnDone

\* "re-open the gate so subsequent queries aren't deadlocked"
Reopen == turnDone' = TRUE

\* query() raises, the message not taken: reopen, emit query_failed.
QueryFails ==
  /\ phase = "open"
  /\ send = "query"
  /\ Reopen
  /\ send' = "get"
  /\ held' = None
  /\ over' = Append(over, held)
  /\ UNCHANGED <<inbound, recv, phase, post, sdk, inTurn, accepted, handed>>
-----------------------------------------------------------------------------
(* The receive loop.                                                       *)

\* emit("result") opens the gate.
Released == turnDone' = TRUE

\* A ResultMessage arrives and is translated.
Result ==
  /\ phase = "open"
  /\ recv = "running"
  /\ inTurn # <<>>
  /\ inTurn' = Tail(inTurn)
  /\ over' = Append(over, Head(inTurn))
  /\ Released
  /\ UNCHANGED <<inbound, send, held, recv, phase, post, sdk, accepted, handed>>

\* The stream ends, and with it the SDK and its turn; finally opens the gate.
StreamEnds ==
  /\ phase = "open"
  /\ recv = "running"
  /\ recv' = "ended"
  /\ sdk' = "gone"
  /\ inTurn' = <<>>
  /\ turnDone' = TRUE
  /\ UNCHANGED <<inbound, send, held, phase, post, accepted, handed, over>>

\* The iterator raises (a message it cannot parse): receive_loop_crashed.  The
\* SDK goes on.
StreamRaises ==
  /\ phase = "open"
  /\ recv = "running"
  /\ recv' = "ended"
  /\ turnDone' = TRUE
  /\ UNCHANGED <<inbound, send, held, phase, post, sdk, inTurn, accepted,
                 handed, over>>
-----------------------------------------------------------------------------
(* close().                                                                *)

\* _closed, cancel_all(), and both tasks are sent a cancellation.
CloseStart ==
  /\ phase = "open"
  /\ phase' = "joining"
  /\ UNCHANGED <<inbound, turnDone, send, held, recv, post, sdk, inTurn,
                 accepted, handed, over>>

\* Mutant of CancelSend: the task is not cancelled, it ends when it next looks
\* at _closed.
SendSeesClosed ==
  /\ phase = "joining"
  /\ send = "taken"
  /\ send' = "ended"
  /\ held' = None
  /\ UNCHANGED <<inbound, turnDone, recv, phase, post, sdk, inTurn, accepted,
                 handed, over>>

\* The cancellation is raised at whatever the send loop awaits: get() catches
\* it and returns, elsewhere it ends the task.
CancelSend ==
  /\ phase = "joining"
  /\ send # "ended"
  /\ send' = "ended"
  /\ held' = None
  /\ UNCHANGED <<inbound, turnDone, recv, phase, post, sdk, inTurn, accepted,
                 handed, over>>

CancelRecv ==
  /\ phase = "joining"
  /\ recv = "running"
  /\ recv' = "ended"
  /\ turnDone' = TRUE
  /\ UNCHANGED <<inbound, send, held, phase, post, sdk, inTurn, accepted,
                 handed, over>>

LoopsEnded == recv = "ended" /\ send = "ended"

\* Both tasks have been awaited; disconnect() is called.
Joined ==
  /\ phase = "joining"
  /\ LoopsEnded
  /\ phase' = "disconnecting"
  /\ UNCHANGED <<inbound, turnDone, send, held, recv, post, sdk, inTurn,
                 accepted, handed, over>>

\* disconnect() returns or raises: emit done, close the event log.
Closed ==
  /\ phase = "disconnecting"
  /\ phase' = "closed"
  /\ sdk' = "gone"
  /\ inTurn' = <<>>
  /\ UNCHANGED <<inbound, turnDone, send, held, recv, post, accepted, handed, over>>

SendStep == Take \/ Pass \/ QueryReturns \/ QueryFails
CloseStep == CancelSend \/ CancelRecv \/ Joined \/ Closed

Next ==
  \/ \E m \in Msgs : Post(m) \/ Submit(m)
  \/ SendStep
  \/ QueryTaken
  \/ Result \/ StreamEnds \/ StreamRaises
  \/ CloseStart
  \/ CloseStep

Spec == Init /\ [][Next]_vars

\* The event loop runs every task that can run; the SDK takes or refuses a
\* query and answers the ones it took; disconnect() returns.  Requests, the
\* end of the stream and close() need not happen.
FairSpec ==
  /\ Spec
  /\ WF_vars(SendStep)
  /\ WF_vars(QueryTaken \/ QueryFails)
  /\ WF_vars(Result)
  /\ WF_vars(CloseStep)
-----------------------------------------------------------------------------
(* Properties.                                                             *)

TypeOK ==
  /\ inbound \in Seq(Msgs) /\ Len(inbound) <= QueueCap
  /\ turnDone \in BOOLEAN
  /\ send \in {"get", "gate", "query", "taken", "ended"}
  /\ held \in Msgs \cup {None}
  /\ held = None <=> send \in {"get", "ended"}
  /\ recv \in {"running", "ended"}
  /\ phase \in {"open", "joining", "disconnecting", "closed"}
  /\ post \in [Msgs -> {"unsent", "reading", "accepted", "refused", "gone"}]
  /\ sdk \in {"up", "gone"}
  /\ inTurn \in Seq(Msgs) /\ accepted \in Seq(Msgs)
  /\ handed \in Seq(Msgs) /\ over \in Seq(Msgs)

\* Turns the SDK has not answered, and the query on its way to it.
InFlight == inTurn \o (IF send = "query" THEN <<held>> ELSE <<>>)

\* A message taken off the queue that has not been handed over.
AtGate == IF send = "gate" THEN <<held>> ELSE <<>>

\* While the receive loop runs there is at most one turn in flight (the next
\* query() does not race the receive loop), and the gate is closed exactly as
\* long as there is one: it neither lets a second query through nor stays
\* closed with nobody left to open it.
OneTurnAtATime ==
  (phase = "open" /\ recv = "running") =>
    /\ Len(InFlight) <= 1
    /\ turnDone <=> InFlight = <<>>

\* Messages answered with 204 reach query() in the order they were accepted,
\* none lost and none twice, as long as the send loop lives.
NothingLost ==
  send # "ended" => accepted = handed \o (AtGate \o inbound)

\* Whatever happens, the messages handed over are the first ones accepted, and
\* a message refused with 503 or 404 is none of them.
HandedInOrder ==
  /\ IsPrefix(handed, accepted)
  /\ \A i \in 1..Len(accepted) : post[accepted[i]] = "accepted"

\* Every message handed over gets one end, its result or query_failed, and the
\* ends come in the order of the messages, each before the next query.
EndsInOrder ==
  (phase = "open" /\ recv = "running") => handed = over \o InFlight

\* Nothing writes to the event log after done: both loops have ended when the
\* client is disconnected and the log closed.
LoopsEndFirst ==
  phase \in {"disconnecting", "closed"} => send = "ended" /\ recv = "ended"

\* The inductive invariant: these hold together.
SessionInv ==
  /\ TypeOK
  /\ OneTurnAtATime
  /\ NothingLost
  /\ HandedInOrder
  /\ EndsInOrder
  /\ LoopsEndFirst

Reaches(m, s) == \E i \in 1..Len(s) : s[i] = m

\* A message answered with 204 is handed to the SDK and comes to its end,
\* however many turns are before it and whichever of them fail, unless the
\* session closes or its stream ends.
Answered ==
  \A m \in Msgs :
    post[m] = "accepted"
      ~> (Reaches(m, over) \/ phase # "open" \/ recv = "ended")

\* close() completes from wherever the two loops are suspended.
CloseCompletes == phase = "joining" ~> phase = "closed"
-----------------------------------------------------------------------------
(* What the documentation and the comments say, and the code does not do.  *)

\* concepts.mdx:20, "One in-flight `ClaudeSDKClient.query()` at a time."
OneInFlightQuery == Len(InFlight) <= 1

\* session.py:108-109: the gate is opened "so the send loop can exit promptly"
\* when the receive loop stops.
SendLoopExits == recv = "ended" ~> send = "ended"
=============================================================================
