--------------------------------- MODULE Tabs ---------------------------------
(***************************************************************************)
(* Several browser tabs on one session: the reducer of each tab            *)
(* (reducer.ts), the hook that feeds it with the events of the stream and   *)
(* with the outcome of its own calls (useAgentSession.ts), and the server   *)
(* as they see it: the turns, the event log, the prompts that wait.         *)
(*                                                                         *)
(* A tab is delivered the log in order and without a gap, which is what     *)
(* Stream shows of a client the ring does not overrun.  Of an event the     *)
(* model keeps its name and the prompt it carries; those that leave status  *)
(* and prompts alone (message_complete, tool_use, tool_result, ...) are     *)
(* left out, as is the text of the messages.                                *)
(***************************************************************************)
EXTENDS Naturals, Sequences, FiniteSets

CONSTANTS Tabs,
          Prompts,    \* correlation ids
          Questions,  \* those of AskUserQuestion; the others are permissions
          None,       \* no prompt
          MaxLog,     \* bound of the model: events in the log
          MaxSends,   \* bound of the model: user messages
          MaxFaults   \* bound of the model: failed calls and page reloads

ASSUME PromptAssumption == Questions \subseteq Prompts /\ None \notin Prompts

ASSUME BoundAssumption == MaxSends \in Nat /\ MaxFaults \in Nat

Kind(p) == IF p \in Questions THEN "question" ELSE "permission"
Kinds == {"permission", "question"}
Statuses == {"idle", "streaming", "awaiting_permission", "awaiting_question",
             "awaiting_hook", "error"}

VARIABLES
  serving,  \* the session is in the registry
  log,      \* the events of the session
  open,     \* prompts whose callback waits
  turns,    \* user messages accepted and not begun
  running,  \* a turn is under way
  tab,      \* reducer state: [status, pending: [Kinds -> prompt or None]]
  cursor,   \* events delivered to the tab
  base,     \* the cursor with which the tab was mounted
  outbox,   \* the tab's send() is in flight
  reply,    \* its call for a prompt: "none", "sent", "accepted" (204),
            \* "refused" (409), "acked", "conflict"
  sends, faults  \* counters of the bounds

serverVars == <<serving, log, open, turns, running>>
tabVars == <<tab, cursor, base, outbox, reply>>
vars == <<serverVars, tabVars, sends, faults>>

Event(name, p) == [event |-> name, prompt |-> p]

initialState == [status |-> "idle", pending |-> [k \in Kinds |-> None]]

Init ==
  /\ serving = TRUE
  /\ log = <<>>
  /\ open = {}
  /\ turns = 0
  /\ running = FALSE
  /\ tab = [t \in Tabs |-> initialState]
  /\ cursor = [t \in Tabs |-> 0]
  /\ base = [t \in Tabs |-> 0]
  /\ outbox = [t \in Tabs |-> FALSE]
  /\ reply = [t \in Tabs |-> [p \in Prompts |-> "none"]]
  /\ sends = 0
  /\ faults = 0
-----------------------------------------------------------------------------
(* The server.                                                             *)

Emit(name, p) == Len(log) < MaxLog /\ log' = Append(log, Event(name, p))

Begin ==
  /\ turns > 0 /\ ~running
  /\ turns' = turns - 1
  /\ running' = TRUE
  /\ UNCHANGED <<serving, log, open, tabVars, sends, faults>>

Delta ==
  /\ running
  /\ Emit("message_delta", None)
  /\ UNCHANGED <<serving, open, turns, running, tabVars, sends, faults>>

Asked == {log[i].prompt : i \in 1..Len(log)}

\* can_use_tool: the future is registered and the prompt emitted.  Tools that
\* run in parallel ask while another prompt waits.
Ask(p) ==
  /\ running
  /\ p \notin Asked
  /\ Emit(IF p \in Questions THEN "ask_user_question" ELSE "permission_request", p)
  /\ open' = open \cup {p}
  /\ UNCHANGED <<serving, turns, running, tabVars, sends, faults>>

\* The turn ends; what still waits then was interrupted, and is abandoned.
Result ==
  /\ running
  /\ Emit("result", None)
  /\ running' = FALSE
  /\ open' = {}
  /\ UNCHANGED <<serving, turns, tabVars, sends, faults>>

\* The stream from the SDK breaks.
Error ==
  /\ running
  /\ Emit("error", None)
  /\ running' = FALSE
  /\ UNCHANGED <<serving, open, turns, tabVars, sends, faults>>

\* The session leaves the registry; close() cancels its prompts and the send
\* loop, which begins no turn more.  The turn may still emit events and prompts
\* until its loop has ended.
CloseStart ==
  /\ serving
  /\ serving' = FALSE
  /\ open' = {}
  /\ turns' = 0
  /\ UNCHANGED <<log, running, tabVars, sends, faults>>

\* The end of close(): done, after which nothing is emitted.
Done ==
  /\ ~serving
  /\ \A i \in 1..Len(log) : log[i].event # "done"
  /\ Emit("done", None)
  /\ running' = FALSE
  /\ UNCHANGED <<serving, open, turns, tabVars, sends, faults>>

\* Mutant of Handle: any prompt that was asked may be decided.
HandleAsked(t, p) ==
  /\ reply[t][p] = "sent"
  /\ reply' = [reply EXCEPT ![t][p] = IF p \in Asked THEN "accepted" ELSE "refused"]
  /\ open' = open \ {p}
  /\ UNCHANGED <<serving, log, turns, running, tab, cursor, base, outbox, sends, faults>>

\* The POST for a prompt arrives: the first one decides, the others get 409, and
\* 404 if the session is gone.
Handle(t, p) ==
  /\ reply[t][p] = "sent"
  /\ \/ /\ p \in open
        /\ reply' = [reply EXCEPT ![t][p] = "accepted"]
        /\ open' = open \ {p}
     \/ /\ p \notin open \/ ~serving
        /\ reply' = [reply EXCEPT ![t][p] = "refused"]
        /\ UNCHANGED open
  /\ UNCHANGED <<serving, log, turns, running, tab, cursor, base, outbox, sends, faults>>

\* The POST of a user message arrives.
SendArrives(t) ==
  /\ outbox[t]
  /\ outbox' = [outbox EXCEPT ![t] = FALSE]
  /\ turns' = IF serving THEN turns + 1 ELSE turns
  /\ UNCHANGED <<serving, log, open, running, tab, cursor, base, reply, sends, faults>>
-----------------------------------------------------------------------------
(* The reducer.                                                            *)

\* Mutant of Reduce: a prompt that finds its slot taken is dropped.
ReduceIfFree(s, e) ==
  LET k == IF e.event = "ask_user_question" THEN "question" ELSE "permission"
  IN  IF e.prompt # None
      THEN [status |-> IF k = "question" THEN "awaiting_question" ELSE "awaiting_permission",
            pending |-> [s.pending EXCEPT ![k] = IF @ = None THEN e.prompt ELSE @]]
      ELSE [s EXCEPT !.status = CASE e.event \in {"result", "done"} -> "idle"
                                  [] e.event = "error" -> "error"
                                  [] OTHER -> "streaming"]

\* A server event.  No hook_decision_request is emitted by this server.
Reduce(s, e) ==
  CASE e.event = "message_delta" -> [s EXCEPT !.status = "streaming"]
    [] e.event = "permission_request" ->
         [status |-> "awaiting_permission",
          pending |-> [s.pending EXCEPT !["permission"] = e.prompt]]
    [] e.event = "ask_user_question" ->
         [status |-> "awaiting_question",
          pending |-> [s.pending EXCEPT !["question"] = e.prompt]]
    [] e.event = "hook_decision_request" -> [s EXCEPT !.status = "awaiting_hook"]
    [] e.event \in {"result", "done"} -> [s EXCEPT !.status = "idle"]
    [] e.event = "error" -> [s EXCEPT !.status = "error"]

\* Mutant of Resolved: the correlation id is not compared.
ResolvedAny(s, p) ==
  [status |-> "streaming", pending |-> [s.pending EXCEPT ![Kind(p)] = None]]

\* permission_resolved and question_resolved, of the prompt in the slot only.
Resolved(s, p) ==
  IF s.pending[Kind(p)] # p THEN s
  ELSE [status |-> "streaming", pending |-> [s.pending EXCEPT ![Kind(p)] = None]]
-----------------------------------------------------------------------------
(* The hook.                                                               *)

\* The next event of the stream is dispatched.
Deliver(t) ==
  /\ cursor[t] < Len(log)
  /\ cursor' = [cursor EXCEPT ![t] = @ + 1]
  /\ tab' = [tab EXCEPT ![t] = Reduce(@, log[cursor[t] + 1])]
  /\ UNCHANGED <<serverVars, base, outbox, reply, sends, faults>>

\* send(): local_user_message is dispatched, then the POST leaves.
Send(t) ==
  /\ sends < MaxSends
  /\ ~outbox[t]
  /\ tab' = [tab EXCEPT ![t].status = "streaming"]
  /\ outbox' = [outbox EXCEPT ![t] = TRUE]
  /\ sends' = sends + 1
  /\ UNCHANGED <<serverVars, cursor, base, reply, faults>>

\* approve(), deny() or answer() for a prompt on the screen; a call that
\* failed may be repeated.
Reply(t, p) ==
  /\ tab[t].pending[Kind(p)] = p
  /\ reply[t][p] = "none"
  /\ reply' = [reply EXCEPT ![t][p] = "sent"]
  /\ UNCHANGED <<serverVars, tab, cursor, base, outbox, sends, faults>>

\* Its 204 arrives: permission_resolved or question_resolved is dispatched.
Ack(t, p) ==
  /\ reply[t][p] = "accepted"
  /\ reply' = [reply EXCEPT ![t][p] = "acked"]
  /\ tab' = [tab EXCEPT ![t] = Resolved(@, p)]
  /\ UNCHANGED <<serverVars, cursor, base, outbox, sends, faults>>

\* Its 409 arrives: the promise rejects, nothing is dispatched.
Conflict(t, p) ==
  /\ reply[t][p] = "refused"
  /\ reply' = [reply EXCEPT ![t][p] = "conflict"]
  /\ UNCHANGED <<serverVars, tab, cursor, base, outbox, sends, faults>>

\* The request or its response is lost: the promise rejects, nothing is
\* dispatched.
CallFails(t, p) ==
  /\ faults < MaxFaults
  /\ reply[t][p] \in {"sent", "accepted", "refused"}
  /\ reply' = [reply EXCEPT ![t][p] = "none"]
  /\ faults' = faults + 1
  /\ UNCHANGED <<serverVars, tab, cursor, base, outbox, sends>>

\* The send is rejected or lost: the same.
SendFails(t) ==
  /\ faults < MaxFaults
  /\ outbox[t]
  /\ outbox' = [outbox EXCEPT ![t] = FALSE]
  /\ faults' = faults + 1
  /\ UNCHANGED <<serverVars, tab, cursor, base, reply, sends>>

\* The page is reloaded and attaches again, from the beginning or from the
\* event id it had stored; the calls in flight go with the page.
Reload(t, from) ==
  /\ faults < MaxFaults
  /\ tab' = [tab EXCEPT ![t] = initialState]
  /\ cursor' = [cursor EXCEPT ![t] = from]
  /\ base' = [base EXCEPT ![t] = from]
  /\ outbox' = [outbox EXCEPT ![t] = FALSE]
  /\ reply' = [reply EXCEPT ![t] = [p \in Prompts |-> "none"]]
  /\ faults' = faults + 1
  /\ UNCHANGED <<serverVars, sends>>

Call(t, p) == Handle(t, p) \/ Ack(t, p) \/ Conflict(t, p)

Next ==
  \/ Begin \/ Delta \/ Result \/ Error \/ CloseStart \/ Done
  \/ \E p \in Prompts : Ask(p)
  \/ \E t \in Tabs :
       \/ Deliver(t) \/ Send(t) \/ SendArrives(t) \/ SendFails(t)
       \/ \E from \in {0, cursor[t]} : Reload(t, from)
       \/ \E p \in Prompts : Reply(t, p) \/ Call(t, p) \/ CallFails(t, p)

Spec == Init /\ [][Next]_vars
-----------------------------------------------------------------------------
(* Properties.                                                             *)

Events == [event : {"message_delta", "permission_request", "ask_user_question",
                    "result", "error", "done"},
           prompt : Prompts \cup {None}]

TypeOK ==
  /\ log \in Seq(Events)
  /\ open \subseteq Prompts \cap Asked
  /\ serving \in BOOLEAN /\ turns \in Nat /\ running \in BOOLEAN
  /\ tab \in [Tabs -> [status : Statuses, pending : [Kinds -> Prompts \cup {None}]]]
  /\ base \in [Tabs -> Nat] /\ cursor \in [Tabs -> Nat]
  /\ \A t \in Tabs : base[t] <= cursor[t] /\ cursor[t] <= Len(log)
  /\ outbox \in [Tabs -> BOOLEAN]
  /\ reply \in [Tabs -> [Prompts -> {"none", "sent", "accepted", "refused",
                                     "acked", "conflict"}]]
  /\ sends \in 0..MaxSends /\ faults \in 0..MaxFaults

\* p is the newest prompt of its kind among the events of the log from a to b.
NewestIn(p, a, b) ==
  \E i \in a..b :
    /\ log[i].prompt = p
    /\ \A j \in i + 1 .. b : log[j].prompt # None => Kind(log[j].prompt) # Kind(p)

\* A prompt that waits is not taken from the screen: neither the answer to an
\* earlier one that comes late, nor the end of a turn, nor a failed or refused
\* call, nor the other tab removes it; only a newer prompt of its kind does.
WaitingStaysOnScreen ==
  \A t \in Tabs, p \in open :
    NewestIn(p, base[t] + 1, cursor[t]) => tab[t].pending[Kind(p)] = p

\* Nothing but the newest prompt of a kind is on the screen: no late ack, event
\* or reload brings back one that was replaced, and approve() acts on what came
\* last.
OnlyNewestShown ==
  \A t \in Tabs, k \in Kinds :
    LET p == tab[t].pending[k]
    IN  p # None => Kind(p) = k /\ NewestIn(p, base[t] + 1, cursor[t])

\* First reply wins: of all the tabs, over lost responses, refusals and prompts
\* abandoned by an interrupt, one at most is told that its answer counted.
OneTabTold ==
  \A p \in Prompts :
    Cardinality({t \in Tabs : reply[t][p] \in {"accepted", "acked"}}) <= 1
-----------------------------------------------------------------------------
(* What the documentation says, and the code does not do.                  *)

\* permissions.mdx:85, "The reducer already clears pendingPermission for both
\* tabs as soon as the winning response is acked over SSE": a tab with all
\* events and no call outstanding shows no permission that was decided.
DecidedIsCleared ==
  \A t \in Tabs, p \in Prompts \ Questions :
    (/\ tab[t].pending["permission"] = p
     /\ cursor[t] = Len(log)
     /\ \E u \in Tabs : reply[u][p] = "acked")
       => reply[t][p] \in {"sent", "accepted", "refused"}

\* react-api.mdx:77, "idle -> streaming on send()", and :81, "Any -> idle after a
\* turn-final result event": without send() or an event a tab stays idle.
IdleUntilSend ==
  [][\A t \in Tabs :
       (tab[t].status = "idle" /\ tab'[t].status = "streaming")
         => sends' # sends \/ cursor'[t] # cursor[t]]_vars
=============================================================================
