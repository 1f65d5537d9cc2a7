-------------------------- MODULE PermissionRouter --------------------------
(***************************************************************************)
(* Permission and question prompts of one session (sdk_bridge.py): the SDK *)
(* invokes can_use_tool, the callback registers a future under a           *)
(* correlation id, emits an event, and awaits the future; HTTP replies of  *)
(* any number of tabs resolve it; closing the session cancels it.          *)
(*                                                                         *)
(* A reply is looked up and settled without a suspension in between, so    *)
(* Post is one step; the callback resumes in a later step, and the SDK may *)
(* cancel it, or the session close, in between.                            *)
(***************************************************************************)
EXTENDS Naturals

CONSTANTS Calls,    \* invocations of can_use_tool
          Replies,  \* permission_response / question_response requests
          Ids,      \* correlation ids
          IdOf,     \* the id a call gets: tool_use_id, or a fallback
          KindOf,   \* "tool", or "question" for AskUserQuestion
          None      \* neither a call nor a reply

ASSUME CallsAssumption ==
  /\ IdOf \in [Calls -> Ids]
  /\ KindOf \in [Calls -> {"tool", "question"}]

ASSUME NoneAssumption == None \notin Calls \cup Replies \cup Ids

\* Within a session the SDK does not reuse a tool_use_id.
UniqueIds == \A c, d \in Calls : IdOf[c] = IdOf[d] => c = d

\* What a reply sets as the result: a permission_response makes a mapping with
\* its behavior; a question_response passes its answers on as they are, a
\* mapping with any behavior or without one, or no mapping at all.
Results ==
  [by : {"permission_response"}, behavior : {"allow", "other"}]
    \cup [by : {"question_response"}, behavior : {"allow", "other", "no mapping"}]

\* No result yet.
Unset == [by |-> "nobody", behavior |-> "none"]

VARIABLES
  pending,   \* _pending: the call whose future is under an id, or None
  fut,       \* the state of each call's future
  value,     \* the result set in it
  call,      \* where each callback is
  decision,  \* what it returned to the SDK
  session,   \* "open", "closing" (after cancel_all), "closed" (log closed)
  reply,     \* the answer each HTTP reply got
  target,    \* history: the correlation id it named
  winner     \* history: the reply that resolved a call's future

routerVars == <<pending, fut, value, call, decision, session, reply, target, winner>>

RouterInit ==
  /\ pending = [i \in Ids |-> None]
  /\ fut = [c \in Calls |-> "none"]
  /\ value = [c \in Calls |-> Unset]
  /\ call = [c \in Calls |-> "new"]
  /\ decision = [c \in Calls |-> "undecided"]
  /\ session = "open"
  /\ reply = [r \in Replies |-> "unsent"]
  /\ target = [r \in Replies |-> None]
  /\ winner = [c \in Calls |-> None]
-----------------------------------------------------------------------------
(* The router.                                                             *)

\* Mutant of HasPending: the test of fut.done() is missing.
HasPendingOrDone(i) == pending[i] # None

\* has_pending(): a future is there, and not done (a cancelled callback
\* leaves a done future behind).
HasPending(i) == pending[i] # None /\ fut[pending[i]] = "pending"

\* Mutants of Settle: the result is set a tick later; the whole table is
\* cleared.
SettleLater(i, v) ==
  LET c == pending[i] IN
    /\ value' = [value EXCEPT ![c] = v]
    /\ UNCHANGED <<fut, pending>>

SettleClearsAll(i, v) ==
  LET c == pending[i] IN
    /\ fut' = [fut EXCEPT ![c] = "set"]
    /\ value' = [value EXCEPT ![c] = v]
    /\ pending' = [j \in Ids |-> None]

\* resolve(): set the result and drop the entry.
Settle(i, v) ==
  LET c == pending[i] IN
    /\ fut' = [fut EXCEPT ![c] = "set"]
    /\ value' = [value EXCEPT ![c] = v]
    /\ pending' = [pending EXCEPT ![i] = None]

\* Mutant of Released: the table is cleared, its futures are not cancelled.
ReleasedNone(c) == FALSE

\* The futures cancel_all() cancels: those in the table that are not done.
Released(c) == fut[c] = "pending" /\ \E i \in Ids : pending[i] = c
-----------------------------------------------------------------------------
(* The callback.                                                           *)

\* can_use_tool up to its await: register (overwriting an entry of the same
\* id), then emit, which raises once the event log is closed.
Ask(c) ==
  /\ call[c] = "new"
  /\ pending' = [pending EXCEPT ![IdOf[c]] = c]
  /\ fut' = [fut EXCEPT ![c] = "pending"]
  /\ call' = [call EXCEPT ![c] = IF session = "closed" THEN "raised" ELSE "waiting"]
  /\ UNCHANGED <<value, decision, session, reply, target, winner>>

\* Mutant of Outcome: everything allows but a permission_response that does not.
OutcomeLenient(kind, v) ==
  IF v.by = "permission_response" /\ v.behavior = "other" THEN "deny" ELSE "allow"

\* What the callback makes of the future's result.  A question is answered by
\* allowing it, whatever came back.  A tool is allowed by the behavior of the
\* result, whichever request it came from, and the look-up raises if that is no
\* mapping.
Outcome(kind, v) ==
  IF kind = "question" \/ v.behavior = "allow" THEN "allow"
  ELSE IF v.behavior = "other" THEN "deny"
  ELSE "undecided"

\* The await returns: the decision goes to the SDK.
Return(c) ==
  /\ call[c] = "waiting"
  /\ fut[c] = "set"
  /\ decision' = [decision EXCEPT ![c] = Outcome(KindOf[c], value[c])]
  /\ call' = [call EXCEPT ![c] = IF decision'[c] = "undecided" THEN "raised" ELSE "returned"]
  /\ UNCHANGED <<pending, fut, value, session, reply, target, winner>>

\* The await raises CancelledError: the future was cancelled.
Raise(c) ==
  /\ call[c] = "waiting"
  /\ fut[c] = "cancelled"
  /\ call' = [call EXCEPT ![c] = "raised"]
  /\ UNCHANGED <<pending, fut, value, decision, session, reply, target, winner>>

\* The SDK cancels the callback's task (external): the future it awaits is
\* cancelled with it, its table entry stays; a result that was already set
\* is lost.
Abandon(c) ==
  /\ call[c] = "waiting"
  /\ fut[c] \in {"pending", "set"}
  /\ call' = [call EXCEPT ![c] = "raised"]
  /\ fut' = [fut EXCEPT ![c] = IF @ = "pending" THEN "cancelled" ELSE @]
  /\ UNCHANGED <<pending, value, decision, session, reply, target, winner>>
-----------------------------------------------------------------------------
(* The HTTP side and the session.                                          *)

\* resolve_permission / resolve_question, which differ in what they carry,
\* not in the prompts they resolve.
Accept(r, i, v) ==
  /\ HasPending(i)
  /\ Settle(i, v)
  /\ reply' = [reply EXCEPT ![r] = "accepted"]
  /\ winner' = [winner EXCEPT ![pending[i]] = r]

\* 409: nothing to resolve.  404: the session has left the registry.
Refuse(r, i) ==
  /\ ~HasPending(i) \/ session # "open"
  /\ reply' = [reply EXCEPT ![r] = "refused"]
  /\ UNCHANGED <<pending, fut, value, winner>>

Post(r, i, v) ==
  /\ reply[r] = "unsent"
  /\ target' = [target EXCEPT ![r] = i]
  /\ Accept(r, i, v) \/ Refuse(r, i)
  /\ UNCHANGED <<call, decision, session>>

\* cancel_all(), the first thing Session.close() does.
CancelAll ==
  /\ session = "open"
  /\ session' = "closing"
  /\ fut' = [c \in Calls |-> IF Released(c) THEN "cancelled" ELSE fut[c]]
  /\ pending' = [i \in Ids |-> None]
  /\ UNCHANGED <<value, call, decision, reply, target, winner>>

\* The end of Session.close().
CloseLog ==
  /\ session = "closing"
  /\ session' = "closed"
  /\ UNCHANGED <<pending, fut, value, call, decision, reply, target, winner>>

RouterNext ==
  \/ \E c \in Calls : Ask(c) \/ Return(c) \/ Raise(c) \/ Abandon(c)
  \/ \E r \in Replies, i \in Ids, v \in Results : Post(r, i, v)
  \/ CancelAll
  \/ CloseLog

RouterSpec == RouterInit /\ [][RouterNext]_routerVars

\* The event loop resumes a callback whose future is done.  Nobody has to
\* reply, and the session need not be closed.
FairRouterSpec == RouterSpec /\ \A c \in Calls : WF_routerVars(Return(c) \/ Raise(c))
-----------------------------------------------------------------------------
(* Properties.                                                             *)

\* A future holds a result exactly when it is set.
RouterTypeOK ==
  /\ pending \in [Ids -> Calls \cup {None}]
  /\ fut \in [Calls -> {"none", "pending", "set", "cancelled"}]
  /\ value \in [Calls -> Results \cup {Unset}]
  /\ call \in [Calls -> {"new", "waiting", "returned", "raised"}]
  /\ decision \in [Calls -> {"undecided", "allow", "deny"}]
  /\ session \in {"open", "closing", "closed"}
  /\ reply \in [Replies -> {"unsent", "accepted", "refused"}]
  /\ target \in [Replies -> Ids \cup {None}]
  /\ winner \in [Calls -> Replies \cup {None}]
  /\ \A c \in Calls : fut[c] = "set" <=> value[c] # Unset

\* wire-protocol.mdx:99, "first reply wins": a reply answered with 204 decided
\* one prompt, of the id it named, and no other reply decided that prompt.
OneWinner ==
  /\ \A r \in Replies : reply[r] = "accepted" =>
       \E c \in Calls : winner[c] = r /\ IdOf[c] = target[r]
  /\ \A c, d \in Calls : winner[c] # None /\ winner[c] = winner[d] => c = d

\* A tool runs only on behavior "allow" in what an accepted reply to its own id
\* carried, whatever mixture of replies, kinds, cancellations and closing came
\* before.  The reply may have been a question_response.
RunsOnlyOnAllow ==
  \A c \in Calls : (KindOf[c] = "tool" /\ decision[c] = "allow") =>
    /\ value[c].behavior = "allow"
    /\ winner[c] # None
    /\ reply[winner[c]] = "accepted"
    /\ target[winner[c]] = IdOf[c]

\* wire-protocol.mdx:89: a permission_request is answered by a
\* permission_response.  The router has one table for both kinds of prompt, and
\* the answers of a question_response are taken for a decision.
AnsweredInKind ==
  \A c \in Calls : (KindOf[c] = "tool" /\ decision[c] = "allow") =>
    value[c].by = "permission_response"

\* A callback whose future is open can be answered: its future is the one the
\* router finds under its id.  Needs ids that are not reused.
AnswerableWhileWaiting ==
  \A c \in Calls : (call[c] = "waiting" /\ fut[c] = "pending") =>
    pending[IdOf[c]] = c

\* Closing the session releases every callback that is waiting by then.
ReleasedOnClose ==
  \A c \in Calls :
    (call[c] = "waiting" /\ session = "open")
      ~> (call[c] # "waiting" \/ [](session = "open"))
\* The inductive invariant behind these: the table only names calls of its
\* ids; a future is set by exactly one accepted reply, to the call's own id; a
\* decision is what the callback makes of that reply.
PromptInv ==
  /\ RouterTypeOK
  /\ \A i \in Ids : pending[i] # None => IdOf[pending[i]] = i
  /\ \A c \in Calls :
       /\ call[c] = "new" <=> fut[c] = "none"
       /\ winner[c] # None <=> fut[c] = "set"
       /\ winner[c] # None =>
            reply[winner[c]] = "accepted" /\ target[winner[c]] = IdOf[c]
       /\ decision[c] # "undecided" =>
            fut[c] = "set" /\ decision[c] = Outcome(KindOf[c], value[c])
  /\ OneWinner

\* With ids that are not reused: the table has every future that is open.
Registered == \A c \in Calls : fut[c] = "pending" => pending[IdOf[c]] = c
-----------------------------------------------------------------------------
(* The router refines one-shot prompts.                                    *)

PromptOf(state) == IF state = "none" THEN "unasked"
                   ELSE IF state = "pending" THEN "open"
                   ELSE IF state = "set" THEN "decided"
                   ELSE "dropped"

Prompts == INSTANCE FirstReplyWins WITH
             prompt  <- [c \in Calls |-> PromptOf(fut[c])],
             outcome <- reply,
             about   <- target,
             serving <- (session = "open")

\* Every behaviour of the router is one of one-shot prompts.
ImplementsPrompts == Prompts!Spec
=============================================================================
