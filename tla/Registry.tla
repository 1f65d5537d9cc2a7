------------------------------ MODULE Registry ------------------------------
(***************************************************************************)
(* The registry of sessions (SessionRegistry in session.py) and the four   *)
(* parties that use it: HTTP handlers, which create, use and delete        *)
(* sessions; the reaper, which closes idle ones; shutdown, which cancels   *)
(* the reaper and closes what is left; and the streams of subscribers.     *)
(*                                                                         *)
(* remove() pops a session and runs its close() to the first suspension in *)
(* one step.  close() then waits twice, for the loops of the session and   *)
(* for disconnect(); whoever removed the session waits with it.  A         *)
(* cancellation of that party is swallowed by the first wait and cuts      *)
(* close() short in the second.                                            *)
(***************************************************************************)
EXTENDS Naturals

CONSTANTS Sessions,
          IdleLimit  \* idle_timeout_s, in ticks

ASSUME LimitAssumption == IdleLimit \in Nat

VARIABLES
  sess,     \* each session: "none", "creating" (its factory awaited), "live" (in
            \* _sessions), in close() "joining" and "disconnecting", then
            \* "closed", or "cut" (close() was cancelled: no done, log open)
  idle,     \* idle_for, in ticks; more than IdleLimit + 1 is not told apart
  streams,  \* sessions with a live SSE stream
  closer,   \* who removed it: "nobody", "handler", "reaper", "shutdown"
  reaper,   \* "off", "sleeping", "closing" (in remove())
  stale,    \* what is left of the reaper's list
  stage,    \* shutdown: "up", "joining" the reaper, "removing", "down"
  todo      \* what is left of shutdown's list

registryVars == <<sess, idle, streams, closer, reaper, stale, stage, todo>>

Closing == {"joining", "disconnecting"}
Parties == {"handler", "reaper", "shutdown"}

Live == {s \in Sessions : sess[s] = "live"}

\* Party w is in the close() of session s, of some session.
In(w, s) == closer[s] = w /\ sess[s] \in Closing
Busy(w) == \E s \in Sessions : In(w, s)

RegistryInit ==
  /\ sess = [s \in Sessions |-> "none"]
  /\ idle = [s \in Sessions |-> 0]
  /\ streams = {}
  /\ closer = [s \in Sessions |-> "nobody"]
  /\ reaper = "off"
  /\ stale = {}
  /\ stage = "up"
  /\ todo = {}
-----------------------------------------------------------------------------
(* HTTP handlers.  They run while shutdown does: nothing stops them.       *)

\* create() up to the factory's await.
Create(s) ==
  /\ sess[s] = "none"
  /\ sess' = [sess EXCEPT ![s] = "creating"]
  /\ UNCHANGED <<idle, streams, closer, reaper, stale, stage, todo>>

\* The factory returned: start the session, enter it.
Created(s) ==
  /\ sess[s] = "creating"
  /\ sess' = [sess EXCEPT ![s] = "live"]
  /\ idle' = [idle EXCEPT ![s] = 0]
  /\ UNCHANGED <<streams, closer, reaper, stale, stage, todo>>

\* The factory raised: nothing was entered.
CreateFails(s) ==
  /\ sess[s] = "creating"
  /\ sess' = [sess EXCEPT ![s] = "none"]
  /\ UNCHANGED <<idle, streams, closer, reaper, stale, stage, todo>>

\* touch(), by an input or by a query the send loop forwarded.
Touch(s) ==
  /\ sess[s] = "live"
  /\ idle' = [idle EXCEPT ![s] = 0]
  /\ UNCHANGED <<sess, streams, closer, reaper, stale, stage, todo>>

\* GET /stream finds the session and subscribes.  It does not touch it.
Subscribe(s) ==
  /\ sess[s] = "live"
  /\ streams' = streams \cup {s}
  /\ UNCHANGED <<sess, idle, closer, reaper, stale, stage, todo>>

\* The stream ends: its client leaves, or the log is closed.
Unsubscribe(s) ==
  /\ s \in streams
  /\ streams' = streams \ {s}
  /\ UNCHANGED <<sess, idle, closer, reaper, stale, stage, todo>>

\* remove(): pop, and close() to its first suspension.
RemoveSession(s, w) ==
  /\ sess[s] = "live"
  /\ sess' = [sess EXCEPT ![s] = "joining"]
  /\ closer' = [closer EXCEPT ![s] = w]

\* DELETE.  One that finds no session answers 204 at once.
Delete(s) ==
  /\ RemoveSession(s, "handler")
  /\ UNCHANGED <<idle, streams, reaper, stale, stage, todo>>

Tick ==
  /\ idle' = [s \in Sessions |->
                IF s \in Live /\ idle[s] <= IdleLimit THEN idle[s] + 1 ELSE idle[s]]
  /\ UNCHANGED <<sess, streams, closer, reaper, stale, stage, todo>>
-----------------------------------------------------------------------------
(* close(), whoever runs it.                                               *)

\* Mutant of Disconnected: an exception of disconnect() leaves close() early.
DisconnectRaises(s) ==
  /\ sess[s] = "disconnecting"
  /\ sess' = [sess EXCEPT ![s] = "cut"]
  /\ UNCHANGED <<idle, streams, closer, reaper, stale, stage, todo>>

\* Both loops have been awaited.
LoopsJoined(s) ==
  /\ sess[s] = "joining"
  /\ sess' = [sess EXCEPT ![s] = "disconnecting"]
  /\ UNCHANGED <<idle, streams, closer, reaper, stale, stage, todo>>

\* disconnect() returned or raised: done, and the log is closed.
Disconnected(s) ==
  /\ sess[s] = "disconnecting"
  /\ sess' = [sess EXCEPT ![s] = "closed"]
  /\ UNCHANGED <<idle, streams, closer, reaper, stale, stage, todo>>
-----------------------------------------------------------------------------
(* The reaper.  Its 30 s are some time.                                    *)

StartReaper ==
  /\ stage = "up"
  /\ reaper = "off"
  /\ reaper' = "sleeping"
  /\ UNCHANGED <<sess, idle, streams, closer, stale, stage, todo>>

Idle == {s \in Live : idle[s] > IdleLimit}

\* The sleep is over: list the idle sessions, remove the first.
Sweep ==
  /\ reaper = "sleeping"
  /\ \E s \in Idle :
       /\ RemoveSession(s, "reaper")
       /\ stale' = Idle \ {s}
  /\ reaper' = "closing"
  /\ UNCHANGED <<idle, streams, stage, todo>>

\* Mutant of ReapNext: the task returns after its list, and sweeps no more.
ReapNextReturns ==
  /\ reaper = "closing"
  /\ ~Busy("reaper")
  /\ \/ \E s \in stale :
          /\ RemoveSession(s, "reaper")
          /\ stale' = stale \ {s}
          /\ UNCHANGED reaper
     \/ stale \cap Live = {} /\ stale' = {} /\ reaper' = "off"
          /\ UNCHANGED <<sess, closer>>
  /\ UNCHANGED <<idle, streams, stage, todo>>

\* remove() returned: remove the next of the list that is still there, touched
\* or not; or sleep again.
ReapNext ==
  /\ reaper = "closing"
  /\ ~Busy("reaper")
  /\ \/ \E s \in stale :
          /\ RemoveSession(s, "reaper")
          /\ stale' = stale \ {s}
          /\ UNCHANGED reaper
     \/ stale \cap Live = {} /\ stale' = {} /\ reaper' = "sleeping"
          /\ UNCHANGED <<sess, closer>>
  /\ UNCHANGED <<idle, streams, stage, todo>>
-----------------------------------------------------------------------------
(* Shutdown.                                                               *)

\* shutdown() cancels the reaper: asleep, it ends; waiting for the loops of a
\* session, it catches the cancellation and goes on; waiting for disconnect(),
\* it ends and close() with it.
ShutdownStart ==
  /\ stage = "up"
  /\ stage' = "joining"
  /\ LET cut == {s \in Sessions : closer[s] = "reaper" /\ sess[s] = "disconnecting"} IN
       /\ sess' = [s \in Sessions |-> IF s \in cut THEN "cut" ELSE sess[s]]
       /\ reaper' = IF reaper = "sleeping" \/ cut # {} THEN "off" ELSE reaper
       /\ stale' = IF cut # {} THEN {} ELSE stale
  /\ UNCHANGED <<idle, streams, closer, todo>>

\* Mutant of ReaperGone: shutdown does not wait for the reaper.
ReaperGoneOrNot == TRUE

ReaperGone == reaper = "off"

\* The reaper has been awaited: list the sessions, remove the first.
ShutdownList ==
  /\ stage = "joining"
  /\ ReaperGone
  /\ \/ \E s \in Live :
          /\ RemoveSession(s, "shutdown")
          /\ todo' = Live \ {s}
          /\ stage' = "removing"
     \/ Live = {} /\ stage' = "down" /\ UNCHANGED <<sess, closer, todo>>
  /\ UNCHANGED <<idle, streams, reaper, stale>>

\* Mutant of ShutdownNext: a session that is gone by its turn ends the loop with
\* an exception.
ShutdownNextStrict ==
  /\ stage = "removing"
  /\ ~Busy("shutdown")
  /\ todo \subseteq Live
  /\ \/ \E s \in todo :
          /\ RemoveSession(s, "shutdown")
          /\ todo' = todo \ {s}
          /\ UNCHANGED stage
     \/ todo = {} /\ stage' = "down" /\ UNCHANGED <<sess, closer, todo>>
  /\ UNCHANGED <<idle, streams, reaper, stale>>

\* remove() returned: the next of the list, or the end.
ShutdownNext ==
  /\ stage = "removing"
  /\ ~Busy("shutdown")
  /\ \/ \E s \in todo :
          /\ RemoveSession(s, "shutdown")
          /\ todo' = todo \ {s}
          /\ UNCHANGED stage
     \/ todo \cap Live = {} /\ todo' = {} /\ stage' = "down"
          /\ UNCHANGED <<sess, closer>>
  /\ UNCHANGED <<idle, streams, reaper, stale>>

CloserStep(s) == LoopsJoined(s) \/ Disconnected(s)
ReaperStep == Sweep \/ ReapNext
ShutdownStep == ShutdownList \/ ShutdownNext

RegistryNext ==
  \/ \E s \in Sessions :
       \/ Create(s) \/ Created(s) \/ CreateFails(s)
       \/ Touch(s) \/ Subscribe(s) \/ Unsubscribe(s) \/ Delete(s)
       \/ CloserStep(s)
  \/ Tick
  \/ StartReaper \/ ReaperStep
  \/ ShutdownStart \/ ShutdownStep

RegistrySpec == RegistryInit /\ [][RegistryNext]_registryVars

\* Tasks that can run do, loops end when cancelled and disconnect() returns
\* (Session), time passes.  Requests and shutdown need not come.
FairRegistrySpec ==
  /\ RegistrySpec
  /\ \A s \in Sessions : WF_registryVars(CloserStep(s))
  /\ WF_registryVars(Tick)
  /\ WF_registryVars(ReaperStep)
  /\ WF_registryVars(ShutdownStep)
-----------------------------------------------------------------------------
(* Properties.                                                             *)

RegistryTypeOK ==
  /\ sess \in [Sessions -> {"none", "creating", "live", "joining", "disconnecting",
                            "closed", "cut"}]
  /\ idle \in [Sessions -> 0..(IdleLimit + 1)]
  /\ streams \subseteq Sessions
  /\ closer \in [Sessions -> Parties \cup {"nobody"}]
  /\ \A s \in Sessions :
       closer[s] = "nobody" <=> sess[s] \in {"none", "creating", "live"}
  /\ reaper \in {"off", "sleeping", "closing"}
  /\ stale \subseteq Sessions
  /\ stage \in {"up", "joining", "removing", "down"}
  /\ todo \subseteq Sessions /\ (todo # {} => stage = "removing")

\* A session is closed by the party that removed it, and by no other; the
\* reaper and shutdown are each in one close() at a time and never both in
\* one, so a cancelled reaper leaves at most one session behind, never one
\* that shutdown is closing.
OneAtATime ==
  /\ \A s, t \in Sessions, w \in {"reaper", "shutdown"} : In(w, s) /\ In(w, t) => s = t
  /\ Busy("reaper") => reaper = "closing" /\ ~Busy("shutdown")
  /\ Busy("shutdown") => stage = "removing" /\ reaper = "off"

\* Shutdown removes sessions only when the reaper is gone, and it stays gone.
ReaperFirst == stage \in {"removing", "down"} => reaper = "off"

\* The inductive invariant: OneAtATime needs the types, which say that only a
\* removed session has a closer, and ReaperFirst.
RegistryInv == RegistryTypeOK /\ OneAtATime /\ ReaperFirst

\* Once removed, a session keeps the party that closes it.
CloserKept ==
  [][\A s \in Sessions : closer[s] # "nobody" => closer'[s] = closer[s]]_registryVars

\* A close() that was begun ends with done and a closed log; only shutdown can
\* cut one short, and only one the reaper was in.
ClosedOrCut ==
  \A s \in Sessions :
    sess[s] = "joining"
      ~> (sess[s] = "closed" \/ (sess[s] = "cut" /\ closer[s] = "reaper" /\ stage # "up"))

\* An idle session that nobody streams goes, as long as the reaper runs: no other
\* session, however it is deleted, used or slow to close, keeps the reaper from
\* it.  It may be used, deleted or streamed first.
IdleGoes ==
  \A s \in Sessions :
    (s \in Idle /\ s \notin streams /\ reaper # "off")
      ~> (s \notin Idle \/ s \in streams \/ stage # "up")

\* Shutdown completes if it does not find the reaper waiting for the loops of a
\* session: it stops the reaper and is not stopped by a session that a handler
\* deletes first.
ShutdownCompletes ==
  (stage = "joining" /\ reaper = "off") ~> stage = "down"
-----------------------------------------------------------------------------
(* What the documentation says, and the code does not do.                  *)

Evicts(s) == sess[s] = "live" /\ sess'[s] = "joining" /\ closer'[s] = "reaper"

\* concepts.mdx:15, evicted after "5 minutes since last input or subscriber".
EvictedOnlyIdle == [][\A s \in Sessions : Evicts(s) => idle[s] > IdleLimit]_registryVars

\* deployment.mdx:30, "A live SSE stream counts as a subscriber, so a tab in the
\* foreground keeps the session warm even if the user is AFK."
StreamKeepsWarm == [][\A s \in Sessions : Evicts(s) => s \notin streams]_registryVars
=============================================================================
