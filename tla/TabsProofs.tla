------------------------------ MODULE TabsProofs ------------------------------
(***************************************************************************)
(* Proofs about Tabs for every set of tabs and prompts and every bound: a   *)
(* prompt that waits stays on the screen, which shows the newest one of its *)
(* kind, and one tab at most is told that its answer counted.               *)
(***************************************************************************)
EXTENDS Tabs, FiniteSetTheorems, TLAPS

USE PromptAssumption, BoundAssumption

(* Besides the types three facts are needed: the name of an event goes with  *)
(* the kind of its prompt; a prompt that was answered does not wait any more, *)
(* and has been asked, so that it is not asked again; and it was answered by  *)
(* one tab.                                                                *)

Told(t, p) == reply[t][p] \in {"accepted", "acked"}

EventsNamed ==
  \A i \in 1..Len(log) :
    LET e == log[i]
    IN  /\ e.prompt \in Prompts =>
             e.event = IF e.prompt \in Questions THEN "ask_user_question" ELSE "permission_request"
        /\ e.prompt = None => e.event \notin {"ask_user_question", "permission_request"}

ToldIsClosed ==
  \A t \in Tabs, p \in Prompts : Told(t, p) => p \notin open /\ p \in Asked

ToldOnce == \A t, u \in Tabs, p \in Prompts : Told(t, p) /\ Told(u, p) => t = u

TabsInv ==
  /\ TypeOK /\ EventsNamed /\ ToldIsClosed /\ ToldOnce
  /\ WaitingStaysOnScreen /\ OnlyNewestShown

\* The initial states.
LEMMA TabsInit == Init => TabsInv
<1> SUFFICES ASSUME Init PROVE TabsInv
  OBVIOUS
<1>1. log = <<>> /\ Len(log) = 0 /\ open = {}
  BY DEF Init
<1>2. tab \in [Tabs -> [status : Statuses, pending : [Kinds -> Prompts \cup {None}]]]
  BY DEF Init, initialState, Statuses, Kinds
<1>3. /\ turns \in Nat /\ {serving, running} \subseteq BOOLEAN /\ sends \in 0..MaxSends /\ faults \in 0..MaxFaults
      /\ base \in [Tabs -> Nat] /\ cursor \in [Tabs -> Nat] /\ outbox \in [Tabs -> BOOLEAN]
      /\ \A t \in Tabs : base[t] <= cursor[t] /\ cursor[t] <= Len(log)
  <2>1. /\ turns = 0 /\ serving = TRUE /\ running = FALSE /\ sends = 0 /\ faults = 0
        /\ base = [t \in Tabs |-> 0] /\ cursor = [t \in Tabs |-> 0]
        /\ outbox = [t \in Tabs |-> FALSE]
    BY DEF Init
  <2>2. turns \in Nat /\ sends \in 0..MaxSends /\ faults \in 0..MaxFaults
    BY <2>1 DEF BoundAssumption
  <2>3. {serving, running} \subseteq BOOLEAN /\ outbox \in [Tabs -> BOOLEAN]
    BY <2>1
  <2>4. /\ base \in [Tabs -> Nat] /\ cursor \in [Tabs -> Nat]
        /\ \A t \in Tabs : base[t] <= cursor[t] /\ cursor[t] <= Len(log)
    BY <1>1, <2>1
  <2> QED BY <2>2, <2>3, <2>4
<1>4. /\ reply \in [Tabs -> [Prompts -> {"none", "sent", "accepted", "refused", "acked", "conflict"}]]
      /\ \A t \in Tabs, p \in Prompts : reply[t][p] = "none"
  BY DEF Init
<1>5. TypeOK
  BY <1>1, <1>2, <1>3, <1>4 DEF TypeOK
<1>6. EventsNamed /\ ToldIsClosed /\ ToldOnce /\ WaitingStaysOnScreen
  BY <1>1, <1>4 DEF EventsNamed, ToldIsClosed, ToldOnce, Told, WaitingStaysOnScreen
<1>7. OnlyNewestShown
  BY DEF Init, initialState, OnlyNewestShown
<1> QED BY <1>5, <1>6, <1>7 DEF TabsInv

\* What the types say of the log.
LEMMA LogFacts ==
  ASSUME TabsInv
  PROVE  /\ log \in Seq(Events) /\ Len(log) \in Nat
         /\ \A i \in 1..Len(log) : log[i] \in Events
         /\ Asked = {log[i].prompt : i \in 1..Len(log)}
BY DEF TabsInv, TypeOK, Asked

\* An event is appended: the prompts on the screens stay the newest they were.
LEMMA Emitted ==
  ASSUME TabsInv, NEW name, NEW p \in Prompts \cup {None}, Emit(name, p),
         Event(name, p) \in Events,
         p \in Prompts => name = IF p \in Questions THEN "ask_user_question"
                                 ELSE "permission_request",
         p = None => name \notin {"ask_user_question", "permission_request"},
         UNCHANGED <<tab, cursor, base, reply>>,
         open' \subseteq open \cup {p}, p = None => open' \subseteq open,
         p \in open' => p \notin Asked
  PROVE  /\ log' \in Seq(Events) /\ Len(log') = Len(log) + 1
         /\ Asked' = Asked \cup {p}
         /\ EventsNamed' /\ ToldIsClosed' /\ WaitingStaysOnScreen' /\ OnlyNewestShown'
<1>1. /\ log' = Append(log, Event(name, p)) /\ log' \in Seq(Events)
      /\ Len(log') = Len(log) + 1 /\ Len(log) \in Nat
      /\ \A i \in 1..Len(log) : log'[i] = log[i]
      /\ log'[Len(log) + 1] = Event(name, p)
      /\ Event(name, p).prompt = p /\ Event(name, p).event = name
  BY LogFacts DEF Emit, Event
<1>2. Asked' = Asked \cup {p}
  <2>1. ASSUME NEW q \in Asked' PROVE q \in Asked \cup {p}
    <3>1. PICK i \in 1..Len(log') : q = log'[i].prompt
      BY <2>1 DEF Asked
    <3>2. i = Len(log) + 1 \/ i \in 1..Len(log)
      BY <1>1
    <3> QED BY <1>1, <3>1, <3>2 DEF Asked
  <2>2. ASSUME NEW q \in Asked PROVE q \in Asked'
    <3>1. PICK i \in 1..Len(log) : q = log[i].prompt
      BY <2>2 DEF Asked
    <3>2. i \in 1..Len(log') /\ q = log'[i].prompt
      BY <1>1, <3>1
    <3> QED BY <3>2 DEF Asked
  <2>3. p \in Asked'
    <3>1. Len(log) + 1 \in 1..Len(log') /\ p = log'[Len(log) + 1].prompt
      BY <1>1
    <3> QED BY <3>1 DEF Asked
  <2> QED BY <2>1, <2>2, <2>3
<1>3. EventsNamed'
  <2>1. ASSUME NEW i \in 1..Len(log')
        PROVE  /\ log'[i].prompt \in Prompts =>
                    log'[i].event = IF log'[i].prompt \in Questions THEN "ask_user_question"
                                    ELSE "permission_request"
               /\ log'[i].prompt = None =>
                    log'[i].event \notin {"ask_user_question", "permission_request"}
    <3>1. CASE i = Len(log) + 1
      BY <1>1, <3>1
    <3>2. CASE i \in 1..Len(log)
      BY <1>1, <3>2 DEF TabsInv, EventsNamed
    <3> QED BY <1>1, <3>1, <3>2
  <2> QED BY <2>1 DEF EventsNamed
<1>4. ToldIsClosed'
  <2>1. \A q \in Prompts : q \in Asked /\ q \notin open => q \notin open'
    OBVIOUS
  <2>2. \A t \in Tabs, q \in Prompts : Told(t, q)' => Told(t, q)
    BY DEF Told
  <2> QED BY <1>2, <2>1, <2>2 DEF TabsInv, ToldIsClosed
<1>5. WaitingStaysOnScreen'
  <2>1. ASSUME NEW t \in Tabs, NEW q \in open', NewestIn(q, base[t] + 1, cursor[t])'
        PROVE  tab'[t].pending[Kind(q)] = q
    <3>1. base[t] \in Nat /\ cursor[t] \in Nat /\ cursor[t] <= Len(log)
      BY DEF TabsInv, TypeOK
    <3>2. PICK i \in base[t] + 1 .. cursor[t] :
            /\ log'[i].prompt = q
            /\ \A j \in i + 1 .. cursor[t] : log'[j].prompt # None => Kind(log'[j].prompt) # Kind(q)
      BY <2>1 DEF NewestIn
    <3>3. i \in 1..Len(log) /\ log[i].prompt = q /\ \A j \in i + 1 .. cursor[t] : log'[j] = log[j]
      BY <1>1, <3>1, <3>2
    <3>4. NewestIn(q, base[t] + 1, cursor[t])
      BY <3>2, <3>3 DEF NewestIn
    <3>5. q \in Asked
      BY <3>3 DEF Asked
    <3>6. q \in open
      BY <3>5
    <3> QED BY <3>4, <3>6 DEF TabsInv, WaitingStaysOnScreen
  <2> QED BY <2>1 DEF WaitingStaysOnScreen
<1>6. OnlyNewestShown'
  <2>1. ASSUME NEW t \in Tabs, NEW q, NewestIn(q, base[t] + 1, cursor[t])
        PROVE  NewestIn(q, base[t] + 1, cursor[t])'
    <3>1. base[t] \in Nat /\ cursor[t] \in Nat /\ cursor[t] <= Len(log)
      BY DEF TabsInv, TypeOK
    <3>2. PICK i \in base[t] + 1 .. cursor[t] :
            /\ log[i].prompt = q
            /\ \A j \in i + 1 .. cursor[t] : log[j].prompt # None => Kind(log[j].prompt) # Kind(q)
      BY <2>1 DEF NewestIn
    <3>3. log'[i] = log[i] /\ \A j \in i + 1 .. cursor[t] : log'[j] = log[j]
      BY <1>1, <3>1, <3>2
    <3> QED BY <3>2, <3>3 DEF NewestIn
  <2> QED BY <2>1 DEF TabsInv, OnlyNewestShown
<1> QED BY <1>1, <1>2, <1>3, <1>4, <1>5, <1>6

\* A step of the server that leaves the log alone and opens nothing.
LEMMA LogKept ==
  ASSUME TabsInv, UNCHANGED log, open' \subseteq open,
         \A t \in Tabs, p \in Prompts : Told(t, p)' => p \notin open' /\ (Told(t, p) \/ p \in open),
         UNCHANGED <<base, cursor, tab>>
  PROVE  /\ EventsNamed' /\ ToldIsClosed' /\ WaitingStaysOnScreen' /\ OnlyNewestShown'
         /\ open' \subseteq Prompts \cap Asked'
<1>1. Asked' = Asked
  BY DEF Asked
<1>2. open \subseteq Prompts \cap Asked
  BY DEF TabsInv, TypeOK
<1>3. EventsNamed'
  BY DEF TabsInv, EventsNamed
<1>4. ToldIsClosed'
  BY <1>1, <1>2 DEF TabsInv, ToldIsClosed
<1>5. WaitingStaysOnScreen'
  BY DEF TabsInv, WaitingStaysOnScreen, NewestIn
<1>6. OnlyNewestShown'
  BY DEF TabsInv, OnlyNewestShown, NewestIn
<1> QED BY <1>1, <1>2, <1>3, <1>4, <1>5, <1>6

\* The server begins a turn, or to close the session.
LEMMA TurnStep == ASSUME TabsInv, Begin \/ CloseStart PROVE TabsInv'
<1>1. /\ UNCHANGED <<log, tab, cursor, base, outbox, reply, sends, faults>>
      /\ open' \subseteq open
  BY DEF Begin, CloseStart, tabVars
<1>2. \A t \in Tabs, p \in Prompts : Told(t, p)' = Told(t, p)
  BY <1>1 DEF Told
<1>3. /\ EventsNamed' /\ ToldIsClosed' /\ WaitingStaysOnScreen' /\ OnlyNewestShown'
      /\ open' \subseteq Prompts \cap Asked'
  BY <1>1, <1>2, LogKept DEF TabsInv, ToldIsClosed
<1>4. ToldOnce'
  BY <1>2 DEF TabsInv, ToldOnce
<1>5. turns' \in Nat
  BY DEF Begin, CloseStart, TabsInv, TypeOK
<1>6. serving' \in BOOLEAN /\ running' \in BOOLEAN
  BY DEF Begin, CloseStart, TabsInv, TypeOK
<1>7. TypeOK'
  BY <1>1, <1>3, <1>5, <1>6 DEF TabsInv, TypeOK
<1> QED BY <1>3, <1>4, <1>7 DEF TabsInv

\* Events that carry no prompt: a delta, the end of a turn or of the session.
LEMMA PlainStep == ASSUME TabsInv, Delta \/ Result \/ Error \/ Done PROVE TabsInv'
<1>1. PICK name \in {"message_delta", "result", "error", "done"} : Emit(name, None)
  BY DEF Delta, Result, Error, Done
<1>2. /\ UNCHANGED <<serving, turns, tab, cursor, base, outbox, reply, sends, faults>>
      /\ open' \subseteq open
  BY DEF Delta, Result, Error, Done, tabVars
<1>3. running' \in BOOLEAN
  BY DEF Delta, Result, Error, Done, TabsInv, TypeOK
<1>4. Event(name, None) \in Events /\ None \notin Prompts
  BY DEF Event, Events, PromptAssumption
<1>5. None \notin open'
  BY <1>2, <1>4 DEF TabsInv, TypeOK
<1>6. /\ log' \in Seq(Events) /\ Len(log') = Len(log) + 1
      /\ Asked' = Asked \cup {None}
      /\ EventsNamed' /\ ToldIsClosed' /\ WaitingStaysOnScreen' /\ OnlyNewestShown'
  BY <1>1, <1>2, <1>4, <1>5, Emitted
<1>7. ToldOnce'
  BY <1>2 DEF TabsInv, ToldOnce, Told
<1>8. \A t \in Tabs : base'[t] <= cursor'[t] /\ cursor'[t] <= Len(log')
  BY <1>2, <1>6, LogFacts DEF TabsInv, TypeOK
<1>9. TypeOK'
  BY <1>2, <1>3, <1>6, <1>8 DEF TabsInv, TypeOK
<1> QED BY <1>6, <1>7, <1>9 DEF TabsInv

\* A prompt.
LEMMA AskStep == ASSUME TabsInv, NEW p \in Prompts, Ask(p) PROVE TabsInv'
<1> DEFINE name == IF p \in Questions THEN "ask_user_question" ELSE "permission_request"
<1>1. /\ Emit(name, p) /\ p \notin Asked /\ open' = open \cup {p}
      /\ UNCHANGED <<serving, turns, running, tab, cursor, base, outbox, reply, sends, faults>>
  BY DEF Ask, tabVars
<1>2. Event(name, p) \in Events /\ p # None
  BY DEF Event, Events, PromptAssumption
<1>3. name = IF p \in Questions THEN "ask_user_question" ELSE "permission_request"
  OBVIOUS
<1> HIDE DEF name
<1>4. /\ log' \in Seq(Events) /\ Len(log') = Len(log) + 1
      /\ Asked' = Asked \cup {p}
      /\ EventsNamed' /\ ToldIsClosed' /\ WaitingStaysOnScreen' /\ OnlyNewestShown'
  BY <1>1, <1>2, <1>3, Emitted
<1>5. ToldOnce'
  BY <1>1 DEF TabsInv, ToldOnce, Told
<1>6. \A t \in Tabs : base'[t] <= cursor'[t] /\ cursor'[t] <= Len(log')
  BY <1>1, <1>4, LogFacts DEF TabsInv, TypeOK
<1>7. open' \subseteq Prompts \cap Asked'
  BY <1>1, <1>4 DEF TabsInv, TypeOK
<1>8. TypeOK'
  BY <1>1, <1>4, <1>6, <1>7 DEF TabsInv, TypeOK
<1> QED BY <1>4, <1>5, <1>8 DEF TabsInv

\* A reply for a prompt arrives: who is told now is the first.
LEMMA HandleStep ==
  ASSUME TabsInv, NEW t \in Tabs, NEW p \in Prompts, Handle(t, p) PROVE TabsInv'
<1>1. PICK a \in {"accepted", "refused"} :
        /\ reply' = [reply EXCEPT ![t][p] = a] /\ open' = IF a = "accepted" THEN open \ {p} ELSE open
        /\ a = "accepted" => p \in open
  BY DEF Handle
<1>9. /\ reply[t][p] = "sent"
      /\ UNCHANGED <<serving, log, turns, running, tab, cursor, base, outbox, sends, faults>>
  BY DEF Handle
<1>2. /\ reply' \in [Tabs -> [Prompts -> {"none", "sent", "accepted", "refused", "acked", "conflict"}]]
      /\ \A u \in Tabs, q \in Prompts : <<u, q>> # <<t, p>> => reply'[u][q] = reply[u][q]
      /\ reply'[t][p] = a
  BY <1>1 DEF TabsInv, TypeOK
<1>3. \A u \in Tabs, q \in Prompts :
        <<u, q>> # <<t, p>> => (Told(u, q)' <=> Told(u, q))
  BY <1>2 DEF Told
<1>4. (Told(t, p)' <=> a = "accepted") /\ ~Told(t, p)
  BY <1>2, <1>9 DEF Told
<1>5. \A u \in Tabs, q \in Prompts :
        Told(u, q)' => q \notin open' /\ (Told(u, q) \/ q \in open)
  BY <1>1, <1>3, <1>4 DEF TabsInv, ToldIsClosed
<1>6. /\ EventsNamed' /\ ToldIsClosed' /\ WaitingStaysOnScreen' /\ OnlyNewestShown'
      /\ open' \subseteq Prompts \cap Asked'
  BY <1>1, <1>5, <1>9, LogKept
<1>7. ToldOnce'
  <2>1. ASSUME NEW u \in Tabs, NEW v \in Tabs, NEW q \in Prompts, Told(u, q)', Told(v, q)'
        PROVE  u = v
    <3>1. CASE q # p \/ a # "accepted"
      BY <1>3, <1>4, <2>1, <3>1 DEF TabsInv, ToldOnce
    <3>2. CASE q = p /\ a = "accepted"
      BY <1>1, <1>3, <2>1, <3>2 DEF TabsInv, ToldIsClosed
    <3> QED BY <3>1, <3>2
  <2> QED BY <2>1 DEF ToldOnce
<1>8. TypeOK'
  BY <1>1, <1>2, <1>6, <1>9 DEF TabsInv, TypeOK
<1> QED BY <1>6, <1>7, <1>8 DEF TabsInv

\* A user message arrives or is lost.
LEMMA SendEnds ==
  ASSUME TabsInv, NEW t \in Tabs, SendArrives(t) \/ SendFails(t) PROVE TabsInv'
<1>1. /\ UNCHANGED <<serving, log, open, running, tab, cursor, base, reply, sends>>
      /\ outbox' = [outbox EXCEPT ![t] = FALSE]
  BY DEF SendArrives, SendFails, serverVars
<1>2. turns' \in Nat /\ faults' \in 0..MaxFaults
  BY DEF SendArrives, SendFails, serverVars, TabsInv, TypeOK, BoundAssumption
<1>3. \A u \in Tabs, p \in Prompts : Told(u, p)' = Told(u, p)
  BY <1>1 DEF Told
<1>4. /\ EventsNamed' /\ ToldIsClosed' /\ WaitingStaysOnScreen' /\ OnlyNewestShown'
      /\ open' \subseteq Prompts \cap Asked'
  BY <1>1, <1>3, LogKept DEF TabsInv, ToldIsClosed
<1>5. ToldOnce'
  BY <1>3 DEF TabsInv, ToldOnce
<1>6. TypeOK'
  BY <1>1, <1>2, <1>4 DEF TabsInv, TypeOK
<1> QED BY <1>4, <1>5, <1>6 DEF TabsInv

\* A call is made, is refused, or fails: nobody is told anything new.
LEMMA CallStep ==
  ASSUME TabsInv, NEW t \in Tabs, NEW p \in Prompts,
         Reply(t, p) \/ Conflict(t, p) \/ CallFails(t, p)
  PROVE  TabsInv'
<1>1. PICK a \in {"none", "sent", "conflict"} : reply' = [reply EXCEPT ![t][p] = a]
  BY DEF Reply, Conflict, CallFails
<1>2. UNCHANGED <<serving, log, open, turns, running, tab, cursor, base, outbox, sends>>
  BY DEF Reply, Conflict, CallFails, serverVars
<1>3. faults' \in 0..MaxFaults
  BY DEF Reply, Conflict, CallFails, TabsInv, TypeOK, BoundAssumption
<1>4. /\ reply' \in [Tabs -> [Prompts -> {"none", "sent", "accepted", "refused", "acked", "conflict"}]]
      /\ \A u \in Tabs, q \in Prompts : <<u, q>> # <<t, p>> => reply'[u][q] = reply[u][q]
      /\ reply'[t][p] = a
  BY <1>1 DEF TabsInv, TypeOK
<1>5. \A u \in Tabs, q \in Prompts : Told(u, q)' => Told(u, q)
  BY <1>4 DEF Told
<1>6. /\ EventsNamed' /\ ToldIsClosed' /\ WaitingStaysOnScreen' /\ OnlyNewestShown'
      /\ open' \subseteq Prompts \cap Asked'
  BY <1>2, <1>5, LogKept DEF TabsInv, ToldIsClosed
<1>7. ToldOnce'
  BY <1>5 DEF TabsInv, ToldOnce
<1>8. TypeOK'
  BY <1>2, <1>3, <1>4, <1>6 DEF TabsInv, TypeOK
<1> QED BY <1>6, <1>7, <1>8 DEF TabsInv

\* A step of the hook: the server stands still, and every prompt that waits
\* and is the newest of its kind is on the screen afterwards.
LEMMA ScreenStep ==
  ASSUME TabsInv, NEW t \in Tabs, UNCHANGED serverVars,
         \A u \in Tabs \ {t} :
           tab'[u] = tab[u] /\ cursor'[u] = cursor[u] /\ base'[u] = base[u],
         \A u \in Tabs, p \in Prompts : Told(u, p)' => Told(u, p),
         \A p \in open : NewestIn(p, base[t] + 1, cursor[t])' => tab'[t].pending[Kind(p)] = p,
         \A k \in Kinds : tab'[t].pending[k] # None =>
           /\ Kind(tab'[t].pending[k]) = k
           /\ NewestIn(tab[t].pending[k], base[t] + 1, cursor[t])'
  PROVE  /\ EventsNamed' /\ ToldIsClosed' /\ ToldOnce' /\ WaitingStaysOnScreen' /\ OnlyNewestShown'
         /\ open' \subseteq Prompts \cap Asked'
<1>1. UNCHANGED <<log, open>>
  BY DEF serverVars
<1>2. Asked' = Asked
  BY <1>1 DEF Asked
<1>3. EventsNamed' /\ open' \subseteq Prompts \cap Asked'
  BY <1>1, <1>2 DEF TabsInv, EventsNamed, TypeOK
<1>4. ToldIsClosed' /\ ToldOnce'
  BY <1>1, <1>2 DEF TabsInv, ToldIsClosed, ToldOnce
<1>5. ASSUME NEW u \in Tabs, NEW p \in open, NewestIn(p, base[u] + 1, cursor[u])'
      PROVE  tab'[u].pending[Kind(p)] = p
  <2>1. CASE u = t
    BY <1>5, <2>1
  <2>2. CASE u # t
    <3>1. tab'[u] = tab[u] /\ NewestIn(p, base[u] + 1, cursor[u])
      BY <1>1, <1>5, <2>2 DEF NewestIn
    <3> QED BY <3>1 DEF TabsInv, WaitingStaysOnScreen
  <2> QED BY <2>1, <2>2
<1>6. WaitingStaysOnScreen'
  BY <1>1, <1>5 DEF WaitingStaysOnScreen
<1>7. ASSUME NEW u \in Tabs, NEW k \in Kinds, tab'[u].pending[k] # None
      PROVE  /\ Kind(tab'[u].pending[k]) = k
             /\ NewestIn(tab[u].pending[k], base[u] + 1, cursor[u])'
  <2>1. CASE u = t
    BY <1>7, <2>1
  <2>2. CASE u # t
    <3>1. tab'[u] = tab[u] /\ base'[u] = base[u] /\ cursor'[u] = cursor[u]
      BY <2>2
    <3>2. Kind(tab[u].pending[k]) = k /\ NewestIn(tab[u].pending[k], base[u] + 1, cursor[u])
      BY <1>7, <3>1 DEF TabsInv, OnlyNewestShown
    <3> QED BY <1>1, <3>1, <3>2 DEF NewestIn
  <2> QED BY <2>1, <2>2
<1>8. OnlyNewestShown'
  BY <1>7 DEF OnlyNewestShown
<1> QED BY <1>3, <1>4, <1>6, <1>8

\* send() touches the status only.
LEMMA SendStep == ASSUME TabsInv, NEW t \in Tabs, Send(t) PROVE TabsInv'
<1>1. /\ UNCHANGED <<serverVars, cursor, base, reply, faults>>
      /\ tab' = [tab EXCEPT ![t].status = "streaming"]
      /\ outbox' = [outbox EXCEPT ![t] = TRUE]
      /\ sends' = sends + 1 /\ sends < MaxSends
  BY DEF Send
<1>2. /\ tab' \in [Tabs -> [status : Statuses, pending : [Kinds -> Prompts \cup {None}]]]
      /\ \A u \in Tabs : tab'[u].pending = tab[u].pending
      /\ \A u \in Tabs \ {t} : tab'[u] = tab[u]
  <2>1. tab \in [Tabs -> [status : Statuses, pending : [Kinds -> Prompts \cup {None}]]]
    BY DEF TabsInv, TypeOK
  <2> DEFINE s == [tab[t] EXCEPT !.status = "streaming"]
  <2>2. /\ s \in [status : Statuses, pending : [Kinds -> Prompts \cup {None}]]
        /\ s.pending = tab[t].pending
    BY <2>1 DEF Statuses
  <2>3. tab' = [tab EXCEPT ![t] = s]
    BY <1>1
  <2> HIDE DEF s
  <2> QED BY <2>1, <2>2, <2>3
<1>3. \A u \in Tabs, p \in Prompts : Told(u, p)' = Told(u, p)
  BY <1>1 DEF Told
<1>4. \A p \in open : NewestIn(p, base[t] + 1, cursor[t])' => tab'[t].pending[Kind(p)] = p
  BY <1>1, <1>2 DEF TabsInv, WaitingStaysOnScreen, NewestIn, serverVars
<1>5. /\ EventsNamed' /\ ToldIsClosed' /\ ToldOnce' /\ WaitingStaysOnScreen' /\ OnlyNewestShown'
      /\ open' \subseteq Prompts \cap Asked'
  <2>1. \A k \in Kinds : tab'[t].pending[k] # None =>
          /\ Kind(tab'[t].pending[k]) = k
          /\ NewestIn(tab[t].pending[k], base[t] + 1, cursor[t])'
    <3>1. UNCHANGED <<log, base, cursor>>
      BY <1>1 DEF serverVars
    <3> QED BY <1>2, <3>1 DEF TabsInv, OnlyNewestShown, NewestIn
  <2> QED BY <1>1, <1>2, <1>3, <1>4, <2>1, ScreenStep
<1>6. sends' \in 0..MaxSends
  BY <1>1 DEF TabsInv, TypeOK, BoundAssumption
<1>7. UNCHANGED <<serving, log, turns, running, cursor, base, reply, faults>>
  BY <1>1 DEF serverVars
<1>8. TypeOK'
  BY <1>1, <1>2, <1>5, <1>6, <1>7 DEF TabsInv, TypeOK
<1> QED BY <1>5, <1>8 DEF TabsInv

\* A 204: the prompt it clears does not wait any more, and no other is cleared.
LEMMA AckStep ==
  ASSUME TabsInv, NEW t \in Tabs, NEW p \in Prompts, Ack(t, p) PROVE TabsInv'
<1>1. /\ UNCHANGED <<serverVars, cursor, base, outbox, sends, faults>>
      /\ tab' = [tab EXCEPT ![t] = Resolved(tab[t], p)]
      /\ reply' = [reply EXCEPT ![t][p] = "acked"] /\ reply[t][p] = "accepted"
  BY DEF Ack
<1>2. tab[t] \in [status : Statuses, pending : [Kinds -> Prompts \cup {None}]]
  BY DEF TabsInv, TypeOK
<1>3. Kind(p) \in Kinds
  BY DEF Kind, Kinds
<1>4. /\ Resolved(tab[t], p) \in [status : Statuses, pending : [Kinds -> Prompts \cup {None}]]
      /\ \A k \in Kinds : tab[t].pending[k] # p => Resolved(tab[t], p).pending[k] = tab[t].pending[k]
  BY <1>2, <1>3 DEF Resolved, Statuses
<1>5. /\ tab' \in [Tabs -> [status : Statuses, pending : [Kinds -> Prompts \cup {None}]]]
      /\ tab'[t] = Resolved(tab[t], p)
      /\ \A u \in Tabs \ {t} : tab'[u] = tab[u]
  BY <1>1, <1>4 DEF TabsInv, TypeOK
<1>6. /\ reply' \in [Tabs -> [Prompts -> {"none", "sent", "accepted", "refused", "acked", "conflict"}]]
      /\ \A u \in Tabs, q \in Prompts : <<u, q>> # <<t, p>> => reply'[u][q] = reply[u][q]
  BY <1>1 DEF TabsInv, TypeOK
<1>7. \A u \in Tabs, q \in Prompts : Told(u, q)' => Told(u, q)
  BY <1>1, <1>6 DEF Told
<1>8. p \notin open
  BY <1>1 DEF TabsInv, ToldIsClosed, Told
<1>9. ASSUME NEW q \in open, NewestIn(q, base[t] + 1, cursor[t])'
      PROVE  tab'[t].pending[Kind(q)] = q
  <2>1. tab[t].pending[Kind(q)] = q
    BY <1>1, <1>9 DEF TabsInv, WaitingStaysOnScreen, NewestIn, serverVars
  <2>2. Kind(q) \in Kinds /\ q # p
    BY <1>8 DEF Kind, Kinds
  <2> QED BY <1>4, <1>5, <2>1, <2>2
<1>10. /\ EventsNamed' /\ ToldIsClosed' /\ ToldOnce' /\ WaitingStaysOnScreen' /\ OnlyNewestShown'
       /\ open' \subseteq Prompts \cap Asked'
  <2>1. \A k \in Kinds : tab'[t].pending[k] # None =>
          /\ Kind(tab'[t].pending[k]) = k
          /\ NewestIn(tab[t].pending[k], base[t] + 1, cursor[t])'
    <3> TAKE k \in Kinds
    <3> HAVE tab'[t].pending[k] # None
    <3>1. tab'[t].pending[k] = tab[t].pending[k]
      BY <1>2, <1>3, <1>5 DEF Resolved
    <3>2. Kind(tab[t].pending[k]) = k /\ NewestIn(tab[t].pending[k], base[t] + 1, cursor[t])
      BY <3>1 DEF TabsInv, OnlyNewestShown
    <3>3. UNCHANGED <<log, base, cursor>>
      BY <1>1 DEF serverVars
    <3> QED BY <3>1, <3>2, <3>3 DEF NewestIn
  <2> QED BY <1>1, <1>5, <1>7, <1>9, <2>1, ScreenStep
<1>11. UNCHANGED <<serving, log, turns, running, cursor, base, outbox, sends, faults>>
  BY <1>1 DEF serverVars
<1>12. TypeOK'
  BY <1>5, <1>6, <1>10, <1>11 DEF TabsInv, TypeOK
<1> QED BY <1>10, <1>12 DEF TabsInv

\* The reducer on an event: a prompt goes to the slot of its kind, and every
\* other slot stays.
LEMMA ReduceFacts ==
  ASSUME TabsInv, NEW i \in 1..Len(log),
         NEW s \in [status : Statuses, pending : [Kinds -> Prompts \cup {None}]]
  PROVE  /\ Reduce(s, log[i]) \in [status : Statuses, pending : [Kinds -> Prompts \cup {None}]]
         /\ log[i].prompt = None => Reduce(s, log[i]).pending = s.pending
         /\ log[i].prompt \in Prompts =>
              Reduce(s, log[i]).pending = [s.pending EXCEPT ![Kind(log[i].prompt)] = log[i].prompt]
<1> DEFINE e == log[i]
<1>1. e \in Events
  BY LogFacts
<1>2. /\ e.prompt \in Prompts => e.event = IF e.prompt \in Questions THEN "ask_user_question"
                                           ELSE "permission_request"
      /\ e.prompt = None => e.event \notin {"ask_user_question", "permission_request"}
  BY DEF TabsInv, EventsNamed
<1> HIDE DEF e
<1>3. e.prompt \in Prompts \/ e.prompt = None
  BY <1>1 DEF Events
<1>4. CASE e.prompt \in Prompts
  <2>1. None \notin Prompts
    BY DEF PromptAssumption
  <2>2. CASE e.prompt \in Questions
    <3>1. /\ Reduce(s, e) = [status |-> "awaiting_question",
                             pending |-> [s.pending EXCEPT !["question"] = e.prompt]]
          /\ Kind(e.prompt) = "question"
      BY <1>2, <1>4, <2>2 DEF Reduce, Kind
    <3> QED BY <1>4, <2>1, <3>1 DEF Statuses, Kinds, e
  <2>3. CASE e.prompt \notin Questions
    <3>1. /\ Reduce(s, e) = [status |-> "awaiting_permission",
                             pending |-> [s.pending EXCEPT !["permission"] = e.prompt]]
          /\ Kind(e.prompt) = "permission"
      BY <1>2, <1>4, <2>3 DEF Reduce, Kind
    <3> QED BY <1>4, <2>1, <3>1 DEF Statuses, Kinds, e
  <2> QED BY <2>2, <2>3
<1>5. CASE e.prompt = None
  <2>1. e.event \in {"message_delta", "result", "error", "done"} /\ None \notin Prompts
    BY <1>1, <1>2, <1>5 DEF Events, PromptAssumption
  <2>2. PICK v \in Statuses : Reduce(s, e) = [s EXCEPT !.status = v]
    BY <2>1 DEF Reduce, Statuses
  <2> QED BY <1>5, <2>1, <2>2 DEF e
<1> QED BY <1>3, <1>4, <1>5

\* An event is delivered.
LEMMA DeliverStep == ASSUME TabsInv, NEW t \in Tabs, Deliver(t) PROVE TabsInv'
<1> DEFINE c == cursor[t] + 1
           e == log[c]
<1>1. /\ UNCHANGED <<serverVars, base, outbox, reply, sends, faults>>
      /\ tab' = [tab EXCEPT ![t] = Reduce(tab[t], e)]
      /\ cursor' = [cursor EXCEPT ![t] = cursor[t] + 1] /\ cursor[t] < Len(log)
  BY DEF Deliver
<1>2. /\ base[t] \in Nat /\ cursor[t] \in Nat /\ base[t] <= cursor[t] /\ Len(log) \in Nat
      /\ tab[t] \in [status : Statuses, pending : [Kinds -> Prompts \cup {None}]]
  BY LogFacts DEF TabsInv, TypeOK
<1>3. c \in 1..Len(log)
  BY <1>1, <1>2
<1>4. /\ e \in Events
      /\ Reduce(tab[t], e) \in [status : Statuses, pending : [Kinds -> Prompts \cup {None}]]
      /\ e.prompt = None => Reduce(tab[t], e).pending = tab[t].pending
      /\ e.prompt \in Prompts =>
           Reduce(tab[t], e).pending = [tab[t].pending EXCEPT ![Kind(e.prompt)] = e.prompt]
  BY <1>2, <1>3, ReduceFacts, LogFacts
<1>5. /\ tab' \in [Tabs -> [status : Statuses, pending : [Kinds -> Prompts \cup {None}]]]
      /\ tab'[t] = Reduce(tab[t], e)
      /\ \A u \in Tabs \ {t} : tab'[u] = tab[u] /\ cursor'[u] = cursor[u] /\ base'[u] = base[u]
      /\ cursor' \in [Tabs -> Nat] /\ cursor'[t] = c /\ base'[t] = base[t]
  BY <1>1, <1>2, <1>4 DEF TabsInv, TypeOK
<1>6. ASSUME NEW q \in open, NewestIn(q, base[t] + 1, cursor[t])'
      PROVE  tab'[t].pending[Kind(q)] = q
  <2>1. q \in Prompts /\ Kind(q) \in Kinds /\ None \notin Prompts
    BY DEF TabsInv, TypeOK, Kind, Kinds, PromptAssumption
  <2>2. PICK i \in base[t] + 1 .. c :
          /\ log[i].prompt = q
          /\ \A j \in i + 1 .. c : log[j].prompt # None => Kind(log[j].prompt) # Kind(q)
    BY <1>1, <1>5, <1>6 DEF NewestIn, serverVars
  <2>3. CASE i = c
    <3>1. e.prompt = q
      BY <2>2, <2>3
    <3>2. tab'[t].pending = [tab[t].pending EXCEPT ![Kind(q)] = q]
      BY <1>4, <1>5, <2>1, <3>1
    <3> QED BY <1>2, <2>1, <3>2
  <2>4. CASE i # c
    <3>1. i \in base[t] + 1 .. cursor[t] /\ c \in i + 1 .. c
      BY <1>2, <2>2, <2>4
    <3>2. \A j \in i + 1 .. cursor[t] : j \in i + 1 .. c
      BY <1>2
    <3>3. NewestIn(q, base[t] + 1, cursor[t])
      BY <2>2, <3>1, <3>2 DEF NewestIn
    <3>4. tab[t].pending[Kind(q)] = q
      BY <3>3 DEF TabsInv, WaitingStaysOnScreen
    <3>5. e.prompt # None => Kind(e.prompt) # Kind(q)
      BY <2>2, <3>1
    <3>6. e.prompt \in Prompts \/ e.prompt = None
      BY <1>4 DEF Events
    <3>7. CASE e.prompt = None
      BY <1>4, <1>5, <3>4, <3>7
    <3>8. CASE e.prompt \in Prompts
      <4>1. Kind(e.prompt) # Kind(q)
        BY <2>1, <3>5, <3>8
      <4>2. tab'[t].pending = [tab[t].pending EXCEPT ![Kind(e.prompt)] = e.prompt]
        BY <1>4, <1>5, <3>8
      <4> QED BY <1>2, <2>1, <3>4, <4>1, <4>2
    <3> QED BY <3>6, <3>7, <3>8
  <2> QED BY <2>3, <2>4
<1>7. ASSUME NEW k \in Kinds, tab'[t].pending[k] # None
       PROVE  /\ Kind(tab'[t].pending[k]) = k
              /\ NewestIn(tab[t].pending[k], base[t] + 1, cursor[t])'
  <2> DEFINE q == tab'[t].pending[k]
  <2>1. e.prompt \in Prompts \/ e.prompt = None
    BY <1>4 DEF Events
  <2>2. /\ UNCHANGED log /\ base'[t] = base[t] /\ cursor'[t] = c
    BY <1>1, <1>5 DEF serverVars
  <2>3. CASE e.prompt \in Prompts /\ Kind(e.prompt) = k
    <3>1. q = e.prompt
      BY <1>2, <1>4, <1>5, <2>3
    <3>2. c \in base[t] + 1 .. c /\ c + 1 .. c = {} /\ log[c].prompt = q
      BY <1>2, <3>1
    <3> QED BY <2>2, <2>3, <3>1, <3>2 DEF NewestIn
  <2>4. CASE e.prompt = None \/ (e.prompt \in Prompts /\ Kind(e.prompt) # k)
    <3>1. q = tab[t].pending[k]
      BY <1>2, <1>4, <1>5, <2>4
    <3>2. Kind(q) = k /\ NewestIn(q, base[t] + 1, cursor[t])
      BY <1>7, <3>1 DEF TabsInv, OnlyNewestShown
    <3>3. PICK i \in base[t] + 1 .. cursor[t] :
            /\ log[i].prompt = q
            /\ \A j \in i + 1 .. cursor[t] : log[j].prompt # None => Kind(log[j].prompt) # Kind(q)
      BY <3>2 DEF NewestIn
    <3>4. e.prompt # None => Kind(e.prompt) # Kind(q)
      BY <2>4, <3>2
    <3>5. i \in base[t] + 1 .. c /\ \A j \in i + 1 .. c : j = c \/ j \in i + 1 .. cursor[t]
      BY <1>2, <3>3
    <3>6. \A j \in i + 1 .. c : log[j].prompt # None => Kind(log[j].prompt) # Kind(q)
      BY <3>3, <3>4, <3>5
    <3> QED BY <2>2, <3>2, <3>3, <3>5, <3>6 DEF NewestIn
  <2> QED BY <2>1, <2>3, <2>4
<1> HIDE DEF c, e
<1>8. \A u \in Tabs, p \in Prompts : Told(u, p)' = Told(u, p)
  BY <1>1 DEF Told
<1>9. /\ EventsNamed' /\ ToldIsClosed' /\ ToldOnce' /\ WaitingStaysOnScreen' /\ OnlyNewestShown'
      /\ open' \subseteq Prompts \cap Asked'
  BY <1>1, <1>5, <1>6, <1>8, <1>7, ScreenStep
<1>10. UNCHANGED <<serving, log, turns, running, base, outbox, reply, sends, faults>>
  BY <1>1 DEF serverVars
<1>11. \A u \in Tabs : base'[u] <= cursor'[u] /\ cursor'[u] <= Len(log')
  <2>1. base[t] <= c /\ c <= Len(log)
    BY <1>2, <1>3 DEF c
  <2> QED BY <1>5, <1>10, <2>1 DEF TabsInv, TypeOK
<1>12. TypeOK'
  BY <1>5, <1>9, <1>10, <1>11 DEF TabsInv, TypeOK
<1> QED BY <1>9, <1>12 DEF TabsInv

\* The page is reloaded: nothing has been delivered to it.
LEMMA ReloadStep ==
  ASSUME TabsInv, NEW t \in Tabs, NEW from \in {0, cursor[t]}, Reload(t, from)
  PROVE  TabsInv'
<1>1. /\ UNCHANGED <<serverVars, sends>>
      /\ tab' = [tab EXCEPT ![t] = initialState]
      /\ cursor' = [cursor EXCEPT ![t] = from]
      /\ base' = [base EXCEPT ![t] = from]
      /\ outbox' = [outbox EXCEPT ![t] = FALSE]
      /\ reply' = [reply EXCEPT ![t] = [p \in Prompts |-> "none"]]
      /\ faults < MaxFaults /\ faults' = faults + 1
  BY DEF Reload
<1>2. from \in Nat /\ from <= Len(log) /\ Len(log) \in Nat
  BY LogFacts DEF TabsInv, TypeOK
<1>3. initialState \in [status : Statuses, pending : [Kinds -> Prompts \cup {None}]]
  BY DEF initialState, Statuses
<1>4. /\ tab' \in [Tabs -> [status : Statuses, pending : [Kinds -> Prompts \cup {None}]]]
      /\ \A u \in Tabs \ {t} : tab'[u] = tab[u]
  BY <1>1, <1>3 DEF TabsInv, TypeOK
<1>5. /\ cursor' \in [Tabs -> Nat] /\ base' \in [Tabs -> Nat]
      /\ cursor'[t] = from /\ base'[t] = from
      /\ \A u \in Tabs \ {t} : cursor'[u] = cursor[u] /\ base'[u] = base[u]
  BY <1>1, <1>2 DEF TabsInv, TypeOK
<1>6. /\ reply' \in [Tabs -> [Prompts -> {"none", "sent", "accepted", "refused", "acked", "conflict"}]]
      /\ \A u \in Tabs, q \in Prompts : reply'[u][q] = "none" \/ reply'[u][q] = reply[u][q]
  BY <1>1 DEF TabsInv, TypeOK
<1>7. \A u \in Tabs, q \in Prompts : Told(u, q)' => Told(u, q)
  BY <1>6 DEF Told
<1>8. \A p \in open : ~NewestIn(p, base[t] + 1, cursor[t])'
  BY <1>2, <1>5 DEF NewestIn
<1>9. /\ EventsNamed' /\ ToldIsClosed' /\ ToldOnce' /\ WaitingStaysOnScreen' /\ OnlyNewestShown'
      /\ open' \subseteq Prompts \cap Asked'
  <2>1. \A k \in Kinds : tab'[t].pending[k] = None
    BY <1>1 DEF TabsInv, TypeOK, initialState
  <2> QED BY <1>1, <1>4, <1>5, <1>7, <1>8, <2>1, ScreenStep
<1>10. UNCHANGED <<serving, log, turns, running, sends>>
  BY <1>1 DEF serverVars
<1>11. ASSUME NEW u \in Tabs PROVE base'[u] <= cursor'[u] /\ cursor'[u] <= Len(log')
  <2>1. CASE u = t
    BY <1>2, <1>5, <1>10, <2>1
  <2>2. CASE u # t
    <3>1. base[u] <= cursor[u] /\ cursor[u] <= Len(log)
      BY DEF TabsInv, TypeOK
    <3> QED BY <1>5, <1>10, <2>2, <3>1
  <2> QED BY <2>1, <2>2
<1>12. faults' \in 0..MaxFaults
  BY <1>1 DEF TabsInv, TypeOK, BoundAssumption
<1>13. outbox' \in [Tabs -> BOOLEAN]
  BY <1>1 DEF TabsInv, TypeOK
<1>14. TypeOK'
  BY <1>4, <1>5, <1>6, <1>9, <1>10, <1>11, <1>12, <1>13 DEF TabsInv, TypeOK
<1> QED BY <1>9, <1>14 DEF TabsInv

\* Every step preserves the invariant.
LEMMA TabsStep == TabsInv /\ [Next]_vars => TabsInv'
<1> SUFFICES ASSUME TabsInv, [Next]_vars PROVE TabsInv'
  OBVIOUS
<1>1. CASE UNCHANGED vars
  <2>1. UNCHANGED <<serving, log, open, turns, running, tab, cursor, base, outbox, reply, sends, faults>>
    BY <1>1 DEF vars, serverVars, tabVars
  <2> QED BY <2>1 DEF TabsInv, TypeOK, EventsNamed, ToldIsClosed, ToldOnce, Told,
                      WaitingStaysOnScreen, OnlyNewestShown, NewestIn, Asked
<1>2. CASE Begin \/ CloseStart
  BY <1>2, TurnStep
<1>3. CASE Delta \/ Result \/ Error \/ Done
  BY <1>3, PlainStep
<1>4. CASE \E p \in Prompts : Ask(p)
  BY <1>4, AskStep
<1>5. ASSUME NEW t \in Tabs,
             \/ Deliver(t) \/ Send(t) \/ SendArrives(t) \/ SendFails(t)
             \/ \E from \in {0, cursor[t]} : Reload(t, from)
             \/ \E p \in Prompts : Reply(t, p) \/ Call(t, p) \/ CallFails(t, p)
      PROVE  TabsInv'
  <2>1. CASE Deliver(t)
    BY <2>1, DeliverStep
  <2>2. CASE Send(t)
    BY <2>2, SendStep
  <2>3. CASE SendArrives(t) \/ SendFails(t)
    BY <2>3, SendEnds
  <2>4. CASE \E from \in {0, cursor[t]} : Reload(t, from)
    BY <2>4, ReloadStep
  <2>5. ASSUME NEW p \in Prompts, Reply(t, p) \/ Call(t, p) \/ CallFails(t, p)
        PROVE  TabsInv'
    BY <2>5, HandleStep, AckStep, CallStep DEF Call
  <2> QED BY <1>5, <2>1, <2>2, <2>3, <2>4, <2>5
<1> QED BY <1>1, <1>2, <1>3, <1>4, <1>5 DEF Next

\* The inductive invariant.
THEOREM TabsInvariant == Spec => []TabsInv
<1>1. Init => TabsInv
  BY TabsInit
<1>2. TabsInv /\ [Next]_vars => TabsInv'
  BY TabsStep
<1> QED BY <1>1, <1>2, PTL DEF Spec

\* The types: what waits has been asked, and no tab is ahead of the log.
THEOREM TabsTypeCorrect == Spec => []TypeOK
<1>1. TabsInv => TypeOK
  BY DEF TabsInv
<1> QED BY <1>1, TabsInvariant, PTL

\* Only a newer prompt of its kind takes a prompt that waits from a screen
\* (reducer.ts), with any number of tabs, prompts, reloads and lost calls.
THEOREM WaitingPromptStays == Spec => []WaitingStaysOnScreen
<1>1. TabsInv => WaitingStaysOnScreen
  BY DEF TabsInv
<1> QED BY <1>1, TabsInvariant, PTL

\* What a screen shows is the newest prompt of its kind among the events the
\* tab was delivered (the slots of reducer.ts).
THEOREM NewestPromptShown == Spec => []OnlyNewestShown
<1>1. TabsInv => OnlyNewestShown
  BY DEF TabsInv
<1> QED BY <1>1, TabsInvariant, PTL

\* A set with no two elements has at most one.
LEMMA AtMostOne ==
  ASSUME NEW S, \A x, y \in S : x = y PROVE Cardinality(S) <= 1
<1>1. CASE S = {}
  BY <1>1, FS_EmptySet
<1>2. CASE S # {}
  <2>1. PICK x \in S : S = {x}
    BY <1>2
  <2> QED BY <2>1, FS_Singleton
<1> QED BY <1>1, <1>2

\* First reply wins: of any number of tabs one at most is told that its answer
\* to a prompt counted (the 204 of session.py, the dispatch of the hook).
THEOREM OneTabIsTold == Spec => []OneTabTold
<1>1. ASSUME TabsInv PROVE OneTabTold
  <2>1. ASSUME NEW p \in Prompts
        PROVE  Cardinality({t \in Tabs : reply[t][p] \in {"accepted", "acked"}}) <= 1
    <3> DEFINE S == {t \in Tabs : reply[t][p] \in {"accepted", "acked"}}
    <3>1. \A t, u \in S : t = u
      BY <1>1 DEF TabsInv, ToldOnce, Told
    <3> QED BY <3>1, AtMostOne
  <2> QED BY <2>1 DEF OneTabTold
<1> QED BY <1>1, TabsInvariant, PTL
=============================================================================
