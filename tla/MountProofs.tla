----------------------------- MODULE MountProofs -----------------------------
(***************************************************************************)
(* Proofs about Mount for every script of events and every number of runs   *)
(* of the effect, sessions, messages and replays: type correctness, that    *)
(* one stream at most is live, and that what is shown agrees with the events *)
(* that were dispatched.                                                   *)
(***************************************************************************)
EXTENDS Mount, FiniteSetTheorems, SequenceTheorems, WellFoundedInduction, TLAPS

USE ScriptAssumption, BoundAssumption

\* A set of numbers that is not empty has a least one.
LEMMA LeastNumber ==
  ASSUME NEW T, T \subseteq Nat, T # {}
  PROVE  Min(T) \in T /\ \A y \in T : Min(T) <= y
<1>1. PICK x \in T : \A y \in T : ~ (<<y, x>> \in OpToRel(<, Nat))
  BY NatLessThanWellFounded, WFMin
<1>2. ASSUME NEW y \in T PROVE x <= y
  <2>1. <<y, x>> \in OpToRel(<, Nat) <=> <<y, x>> \in Nat \X Nat /\ <<y, x>>[1] < <<y, x>>[2]
    BY ZenonT(20) DEF OpToRel
  <2>2. <<y, x>> \in Nat \X Nat /\ <<y, x>>[1] = y /\ <<y, x>>[2] = x
    OBVIOUS
  <2>3. ~ (y < x)
    BY <1>1, <2>1, <2>2
  <2> QED BY <2>3
<1> QED BY <1>1, <1>2 DEF Min

\* Where a message stands: at its index, or nowhere and then the index is 0.
LEMMA IndexFacts ==
  ASSUME NEW messages \in Seq(Message), NEW id
  PROVE  /\ IndexIn(messages, id) \in 0..Len(messages)
         /\ IndexIn(messages, id) = 0 => Entries(messages, "assistant", id) = {}
         /\ IndexIn(messages, id) # 0 =>
              IndexIn(messages, id) \in Entries(messages, "assistant", id)
<1> DEFINE I == {i \in 1..Len(messages) : messages[i].kind = "assistant" /\ messages[i].id = id}
<1>1. I \subseteq Nat /\ I \subseteq 1..Len(messages) /\ Len(messages) \in Nat
  OBVIOUS
<1>2. IndexIn(messages, id) = IF I # {} THEN Min(I) ELSE 0
  BY DEF IndexIn, SelectInSeq
<1>3. I # {} => Min(I) \in I
  BY <1>1, LeastNumber
<1>4. Entries(messages, "assistant", id) = I
  BY DEF Entries
<1>5. CASE I = {}
  BY <1>1, <1>2, <1>4, <1>5
<1>6. CASE I # {}
  <2>1. IndexIn(messages, id) \in I
    BY <1>2, <1>3, <1>6
  <2> HIDE DEF I
  <2>2. IndexIn(messages, id) \in 1..Len(messages)
    BY <1>1, <2>1
  <2>3. IndexIn(messages, id) # 0 /\ IndexIn(messages, id) \in 0..Len(messages)
    BY <1>1, <2>2
  <2> QED BY <1>4, <2>1, <2>3
<1> QED BY <1>5, <1>6

\* An entry that replaces one or comes at the end leaves a list of messages.
LEMMA PutType ==
  ASSUME NEW messages \in Seq(Message), NEW e \in Message
  PROVE  Put(messages, e) \in Seq(Message)
<1>1. IndexIn(messages, e.id) \in 0..Len(messages)
  BY IndexFacts
<1>2. CASE IndexIn(messages, e.id) = 0
  BY <1>2 DEF Put
<1>3. CASE IndexIn(messages, e.id) # 0
  <2> DEFINE i == IndexIn(messages, e.id)
  <2>1. i \in 1..Len(messages)
    BY <1>1, <1>3
  <2> HIDE DEF i
  <2>2. [messages EXCEPT ![i] = e] \in Seq(Message)
    BY <2>1
  <2> QED BY <1>3, <2>2 DEF Put, ReplaceAt, i
<1> QED BY <1>2, <1>3

\* What a message has so far is a list of blocks.
LEMMA ContentType ==
  ASSUME NEW messages \in Seq(Message), NEW id
  PROVE  ContentOf(messages, id) \in Seq(Block)
<1> DEFINE i == IndexIn(messages, id)
<1>1. i \in 0..Len(messages)
  BY IndexFacts
<1> HIDE DEF i
<1>2. ASSUME i # 0 PROVE messages[i].content \in Seq(Block)
  <2>1. messages[i] \in Message
    BY <1>1, <1>2
  <2> QED BY <2>1 DEF Message
<1> QED BY <1>2 DEF ContentOf, i

\* A delta added to a list of blocks leaves one.
LEMMA AppendDeltaType ==
  ASSUME NEW blocks \in Seq(Block), NEW delta \in Block
  PROVE  appendDelta(blocks, delta) \in Seq(Block)
<1>1. CASE delta.type = "text" /\ blocks # <<>> /\ Last(blocks).type = "text"
  <2>1. Front(blocks) \in Seq(Block) /\ Last(blocks) \in Block
    BY <1>1 DEF Front, Last
  <2>2. Last(blocks).text \o delta.text \in Seq(STRING)
    BY <2>1 DEF Block
  <2>3. [type |-> "text", text |-> Last(blocks).text \o delta.text] \in Block
    BY <2>2 DEF Block
  <2> QED BY <1>1, <2>1, <2>3 DEF appendDelta
<1>2. CASE ~ (delta.type = "text" /\ blocks # <<>> /\ Last(blocks).type = "text")
  BY <1>2 DEF appendDelta
<1> QED BY <1>1, <1>2

\* An event reduces a view to a view.
LEMMA ReduceType ==
  ASSUME NEW v \in View, NEW s \in 0..MaxSessions, NEW i \in 1..Len(Script)
  PROVE  Reduce(v, s, i) \in View
<1> DEFINE e  == Script[i]
           id == <<s, e.id>>
<1>1. /\ e.event \in {"message_delta", "message_complete", "tool_result", "result", "done"}
      /\ id \in (0..MaxSessions) \X Nat
      /\ e.content \in Seq(Block)
      /\ e.event = "message_delta" => Len(e.content) = 1
  <2>1. e \in Event
    BY DEF ScriptAssumption
  <2> QED BY <2>1 DEF ScriptAssumption, Event
<1>2. v.messages \in Seq(Message) /\ v.totalCostUsd \in Nat
      /\ v.status \in {"idle", "streaming", "error"}
  BY DEF View
<1>e. \A kind \in {"user", "assistant", "tool_result"}, c \in Seq(Block), b \in BOOLEAN :
        Entry(kind, id, c, b) \in Message
  BY <1>1 DEF Entry, Message
<1> HIDE DEF id, e
<1>3. CASE e.event = "message_delta"
  <2> DEFINE c == appendDelta(ContentOf(v.messages, id), e.content[1])
             l == Put(v.messages, Entry("assistant", id, c, TRUE))
  <2>1. e.content[1] \in Block
    BY <1>1, <1>3
  <2>2. c \in Seq(Block)
    BY <1>2, <2>1, ContentType, AppendDeltaType
  <2>3. l \in Seq(Message)
    BY <1>2, <1>e, <2>2, PutType
  <2>4. Reduce(v, s, i) = [v EXCEPT !.messages = l, !.status = "streaming"]
    BY <1>3 DEF Reduce, id, e
  <2> HIDE DEF l, c
  <2> QED BY <2>3, <2>4 DEF View
<1>4. CASE e.event = "message_complete"
  <2> DEFINE l == Put(v.messages, Entry("assistant", id, e.content, FALSE))
  <2>1. l \in Seq(Message)
    BY <1>1, <1>2, <1>e, PutType
  <2>2. Reduce(v, s, i) = [v EXCEPT !.messages = l]
    BY <1>4 DEF Reduce, id, e
  <2> HIDE DEF l
  <2> QED BY <2>1, <2>2 DEF View
<1>5. CASE e.event = "tool_result"
  <2> DEFINE l == Append(v.messages, Entry("tool_result", id, <<>>, FALSE))
  <2>1. <<>> \in Seq(Block) /\ FALSE \in BOOLEAN
    OBVIOUS
  <2>2. Entry("tool_result", id, <<>>, FALSE) \in Message
    BY <1>e, <2>1
  <2>3. l \in Seq(Message)
    BY <1>2, <2>2, AppendProperties
  <2>4. Reduce(v, s, i) = [v EXCEPT !.messages = l]
    BY <1>5 DEF Reduce, id, e
  <2> HIDE DEF l
  <2> QED BY <2>3, <2>4 DEF View
<1>6. CASE e.event = "result"
  <2> DEFINE n == v.totalCostUsd + 1
  <2>1. Reduce(v, s, i) = [v EXCEPT !.totalCostUsd = n, !.status = "idle"]
    BY <1>6 DEF Reduce, e
  <2>2. n \in Nat
    BY <1>2
  <2> HIDE DEF n
  <2> QED BY <2>1, <2>2 DEF View
<1>7. CASE e.event = "done"
  <2>1. Reduce(v, s, i) = [v EXCEPT !.status = "idle"]
    BY <1>7 DEF Reduce, e
  <2> QED BY <2>1 DEF View
<1> QED BY <1>1, <1>3, <1>4, <1>5, <1>6, <1>7
-----------------------------------------------------------------------------
(* The run that sessionRef is of has its session.  With it and the types,    *)
(* OneLiveStream is inductive: a run that is created late is the newest or   *)
(* is aborted, and the newest one had no session before.                    *)

RefHasSession == ref # 0 => mounts[ref].phase # "creating"

MountInv == TypeOK /\ OneLiveStream /\ RefHasSession

\* One run of the effect is replaced by another state of it.
LEMMA RunReplaced ==
  ASSUME RunsOK, created \in 0..MaxSessions, NEW k \in 1..Len(mounts), NEW r \in Run,
         mounts' = [mounts EXCEPT ![k] = r],
         created' \in 0..MaxSessions, created <= created',
         r.cursor + r.hand <= Len(Script), r.session <= created',
         r.phase = "open" => r.session > 0, k < Len(mounts) => r.aborted
  PROVE  /\ RunsOK' /\ Len(mounts') = Len(mounts)
         /\ \A j \in 1..Len(mounts) : mounts'[j] = IF j = k THEN r ELSE mounts[j]
<1>1. mounts \in Seq(Run) /\ Len(mounts) \in Nat
  BY DEF RunsOK
<1>2. /\ mounts' \in Seq(Run) /\ Len(mounts') = Len(mounts)
      /\ \A j \in 1..Len(mounts) : mounts'[j] = IF j = k THEN r ELSE mounts[j]
  BY <1>1
<1>3. ASSUME NEW j \in 1..Len(mounts)
      PROVE  /\ mounts'[j].cursor + mounts'[j].hand <= Len(Script)
             /\ mounts'[j].session <= created'
             /\ mounts'[j].phase = "open" => mounts'[j].session > 0
             /\ j < Len(mounts) => mounts'[j].aborted
  <2>1. CASE j = k
    BY <1>2, <2>1
  <2>2. CASE j # k
    <3>1. mounts'[j] = mounts[j] /\ mounts[j] \in Run
      BY <1>1, <1>2, <2>2
    <3>2. mounts[j].session <= created /\ mounts[j].session \in 0..MaxSessions
      BY <3>1 DEF RunsOK, Run
    <3> QED BY <3>1, <3>2 DEF RunsOK
  <2> QED BY <2>1, <2>2
<1> QED BY <1>2, <1>3 DEF RunsOK

\* A run goes on or ends; whose session it is and its flags stay.
LEMMA RunGoesOn ==
  ASSUME MountInv, NEW k \in 1..Len(mounts), NEW r \in Run,
         mounts' = [mounts EXCEPT ![k] = r], UNCHANGED <<created, ref, sid>>,
         r.aborted = mounts[k].aborted, r.detached = mounts[k].detached,
         r.session = mounts[k].session, r.phase \in {mounts[k].phase, "over"},
         r.cursor + r.hand <= Len(Script)
  PROVE  RunsOK' /\ Len(mounts') = Len(mounts) /\ OneLiveStream' /\ RefHasSession'
<1>1. /\ RunsOK' /\ Len(mounts') = Len(mounts)
      /\ \A j \in 1..Len(mounts) : mounts'[j] = IF j = k THEN r ELSE mounts[j]
  <2>1. /\ created' \in 0..MaxSessions /\ created <= created'
        /\ r.session <= created'
        /\ r.phase = "open" => r.session > 0
        /\ k < Len(mounts) => r.aborted
    BY DEF MountInv, TypeOK, RunsOK
  <2>2. RunsOK /\ created \in 0..MaxSessions
    BY DEF MountInv, TypeOK
  <2> QED BY <2>1, <2>2, RunReplaced
<1>2. \A j \in 1..Len(mounts) : Live(j)' => Live(j)
  BY <1>1 DEF Live
<1>3. ref \in 0..Len(mounts) /\ Len(mounts) \in Nat
  BY DEF MountInv, TypeOK, RunsOK
<1>4. ref # 0 => /\ mounts'[ref].aborted = mounts[ref].aborted
                 /\ mounts'[ref].detached = mounts[ref].detached
                 /\ mounts'[ref].session = mounts[ref].session
                 /\ mounts'[ref].phase \in {mounts[ref].phase, "over"}
  BY <1>1, <1>3
<1>5. OneLiveStream'
  BY <1>1, <1>2, <1>3, <1>4 DEF MountInv, OneLiveStream
<1>6. RefHasSession'
  BY <1>3, <1>4 DEF MountInv, RefHasSession
<1> QED BY <1>1, <1>5, <1>6

\* The initial states.
LEMMA MountInit == Init => MountInv
<1> SUFFICES ASSUME Init PROVE MountInv
  OBVIOUS
<1>1. mounts = <<>> /\ Len(mounts) = 0
  BY DEF Init
<1>2. RunsOK
  BY <1>1 DEF RunsOK
<1>3. view \in View
  <2>1. <<>> \in Seq(Message)
    OBVIOUS
  <2> QED BY <2>1 DEF Init, initialState, View
<1>4. TypeOK
  <2>1. MaxSessions \in Nat /\ MaxSends \in Nat /\ MaxReplays \in Nat /\ MaxSessions > 0
    BY DEF BoundAssumption
  <2>2. Len(Script) \in Nat
    BY DEF ScriptAssumption
  <2>3. created \in 0..MaxSessions /\ alive \subseteq 1..created /\ sid \in 0..created
    BY <2>1 DEF Init
  <2>4. /\ base \in [Sessions -> 0..Len(Script)]
        /\ pos \in [Sessions -> 0..Len(Script)]
        /\ latest \in [Sessions -> [ScriptIds -> 0..Len(Script)]]
    BY <2>2 DEF Init
  <2>5. ref = 0 /\ sends = 0 /\ replays = 0 /\ closed = FALSE
    BY DEF Init
  <2>6. /\ ref \in 0..Len(mounts) /\ sends \in 0..MaxSends /\ replays \in 0..MaxReplays
    BY <1>1, <2>1, <2>5
  <2>7. closed \in BOOLEAN
    BY <2>5
  <2> QED BY <1>2, <1>3, <2>3, <2>4, <2>6, <2>7 DEF TypeOK
<1>5. OneLiveStream /\ RefHasSession
  BY <1>1 DEF Init, OneLiveStream, RefHasSession
<1> QED BY <1>4, <1>5 DEF MountInv

\* The effect runs: nothing was live, and what is appended is the newest run.
LEMMA EffectRuns ==
  ASSUME MountInv, ~Active, NEW r \in Run,
         mounts' = Append(mounts, r), created' = created,
         r.cursor + r.hand <= Len(Script), r.session <= created, ~r.aborted, ~r.detached,
         \/ r.phase = "creating" /\ UNCHANGED <<ref, sid>>
         \/ /\ r.phase = "open" /\ r.session > 0
            /\ ref' = Len(mounts') /\ sid' = r.session
  PROVE  /\ RunsOK' /\ ref' \in 0..Len(mounts') /\ sid' \in 0..created'
         /\ OneLiveStream' /\ RefHasSession'
<1>1. /\ mounts \in Seq(Run) /\ Len(mounts) \in Nat /\ created \in Nat
      /\ ref \in 0..Len(mounts) /\ sid \in 0..created
  BY DEF MountInv, TypeOK, RunsOK
<1>2. /\ mounts' \in Seq(Run) /\ Len(mounts') = Len(mounts) + 1
      /\ \A j \in 1..Len(mounts) : mounts'[j] = mounts[j]
      /\ mounts'[Len(mounts')] = r
  BY <1>1, AppendProperties
<1>3. ref = 0 /\ \A j \in 1..Len(mounts) : ~Live(j) /\ mounts[j].aborted
  <2>1. Len(mounts) # 0 => mounts[Len(mounts)].aborted
    BY <1>1, EmptySeq DEF Active, Last
  <2>2. ref = 0
    BY <1>1, <2>1 DEF MountInv, OneLiveStream
  <2> QED BY <1>1, <2>1, <2>2 DEF MountInv, OneLiveStream, TypeOK, RunsOK
<1>4. RunsOK'
  <2>1. ASSUME NEW j \in 1..Len(mounts')
        PROVE  /\ mounts'[j].cursor + mounts'[j].hand <= Len(Script)
               /\ mounts'[j].session <= created'
               /\ mounts'[j].phase = "open" => mounts'[j].session > 0
               /\ j < Len(mounts') => mounts'[j].aborted
    <3>1. CASE j = Len(mounts')
      BY <1>2, <3>1
    <3>2. CASE j # Len(mounts')
      <4>1. j \in 1..Len(mounts) /\ mounts'[j] = mounts[j]
        BY <1>1, <1>2, <3>2
      <4> QED BY <1>3, <4>1 DEF MountInv, TypeOK, RunsOK
    <3> QED BY <3>1, <3>2
  <2> QED BY <1>2, <2>1 DEF RunsOK
<1>5. \A j \in 1..Len(mounts') : Live(j)' => j = Len(mounts') /\ r.phase = "open"
  <2>1. \A j \in 1..Len(mounts) : Live(j)' => Live(j)
    BY <1>2 DEF Live
  <2> QED BY <1>1, <1>2, <1>3, <2>1 DEF Live
<1>6. CASE r.phase = "creating" /\ UNCHANGED <<ref, sid>>
  BY <1>1, <1>2, <1>3, <1>4, <1>5, <1>6 DEF OneLiveStream, RefHasSession
<1>7. CASE /\ r.phase = "open" /\ r.session > 0
           /\ ref' = Len(mounts') /\ sid' = r.session
  <2>1. r.session \in 0..created
    BY <1>1 DEF Run
  <2>2. OneLiveStream' /\ RefHasSession'
    BY <1>1, <1>2, <1>5, <1>7 DEF OneLiveStream, RefHasSession
  <2> QED BY <1>1, <1>2, <1>4, <1>7, <2>1, <2>2
<1> QED BY <1>6, <1>7

\* What the types say of the parts, for the steps.
LEMMA TypeFacts ==
  ASSUME MountInv
  PROVE  /\ mounts \in Seq(Run) /\ Len(mounts) \in Nat /\ Len(Script) \in Nat
         /\ \A k \in 1..Len(mounts) : mounts[k] \in Run
         /\ created \in 0..MaxSessions /\ MaxSessions \in Nat
         /\ ref \in 0..Len(mounts) /\ sid \in 0..created
         /\ RunsOK /\ TypeOK /\ OneLiveStream /\ RefHasSession
BY DEF MountInv, TypeOK, RunsOK, BoundAssumption, ScriptAssumption

\* createSession() returns to a run of the effect.
LEMMA CreatedStep ==
  ASSUME MountInv, NEW k \in 1..Len(mounts), Created(k)
  PROVE  MountInv'
<1>1. /\ mounts \in Seq(Run) /\ Len(mounts) \in Nat /\ mounts[k] \in Run
      /\ created \in 0..MaxSessions /\ MaxSessions \in Nat
      /\ ref \in 0..Len(mounts) /\ sid \in 0..created
      /\ created' = created + 1 /\ created' \in 0..MaxSessions
      /\ RunsOK /\ Len(Script) \in Nat
  <2>1. created < MaxSessions /\ created' = created + 1
    BY DEF Created
  <2> QED BY <2>1, TypeFacts
<1>2. alive' \subseteq 1..created'
  BY <1>1 DEF MountInv, TypeOK, Created
<1>3. mounts[k].phase = "creating" /\ k # ref
  BY <1>1 DEF MountInv, RefHasSession, Created
<1>4. CASE mounts[k].aborted
  <2> DEFINE r == [mounts[k] EXCEPT !.phase = "over", !.detached = TRUE, !.session = created']
  <2>1. mounts' = [mounts EXCEPT ![k] = r] /\ UNCHANGED <<ref, sid>>
    BY <1>1, <1>4 DEF Created
  <2>2. /\ r \in Run /\ r.cursor = mounts[k].cursor /\ r.hand = mounts[k].hand
        /\ r.session = created' /\ r.phase = "over" /\ r.aborted
    BY <1>1, <1>4 DEF Run
  <2> HIDE DEF r
  <2>3. r.cursor + r.hand <= Len(Script) /\ created <= created' /\ r.session <= created'
    BY <1>1, <2>2 DEF RunsOK
  <2>4. /\ RunsOK' /\ Len(mounts') = Len(mounts)
        /\ \A j \in 1..Len(mounts) : mounts'[j] = IF j = k THEN r ELSE mounts[j]
    BY <1>1, <2>1, <2>2, <2>3, RunReplaced
  <2>5. OneLiveStream'
    <3>1. \A j \in 1..Len(mounts) : Live(j)' => Live(j)
      BY <2>2, <2>4 DEF Live
    <3>2. ref # 0 => mounts'[ref] = mounts[ref]
      BY <1>1, <1>3, <2>4
    <3> QED BY <1>1, <2>1, <2>4, <3>1, <3>2 DEF MountInv, OneLiveStream
  <2>6. RefHasSession'
    BY <1>1, <1>3, <2>1, <2>4 DEF MountInv, RefHasSession
  <2>7. TypeOK'
    BY <1>1, <1>2, <2>1, <2>4 DEF MountInv, TypeOK, Created
  <2> QED BY <2>5, <2>6, <2>7 DEF MountInv
<1>5. CASE ~mounts[k].aborted
  <2> DEFINE r == Opened(created', 0)
  <2>1. mounts' = [mounts EXCEPT ![k] = r] /\ ref' = k /\ sid' = created'
    BY <1>1, <1>5 DEF Created
  <2>2. /\ r \in Run /\ r.cursor = 0 /\ r.hand = 0 /\ r.session = created'
        /\ r.phase = "open" /\ ~r.aborted /\ ~r.detached
    BY <1>1 DEF Run, Opened
  <2> HIDE DEF r
  <2>3. k = Len(mounts)
    BY <1>1, <1>5 DEF RunsOK
  <2>4. /\ RunsOK' /\ Len(mounts') = Len(mounts)
        /\ \A j \in 1..Len(mounts) : mounts'[j] = IF j = k THEN r ELSE mounts[j]
    <3>1. /\ r.cursor + r.hand <= Len(Script) /\ created <= created'
          /\ r.session <= created' /\ r.session > 0 /\ ~(k < Len(mounts))
      BY <1>1, <2>2, <2>3
    <3> QED BY <1>1, <2>1, <2>2, <3>1, RunReplaced
  <2>5. ref = 0
    BY <1>1, <1>3, <2>3 DEF MountInv, OneLiveStream
  <2>6. \A j \in 1..Len(mounts) : ~Live(j)
    BY <2>5 DEF MountInv, OneLiveStream
  <2>7. OneLiveStream'
    BY <1>1, <2>1, <2>2, <2>3, <2>4, <2>6 DEF OneLiveStream, Live
  <2>8. RefHasSession'
    BY <1>1, <2>1, <2>2, <2>4 DEF RefHasSession
  <2>9. TypeOK'
    BY <1>1, <1>2, <2>1, <2>4 DEF MountInv, TypeOK, Created
  <2> QED BY <2>7, <2>8, <2>9 DEF MountInv
<1> QED BY <1>4, <1>5

\* The client session of ref is detached: none is live, and none is of ref.
LEMMA RunsDetached ==
  ASSUME MountInv, ref' = 0, UNCHANGED <<created, sid>>,
         NEW R \in [1..Len(mounts) -> Run], mounts' = R,
         \A k \in 1..Len(mounts) :
           /\ R[k].cursor = mounts[k].cursor /\ R[k].hand = mounts[k].hand
           /\ R[k].session = mounts[k].session /\ R[k].phase = mounts[k].phase
           /\ mounts[k].aborted => R[k].aborted
           /\ R[k].detached <=> (mounts[k].detached \/ k = ref)
  PROVE  RunsOK' /\ Len(mounts') = Len(mounts) /\ OneLiveStream' /\ RefHasSession'
<1>1. mounts \in Seq(Run) /\ Len(mounts) \in Nat /\ created' = created
  BY DEF MountInv, TypeOK, RunsOK
<1>2. mounts' \in Seq(Run) /\ Len(mounts') = Len(mounts)
  BY <1>1, IsASeq
<1>3. RunsOK'
  BY <1>1, <1>2 DEF MountInv, TypeOK, RunsOK
<1>4. \A j \in 1..Len(mounts) : ~Live(j)'
  BY DEF MountInv, OneLiveStream, Live
<1>5. OneLiveStream' /\ RefHasSession'
  BY <1>2, <1>4 DEF OneLiveStream, RefHasSession
<1> QED BY <1>2, <1>3, <1>5
-----------------------------------------------------------------------------
(* The steps.                                                              *)

\* A run of the effect that begins by creating a session.
LEMMA EffectCreateStep == ASSUME MountInv, EffectCreate PROVE MountInv'
<1>1. /\ ~Active /\ mounts' = Append(mounts, Creating) /\ closed' = FALSE
      /\ UNCHANGED <<alive, created, ref, sid, view, base, pos, latest, sends, replays>>
  BY DEF EffectCreate
<1>2. /\ Creating \in Run /\ Creating.cursor = 0 /\ Creating.hand = 0
      /\ Creating.session = 0 /\ Creating.phase = "creating"
      /\ ~Creating.aborted /\ ~Creating.detached
  BY TypeFacts DEF Creating, Run
<1> DEFINE r == Creating
<1>3. r \in Run /\ mounts' = Append(mounts, r) /\ r.cursor + r.hand <= Len(Script)
      /\ r.session <= created
  BY <1>1, <1>2, TypeFacts
<1>4. ~r.aborted /\ ~r.detached /\ r.phase = "creating" /\ UNCHANGED <<ref, sid>>
  BY <1>1, <1>2
<1> HIDE DEF r
<1>5. /\ RunsOK' /\ ref' \in 0..Len(mounts') /\ sid' \in 0..created'
      /\ OneLiveStream' /\ RefHasSession'
  BY <1>1, <1>3, <1>4, EffectRuns
<1>6. closed' \in BOOLEAN
  BY <1>1
<1> QED BY <1>1, <1>5, <1>6 DEF MountInv, TypeOK

\* A run of the effect that attaches.
LEMMA EffectAttachStep ==
  ASSUME MountInv, NEW s \in 1..created, NEW from \in 0..Len(Script), EffectAttach(s, from),
         base' \in [Sessions -> 0..Len(Script)], pos' \in [Sessions -> 0..Len(Script)],
         replays' \in 0..MaxReplays
  PROVE  MountInv'
<1> DEFINE r == Opened(s, ResumeId(from))
<1>1. /\ ~Active /\ mounts' = Append(mounts, r) /\ closed' = FALSE
      /\ ref' = Len(mounts') /\ sid' = s
      /\ alive' = alive /\ created' = created /\ view' = view /\ sends' = sends
      /\ latest' = latest
  BY DEF EffectAttach
<1>2. /\ r \in Run /\ r.cursor = from /\ r.hand = 0 /\ r.session = s
      /\ r.phase = "open" /\ ~r.aborted /\ ~r.detached
  BY TypeFacts DEF Opened, ResumeId, Run
<1> HIDE DEF r
<1>3. r.cursor + r.hand <= Len(Script) /\ r.session <= created /\ r.session > 0
      /\ sid' = r.session
  BY <1>1, <1>2, TypeFacts
<1>4. /\ RunsOK' /\ ref' \in 0..Len(mounts') /\ sid' \in 0..created'
      /\ OneLiveStream' /\ RefHasSession'
  BY <1>1, <1>2, <1>3, EffectRuns
<1>5. closed' \in BOOLEAN
  BY <1>1
<1> QED BY <1>1, <1>4, <1>5 DEF MountInv, TypeOK

\* The cleanup of the effect.
LEMMA CleanupStep == ASSUME MountInv, Cleanup PROVE MountInv'
<1> DEFINE R == [k \in 1..Len(mounts) |->
                   [mounts[k] EXCEPT !.aborted = mounts[k].aborted \/ k = Len(mounts),
                                     !.detached = mounts[k].detached \/ k = ref]]
<1>1. /\ mounts' = R /\ ref' = 0 /\ UNCHANGED <<created, sid>>
      /\ closed' = FALSE /\ UNCHANGED <<alive, view, base, pos, latest, sends, replays>>
  BY DEF Cleanup
<1>2. ASSUME NEW k \in 1..Len(mounts)
      PROVE  /\ R[k] \in Run
             /\ R[k].cursor = mounts[k].cursor /\ R[k].hand = mounts[k].hand
             /\ R[k].session = mounts[k].session /\ R[k].phase = mounts[k].phase
             /\ mounts[k].aborted => R[k].aborted
             /\ R[k].detached <=> (mounts[k].detached \/ k = ref)
  <2> DEFINE a == mounts[k].aborted \/ k = Len(mounts)
             d == mounts[k].detached \/ k = ref
  <2>1. R[k] = [mounts[k] EXCEPT !.aborted = a, !.detached = d]
    OBVIOUS
  <2>2. a \in BOOLEAN /\ d \in BOOLEAN
    OBVIOUS
  <2>3. mounts[k].aborted => a
    OBVIOUS
  <2>4. d <=> (mounts[k].detached \/ k = ref)
    OBVIOUS
  <2> HIDE DEF a, d, R
  <2>5. mounts[k] \in Run
    BY TypeFacts
  <2>6. /\ R[k] \in Run
        /\ R[k].cursor = mounts[k].cursor /\ R[k].hand = mounts[k].hand
        /\ R[k].session = mounts[k].session /\ R[k].phase = mounts[k].phase
        /\ R[k].aborted = a /\ R[k].detached = d
    BY <2>1, <2>2, <2>5 DEF Run
  <2> QED BY <2>3, <2>4, <2>6
<1>3. R \in [1..Len(mounts) -> Run]
  BY <1>2
<1> HIDE DEF R
<1>4. RunsOK' /\ Len(mounts') = Len(mounts) /\ OneLiveStream' /\ RefHasSession'
  BY <1>1, <1>2, <1>3, RunsDetached
<1>5. closed' \in BOOLEAN
  BY <1>1
<1> QED BY <1>1, <1>4, <1>5, TypeFacts DEF MountInv, TypeOK

\* close() of the hook.
LEMMA CloseStep == ASSUME MountInv, Close PROVE MountInv'
<1> DEFINE R == [k \in 1..Len(mounts) |->
                   [mounts[k] EXCEPT !.detached = mounts[k].detached \/ k = ref]]
<1>1. /\ mounts' = R /\ ref' = 0 /\ UNCHANGED <<created, sid>>
      /\ UNCHANGED <<view, base, pos, latest, sends, replays>>
      /\ closed' = TRUE /\ alive' \subseteq alive
  BY DEF Close
<1>2. ASSUME NEW k \in 1..Len(mounts)
      PROVE  /\ R[k] \in Run
             /\ R[k].cursor = mounts[k].cursor /\ R[k].hand = mounts[k].hand
             /\ R[k].session = mounts[k].session /\ R[k].phase = mounts[k].phase
             /\ mounts[k].aborted => R[k].aborted
             /\ R[k].detached <=> (mounts[k].detached \/ k = ref)
  <2> DEFINE d == mounts[k].detached \/ k = ref
  <2>1. R[k] = [mounts[k] EXCEPT !.detached = d]
    OBVIOUS
  <2>2. d \in BOOLEAN
    OBVIOUS
  <2>3. d <=> (mounts[k].detached \/ k = ref)
    OBVIOUS
  <2> HIDE DEF d, R
  <2>4. mounts[k] \in Run
    BY TypeFacts
  <2>5. /\ R[k] \in Run
        /\ R[k].cursor = mounts[k].cursor /\ R[k].hand = mounts[k].hand
        /\ R[k].session = mounts[k].session /\ R[k].phase = mounts[k].phase
        /\ R[k].aborted = mounts[k].aborted /\ R[k].detached = d
    BY <2>1, <2>2, <2>4 DEF Run
  <2> QED BY <2>3, <2>5
<1>3. R \in [1..Len(mounts) -> Run]
  BY <1>2
<1> HIDE DEF R
<1>4. RunsOK' /\ Len(mounts') = Len(mounts) /\ OneLiveStream' /\ RefHasSession'
  BY <1>1, <1>2, <1>3, RunsDetached
<1>5. closed' \in BOOLEAN
  BY <1>1
<1> QED BY <1>1, <1>4, <1>5, TypeFacts DEF MountInv, TypeOK

\* A chunk is read, and the stream ends or fails.
LEMMA StreamStep ==
  ASSUME MountInv, NEW k \in 1..Len(mounts),
         (\E n \in 1..MaxChunk : Chunk(k, n)) \/ Ends(k) \/ Fails(k) \/ CreateFails(k)
  PROVE  MountInv'
<1> DEFINE Goal(r) == /\ r \in Run /\ mounts' = [mounts EXCEPT ![k] = r]
                      /\ r.aborted = mounts[k].aborted /\ r.detached = mounts[k].detached
                      /\ r.session = mounts[k].session /\ r.phase \in {mounts[k].phase, "over"}
                      /\ r.cursor + r.hand <= Len(Script)
<1>1. mounts[k] \in Run /\ mounts[k].cursor + mounts[k].hand <= Len(Script)
  BY TypeFacts DEF RunsOK
<1>2. \E r : Goal(r)
  <2>1. ASSUME NEW n \in 1..MaxChunk, Chunk(k, n) PROVE \E r : Goal(r)
    <3> DEFINE r == [mounts[k] EXCEPT !.hand = n]
    <3>1. mounts' = [mounts EXCEPT ![k] = r] /\ mounts[k].cursor + n <= Len(Script)
      BY <1>1, <2>1, TypeFacts DEF Chunk
    <3>2. n \in 0..Len(Script)
      <4>1. MaxChunk \in Nat /\ Len(Script) \in Nat
        BY TypeFacts DEF BoundAssumption
      <4>2. mounts[k].cursor \in 0..Len(Script)
        BY <1>1 DEF Run
      <4> QED BY <3>1, <4>1, <4>2
    <3>3. /\ r \in Run /\ r.aborted = mounts[k].aborted /\ r.detached = mounts[k].detached
          /\ r.session = mounts[k].session /\ r.phase = mounts[k].phase
          /\ r.cursor = mounts[k].cursor /\ r.hand = n
      BY <1>1, <3>2 DEF Run
    <3> HIDE DEF r
    <3>4. Goal(r)
      BY <3>1, <3>3
    <3> QED BY <3>4
  <2>2. ASSUME Ends(k) \/ Fails(k) \/ CreateFails(k) PROVE \E r : Goal(r)
    <3> DEFINE r == [mounts[k] EXCEPT !.phase = "over"]
    <3>1. mounts' = [mounts EXCEPT ![k] = r]
      BY <1>1, <2>2, TypeFacts DEF Ends, Fails, CreateFails
    <3>2. /\ r \in Run /\ r.aborted = mounts[k].aborted /\ r.detached = mounts[k].detached
          /\ r.session = mounts[k].session /\ r.phase = "over"
          /\ r.cursor = mounts[k].cursor /\ r.hand = mounts[k].hand
      BY <1>1 DEF Run
    <3> HIDE DEF r
    <3>3. Goal(r)
      BY <1>1, <3>1, <3>2
    <3> QED BY <3>3
  <2> QED BY <2>1, <2>2
<1>3. PICK r : Goal(r)
  BY <1>2
<1>4. /\ UNCHANGED <<alive, created, ref, sid, base, pos, latest, closed, sends, replays>>
      /\ view' = view \/ view' = [view EXCEPT !.status = "error"]
  BY DEF Chunk, Ends, Fails, CreateFails
<1>5. RunsOK' /\ Len(mounts') = Len(mounts) /\ OneLiveStream' /\ RefHasSession'
  BY <1>3, <1>4, RunGoesOn
<1>6. view' \in View
  BY <1>4 DEF MountInv, TypeOK, View
<1> QED BY <1>4, <1>5, <1>6 DEF MountInv, TypeOK

\* The loop of a run gets an event.
LEMMA DeliverStep ==
  ASSUME MountInv, NEW k \in 1..Len(mounts), Deliver(k)
  PROVE  MountInv'
<1> DEFINE m == mounts[k]
           i == m.cursor + 1
           done == Script[i].event = "done"
<1>1. /\ m \in Run /\ m.cursor + m.hand <= Len(Script) /\ m.phase = "open" /\ m.hand > 0
      /\ m.session \in 1..created /\ m.session \in 0..MaxSessions /\ m.session \in Sessions
      /\ m.cursor \in 0..Len(Script) /\ m.hand \in 0..Len(Script) /\ i \in 1..Len(Script)
      /\ UNCHANGED <<alive, created, ref, sid, base, closed, sends, replays>>
  <2>1. m \in Run /\ m.phase = "open" /\ m.hand > 0
    BY TypeFacts DEF Deliver
  <2>2. /\ m.cursor + m.hand <= Len(Script) /\ m.session > 0 /\ m.session <= created
        /\ Len(Script) \in Nat /\ created \in 0..MaxSessions /\ MaxSessions \in Nat
    BY <2>1, TypeFacts DEF RunsOK
  <2>3. /\ m.cursor \in 0..Len(Script) /\ m.hand \in 0..Len(Script)
        /\ m.session \in 0..MaxSessions
    BY <2>1 DEF Run
  <2>4. UNCHANGED <<alive, created, ref, sid, base, closed, sends, replays>>
    BY DEF Deliver
  <2>5. m.session \in 1..created /\ m.session \in Sessions
    BY <2>2, <2>3 DEF Sessions
  <2>6. m.cursor + 1 \in 1..Len(Script)
    BY <2>1, <2>2, <2>3
  <2> HIDE DEF m
  <2> QED BY <2>1, <2>2, <2>3, <2>4, <2>5, <2>6
<1>2. CASE m.aborted
  <2> DEFINE r == [m EXCEPT !.phase = "over", !.hand = 0]
  <2>1. /\ mounts' = [mounts EXCEPT ![k] = r]
        /\ view' = view /\ pos' = pos /\ latest' = latest
    BY <1>1, <1>2, TypeFacts DEF Deliver
  <2>0. m \in Run /\ 0 \in 0..Len(Script)
    BY <1>1, TypeFacts
  <2>2. /\ r \in Run /\ r.aborted = m.aborted /\ r.detached = m.detached
        /\ r.session = m.session /\ r.phase = "over" /\ r.cursor = m.cursor /\ r.hand = 0
    BY ONLY <2>0 DEF Run
  <2> HIDE DEF r
  <2>3. r.cursor + r.hand <= Len(Script)
    BY <1>1, <2>2, TypeFacts
  <2>4. RunsOK' /\ Len(mounts') = Len(mounts) /\ OneLiveStream' /\ RefHasSession'
    BY <1>1, <2>1, <2>2, <2>3, RunGoesOn
  <2> QED BY <1>1, <2>1, <2>4 DEF MountInv, TypeOK
<1>3. CASE ~m.aborted
  <2> DEFINE h == IF done THEN 0 ELSE m.hand - 1
             p == IF done THEN "over" ELSE m.phase
             r == [m EXCEPT !.cursor = i, !.hand = h, !.phase = p]
  <2>1. /\ mounts' = [mounts EXCEPT ![k] = r]
        /\ view' = Reduce(view, m.session, i) /\ pos' = [pos EXCEPT ![m.session] = i]
        /\ latest' = [latest EXCEPT ![m.session] = [id \in ScriptIds |->
                         IF AboutMessage(i, id) THEN i ELSE latest[m.session][id]]]
    BY <1>1, <1>3, TypeFacts DEF Deliver
  <2>2. h \in 0..Len(Script) /\ i + h <= Len(Script) /\ p \in {"open", "over"}
    <3> HIDE DEF done, m
    <3>1. Len(Script) \in Nat /\ m.cursor \in Nat /\ m.hand \in Nat /\ m.hand > 0
          /\ m.cursor + m.hand <= Len(Script)
      BY <1>1, TypeFacts
    <3>2. CASE done
      BY <3>1, <3>2
    <3>3. CASE ~done
      <4>1. h = m.hand - 1 /\ p = m.phase /\ i = m.cursor + 1
        BY <3>3
      <4>2. p = "open"
        BY <1>1, <4>1
      <4>3. \A a, b, c \in Nat : b > 0 /\ a + b <= c => b - 1 \in 0..c /\ (a + 1) + (b - 1) <= c
        OBVIOUS
      <4> HIDE DEF h, p, i
      <4>4. m.hand - 1 \in 0..Len(Script) /\ (m.cursor + 1) + (m.hand - 1) <= Len(Script)
        BY <3>1, <4>3
      <4> QED BY <4>1, <4>2, <4>4
    <3> QED BY <3>2, <3>3
  <2>3. i \in 0..Len(Script)
    BY <1>1, TypeFacts
  <2> HIDE DEF h, p, i, done
  <2>4. /\ r \in Run /\ r.aborted = m.aborted /\ r.detached = m.detached
        /\ r.session = m.session /\ r.phase = p /\ r.cursor = i /\ r.hand = h
    BY <1>1, <2>2, <2>3 DEF Run
  <2> HIDE DEF r
  <2>5. r.cursor + r.hand <= Len(Script) /\ r.phase \in {m.phase, "over"}
    BY <1>1, <2>2, <2>4
  <2>6. RunsOK' /\ Len(mounts') = Len(mounts) /\ OneLiveStream' /\ RefHasSession'
    BY <1>1, <2>1, <2>4, <2>5, RunGoesOn
  <2>7. view' \in View
    BY <1>1, <2>1, ReduceType DEF MountInv, TypeOK
  <2>8. pos' \in [Sessions -> 0..Len(Script)]
    BY <1>1, <2>1, <2>3 DEF MountInv, TypeOK
  <2>9. latest' \in [Sessions -> [ScriptIds -> 0..Len(Script)]]
    <3>1. latest \in [Sessions -> [ScriptIds -> 0..Len(Script)]]
      BY DEF MountInv, TypeOK
    <3> HIDE DEF m, i
    <3>2. [id \in ScriptIds |-> IF AboutMessage(i, id) THEN i ELSE latest[m.session][id]]
            \in [ScriptIds -> 0..Len(Script)]
      BY <1>1, <2>3, <3>1
    <3> QED BY <2>1, <3>1, <3>2
  <2> QED BY <1>1, <2>6, <2>7, <2>8, <2>9 DEF MountInv, TypeOK
<1> QED BY <1>2, <1>3

\* A user message is shown.
LEMMA SendStep == ASSUME MountInv, Send PROVE MountInv'
<1>1. /\ sends' \in 0..MaxSends /\ sends' \in Nat
      /\ UNCHANGED <<alive, created, mounts, ref, sid, base, pos, latest, closed, replays>>
  BY DEF MountInv, TypeOK, Send, BoundAssumption
<1> DEFINE e == Entry("user", <<0, sends'>>, <<>>, FALSE)
           l == Append(view.messages, e)
<1>2. e \in Message
  <2>1. <<>> \in Seq(Block) /\ FALSE \in BOOLEAN /\ <<0, sends'>> \in (0..MaxSessions) \X Nat
    BY <1>1, TypeFacts
  <2> QED BY <2>1 DEF Entry, Message
<1>3. l \in Seq(Message)
  <2>1. view.messages \in Seq(Message)
    BY DEF MountInv, TypeOK, View
  <2> QED BY <1>2, <2>1, AppendProperties
<1>4. view' = [view EXCEPT !.messages = l, !.status = "streaming"]
  BY DEF Send
<1> HIDE DEF l, e
<1>5. view' \in View
  BY <1>3, <1>4 DEF MountInv, TypeOK, View
<1>6. RunsOK' /\ OneLiveStream' /\ RefHasSession'
  BY <1>1 DEF MountInv, TypeOK, RunsOK, OneLiveStream, Live, RefHasSession
<1> QED BY <1>1, <1>5, <1>6 DEF MountInv, TypeOK

\* Every step.
LEMMA MountStep == MountInv /\ [Next]_vars => MountInv'
<1> SUFFICES ASSUME MountInv, [Next]_vars PROVE MountInv'
  OBVIOUS
<1>1. CASE UNCHANGED vars
  <2>1. UNCHANGED <<alive, created, mounts, ref, sid, view, base, pos, latest, closed, sends, replays>>
    BY <1>1 DEF vars, clientVars
  <2> QED BY <2>1 DEF MountInv, TypeOK, RunsOK, OneLiveStream, Live, RefHasSession
<1>2. CASE EffectCreate
  BY <1>2, EffectCreateStep
<1>3. CASE Cleanup
  BY <1>3, CleanupStep
<1>4. CASE Send
  BY <1>4, SendStep
<1>5. CASE Close
  BY <1>5, CloseStep
<1>6. ASSUME NEW s \in 1..created, Expire(s) PROVE MountInv'
  <2>1. /\ UNCHANGED <<created, mounts, ref, sid, view, base, pos, latest, closed, sends, replays>>
        /\ alive' \subseteq alive
    BY <1>6 DEF Expire, clientVars
  <2> QED BY <2>1 DEF MountInv, TypeOK, RunsOK, OneLiveStream, Live, RefHasSession
<1>7. ASSUME NEW s \in 1..created, NEW from \in 0..Len(Script), AttachStored(s, from)
      PROVE  MountInv'
  <2>1. /\ base' \in [Sessions -> 0..Len(Script)] /\ pos' \in [Sessions -> 0..Len(Script)]
        /\ replays' \in 0..MaxReplays /\ EffectAttach(s, from)
    BY <1>7 DEF AttachStored, MountInv, TypeOK
  <2> QED BY <2>1, EffectAttachStep
<1>8. ASSUME NEW s \in 1..created, NEW from \in 0..Len(Script), AttachAgain(s, from)
      PROVE  MountInv'
  <2>1. /\ base' \in [Sessions -> 0..Len(Script)] /\ pos' \in [Sessions -> 0..Len(Script)]
        /\ replays' \in 0..MaxReplays /\ EffectAttach(s, from)
    BY <1>8 DEF AttachAgain, MountInv, TypeOK, BoundAssumption
  <2> QED BY <2>1, EffectAttachStep
<1>9. ASSUME NEW k \in 1..Len(mounts), Created(k) PROVE MountInv'
  BY <1>9, CreatedStep
<1>10. ASSUME NEW k \in 1..Len(mounts),
              (\E n \in 1..MaxChunk : Chunk(k, n)) \/ Ends(k) \/ Fails(k) \/ CreateFails(k)
       PROVE  MountInv'
  BY <1>10, StreamStep
<1>11. ASSUME NEW k \in 1..Len(mounts), Deliver(k) PROVE MountInv'
  BY <1>11, DeliverStep
<1> QED BY <1>1, <1>2, <1>3, <1>4, <1>5, <1>6, <1>7, <1>8, <1>9, <1>10, <1>11 DEF Next

\* The inductive invariant of the effect.
THEOREM MountInvariant == Spec => []MountInv
BY MountInit, MountStep, PTL DEF Spec

\* Type correctness of the effect, its runs and the reducer state.
THEOREM MountTypeCorrect == Spec => []TypeOK
<1>1. MountInv => TypeOK
  BY DEF MountInv
<1> QED BY <1>1, MountInvariant, PTL

\* StrictMode, changed dependencies and a createSession() that answers late leave
\* at most one stream open: that of the newest run of the effect.
THEOREM StreamIsOne == Spec => []OneLiveStream
<1>1. MountInv => OneLiveStream
  BY DEF MountInv
<1> QED BY <1>1, MountInvariant, PTL
-----------------------------------------------------------------------------
(* The list of messages, and what an event changes in it.                  *)

\* The recursion that defines Streamed has a solution.
LEMMA StreamedEquation ==
  \A n \in 0..Len(Script) :
    Streamed[n] =
      [id \in ScriptIds |->
         IF n = 0 THEN <<>>
         ELSE IF ~AboutMessage(n, id) THEN Streamed[n - 1][id]
         ELSE IF Script[n].event = "message_complete" THEN Script[n].content
         ELSE appendDelta(Streamed[n - 1][id], Script[n].content[1])]
<1> DEFINE N == Len(Script)
           Step(g, n) ==
             [id \in ScriptIds |->
               IF n = 0 THEN <<>>
               ELSE IF ~AboutMessage(n, id) THEN g[n - 1][id]
               ELSE IF Script[n].event = "message_complete" THEN Script[n].content
               ELSE appendDelta(g[n - 1][id], Script[n].content[1])]
           Upto(g, n) == g = [k \in 0..n |-> Step(g, k)]
           Bad == {n \in 0..N : ~ \E g : Upto(g, n)}
<1>1. N \in Nat
  BY DEF ScriptAssumption
<1>2. \E g : Upto(g, 0)
  <2> DEFINE g == [k \in 0..0 |-> Step(<<>>, 0)]
  <2>1. \A k \in 0..0 : Step(g, k) = Step(<<>>, 0)
    OBVIOUS
  <2>2. Upto(g, 0)
    BY <2>1
  <2> QED BY <2>2
<1>3. ASSUME NEW n \in 1..N, NEW g, Upto(g, n - 1) PROVE \E h : Upto(h, n)
  <2> DEFINE h == [k \in 0..n |-> IF k = n THEN Step(g, n) ELSE g[k]]
  <2>1. \A k \in 0..n - 1 : h[k] = g[k]
    BY <1>1
  <2>2. \A k \in 0..n : Step(h, k) = Step(g, k)
    <3>1. ASSUME NEW k \in 0..n PROVE Step(h, k) = Step(g, k)
      <4>1. CASE k = 0
        BY <4>1
      <4>2. CASE k # 0
        <5>1. k - 1 \in 0..n - 1
          BY <1>1, <4>2
        <5>2. h[k - 1] = g[k - 1]
          BY <2>1, <5>1
        <5> HIDE DEF h
        <5> QED BY <4>2, <5>2
      <4> QED BY <4>1, <4>2
    <3> QED BY <3>1
  <2>3. \A k \in 0..n - 1 : g[k] = Step(g, k)
    <3> HIDE DEF Step
    <3> QED BY <1>3
  <2>4. \A k \in 0..n : h[k] = Step(h, k)
    <3> HIDE DEF Step
    <3>1. n \in Nat /\ \A k \in 0..n : k = n \/ k \in 0..n - 1
      BY <1>1
    <3> QED BY <2>2, <2>3, <3>1
  <2>5. h = [k \in 0..n |-> Step(h, k)]
    <3>1. h = [k \in 0..n |-> h[k]]
      OBVIOUS
    <3> HIDE DEF h, Step
    <3> QED BY <2>4, <3>1
  <2> HIDE DEF h, Step
  <2> QED BY <2>5
<1>4. Bad = {}
  <2> SUFFICES ASSUME Bad # {} PROVE FALSE
    OBVIOUS
  <2> DEFINE b == Min(Bad)
  <2>1. Bad \subseteq Nat
    BY <1>1
  <2>2. b \in Bad /\ \A y \in Bad : b <= y
    <3> HIDE DEF Bad
    <3> QED BY <2>1, LeastNumber
  <2> HIDE DEF Upto, b
  <2>3. b \in 1..N
    BY <1>1, <1>2, <2>2
  <2>4. b - 1 \notin Bad /\ b - 1 \in 0..N
    <3>1. b - 1 \in 0..N /\ ~(b <= b - 1)
      BY <1>1, <2>3
    <3>2. b - 1 \notin Bad
      <4> HIDE DEF Bad
      <4> QED BY <2>2, <3>1
    <3> QED BY <3>1, <3>2
  <2>5. PICK g : Upto(g, b - 1)
    BY <2>4
  <2>6. \E h : Upto(h, b)
    BY <1>3, <2>3, <2>5
  <2> QED BY <2>2, <2>6
<1>5. Streamed = CHOOSE g : Upto(g, N)
  BY DEF Streamed
<1>6. \E g : Upto(g, N)
  <2> HIDE DEF Upto
  <2> QED BY <1>1, <1>4
<1>7. Upto(Streamed, N)
  <2> HIDE DEF Upto
  <2> QED BY <1>5, <1>6
<1>8. \A n \in 0..N : Streamed[n] = Step(Streamed, n)
  <2> HIDE DEF Step
  <2> QED BY <1>7
<1> QED BY <1>8

\* What one more event makes of a message.
LEMMA StreamedStep ==
  ASSUME NEW n \in 1..Len(Script), NEW id \in ScriptIds
  PROVE  /\ Streamed[0][id] = <<>>
         /\ ~AboutMessage(n, id) => Streamed[n][id] = Streamed[n - 1][id]
         /\ AboutMessage(n, id) =>
              Streamed[n][id] =
                IF Script[n].event = "message_complete" THEN Script[n].content
                ELSE appendDelta(Streamed[n - 1][id], Script[n].content[1])
<1>1. n \in 0..Len(Script) /\ n # 0 /\ 0 \in 0..Len(Script)
  BY DEF ScriptAssumption
<1>2. Streamed[0] = [x \in ScriptIds |-> <<>>]
  BY <1>1, StreamedEquation
<1>3. Streamed[n] =
        [x \in ScriptIds |->
           IF ~AboutMessage(n, x) THEN Streamed[n - 1][x]
           ELSE IF Script[n].event = "message_complete" THEN Script[n].content
           ELSE appendDelta(Streamed[n - 1][x], Script[n].content[1])]
  BY <1>1, StreamedEquation
<1> QED BY <1>2, <1>3

\* No two entries of the list are the same message.
OnePerId(messages) ==
  \A j, k \in 1..Len(messages) :
    (/\ messages[j].kind = "assistant" /\ messages[k].kind = "assistant"
     /\ messages[j].id = messages[k].id)
      => j = k

\* Entries of other kinds and ids stay where and what they are.
OthersStay(before, after, kind, id) ==
  \A kd, x : <<kd, x>> # <<kind, id>> =>
    /\ Entries(after, kd, x) = Entries(before, kd, x)
    /\ \A k \in Entries(before, kd, x) : after[k] = before[k]

\* The content of a message that stands once, and of none.
LEMMA ContentFacts ==
  ASSUME NEW messages \in Seq(Message), OnePerId(messages), NEW id
  PROVE  /\ Entries(messages, "assistant", id) = {} => ContentOf(messages, id) = <<>>
         /\ \A k \in Entries(messages, "assistant", id) :
              /\ Entries(messages, "assistant", id) = {k}
              /\ ContentOf(messages, id) = messages[k].content
<1> DEFINE i == IndexIn(messages, id)
           E == Entries(messages, "assistant", id)
<1>1. (i = 0 => E = {}) /\ (i # 0 => i \in E)
  BY IndexFacts
<1>2. \A j, k \in E : j = k
  BY DEF Entries, OnePerId
<1>3. i \in 0..Len(messages) /\ (i \in E => i # 0)
  BY IndexFacts DEF Entries
<1>4. ContentOf(messages, id) = IF i = 0 THEN <<>> ELSE messages[i].content
  BY DEF ContentOf
<1> HIDE DEF i, E
<1>5. \A k \in E : k = i /\ E = {k} /\ i # 0
  BY <1>1, <1>2
<1>6. E = {} => i = 0
  BY <1>1
<1>7. \A k \in E : E = {k} /\ ContentOf(messages, id) = messages[k].content
  BY <1>4, <1>5
<1>8. E = {} => ContentOf(messages, id) = <<>>
  BY <1>4, <1>6
<1> QED BY <1>7, <1>8 DEF E

\* A message that is put stands once, and nothing else changes.
LEMMA PutEffect ==
  ASSUME NEW messages \in Seq(Message), OnePerId(messages),
         NEW e \in Message, e.kind = "assistant"
  PROVE  /\ OnePerId(Put(messages, e))
         /\ \E k : Entries(Put(messages, e), "assistant", e.id) = {k} /\ Put(messages, e)[k] = e
         /\ OthersStay(messages, Put(messages, e), "assistant", e.id)
<1> DEFINE i == IndexIn(messages, e.id)
           l == Put(messages, e)
           k == IF i = 0 THEN Len(messages) + 1 ELSE i
           n == IF i = 0 THEN Len(messages) + 1 ELSE Len(messages)
<1>1. /\ i \in 0..Len(messages) /\ Len(messages) \in Nat
      /\ i = 0 => Entries(messages, "assistant", e.id) = {}
      /\ i # 0 => i \in Entries(messages, "assistant", e.id)
  BY IndexFacts
<1>2. /\ Len(l) = n /\ k \in 1..n /\ l[k] = e
      /\ \A j \in 1..n : j # k => j \in 1..Len(messages) /\ l[j] = messages[j]
      /\ \A j \in 1..Len(messages) : j \in 1..n
  <2>1. CASE i = 0
    <3>1. l = Append(messages, e)
      BY <2>1 DEF Put
    <3>2. /\ Len(l) = Len(messages) + 1 /\ l[Len(messages) + 1] = e
          /\ \A j \in 1..Len(messages) : l[j] = messages[j]
      BY <3>1, AppendProperties
    <3>3. n = Len(messages) + 1 /\ k = Len(messages) + 1
      BY <2>1
    <3> HIDE DEF l, n, k, i
    <3>4. /\ Len(messages) + 1 \in 1..Len(messages) + 1
          /\ \A j \in 1..Len(messages) + 1 : j # Len(messages) + 1 => j \in 1..Len(messages)
          /\ \A j \in 1..Len(messages) : j \in 1..Len(messages) + 1
      BY <1>1
    <3> QED BY <3>2, <3>3, <3>4
  <2>2. CASE i # 0
    <3>1. l = [messages EXCEPT ![i] = e] /\ n = Len(messages) /\ k = i
      BY <2>2 DEF Put, ReplaceAt
    <3>2. i \in 1..Len(messages)
      BY <1>1, <2>2
    <3> HIDE DEF l, n, k, i
    <3>3. l \in Seq(Message) /\ Len(l) = Len(messages) /\ l[i] = e
          /\ \A j \in 1..Len(messages) : j # i => l[j] = messages[j]
      BY <3>1, <3>2
    <3> QED BY <1>1, <3>1, <3>2, <3>3
  <2> QED BY <2>1, <2>2
<1>3. \A j \in 1..Len(messages) :
        (messages[j].kind = "assistant" /\ messages[j].id = e.id) <=> (j = k)
  <2>1. CASE i = 0
    BY <1>1, <2>1 DEF Entries
  <2>2. CASE i # 0
    <3>1. k = i /\ i \in 1..Len(messages) /\ messages[i].kind = "assistant" /\ messages[i].id = e.id
      BY <1>1, <2>2 DEF Entries
    <3> HIDE DEF k, i
    <3> QED BY <3>1 DEF OnePerId
  <2> QED BY <2>1, <2>2
<1>4. k \in 1..Len(messages) => messages[k].kind = "assistant" /\ messages[k].id = e.id
  BY <1>3
<1> HIDE DEF k, l, n, i
<1>5. OnePerId(l)
  <2> SUFFICES ASSUME NEW j \in 1..n, NEW q \in 1..n,
                      l[j].kind = "assistant", l[q].kind = "assistant", l[j].id = l[q].id
               PROVE  j = q
    BY <1>2 DEF OnePerId
  <2>1. CASE j = k /\ q # k
    BY <1>2, <1>3, <2>1
  <2>2. CASE j # k /\ q = k
    BY <1>2, <1>3, <2>2
  <2>3. CASE j # k /\ q # k
    BY <1>2, <2>3 DEF OnePerId
  <2> QED BY <2>1, <2>2, <2>3
<1>6. Entries(l, "assistant", e.id) = {k}
  BY <1>2, <1>3 DEF Entries
<1>7. ASSUME NEW kd, NEW x, <<kd, x>> # <<"assistant", e.id>>
      PROVE  /\ Entries(l, kd, x) = Entries(messages, kd, x)
             /\ \A j \in Entries(messages, kd, x) : l[j] = messages[j]
  <2>1. \A j \in Entries(l, kd, x) : j # k
    BY <1>2, <1>7 DEF Entries
  <2>2. \A j \in Entries(messages, kd, x) : j # k
    BY <1>4, <1>7 DEF Entries
  <2> QED BY <1>2, <2>1, <2>2 DEF Entries
<1>8. OthersStay(messages, l, "assistant", e.id)
  BY <1>7 DEF OthersStay
<1> QED BY <1>2, <1>5, <1>6, <1>8 DEF l

\* An entry of another kind is one more, and nothing else changes.
LEMMA AppendEffect ==
  ASSUME NEW messages \in Seq(Message), OnePerId(messages),
         NEW e \in Message, e.kind # "assistant"
  PROVE  /\ OnePerId(Append(messages, e))
         /\ Entries(Append(messages, e), e.kind, e.id)
              = Entries(messages, e.kind, e.id) \cup {Len(messages) + 1}
         /\ Len(messages) + 1 \notin Entries(messages, e.kind, e.id)
         /\ OthersStay(messages, Append(messages, e), e.kind, e.id)
<1> DEFINE l == Append(messages, e)
           n == Len(messages) + 1
<1>1. /\ Len(messages) \in Nat /\ Len(l) = n /\ l[n] = e
      /\ \A j \in 1..Len(messages) : l[j] = messages[j]
  BY AppendProperties
<1>2. /\ \A j \in 1..n : j # n => j \in 1..Len(messages)
      /\ \A j \in 1..Len(messages) : j \in 1..n /\ j # n
      /\ n \in 1..n
  BY <1>1
<1> HIDE DEF l, n
<1>3. OnePerId(l)
  BY <1>1, <1>2 DEF OnePerId
<1>4. n \notin Entries(messages, e.kind, e.id)
  BY <1>2 DEF Entries
<1>5. Entries(l, e.kind, e.id) = Entries(messages, e.kind, e.id) \cup {n}
  BY <1>1, <1>2 DEF Entries
<1>6. ASSUME NEW kd, NEW x, <<kd, x>> # <<e.kind, e.id>>
      PROVE  /\ Entries(l, kd, x) = Entries(messages, kd, x)
             /\ \A j \in Entries(messages, kd, x) : l[j] = messages[j]
  BY <1>1, <1>2, <1>6 DEF Entries
<1>7. OthersStay(messages, l, e.kind, e.id)
  BY <1>6 DEF OthersStay
<1> QED BY <1>3, <1>4, <1>5, <1>7 DEF l, n

\* v becomes w with event i of session s, whose entry has that id.
ReducedTo(v, w, s, i, id) ==
  /\ OnePerId(w.messages)
  /\ AboutMessage(i, Script[i].id) =>
       /\ \E k : /\ Entries(w.messages, "assistant", id) = {k}
                 /\ IF Script[i].event = "message_delta" THEN w.messages[k].streaming
                    ELSE ~w.messages[k].streaming
                 /\ w.messages[k].content =
                      IF Script[i].event = "message_complete" THEN Script[i].content
                      ELSE appendDelta(ContentOf(v.messages, id), Script[i].content[1])
       /\ OthersStay(v.messages, w.messages, "assistant", id)
  /\ Script[i].event = "tool_result" =>
       /\ Entries(w.messages, "tool_result", id)
            = Entries(v.messages, "tool_result", id) \cup {Len(v.messages) + 1}
       /\ Len(v.messages) + 1 \notin Entries(v.messages, "tool_result", id)
       /\ OthersStay(v.messages, w.messages, "tool_result", id)
  /\ Script[i].event \notin {"message_delta", "message_complete", "tool_result"} =>
       w.messages = v.messages
  /\ w.totalCostUsd =
       IF Script[i].event = "result" THEN v.totalCostUsd + 1 ELSE v.totalCostUsd

\* What an event changes in the view, by its kind.
LEMMA ReduceEffect ==
  ASSUME NEW v \in View, OnePerId(v.messages), NEW s \in 0..MaxSessions,
         NEW i \in 1..Len(Script), NEW w, w = Reduce(v, s, i),
         NEW id, id = <<s, Script[i].id>>
  PROVE  ReducedTo(v, w, s, i, id)
<1> DEFINE e == Script[i]
           M == v.messages
<1>1. /\ e.event \in {"message_delta", "message_complete", "tool_result", "result", "done"}
      /\ id \in (0..MaxSessions) \X Nat
      /\ e.content \in Seq(Block)
      /\ e.event = "message_delta" => Len(e.content) = 1
  <2>1. e \in Event
    BY DEF ScriptAssumption
  <2> QED BY <2>1 DEF ScriptAssumption, Event
<1>2. M \in Seq(Message) /\ v.totalCostUsd \in Nat
      /\ v = [messages |-> M, status |-> v.status, totalCostUsd |-> v.totalCostUsd]
  BY DEF View
<1>3. \A kind \in {"user", "assistant", "tool_result"}, c \in Seq(Block), b \in BOOLEAN :
        /\ Entry(kind, id, c, b) \in Message
        /\ Entry(kind, id, c, b).kind = kind /\ Entry(kind, id, c, b).id = id
        /\ Entry(kind, id, c, b).content = c /\ Entry(kind, id, c, b).streaming = b
  BY <1>1 DEF Entry, Message
<1>4. AboutMessage(i, e.id) <=> e.event \in {"message_delta", "message_complete"}
  BY DEF AboutMessage
<1> HIDE DEF M, e
<1> DEFINE Placed(l, c, b) ==
             /\ OnePerId(l)
             /\ \E k : Entries(l, "assistant", id) = {k} /\ l[k].streaming = b /\ l[k].content = c
             /\ OthersStay(M, l, "assistant", id)
<1>5. ASSUME NEW c \in Seq(Block), NEW b \in BOOLEAN
      PROVE  Placed(Put(M, Entry("assistant", id, c, b)), c, b)
  <2> DEFINE x == Entry("assistant", id, c, b)
  <2>1. /\ x \in Message /\ x.kind = "assistant" /\ x.id = id
        /\ x.content = c /\ x.streaming = b
    BY <1>3
  <2> HIDE DEF x
  <2>2. OnePerId(M)
    BY DEF M
  <2>3. /\ OnePerId(Put(M, x))
        /\ \E k : Entries(Put(M, x), "assistant", x.id) = {k} /\ Put(M, x)[k] = x
        /\ OthersStay(M, Put(M, x), "assistant", x.id)
    BY <1>2, <2>1, <2>2, PutEffect
  <2>4. Placed(Put(M, x), c, b)
    BY <2>1, <2>3
  <2> QED BY <2>4 DEF x
<1> HIDE DEF Placed
<1>6. CASE e.event = "message_delta"
  <2> DEFINE grown == appendDelta(ContentOf(M, id), e.content[1])
             flag == TRUE
             l == Put(M, Entry("assistant", id, grown, flag))
  <2>1. e.content[1] \in Block
    BY <1>1, <1>6
  <2>2. grown \in Seq(Block) /\ flag \in BOOLEAN
    BY <1>2, <2>1, ContentType, AppendDeltaType
  <2>3. w = [v EXCEPT !.messages = l, !.status = "streaming"]
    BY <1>6 DEF Reduce, M, e
  <2> HIDE DEF grown, flag
  <2>4. Placed(l, grown, flag)
    BY <1>5, <2>2
  <2> HIDE DEF l
  <2>5. w.messages = l /\ w.totalCostUsd = v.totalCostUsd
    BY <1>2, <2>3
  <2> QED BY <1>6, <2>4, <2>5 DEF Placed, ReducedTo, flag, grown, M, e
<1>7. CASE e.event = "message_complete"
  <2> DEFINE l == Put(M, Entry("assistant", id, e.content, FALSE))
  <2>1. w = [v EXCEPT !.messages = l]
    BY <1>7 DEF Reduce, M, e
  <2>2. Placed(l, e.content, FALSE)
    BY <1>1, <1>5
  <2> HIDE DEF l
  <2>3. w.messages = l /\ w.totalCostUsd = v.totalCostUsd
    BY <1>2, <2>1
  <2> QED BY <1>7, <2>2, <2>3 DEF Placed, ReducedTo, M, e
<1>8. CASE e.event = "tool_result"
  <2> DEFINE x == Entry("tool_result", id, <<>>, FALSE)
             l == Append(M, x)
  <2>1. <<>> \in Seq(Block) /\ FALSE \in BOOLEAN
    OBVIOUS
  <2>2. x \in Message /\ x.kind = "tool_result" /\ x.id = id
    BY <1>3, <2>1
  <2>3. w = [v EXCEPT !.messages = l]
    BY <1>8 DEF Reduce, M, e
  <2> HIDE DEF x
  <2>4. OnePerId(M)
    BY DEF M
  <2>5. /\ OnePerId(l)
        /\ Entries(l, x.kind, x.id) = Entries(M, x.kind, x.id) \cup {Len(M) + 1}
        /\ Len(M) + 1 \notin Entries(M, x.kind, x.id)
        /\ OthersStay(M, l, x.kind, x.id)
    BY <1>2, <2>2, <2>4, AppendEffect
  <2> HIDE DEF l
  <2>6. w.messages = l /\ w.totalCostUsd = v.totalCostUsd
    BY <1>2, <2>3
  <2> QED BY <1>4, <1>8, <2>2, <2>5, <2>6 DEF ReducedTo, M, e
<1>9. CASE e.event \in {"result", "done"}
  <2>1. w = IF e.event = "result"
            THEN [v EXCEPT !.totalCostUsd = v.totalCostUsd + 1, !.status = "idle"]
            ELSE [v EXCEPT !.status = "idle"]
    BY <1>9 DEF Reduce, e
  <2>2. w.messages = M /\ w.totalCostUsd =
              IF e.event = "result" THEN v.totalCostUsd + 1 ELSE v.totalCostUsd
    BY <1>2, <2>1
  <2> QED BY <1>4, <1>9, <2>2 DEF ReducedTo, M, e
<1> QED BY <1>1, <1>6, <1>7, <1>8, <1>9
-----------------------------------------------------------------------------
(* The transcript.  The list of messages agrees with the events up to pos     *)
(* because the run that is not aborted goes on where the last one was: its    *)
(* cursor is pos, unless it replays.                                         *)

Reader ==
  /\ \A k \in 1..Len(mounts) :
       mounts[k].phase = "open" /\ ~mounts[k].aborted =>
         \/ mounts[k].cursor = pos[mounts[k].session]
         \/ replays > 0
  /\ \A k \in 1..Len(mounts) : mounts[k].phase = "creating" => mounts[k].session = 0
  /\ replays = 0 => \A s \in Sessions : base[s] <= pos[s]

\* Nothing came of a session that no run is of.
Untouched ==
  \A s \in Sessions :
    (\A k \in 1..Len(mounts) : mounts[k].session # s) => base[s] = 0 /\ pos[s] = 0

\* The latest event about a message is what is shown of it.
ShownAs(m, i, id, inOrder) ==
  IF Script[i].event = "message_complete" THEN m.content = Script[i].content /\ ~m.streaming
  ELSE m.streaming /\ (inOrder => m.content = Streamed[i][id])

LastKept ==
  \A s \in Sessions, id \in ScriptIds :
    latest[s][id] # 0 =>
      /\ AboutMessage(latest[s][id], id)
      /\ \E k \in Entries(view.messages, "assistant", <<s, id>>) :
           ShownAs(view.messages[k], latest[s][id], id, replays = 0 /\ base[s] = 0)

\* Without a replay, all messages of a session are what its events come to.
InOrder ==
  replays = 0 =>
    \A s \in Sessions, id \in ScriptIds :
      base[s] = 0 => ContentOf(view.messages, <<s, id>>) = Streamed[pos[s]][id]

ShownInv == OnePerId(view.messages) /\ LastKept /\ InOrder /\ CountedOnce

TranscriptInv == MountInv /\ Reader /\ Untouched /\ ShownInv

\* Types, for the steps.
LEMMA TranscriptFacts ==
  ASSUME MountInv
  PROVE  /\ view.messages \in Seq(Message) /\ view.totalCostUsd \in Nat /\ view \in View
         /\ base \in [Sessions -> 0..Len(Script)] /\ pos \in [Sessions -> 0..Len(Script)]
         /\ \A s \in Sessions : base[s] \in Nat /\ pos[s] \in Nat
         /\ replays \in Nat /\ MaxReplays \in Nat /\ Len(Script) \in Nat
         /\ \A k \in 1..Len(mounts) : /\ mounts[k].session \in 0..created
                                      /\ mounts[k].session # 0 => mounts[k].session \in Sessions
                                      /\ mounts[k].cursor \in Nat
         /\ created \in 0..MaxSessions /\ MaxSessions \in Nat
<1>1. /\ view \in View /\ base \in [Sessions -> 0..Len(Script)] /\ replays \in 0..MaxReplays
      /\ pos \in [Sessions -> 0..Len(Script)]
      /\ created \in 0..MaxSessions /\ MaxSessions \in Nat /\ MaxReplays \in Nat
      /\ Len(Script) \in Nat
  BY DEF MountInv, TypeOK, BoundAssumption, ScriptAssumption
<1>2. \A s \in Sessions : base[s] \in Nat /\ pos[s] \in Nat
  BY <1>1
<1>3. ASSUME NEW k \in 1..Len(mounts)
      PROVE  /\ mounts[k].session \in 0..created
             /\ mounts[k].session # 0 => mounts[k].session \in Sessions
             /\ mounts[k].cursor \in Nat
  <2>1. mounts[k] \in Run /\ mounts[k].session <= created
    BY DEF MountInv, TypeOK, RunsOK
  <2>2. mounts[k].session \in 0..MaxSessions /\ mounts[k].cursor \in 0..Len(Script)
    BY <2>1 DEF Run
  <2> QED BY <1>1, <2>1, <2>2 DEF Sessions
<1> QED BY <1>1, <1>2, <1>3 DEF View

\* A step that shows nothing new.
LEMMA NothingShown ==
  ASSUME MountInv, ShownInv, view'.messages = view.messages,
         view'.totalCostUsd = view.totalCostUsd, UNCHANGED <<base, pos, latest>>,
         replays' = 0 => replays = 0
  PROVE  ShownInv'
<1>1. OnePerId(view'.messages)
  BY DEF ShownInv
<1>2. LastKept'
  <2>1. \A m, i, id, s : ShownAs(m, i, id, replays = 0 /\ base[s] = 0)
                        => ShownAs(m, i, id, replays' = 0 /\ base[s] = 0)
    BY DEF ShownAs
  <2>2. LastKept
    BY DEF ShownInv
  <2>3. ASSUME NEW s \in Sessions, NEW id \in ScriptIds, latest[s][id] # 0
        PROVE  /\ AboutMessage(latest[s][id], id)
               /\ \E k \in Entries(view.messages, "assistant", <<s, id>>) :
                    ShownAs(view.messages[k], latest[s][id], id, replays' = 0 /\ base[s] = 0)
    BY <2>1, <2>2, <2>3 DEF LastKept
  <2> QED BY <2>3 DEF LastKept
<1>3. InOrder'
  BY DEF ShownInv, InOrder
<1>4. CountedOnce'
  BY DEF ShownInv, CountedOnce, Costs, Results
<1> QED BY <1>1, <1>2, <1>3, <1>4 DEF ShownInv

\* A run is replaced by one that stands where it stood or is over.
LEMMA ReaderGoesOn ==
  ASSUME MountInv, Reader, Untouched, NEW k \in 1..Len(mounts), NEW r,
         mounts' = [mounts EXCEPT ![k] = r], UNCHANGED <<base, pos, replays>>,
         r.session = mounts[k].session, r.phase \in {mounts[k].phase, "over"},
         r.phase = "open" /\ ~r.aborted =>
           /\ r.cursor = mounts[k].cursor
           /\ mounts[k].phase = "open" /\ ~mounts[k].aborted
  PROVE  Reader' /\ Untouched'
<1>1. mounts \in Seq(Run)
  BY TypeFacts
<1>2. /\ Len(mounts') = Len(mounts)
      /\ \A j \in 1..Len(mounts) : mounts'[j] = IF j = k THEN r ELSE mounts[j]
  BY <1>1
<1>3. Reader'
  BY <1>2 DEF Reader
<1>4. \A j \in 1..Len(mounts) : mounts'[j].session = mounts[j].session
  BY <1>2
<1>5. Untouched'
  BY <1>2, <1>4 DEF Untouched
<1> QED BY <1>3, <1>5

\* All runs stay where they are; some are aborted or detached.
LEMMA ReaderStays ==
  ASSUME Reader, Untouched, UNCHANGED <<base, pos, replays>>, Len(mounts') = Len(mounts),
         \A k \in 1..Len(mounts) :
           /\ mounts'[k].session = mounts[k].session
           /\ mounts'[k].cursor = mounts[k].cursor /\ mounts'[k].phase = mounts[k].phase
           /\ mounts[k].aborted => mounts'[k].aborted
  PROVE  Reader' /\ Untouched'
BY DEF Reader, Untouched

\* The effect runs.
LEMMA ReaderRuns ==
  ASSUME MountInv, Reader, Untouched, ~Active, NEW r, mounts' = Append(mounts, r), r \in Run,
         UNCHANGED <<base, pos>>, replays' = 0 => replays = 0,
         r.phase = "creating" => r.session = 0,
         r.phase = "open" => r.cursor = pos[r.session] \/ replays' > 0
  PROVE  Reader' /\ Untouched'
<1>1. mounts \in Seq(Run) /\ Len(mounts) \in Nat
  BY TypeFacts
<1>2. /\ Len(mounts') = Len(mounts) + 1 /\ mounts'[Len(mounts) + 1] = r
      /\ \A j \in 1..Len(mounts) : mounts'[j] = mounts[j]
      /\ \A j \in 1..Len(mounts') : j = Len(mounts) + 1 \/ j \in 1..Len(mounts)
      /\ \A j \in 1..Len(mounts) : j \in 1..Len(mounts')
  BY <1>1, AppendProperties
<1>3. \A j \in 1..Len(mounts) : mounts[j].aborted
  <2>1. Len(mounts) # 0 => mounts[Len(mounts)].aborted
    BY <1>1, EmptySeq DEF Active, Last
  <2> QED BY <1>1, <2>1, TypeFacts DEF RunsOK
<1>4. Reader'
  BY <1>2, <1>3 DEF Reader
<1>5. Untouched'
  BY <1>2 DEF Untouched
<1> QED BY <1>4, <1>5

\* A page comes back to a session that it knows of, with what it had stored.
LEMMA StoredShown ==
  ASSUME MountInv, Reader, Untouched, ShownInv,
         NEW s \in 1..created, NEW from \in 0..Len(Script), AttachStored(s, from)
  PROVE  Reader' /\ Untouched' /\ ShownInv'
<1>1. /\ s \in Sessions /\ from \in Nat
      /\ mounts \in Seq(Run) /\ Len(mounts) \in Nat
      /\ \A x \in Sessions : base[x] \in Nat /\ pos[x] \in Nat
  BY TypeFacts, TranscriptFacts DEF Sessions
<1>2. /\ base' = [base EXCEPT ![s] = from] /\ pos' = [pos EXCEPT ![s] = from]
      /\ view' = view /\ latest' = latest /\ replays' = replays /\ ~Active
      /\ \A k \in 1..Len(mounts) : mounts[k].session # s
  BY DEF AttachStored, EffectAttach
<1>3. base[s] = 0 /\ pos[s] = 0
  BY <1>1, <1>2 DEF Untouched
<1>4. /\ base'[s] = from /\ pos'[s] = from
      /\ \A x \in Sessions : x # s => base'[x] = base[x] /\ pos'[x] = pos[x]
  BY <1>1, <1>2, TranscriptFacts
<1> DEFINE r == Opened(s, from)
<1>5. /\ Len(mounts') = Len(mounts) + 1 /\ mounts'[Len(mounts) + 1] = r
      /\ \A j \in 1..Len(mounts) : mounts'[j] = mounts[j]
      /\ \A j \in 1..Len(mounts') : j = Len(mounts) + 1 \/ j \in 1..Len(mounts)
      /\ \A j \in 1..Len(mounts) : j \in 1..Len(mounts')
      /\ Len(mounts) + 1 \in 1..Len(mounts')
  <2>1. mounts' = Append(mounts, r)
    BY DEF AttachStored, EffectAttach, ResumeId
  <2>2. r \in Run
    BY <1>1, TranscriptFacts DEF Opened, Run
  <2> HIDE DEF r
  <2> QED BY <1>1, <2>1, <2>2, AppendProperties
<1>6. r.session = s /\ r.cursor = from /\ r.phase = "open"
  BY DEF Opened
<1> HIDE DEF r
<1>7. \A j \in 1..Len(mounts) : mounts[j].aborted
  <2>1. Len(mounts) # 0 => mounts[Len(mounts)].aborted
    BY <1>1, <1>2, EmptySeq DEF Active, Last
  <2> QED BY <1>1, <2>1, TypeFacts DEF RunsOK
<1>8. Reader'
  <2>1. \A j \in 1..Len(mounts') :
          mounts'[j].phase = "open" /\ ~mounts'[j].aborted =>
            mounts'[j].cursor = pos'[mounts'[j].session]
    BY <1>4, <1>5, <1>6, <1>7
  <2>2. \A j \in 1..Len(mounts') :
          mounts'[j].phase = "creating" => mounts'[j].session = 0
    BY <1>5, <1>6 DEF Reader
  <2>3. replays' = 0 => \A x \in Sessions : base'[x] <= pos'[x]
    BY <1>1, <1>2, <1>4 DEF Reader
  <2> QED BY <2>1, <2>2, <2>3 DEF Reader
<1>9. Untouched'
  <2> SUFFICES ASSUME NEW x \in Sessions,
                      \A k \in 1..Len(mounts') : mounts'[k].session # x
               PROVE  base'[x] = 0 /\ pos'[x] = 0
    BY DEF Untouched
  <2>1. x # s
    BY <1>5, <1>6
  <2>2. \A k \in 1..Len(mounts) : mounts[k].session # x
    BY <1>5
  <2> QED BY <1>4, <2>1, <2>2 DEF Untouched
<1>10. \A x \in Sessions : base'[x] + 1 .. pos'[x] = base[x] + 1 .. pos[x]
  <2>1. from + 1 .. from = {} /\ 0 + 1 .. 0 = {}
    BY <1>1
  <2> QED BY <1>3, <1>4, <2>1
<1>11. LastKept'
  <2>1. \A x \in Sessions : base'[x] = 0 => base[x] = 0
    BY <1>3, <1>4
  <2>2. ASSUME NEW x \in Sessions, NEW id \in ScriptIds, latest[x][id] # 0
        PROVE  /\ AboutMessage(latest[x][id], id)
               /\ \E k \in Entries(view.messages, "assistant", <<x, id>>) :
                    ShownAs(view.messages[k], latest[x][id], id, replays = 0 /\ base'[x] = 0)
    <3>1. /\ AboutMessage(latest[x][id], id)
          /\ \E k \in Entries(view.messages, "assistant", <<x, id>>) :
               ShownAs(view.messages[k], latest[x][id], id, replays = 0 /\ base[x] = 0)
      BY <2>2 DEF ShownInv, LastKept
    <3>2. \A m, i : ShownAs(m, i, id, replays = 0 /\ base[x] = 0)
                     => ShownAs(m, i, id, replays = 0 /\ base'[x] = 0)
      BY <2>1 DEF ShownAs
    <3> QED BY <3>1, <3>2
  <2> QED BY <1>2, <2>2 DEF LastKept
<1>12. InOrder'
  <2>1. ASSUME replays = 0, NEW x \in Sessions, NEW id \in ScriptIds, base'[x] = 0
        PROVE  ContentOf(view.messages, <<x, id>>) = Streamed[pos'[x]][id]
    BY <1>3, <1>4, <2>1 DEF ShownInv, InOrder
  <2> QED BY <1>2, <2>1 DEF InOrder
<1>13. CountedOnce'
  <2>1. Costs' = Costs
    BY <1>10 DEF Costs
  <2>2. \A x \in Sessions, id \in ScriptIds : Results(x, id)' = Results(x, id)
    BY <1>10 DEF Results
  <2> QED BY <1>2, <2>1, <2>2 DEF ShownInv, CountedOnce
<1> QED BY <1>2, <1>8, <1>9, <1>11, <1>12, <1>13 DEF ShownInv

\* The page attaches again, at the last event or an earlier one.
LEMMA AgainShown ==
  ASSUME MountInv, Reader, Untouched, ShownInv,
         NEW s \in 1..created, NEW from \in 0..Len(Script), AttachAgain(s, from)
  PROVE  Reader' /\ Untouched' /\ ShownInv'
<1> DEFINE r == Opened(s, from)
<1>1. /\ view' = view /\ UNCHANGED <<base, pos, latest>> /\ ~Active
      /\ mounts' = Append(mounts, r) /\ from <= pos[s]
      /\ replays' = IF from < pos[s] THEN replays + 1 ELSE replays
  BY DEF AttachAgain, EffectAttach, ResumeId
<1>2. s \in Sessions /\ pos[s] \in Nat /\ replays \in Nat
  BY TranscriptFacts DEF Sessions
<1>3. r \in Run /\ r.session = s /\ r.cursor = from /\ r.phase = "open"
  BY TypeFacts DEF Opened, Run
<1> HIDE DEF r
<1>4. (replays' = 0 => replays = 0) /\ (r.cursor = pos[r.session] \/ replays' > 0)
  BY <1>1, <1>2, <1>3
<1>5. Reader' /\ Untouched'
  BY <1>1, <1>3, <1>4, ReaderRuns
<1>6. ShownInv'
  BY <1>1, <1>4, NothingShown
<1> QED BY <1>5, <1>6

\* createSession() returns: nothing came of the new session yet.
LEMMA CreatedShown ==
  ASSUME MountInv, Reader, Untouched, ShownInv, NEW k \in 1..Len(mounts), Created(k)
  PROVE  Reader' /\ Untouched' /\ ShownInv'
<1>1. /\ UNCHANGED <<view, base, pos, latest, replays>> /\ created' = created + 1
      /\ created < MaxSessions /\ mounts[k].phase = "creating"
  BY DEF Created
<1>2. created' \in Sessions /\ \A j \in 1..Len(mounts) : mounts[j].session # created'
  BY <1>1, TranscriptFacts DEF Sessions
<1>3. pos[created'] = 0
  BY <1>2 DEF Untouched
<1> DEFINE r == IF mounts[k].aborted
                THEN [mounts[k] EXCEPT !.phase = "over", !.detached = TRUE, !.session = created']
                ELSE Opened(created', 0)
<1>4. mounts' = [mounts EXCEPT ![k] = r]
  BY TypeFacts DEF Created
<1>5. /\ r.session = created' /\ r.phase # "creating"
      /\ r.phase = "open" => r.cursor = 0
  <2>1. mounts[k] \in Run
    BY TypeFacts
  <2> QED BY <2>1 DEF Opened, Run
<1> HIDE DEF r
<1>6. /\ Len(mounts') = Len(mounts)
      /\ \A j \in 1..Len(mounts) : mounts'[j] = IF j = k THEN r ELSE mounts[j]
  BY <1>4, TypeFacts
<1>7. Reader'
  BY <1>1, <1>3, <1>5, <1>6 DEF Reader
<1>8. Untouched'
  <2> SUFFICES ASSUME NEW x \in Sessions,
                      \A j \in 1..Len(mounts) : mounts'[j].session # x
               PROVE  base[x] = 0 /\ pos[x] = 0
    BY <1>1, <1>6 DEF Untouched
  <2>0. mounts[k].session = 0 \/ mounts[k].session \in Sessions
    BY TranscriptFacts
  <2>1. CASE mounts[k].session # x
    <3>1. \A j \in 1..Len(mounts) : mounts[j].session # x
      BY <1>6, <2>1
    <3> QED BY <3>1 DEF Untouched
  <2>2. CASE mounts[k].session = x
    BY <1>1, <2>2 DEF Reader, Sessions
  <2> QED BY <2>1, <2>2
<1>9. ShownInv'
  BY <1>1, NothingShown
<1> QED BY <1>7, <1>8, <1>9

\* A finite set of numbers, and one more.
LEMMA OneMore ==
  ASSUME NEW S, IsFiniteSet(S), NEW x, x \notin S
  PROVE  Cardinality(S \cup {x}) = Cardinality(S) + 1
BY FS_AddElement

\* The sets that are counted are finite.
LEMMA CountedFinite ==
  ASSUME MountInv
  PROVE  /\ IsFiniteSet(Costs)
         /\ \A s \in Sessions : \A id : IsFiniteSet(Results(s, id))
         /\ \A kind, id : IsFiniteSet(Entries(view.messages, kind, id))
<1>1. \A a, b \in Int : IsFiniteSet(a..b)
  BY FS_Interval
<1>2. IsFiniteSet(Costs)
  <2>1. IsFiniteSet(Sessions) /\ IsFiniteSet(1..Len(Script))
    BY <1>1, TranscriptFacts DEF Sessions
  <2>2. IsFiniteSet(Sessions \X (1..Len(Script)))
    BY <2>1, FS_Product
  <2> QED BY <2>2, FS_Subset DEF Costs
<1>3. ASSUME NEW s \in Sessions, NEW id PROVE IsFiniteSet(Results(s, id))
  <2>1. IsFiniteSet(base[s] + 1 .. pos[s])
    BY <1>1, TranscriptFacts
  <2> QED BY <2>1, FS_Subset DEF Results
<1>4. ASSUME NEW kind, NEW id PROVE IsFiniteSet(Entries(view.messages, kind, id))
  <2>1. IsFiniteSet(1..Len(view.messages))
    BY <1>1, TranscriptFacts
  <2> QED BY <2>1, FS_Subset DEF Entries
<1> QED BY <1>2, <1>3, <1>4

\* The content of a message whose entries stay.
LEMMA ContentStays ==
  ASSUME NEW before \in Seq(Message), NEW after \in Seq(Message),
         OnePerId(before), OnePerId(after), NEW id,
         Entries(after, "assistant", id) = Entries(before, "assistant", id),
         \A k \in Entries(before, "assistant", id) : after[k] = before[k]
  PROVE  ContentOf(after, id) = ContentOf(before, id)
<1>1. CASE Entries(before, "assistant", id) = {}
  BY <1>1, ContentFacts
<1>2. ASSUME NEW k \in Entries(before, "assistant", id)
      PROVE  ContentOf(after, id) = ContentOf(before, id)
  BY <1>2, ContentFacts
<1> QED BY <1>1, <1>2

\* A user message is an entry of its own kind.
LEMMA SendShown ==
  ASSUME MountInv, Reader, Untouched, ShownInv, Send
  PROVE  Reader' /\ Untouched' /\ ShownInv'
<1> DEFINE e == Entry("user", <<0, sends'>>, <<>>, FALSE)
           l == Append(view.messages, e)
<1>1. /\ view' = [view EXCEPT !.messages = l, !.status = "streaming"]
      /\ UNCHANGED <<mounts, base, pos, latest, replays>> /\ sends' = sends + 1
  BY DEF Send
<1>2. e \in Message /\ e.kind = "user"
  <2>1. sends' \in Nat
    BY <1>1 DEF MountInv, TypeOK, BoundAssumption
  <2>2. <<>> \in Seq(Block) /\ FALSE \in BOOLEAN /\ <<0, sends'>> \in (0..MaxSessions) \X Nat
    BY <2>1, TypeFacts
  <2> QED BY <2>2 DEF Entry, Message
<1> HIDE DEF e
<1>3. OnePerId(l) /\ OthersStay(view.messages, l, "user", e.id)
  <2>1. OnePerId(view.messages) /\ view.messages \in Seq(Message)
    BY TranscriptFacts DEF ShownInv
  <2> QED BY <1>2, <2>1, AppendEffect
<1> HIDE DEF l
<1>4. view'.messages = l /\ view'.totalCostUsd = view.totalCostUsd
  BY <1>1, TranscriptFacts DEF View
<1>5. \A kind \in {"assistant", "tool_result"} : \A id :
        /\ Entries(l, kind, id) = Entries(view.messages, kind, id)
        /\ \A k \in Entries(view.messages, kind, id) : l[k] = view.messages[k]
  BY <1>3 DEF OthersStay
<1>6. LastKept'
  <2>1. ASSUME NEW s \in Sessions, NEW id \in ScriptIds, latest[s][id] # 0
        PROVE  /\ AboutMessage(latest[s][id], id)
               /\ \E k \in Entries(l, "assistant", <<s, id>>) :
                    ShownAs(l[k], latest[s][id], id, replays = 0 /\ base[s] = 0)
    <3>1. /\ AboutMessage(latest[s][id], id)
          /\ \E k \in Entries(view.messages, "assistant", <<s, id>>) :
               ShownAs(view.messages[k], latest[s][id], id, replays = 0 /\ base[s] = 0)
      BY <2>1 DEF ShownInv, LastKept
    <3> QED BY <1>5, <3>1
  <2> QED BY <1>1, <1>4, <2>1 DEF LastKept
<1>7. InOrder'
  <2>1. OnePerId(view.messages) /\ view.messages \in Seq(Message) /\ l \in Seq(Message)
    BY <1>2, TranscriptFacts, AppendProperties DEF ShownInv, l
  <2>2. \A id : ContentOf(l, id) = ContentOf(view.messages, id)
    BY <1>3, <1>5, <2>1, ContentStays
  <2> QED BY <1>1, <1>4, <2>2 DEF ShownInv, InOrder
<1>8. CountedOnce'
  <2>1. Costs' = Costs /\ \A s \in Sessions, id \in ScriptIds : Results(s, id)' = Results(s, id)
    BY <1>1 DEF Costs, Results
  <2> QED BY <1>1, <1>4, <1>5, <2>1 DEF ShownInv, CountedOnce
<1>9. Reader' /\ Untouched'
  BY <1>1, ReaderStays
<1> QED BY <1>3, <1>4, <1>6, <1>7, <1>8, <1>9 DEF ShownInv

\* An event that is dispatched: the run was where pos is, and what is shown of
\* every message is what the events up to this one come to.
LEMMA DeliverShown ==
  ASSUME MountInv, Reader, Untouched, ShownInv, NEW k \in 1..Len(mounts), Deliver(k)
  PROVE  Reader' /\ Untouched' /\ ShownInv'
<1> DEFINE m == mounts[k]
           i == m.cursor + 1
           s == m.session
           e == Script[i]
<1>0. /\ m \in Run /\ m.phase = "open" /\ s \in Sessions /\ s \in 0..MaxSessions
      /\ i \in 1..Len(Script) /\ i \in Nat /\ m.cursor \in Nat /\ i = m.cursor + 1
      /\ UNCHANGED <<base, replays>>
  <2>1. /\ m \in Run /\ m.phase = "open" /\ m.hand > 0 /\ m.cursor + m.hand <= Len(Script)
        /\ s # 0 /\ Len(Script) \in Nat /\ MaxSessions \in Nat
    BY TypeFacts DEF Deliver, RunsOK
  <2>2. m.cursor \in 0..Len(Script) /\ m.hand \in 0..Len(Script) /\ s \in 0..MaxSessions
    BY <2>1 DEF Run
  <2>3. s \in Sessions
    BY <2>1, <2>2 DEF Sessions
  <2>4. m.cursor + 1 \in 1..Len(Script)
    BY <2>1, <2>2
  <2>5. UNCHANGED <<base, replays>>
    BY DEF Deliver
  <2> HIDE DEF m
  <2> QED BY <2>1, <2>2, <2>3, <2>4, <2>5
<1>1. CASE m.aborted
  <2> DEFINE r == [m EXCEPT !.phase = "over", !.hand = 0]
  <2>1. /\ mounts' = [mounts EXCEPT ![k] = r]
        /\ view' = view /\ pos' = pos /\ latest' = latest
    BY <1>0, <1>1, TypeFacts DEF Deliver
  <2>2. r.session = m.session /\ r.phase = "over"
    BY <1>0 DEF Run
  <2> HIDE DEF r
  <2>3. Reader' /\ Untouched'
    BY <1>0, <2>1, <2>2, ReaderGoesOn
  <2>4. ShownInv'
    BY <1>0, <2>1, NothingShown
  <2> QED BY <2>3, <2>4
<1>2. CASE ~m.aborted
  <2> DEFINE r == [m EXCEPT !.cursor = i, !.hand = IF e.event = "done" THEN 0 ELSE m.hand - 1,
                            !.phase = IF e.event = "done" THEN "over" ELSE m.phase]
             w == view'
             id == <<s, e.id>>
  <2>1. /\ mounts' = [mounts EXCEPT ![k] = r]
        /\ w = Reduce(view, s, i) /\ pos' = [pos EXCEPT ![s] = i]
        /\ latest' = [latest EXCEPT ![s] = [y \in ScriptIds |->
                         IF AboutMessage(i, y) THEN i ELSE latest[s][y]]]
    BY <1>2, TypeFacts DEF Deliver
  <2>2. r.session = s /\ r.cursor = i /\ r.phase # "creating"
    BY <1>0 DEF Run
  <2> HIDE DEF r
  <2>3. /\ Len(mounts') = Len(mounts)
        /\ \A j \in 1..Len(mounts) : mounts'[j] = IF j = k THEN r ELSE mounts[j]
    BY <2>1, TypeFacts
  <2>4. pos'[s] = i /\ \A x \in Sessions : x # s => pos'[x] = pos[x]
    BY <1>0, <2>1, TranscriptFacts
  <2>5. m.cursor = pos[s] \/ replays > 0
    BY <1>0, <1>2 DEF Reader
  <2>6. replays = 0 => pos[s] = m.cursor /\ base[s] <= m.cursor
    BY <1>0, <2>5, TranscriptFacts DEF Reader
  <2>7. Reader'
    <3>1. \A j \in 1..Len(mounts) : j # k => mounts[j].aborted
      <4>1. \A j \in 1..Len(mounts) : j < Len(mounts) => mounts[j].aborted
        BY TypeFacts DEF RunsOK
      <4>2. ~ (k < Len(mounts))
        BY <1>2, <4>1
      <4>3. k \in Nat /\ Len(mounts) \in Nat /\ k = Len(mounts)
        BY <4>2, TypeFacts
      <4>4. \A j \in 1..Len(mounts) : j # k => j < Len(mounts)
        BY <4>3
      <4> QED BY <4>1, <4>4
    <3>2. replays = 0 => \A x \in Sessions : base[x] <= pos'[x]
      <4>1. ASSUME replays = 0, NEW x \in Sessions PROVE base[x] <= pos'[x]
        <5>1. CASE x = s
          BY <1>0, <2>4, <2>6, <4>1, <5>1, TranscriptFacts
        <5>2. CASE x # s
          BY <2>4, <4>1, <5>2 DEF Reader
        <5> QED BY <5>1, <5>2
      <4> QED BY <4>1
    <3>3. \A j \in 1..Len(mounts) : mounts'[j].phase = "creating" => mounts'[j].session = 0
      BY <2>2, <2>3 DEF Reader
    <3>4. \A j \in 1..Len(mounts) : mounts'[j].phase = "open" /\ ~mounts'[j].aborted =>
            mounts'[j].cursor = pos'[mounts'[j].session]
      BY <2>2, <2>3, <2>4, <3>1
    <3> QED BY <1>0, <2>3, <3>2, <3>3, <3>4 DEF Reader
  <2>8. Untouched'
    <3>1. \A j \in 1..Len(mounts) : mounts'[j].session = mounts[j].session
      BY <2>2, <2>3
    <3>2. ASSUME NEW x \in Sessions, \A j \in 1..Len(mounts) : mounts'[j].session # x
          PROVE  base[x] = 0 /\ pos'[x] = 0
      <4>1. x # s
        BY <3>1, <3>2
      <4>2. \A j \in 1..Len(mounts) : mounts[j].session # x
        BY <3>1, <3>2
      <4> QED BY <2>4, <4>1, <4>2 DEF Untouched
    <3> QED BY <1>0, <2>3, <3>2 DEF Untouched
  <2>9. /\ view.messages \in Seq(Message) /\ OnePerId(view.messages) /\ view \in View
        /\ w \in View /\ w.messages \in Seq(Message) /\ e.id \in ScriptIds
    <3>1. w \in View
      BY <1>0, <2>1, TranscriptFacts, ReduceType
    <3> QED BY <1>0, <3>1, TranscriptFacts DEF View, ShownInv, ScriptIds
  <2> HIDE DEF m, i, s, e
  <2>10. /\ OnePerId(w.messages)
         /\ AboutMessage(i, e.id) =>
              /\ \E q : /\ Entries(w.messages, "assistant", id) = {q}
                        /\ IF e.event = "message_delta" THEN w.messages[q].streaming
                           ELSE ~w.messages[q].streaming
                        /\ w.messages[q].content =
                             IF e.event = "message_complete" THEN e.content
                             ELSE appendDelta(ContentOf(view.messages, id), e.content[1])
              /\ OthersStay(view.messages, w.messages, "assistant", id)
         /\ e.event = "tool_result" =>
              /\ Entries(w.messages, "tool_result", id)
                   = Entries(view.messages, "tool_result", id) \cup {Len(view.messages) + 1}
              /\ Len(view.messages) + 1 \notin Entries(view.messages, "tool_result", id)
              /\ OthersStay(view.messages, w.messages, "tool_result", id)
         /\ e.event \notin {"message_delta", "message_complete", "tool_result"} =>
              w.messages = view.messages
         /\ w.totalCostUsd =
              IF e.event = "result" THEN view.totalCostUsd + 1 ELSE view.totalCostUsd
    <3>1. id = <<s, Script[i].id>> /\ w = Reduce(view, s, i)
      BY <2>1 DEF e
    <3> HIDE DEF w, id
    <3>2. ReducedTo(view, w, s, i, id)
      BY <1>0, <2>9, <3>1, ReduceEffect
    <3> QED BY <3>2 DEF ReducedTo, e
  <2>11. AboutMessage(i, e.id) <=> e.event \in {"message_delta", "message_complete"}
    BY DEF AboutMessage, e
  <2>12. \A x : AboutMessage(i, x) => x = e.id
    BY DEF AboutMessage, e
  <2> HIDE DEF w
  <2>13. ASSUME NEW kind, NEW x, <<kind, x>> # <<"assistant", id>>, <<kind, x>> # <<"tool_result", id>>
         PROVE  /\ Entries(w.messages, kind, x) = Entries(view.messages, kind, x)
                /\ \A q \in Entries(view.messages, kind, x) : w.messages[q] = view.messages[q]
    <3>1. CASE e.event \in {"message_delta", "message_complete"}
      BY <2>10, <2>11, <2>13, <3>1 DEF OthersStay
    <3>2. CASE e.event = "tool_result"
      BY <2>10, <2>13, <3>2 DEF OthersStay
    <3>3. CASE e.event \notin {"message_delta", "message_complete", "tool_result"}
      BY <2>10, <3>3
    <3> QED BY <3>1, <3>2, <3>3
  <2>14. ASSUME NEW x \in Sessions, NEW y \in ScriptIds, ~ (x = s /\ AboutMessage(i, y))
         PROVE  /\ Entries(w.messages, "assistant", <<x, y>>)
                     = Entries(view.messages, "assistant", <<x, y>>)
                /\ \A q \in Entries(view.messages, "assistant", <<x, y>>) :
                     w.messages[q] = view.messages[q]
    <3>1. CASE <<x, y>> # id
      BY <2>13, <3>1
    <3>2. CASE <<x, y>> = id
      <4>1. x = s /\ y = e.id
        BY <3>2
      <4>2. e.event \notin {"message_delta", "message_complete"}
        BY <2>11, <2>14, <4>1
      <4>3. CASE e.event = "tool_result"
        BY <2>10, <4>3 DEF OthersStay
      <4>4. CASE e.event # "tool_result"
        BY <2>10, <4>2, <4>4
      <4> QED BY <4>3, <4>4
    <3> QED BY <3>1, <3>2
  <2>15. InOrder'
    <3> SUFFICES ASSUME replays = 0, NEW x \in Sessions, NEW y \in ScriptIds, base[x] = 0
                 PROVE  ContentOf(w.messages, <<x, y>>) = Streamed[pos'[x]][y]
      BY <1>0 DEF InOrder, w
    <3>1. ContentOf(view.messages, <<x, y>>) = Streamed[pos[x]][y]
      BY DEF ShownInv, InOrder
    <3>2. CASE ~ (x = s /\ AboutMessage(i, y))
      <4>1. ContentOf(w.messages, <<x, y>>) = ContentOf(view.messages, <<x, y>>)
        BY <2>9, <2>10, <2>14, <3>2, ContentStays
      <4>2. CASE x # s
        BY <2>4, <3>1, <4>1, <4>2
      <4>3. CASE x = s
        <5>1. ~AboutMessage(i, y) /\ pos[x] = i - 1 /\ pos'[x] = i /\ i # 0
          BY <1>0, <2>4, <2>6, <3>2, <4>3
        <5>2. Streamed[i][y] = Streamed[i - 1][y]
          BY <1>0, <5>1, StreamedStep
        <5> QED BY <3>1, <4>1, <5>1, <5>2
      <4> QED BY <4>2, <4>3
    <3>3. CASE x = s /\ AboutMessage(i, y)
      <4>1. y = e.id /\ pos[x] = i - 1 /\ pos'[x] = i /\ i # 0 /\ <<x, y>> = id
        BY <1>0, <2>4, <2>6, <2>12, <3>3
      <4>2. PICK q : /\ Entries(w.messages, "assistant", id) = {q}
                     /\ w.messages[q].content =
                          IF e.event = "message_complete" THEN e.content
                          ELSE appendDelta(ContentOf(view.messages, id), e.content[1])
        BY <2>10, <3>3, <4>1
      <4>3. ContentOf(w.messages, id) = w.messages[q].content
        BY <2>9, <2>10, <4>2, ContentFacts
      <4>4. Streamed[i][y] = IF e.event = "message_complete" THEN e.content
                             ELSE appendDelta(Streamed[i - 1][y], e.content[1])
        BY <1>0, <3>3, <4>1, StreamedStep DEF e
      <4> QED BY <3>1, <4>1, <4>2, <4>3, <4>4
    <3> QED BY <3>2, <3>3
  <2>16. LastKept'
    <3>0. ASSUME NEW x \in Sessions, NEW y \in ScriptIds
          PROVE  latest'[x][y] = IF x = s /\ AboutMessage(i, y) THEN i ELSE latest[x][y]
      BY <1>0, <2>1 DEF MountInv, TypeOK
    <3> SUFFICES ASSUME NEW x \in Sessions, NEW y \in ScriptIds, latest'[x][y] # 0
                 PROVE  /\ AboutMessage(latest'[x][y], y)
                        /\ \E q \in Entries(w.messages, "assistant", <<x, y>>) :
                             ShownAs(w.messages[q], latest'[x][y], y, replays = 0 /\ base[x] = 0)
      BY <1>0 DEF LastKept, w
    <3>1. CASE ~ (x = s /\ AboutMessage(i, y))
      <4>1. latest'[x][y] = latest[x][y]
        BY <3>0, <3>1
      <4>2. /\ AboutMessage(latest[x][y], y)
            /\ \E q \in Entries(view.messages, "assistant", <<x, y>>) :
                 ShownAs(view.messages[q], latest[x][y], y, replays = 0 /\ base[x] = 0)
        BY <4>1 DEF ShownInv, LastKept
      <4> QED BY <2>14, <3>1, <4>1, <4>2
    <3>2. CASE x = s /\ AboutMessage(i, y)
      <4>1. y = e.id /\ <<x, y>> = id /\ latest'[x][y] = i
        BY <2>12, <3>0, <3>2
      <4>2. PICK q : /\ Entries(w.messages, "assistant", id) = {q}
                     /\ IF e.event = "message_delta" THEN w.messages[q].streaming
                        ELSE ~w.messages[q].streaming
                     /\ w.messages[q].content =
                          IF e.event = "message_complete" THEN e.content
                          ELSE appendDelta(ContentOf(view.messages, id), e.content[1])
        BY <2>10, <3>2, <4>1
      <4>3. ContentOf(w.messages, id) = w.messages[q].content
        BY <2>9, <2>10, <4>2, ContentFacts
      <4>4. replays = 0 /\ base[x] = 0 => w.messages[q].content = Streamed[i][y]
        <5>1. pos'[x] = i
          BY <2>4, <3>2
        <5> QED BY <1>0, <2>15, <4>1, <4>3, <5>1 DEF InOrder, w
      <4>5. e.event \in {"message_delta", "message_complete"}
        BY <2>11, <3>2, <4>1
      <4>6. ShownAs(w.messages[q], i, y, replays = 0 /\ base[x] = 0)
        <5>1. CASE e.event = "message_complete"
          <6>1. w.messages[q].content = Script[i].content /\ ~w.messages[q].streaming
            BY <4>2, <5>1 DEF e
          <6> QED BY <5>1, <6>1 DEF ShownAs, e
        <5>2. CASE e.event = "message_delta"
          <6>1. w.messages[q].streaming
            BY <4>2, <5>2
          <6> QED BY <4>4, <5>2, <6>1 DEF ShownAs, e
        <5> QED BY <4>5, <5>1, <5>2
      <4> QED BY <3>2, <4>1, <4>2, <4>6
    <3> QED BY <3>1, <3>2
  <2>17. CountedOnce'
    <3> SUFFICES ASSUME replays = 0
                 PROVE  /\ w.totalCostUsd = Cardinality(Costs')
                        /\ \A x \in Sessions, y \in ScriptIds :
                             Cardinality(Entries(w.messages, "tool_result", <<x, y>>))
                               = Cardinality(Results(x, y)')
      BY <1>0 DEF CountedOnce, w
    <3>1. /\ view.totalCostUsd = Cardinality(Costs)
          /\ \A x \in Sessions, y \in ScriptIds :
               Cardinality(Entries(view.messages, "tool_result", <<x, y>>))
                 = Cardinality(Results(x, y))
      BY DEF ShownInv, CountedOnce
    <3>2. /\ base[s] + 1 .. pos'[s] = (base[s] + 1 .. pos[s]) \cup {i}
          /\ i \notin base[s] + 1 .. pos[s]
      <4>1. /\ base[s] \in Nat /\ pos[s] \in Nat /\ base[s] <= pos[s]
            /\ pos'[s] = pos[s] + 1 /\ i = pos[s] + 1
        BY <1>0, <2>4, <2>6, TranscriptFacts
      <4>2. \A a, b \in Nat : a <= b =>
              a + 1 .. b + 1 = (a + 1 .. b) \cup {b + 1} /\ b + 1 \notin a + 1 .. b
        OBVIOUS
      <4> QED BY <4>1, <4>2
    <3>3. ASSUME NEW x \in Sessions, x # s PROVE base[x] + 1 .. pos'[x] = base[x] + 1 .. pos[x]
      BY <2>4, <3>3
    <3>4. w.totalCostUsd = Cardinality(Costs')
      <4>1. CASE e.event = "result"
        <5>1. Costs' = Costs \cup {<<s, i>>}
          <6>1. ASSUME NEW x \in Sessions, NEW n \in 1..Len(Script)
                PROVE  <<x, n>> \in Costs' <=> <<x, n>> \in Costs \/ <<x, n>> = <<s, i>>
            <7>1. CASE x = s
              BY <1>0, <3>2, <4>1, <7>1 DEF Costs, e
            <7>2. CASE x # s
              BY <1>0, <3>3, <7>2 DEF Costs
            <7> QED BY <7>1, <7>2
          <6>2. <<s, i>> \in Sessions \X (1..Len(Script))
            BY <1>0
          <6>3. Costs' \subseteq Sessions \X (1..Len(Script))
                /\ Costs \subseteq Sessions \X (1..Len(Script))
            BY DEF Costs
          <6>4. \A x \in Sessions \X (1..Len(Script)) : x = <<x[1], x[2]>>
            OBVIOUS
          <6> QED BY <6>1, <6>2, <6>3, <6>4
        <5>2. <<s, i>> \notin Costs
          BY <3>2 DEF Costs
        <5> QED BY <2>10, <3>1, <4>1, <5>1, <5>2, CountedFinite, OneMore
      <4>2. CASE e.event # "result"
        <5>1. ASSUME NEW x \in Sessions, NEW n \in 1..Len(Script)
              PROVE  <<x, n>> \in Costs' <=> <<x, n>> \in Costs
          <6>1. CASE x = s
            BY <1>0, <3>2, <4>2, <6>1 DEF Costs, e
          <6>2. CASE x # s
            BY <1>0, <3>3, <6>2 DEF Costs
          <6> QED BY <6>1, <6>2
        <5>2. Costs' \subseteq Sessions \X (1..Len(Script))
              /\ Costs \subseteq Sessions \X (1..Len(Script))
          BY DEF Costs
        <5>3. \A x \in Sessions \X (1..Len(Script)) : x = <<x[1], x[2]>>
          OBVIOUS
        <5>4. Costs' = Costs
          BY <5>1, <5>2, <5>3
        <5> QED BY <2>10, <3>1, <4>2, <5>4
      <4> QED BY <4>1, <4>2
    <3>5. ASSUME NEW x \in Sessions, NEW y \in ScriptIds
          PROVE  Cardinality(Entries(w.messages, "tool_result", <<x, y>>))
                   = Cardinality(Results(x, y)')
      <4>1. CASE x = s /\ y = e.id /\ e.event = "tool_result"
        <5>1. Results(x, y)' = Results(x, y) \cup {i} /\ i \notin Results(x, y)
          BY <1>0, <3>2, <4>1 DEF Results, e
        <5>2. /\ Entries(w.messages, "tool_result", <<x, y>>)
                   = Entries(view.messages, "tool_result", <<x, y>>) \cup {Len(view.messages) + 1}
              /\ Len(view.messages) + 1 \notin Entries(view.messages, "tool_result", <<x, y>>)
          BY <2>10, <4>1
        <5>3. IsFiniteSet(Results(x, y)) /\ IsFiniteSet(Entries(view.messages, "tool_result", <<x, y>>))
          BY CountedFinite
        <5>4. Cardinality(Results(x, y)') = Cardinality(Results(x, y)) + 1
          BY <5>1, <5>3, OneMore
        <5>5. Cardinality(Entries(w.messages, "tool_result", <<x, y>>))
                = Cardinality(Entries(view.messages, "tool_result", <<x, y>>)) + 1
          BY <5>2, <5>3, OneMore
        <5> QED BY <3>1, <5>4, <5>5
      <4>2. CASE ~ (x = s /\ y = e.id /\ e.event = "tool_result")
        <5>1. Results(x, y)' = Results(x, y)
          <6>1. CASE x = s
            BY <1>0, <3>2, <4>2, <6>1 DEF Results, e
          <6>2. CASE x # s
            BY <1>0, <3>3, <6>2 DEF Results
          <6> QED BY <6>1, <6>2
        <5>2. Entries(w.messages, "tool_result", <<x, y>>)
                = Entries(view.messages, "tool_result", <<x, y>>)
          <6>1. CASE <<x, y>> # id
            BY <2>13, <6>1
          <6>2. CASE <<x, y>> = id
            <7>1. e.event # "tool_result"
              BY <4>2, <6>2
            <7>2. CASE e.event \in {"message_delta", "message_complete"}
              BY <2>10, <2>11, <7>2 DEF OthersStay
            <7>3. CASE e.event \notin {"message_delta", "message_complete"}
              BY <2>10, <7>1, <7>3
            <7> QED BY <7>2, <7>3
          <6> QED BY <6>1, <6>2
        <5> QED BY <3>1, <5>1, <5>2
      <4> QED BY <4>1, <4>2
    <3> QED BY <3>4, <3>5
  <2> QED BY <2>7, <2>8, <2>10, <2>15, <2>16, <2>17 DEF ShownInv, w
<1> QED BY <1>1, <1>2

\* The initial states.
LEMMA TranscriptInit == Init => TranscriptInv
<1> SUFFICES ASSUME Init PROVE TranscriptInv
  OBVIOUS
<1>1. /\ mounts = <<>> /\ view.messages = <<>> /\ view.totalCostUsd = 0 /\ replays = 0
      /\ base = [s \in Sessions |-> 0] /\ pos = [s \in Sessions |-> 0]
      /\ latest = [s \in Sessions |-> [id \in ScriptIds |-> 0]]
      /\ Len(mounts) = 0 /\ Len(view.messages) = 0
  BY DEF Init, initialState
<1>2. MountInv
  BY MountInit
<1>3. Reader /\ Untouched
  BY <1>1 DEF Reader, Untouched
<1>4. \A s \in Sessions : base[s] + 1 .. pos[s] = {}
  BY <1>1
<1>5. OnePerId(view.messages) /\ \A kind, id : Entries(view.messages, kind, id) = {}
  BY <1>1 DEF OnePerId, Entries
<1>6. LastKept
  BY <1>1 DEF LastKept
<1>7. InOrder
  <2>1. ASSUME NEW s \in Sessions, NEW id \in ScriptIds
        PROVE  ContentOf(view.messages, <<s, id>>) = Streamed[pos[s]][id]
    <3>1. pos[s] = 0 /\ 1 \in 1..Len(Script)
      BY <1>1 DEF ScriptIds, ScriptAssumption
    <3>2. Streamed[0][id] = <<>>
      BY <3>1, StreamedStep
    <3>3. ContentOf(view.messages, <<s, id>>) = <<>>
      BY <1>2, <1>5, TranscriptFacts, ContentFacts
    <3> QED BY <3>1, <3>2, <3>3
  <2> QED BY <2>1 DEF InOrder
<1>8. CountedOnce
  <2>1. Costs = {}
    BY <1>4 DEF Costs
  <2>2. \A s \in Sessions, id \in ScriptIds : Results(s, id) = {}
    BY <1>4 DEF Results
  <2> QED BY <1>1, <1>5, <2>1, <2>2, FS_EmptySet DEF CountedOnce
<1> QED BY <1>2, <1>3, <1>5, <1>6, <1>7, <1>8 DEF TranscriptInv, ShownInv

\* The steps of a run, and those of the component, that show nothing.
LEMMA QuietShown ==
  ASSUME MountInv, Reader, Untouched, ShownInv,
         \/ EffectCreate \/ Cleanup \/ Close
         \/ \E s \in 1..created : Expire(s)
         \/ \E k \in 1..Len(mounts) :
              CreateFails(k) \/ Ends(k) \/ Fails(k) \/ \E n \in 1..MaxChunk : Chunk(k, n)
  PROVE  Reader' /\ Untouched' /\ ShownInv'
<1>1. /\ UNCHANGED <<base, pos, latest, replays>>
      /\ view' = view \/ view' = [view EXCEPT !.status = "error"]
  BY DEF EffectCreate, Cleanup, Close, Expire, CreateFails, Ends, Fails, Chunk, clientVars
<1>2. ShownInv'
  <2>1. view'.messages = view.messages /\ view'.totalCostUsd = view.totalCostUsd
    BY <1>1, TranscriptFacts DEF View
  <2> QED BY <1>1, <2>1, NothingShown
<1>3. CASE EffectCreate
  <2>1. /\ mounts' = Append(mounts, Creating) /\ ~Active
        /\ Creating \in Run /\ Creating.phase = "creating" /\ Creating.session = 0
    BY <1>3, TypeFacts DEF EffectCreate, Creating, Run
  <2> HIDE DEF Creating
  <2>2. Reader' /\ Untouched'
    BY <1>1, <2>1, ReaderRuns
  <2> QED BY <1>2, <2>2
<1>4. CASE Cleanup \/ Close
  <2>1. Len(mounts') = Len(mounts)
        /\ \A k \in 1..Len(mounts) :
             /\ mounts'[k].session = mounts[k].session
             /\ mounts'[k].cursor = mounts[k].cursor /\ mounts'[k].phase = mounts[k].phase
             /\ mounts[k].aborted => mounts'[k].aborted
    <3>0. Len(mounts) \in Nat /\ \A k \in 1..Len(mounts) : mounts[k] \in Run
      BY TypeFacts
    <3>1. CASE Cleanup
      <4>1. mounts' = [k \in 1..Len(mounts) |->
                  [mounts[k] EXCEPT !.aborted = @ \/ k = Len(mounts),
                                    !.detached = @ \/ k = ref]]
        BY <3>1 DEF Cleanup
      <4>2. Len(mounts') = Len(mounts)
        <5>1. DOMAIN mounts' = 1..Len(mounts)
          BY <4>1
        <5>2. mounts' \in [1..Len(mounts) -> {mounts'[k] : k \in 1..Len(mounts)}]
          BY <4>1
        <5> QED BY <3>0, <5>1, <5>2, IsASeq
      <4>3. ASSUME NEW k \in 1..Len(mounts)
            PROVE  /\ mounts'[k].session = mounts[k].session
                   /\ mounts'[k].cursor = mounts[k].cursor /\ mounts'[k].phase = mounts[k].phase
                   /\ mounts[k].aborted => mounts'[k].aborted
        <5> DEFINE a == mounts[k].aborted \/ k = Len(mounts)
                   d == mounts[k].detached \/ k = ref
        <5>1. mounts'[k] = [mounts[k] EXCEPT !.aborted = a, !.detached = d]
          BY <4>1
        <5>2. mounts[k].aborted => a
          OBVIOUS
        <5> HIDE DEF a, d
        <5> QED BY <3>0, <5>1, <5>2 DEF Run
      <4> QED BY <4>2, <4>3
    <3>2. CASE Close
      <4>1. mounts' = [k \in 1..Len(mounts) |-> [mounts[k] EXCEPT !.detached = @ \/ k = ref]]
        BY <3>2 DEF Close
      <4>2. Len(mounts') = Len(mounts)
        BY <3>0, <4>1
      <4>3. ASSUME NEW k \in 1..Len(mounts)
            PROVE  /\ mounts'[k].session = mounts[k].session
                   /\ mounts'[k].cursor = mounts[k].cursor /\ mounts'[k].phase = mounts[k].phase
                   /\ mounts[k].aborted => mounts'[k].aborted
        <5> DEFINE d == mounts[k].detached \/ k = ref
        <5>1. mounts'[k] = [mounts[k] EXCEPT !.detached = d]
          BY <4>1
        <5> HIDE DEF d
        <5> QED BY <3>0, <5>1 DEF Run
      <4> QED BY <4>2, <4>3
    <3> QED BY <1>4, <3>1, <3>2
  <2>2. Reader' /\ Untouched'
    BY <1>1, <2>1, ReaderStays
  <2> QED BY <1>2, <2>2
<1>5. CASE \E s \in 1..created : Expire(s)
  <2>1. mounts' = mounts
    BY <1>5 DEF Expire, clientVars
  <2>2. Reader' /\ Untouched'
    BY <1>1, <2>1 DEF Reader, Untouched
  <2> QED BY <1>2, <2>2
<1>6. ASSUME NEW k \in 1..Len(mounts),
             CreateFails(k) \/ Ends(k) \/ Fails(k) \/ \E n \in 1..MaxChunk : Chunk(k, n)
      PROVE  Reader' /\ Untouched'
  <2>0. mounts[k] \in Run
    BY TypeFacts
  <2>1. CASE CreateFails(k) \/ Ends(k) \/ Fails(k)
    <3> DEFINE r == [mounts[k] EXCEPT !.phase = "over"]
    <3>1. mounts' = [mounts EXCEPT ![k] = r]
      BY <2>1, TypeFacts DEF CreateFails, Ends, Fails
    <3>2. r.session = mounts[k].session /\ r.phase = "over"
      BY <2>0 DEF Run
    <3> HIDE DEF r
    <3> QED BY <1>1, <3>1, <3>2, ReaderGoesOn
  <2>2. ASSUME NEW n \in 1..MaxChunk, Chunk(k, n) PROVE Reader' /\ Untouched'
    <3> DEFINE r == [mounts[k] EXCEPT !.hand = n]
    <3>1. mounts' = [mounts EXCEPT ![k] = r] /\ mounts[k].phase = "open"
      BY <2>2, TypeFacts DEF Chunk
    <3>2. /\ r.session = mounts[k].session /\ r.phase = mounts[k].phase
          /\ r.cursor = mounts[k].cursor /\ r.aborted = mounts[k].aborted
      BY <2>0 DEF Run
    <3> HIDE DEF r
    <3> QED BY <1>1, <3>1, <3>2, ReaderGoesOn
  <2> QED BY <1>6, <2>1, <2>2
<1> QED BY <1>2, <1>3, <1>4, <1>5, <1>6

\* Every step.
LEMMA TranscriptStep == TranscriptInv /\ [Next]_vars => TranscriptInv'
<1> SUFFICES ASSUME TranscriptInv, [Next]_vars PROVE TranscriptInv'
  OBVIOUS
<1>1. MountInv /\ Reader /\ Untouched /\ ShownInv
  BY DEF TranscriptInv
<1>2. MountInv'
  BY <1>1, MountStep
<1>3. Reader' /\ Untouched' /\ ShownInv'
  <2>1. CASE UNCHANGED vars
    <3>1. UNCHANGED <<mounts, view, base, pos, latest, replays>>
      BY <2>1 DEF vars, clientVars
    <3>2. Reader' /\ Untouched'
      BY <1>1, <3>1 DEF Reader, Untouched
    <3> QED BY <1>1, <3>1, <3>2, NothingShown
  <2>2. CASE Send
    BY <1>1, <2>2, SendShown
  <2>3. ASSUME NEW s \in 1..created, NEW from \in 0..Len(Script), AttachStored(s, from)
        PROVE  Reader' /\ Untouched' /\ ShownInv'
    BY <1>1, <2>3, StoredShown
  <2>4. ASSUME NEW s \in 1..created, NEW from \in 0..Len(Script), AttachAgain(s, from)
        PROVE  Reader' /\ Untouched' /\ ShownInv'
    BY <1>1, <2>4, AgainShown
  <2>5. ASSUME NEW k \in 1..Len(mounts), Created(k)
        PROVE  Reader' /\ Untouched' /\ ShownInv'
    BY <1>1, <2>5, CreatedShown
  <2>6. ASSUME NEW k \in 1..Len(mounts), Deliver(k)
        PROVE  Reader' /\ Untouched' /\ ShownInv'
    BY <1>1, <2>6, DeliverShown
  <2>7. CASE \/ EffectCreate \/ Cleanup \/ Close
             \/ \E s \in 1..created : Expire(s)
             \/ \E k \in 1..Len(mounts) :
                  CreateFails(k) \/ Ends(k) \/ Fails(k) \/ \E n \in 1..MaxChunk : Chunk(k, n)
    BY <1>1, <2>7, QuietShown
  <2> QED BY <2>1, <2>2, <2>3, <2>4, <2>5, <2>6, <2>7 DEF Next
<1> QED BY <1>2, <1>3 DEF TranscriptInv

\* The inductive invariant of the transcript.
THEOREM TranscriptInvariant == Spec => []TranscriptInv
BY TranscriptInit, TranscriptStep, PTL DEF Spec

\* Neither a cost nor a tool result is shown twice or skipped, however the effect
\* is run again and attaches at the last event.
THEOREM CountsAreExact == Spec => []CountedOnce
<1>1. TranscriptInv => CountedOnce
  BY DEF TranscriptInv, ShownInv
<1> QED BY <1>1, TranscriptInvariant, PTL

\* An assistant message stands once in the list, whole when its message_complete is
\* dispatched last and a part of the whole while it streams, over every order of
\* attaching again.
THEOREM MessagesReconciled == Spec => []Reconciled
<1>1. TranscriptInv => Reconciled
  <2> SUFFICES ASSUME TranscriptInv, NEW s \in Sessions, NEW id \in ScriptIds, latest[s][id] # 0
               PROVE  \E k \in Entries(view.messages, "assistant", <<s, id>>) :
                        /\ Entries(view.messages, "assistant", <<s, id>>) = {k}
                        /\ IF Script[latest[s][id]].event = "message_complete"
                           THEN view.messages[k].content = Script[latest[s][id]].content
                                /\ ~view.messages[k].streaming
                           ELSE /\ view.messages[k].streaming
                                /\ replays = 0 /\ base[s] = 0 =>
                                     \A whole \in Wholes(id) :
                                       PartOf(view.messages[k].content, whole)
    BY DEF Reconciled
  <2> DEFINE last  == latest[s][id]
             shown == Entries(view.messages, "assistant", <<s, id>>)
  <2>1. /\ AboutMessage(last, id)
        /\ \E k \in shown : ShownAs(view.messages[k], last, id, replays = 0 /\ base[s] = 0)
    BY DEF TranscriptInv, ShownInv, LastKept
  <2>2. last \in 1..Len(Script)
    <3>1. last \in 0..Len(Script) /\ Len(Script) \in Nat
      BY TypeFacts DEF TranscriptInv, MountInv, TypeOK
    <3> QED BY <3>1
  <2> HIDE DEF last
  <2>3. PICK k \in shown : ShownAs(view.messages[k], last, id, replays = 0 /\ base[s] = 0)
    BY <2>1
  <2>4. shown = {k}
    BY <2>3 DEF TranscriptInv, ShownInv, OnePerId, Entries
  <2>5. Script[last].id = id /\ Script[last].event \in {"message_delta", "message_complete"}
    BY <2>1 DEF AboutMessage
  <2>6. Script[last].event = "message_delta" =>
          \A whole \in Wholes(id) : PartOf(Streamed[last][id], whole)
    BY <2>2, <2>5, DeltasAssumption
  <2> QED BY <2>3, <2>4, <2>5, <2>6 DEF ShownAs, last
<1> QED BY <1>1, TranscriptInvariant, PTL
=============================================================================
