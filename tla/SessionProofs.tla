---------------------------- MODULE SessionProofs ----------------------------
(***************************************************************************)
(* Proofs about Session for every set of messages and every capacity of    *)
(* the queue, and about Registry for every set of sessions and every idle  *)
(* limit.                                                                  *)
(*                                                                         *)
(* The invariants of a session support each other: the gate is closed      *)
(* exactly while a turn is in flight, so an open gate means that every     *)
(* message handed over has had its end, and a dispatch keeps the order.    *)
(***************************************************************************)
EXTENDS Session, Registry, SequenceTheorems, TLAPS

USE CapAssumption, NoMessageAssumption

\* A sequence is a prefix of itself with something after it.
LEMMA PrefixOfConcat ==
  ASSUME NEW S, NEW s \in Seq(S), NEW t \in Seq(S)
  PROVE  IsPrefix(s, s \o t)
<1>1. Len(s) <= Len(s \o t) /\ s \o t \in Seq(S)
  BY ConcatProperties
<1>2. SubSeq(s \o t, 1, Len(s)) = s
  BY SubSeqOfConcat1, SubSeqFull, ConcatProperties
<1>3. SubSeq(s, 1, Len(s)) = s
  BY SubSeqFull
<1> QED BY <1>1, <1>2, <1>3 DEF IsPrefix

\* A prefix stays one when the longer sequence grows.
LEMMA PrefixOfAppend ==
  ASSUME NEW S, NEW s \in Seq(S), NEW t \in Seq(S), NEW x \in S, IsPrefix(s, t)
  PROVE  IsPrefix(s, Append(t, x))
<1>1. /\ Len(s) <= Len(t) /\ Len(Append(t, x)) = Len(t) + 1
      /\ Len(s) \in Nat /\ Len(t) \in Nat
  BY DEF IsPrefix
<1>2. SubSeq(Append(t, x), 1, Len(s)) = SubSeq(t, 1, Len(s))
  BY <1>1
<1> QED BY <1>1, <1>2 DEF IsPrefix

\* Moving a message from the front of what follows to the end of what precedes.
LEMMA MoveHead ==
  ASSUME NEW S, NEW s \in Seq(S), NEW t \in Seq(S), t # <<>>
  PROVE  /\ Head(t) \in S /\ Tail(t) \in Seq(S)
         /\ s \o t = Append(s, Head(t)) \o Tail(t)
         /\ t = <<Head(t)>> \o Tail(t)
<1>1. Head(t) \in S /\ Tail(t) \in Seq(S) /\ t = <<Head(t)>> \o Tail(t)
  BY HeadTailProperties, ConcatProperties
<1>2. Append(s, Head(t)) = s \o <<Head(t)>> /\ <<Head(t)>> \in Seq(S)
  BY <1>1, AppendIsConcat
<1>3. (s \o <<Head(t)>>) \o Tail(t) = s \o (<<Head(t)>> \o Tail(t))
  BY <1>1, <1>2, ConcatAssociative
<1> QED BY <1>1, <1>2, <1>3

\* Appending to the last part of a sequence appends to the whole.
LEMMA AppendLast ==
  ASSUME NEW S, NEW s \in Seq(S), NEW t \in Seq(S), NEW x \in S
  PROVE  s \o Append(t, x) = Append(s \o t, x)
<1>1. /\ Append(t, x) = t \o <<x>> /\ s \o t \in Seq(S) /\ <<x>> \in Seq(S)
      /\ Append(s \o t, x) = (s \o t) \o <<x>>
  BY AppendIsConcat, ConcatProperties
<1> QED BY <1>1, ConcatAssociative
-----------------------------------------------------------------------------
(* The inductive invariant.                                                *)

\* What TypeOK says of the sequences the properties are about.
LEMMA Typing ==
  ASSUME TypeOK
  PROVE  /\ inbound \in Seq(Msgs) /\ inTurn \in Seq(Msgs) /\ accepted \in Seq(Msgs)
         /\ handed \in Seq(Msgs) /\ over \in Seq(Msgs)
         /\ AtGate \in Seq(Msgs) /\ InFlight \in Seq(Msgs)
         /\ send \in {"gate", "query", "taken"} => held \in Msgs
<1>1. /\ inbound \in Seq(Msgs) /\ inTurn \in Seq(Msgs) /\ accepted \in Seq(Msgs)
      /\ handed \in Seq(Msgs) /\ over \in Seq(Msgs)
      /\ send \in {"gate", "query", "taken"} => held \in Msgs
  BY DEF TypeOK
<1>2. AtGate \in Seq(Msgs)
  BY <1>1 DEF AtGate
<1>3. (IF send = "query" THEN <<held>> ELSE <<>>) \in Seq(Msgs)
  BY <1>1
<1> QED BY <1>1, <1>2, <1>3, ConcatProperties DEF InFlight

\* The initial state satisfies the invariant.
LEMMA InitInvariant == Init => SessionInv
<1> SUFFICES ASSUME Init PROVE SessionInv
  OBVIOUS
<1>1. TypeOK
  BY DEF Init, TypeOK
<1>2. InFlight = <<>> /\ AtGate = <<>>
  BY DEF Init, InFlight, AtGate
<1>3. OneTurnAtATime /\ NothingLost /\ EndsInOrder /\ LoopsEndFirst
  BY <1>2 DEF Init, OneTurnAtATime, NothingLost, EndsInOrder, LoopsEndFirst
<1>4. HandedInOrder
  BY DEF Init, HandedInOrder, IsPrefix
<1> QED BY <1>1, <1>3, <1>4 DEF SessionInv

\* Every action keeps the types.
LEMMA TypeInvariant == TypeOK /\ [Next]_vars => TypeOK'
<1> SUFFICES ASSUME TypeOK, [Next]_vars PROVE TypeOK'
  OBVIOUS
<1> USE DEF TypeOK
<1>1. ASSUME NEW m \in Msgs, Post(m) PROVE TypeOK'
  BY <1>1 DEF Post
<1>2. ASSUME NEW m \in Msgs, Submit(m) PROVE TypeOK'
  <2>1. CASE Enqueue(m)
    <3>1. /\ inbound' \in Seq(Msgs) /\ accepted' \in Seq(Msgs)
          /\ Len(inbound') <= QueueCap
      BY <2>1, AppendProperties DEF Enqueue
    <3> QED BY <2>1, <3>1, <1>2 DEF Enqueue, Submit
  <2>2. CASE Refuse(m)
    BY <2>2, <1>2 DEF Refuse, Submit
  <2> QED BY <2>1, <2>2, <1>2 DEF Submit
<1>3. CASE Take
  <2>1. /\ Head(inbound) \in Msgs /\ Tail(inbound) \in Seq(Msgs)
        /\ Len(Tail(inbound)) <= QueueCap
    BY <1>3, HeadTailProperties DEF Take
  <2>2. CASE Dispatch(Head(inbound))
    <3>1. handed' \in Seq(Msgs)
      BY <2>1, <2>2, AppendProperties DEF Dispatch
    <3> QED BY <2>1, <2>2, <3>1, <1>3 DEF Take, Dispatch
  <2>3. CASE send' = "gate" /\ UNCHANGED <<turnDone, handed>>
    BY <2>1, <2>3, <1>3 DEF Take
  <2> QED BY <2>2, <2>3, <1>3 DEF Take
<1>4. CASE Pass
  <2>1. held \in Msgs
    BY <1>4 DEF Pass
  <2>2. handed' \in Seq(Msgs)
    BY <2>1, <1>4, AppendProperties DEF Pass, Dispatch
  <2> QED BY <2>1, <2>2, <1>4 DEF Pass, Dispatch
<1>5. CASE QueryTaken
  BY <1>5 DEF QueryTaken
<1>6. CASE QueryReturns
  BY <1>6 DEF QueryReturns
<1>7. CASE QueryFails
  BY <1>7 DEF QueryFails, Reopen
<1>8. CASE Result
  BY <1>8 DEF Result, Released
<1>9. CASE StreamEnds \/ StreamRaises
  <2>1. inTurn' \in Seq(Msgs)
    BY <1>9, EmptySeq DEF StreamEnds, StreamRaises
  <2> QED BY <2>1, <1>9 DEF StreamEnds, StreamRaises
<1>10. CASE CloseStart \/ CancelSend \/ CancelRecv \/ Joined
  BY <1>10 DEF CloseStart, CancelSend, CancelRecv, Joined
<1>11. CASE Closed
  <2>1. inTurn' \in Seq(Msgs)
    BY <1>11, EmptySeq DEF Closed
  <2> QED BY <2>1, <1>11 DEF Closed
<1>12. CASE UNCHANGED vars
  BY <1>12 DEF vars
<1> QED BY <1>1, <1>2, <1>3, <1>4, <1>5, <1>6, <1>7, <1>8, <1>9, <1>10, <1>12, <1>11
        DEF Next, SendStep, CloseStep

\* The gate and the turn in flight stay coherent, and ends stay in order.
LEMMA GateInvariant ==
  ASSUME TypeOK, TypeOK', OneTurnAtATime, EndsInOrder, [Next]_vars
  PROVE  OneTurnAtATime' /\ EndsInOrder'
<1> SUFFICES ASSUME phase' = "open", recv' = "running"
             PROVE  /\ Len(InFlight') <= 1
                    /\ turnDone' <=> InFlight' = <<>>
                    /\ handed' = over' \o InFlight'
  BY DEF OneTurnAtATime, EndsInOrder
<1>1. phase = "open" /\ recv = "running"
  BY DEF Next, SendStep, CloseStep, Post, Submit, Take, Pass, QueryTaken, QueryReturns,
         QueryFails, Result, StreamEnds, StreamRaises, CloseStart, CancelSend,
         CancelRecv, Joined, Closed, vars, TypeOK
<1>2. /\ Len(InFlight) <= 1
      /\ turnDone <=> InFlight = <<>>
      /\ handed = over \o InFlight
  BY <1>1 DEF OneTurnAtATime, EndsInOrder
<1> DEFINE atQuery == IF send = "query" THEN <<held>> ELSE <<>>
<1>3. /\ InFlight = inTurn \o atQuery
      /\ inTurn \in Seq(Msgs) /\ handed \in Seq(Msgs) /\ over \in Seq(Msgs)
      /\ send = "query" => held \in Msgs
  BY Typing DEF InFlight
<1>3a. ASSUME send = "query" PROVE inTurn = <<>> /\ InFlight = <<held>>
  <2>1. InFlight = inTurn \o <<held>> /\ <<held>> \in Seq(Msgs)
    BY <1>3, <1>3a
  <2>2. Len(inTurn) = 0
    BY <2>1, <1>2, <1>3, ConcatProperties
  <2> QED BY <2>1, <2>2, <1>3, EmptySeq, ConcatEmptySeq
<1>4. ASSUME NEW m \in Msgs, turnDone, send # "query", Dispatch(m), held' = m,
             inTurn' = inTurn, over' = over
      PROVE  /\ Len(InFlight') <= 1
             /\ turnDone' <=> InFlight' = <<>>
             /\ handed' = over' \o InFlight'
  <2>1. inTurn = <<>> /\ InFlight = <<>>
    BY <1>2, <1>3, <1>4
  <2>2. InFlight' = <<m>>
    BY <2>1, <1>4 DEF InFlight, Dispatch
  <2>3. handed' = over \o <<m>>
    BY <2>1, <1>2, <1>3, <1>4, AppendIsConcat, ConcatEmptySeq DEF Dispatch
  <2> QED BY <2>2, <2>3, <1>4 DEF Dispatch
<1>5. CASE UNCHANGED <<turnDone, send, held, inTurn, handed, over>>
  BY <1>5, <1>2 DEF InFlight
<1>6. CASE Take
  <2>1. Head(inbound) \in Msgs
    BY <1>6, Typing, MoveHead DEF Take
  <2>2. CASE turnDone
    BY <2>1, <2>2, <1>4, <1>6 DEF Take
  <2>3. CASE ~turnDone
    <3>1. InFlight' = InFlight
      BY <2>3, <1>6 DEF Take, InFlight
    <3> QED BY <3>1, <2>3, <1>6, <1>2 DEF Take
  <2> QED BY <2>2, <2>3 DEF TypeOK
<1>7. CASE Pass
  BY <1>7, <1>4, Typing DEF Pass
<1>8. CASE QueryTaken
  <2>1. inTurn = <<>> /\ InFlight = <<held>>
    BY <1>8, <1>3a DEF QueryTaken
  <2>2. InFlight' = <<held>>
    BY <2>1, <1>8 DEF QueryTaken, InFlight
  <2> QED BY <2>1, <2>2, <1>8, <1>2 DEF QueryTaken
<1>9. CASE QueryReturns
  <2>1. InFlight' = InFlight
    BY <1>9 DEF QueryReturns, InFlight
  <2> QED BY <2>1, <1>9, <1>2 DEF QueryReturns
<1>10. CASE QueryFails
  <2>1. inTurn = <<>> /\ InFlight = <<held>>
    BY <1>10, <1>3a DEF QueryFails
  <2>2. InFlight' = <<>>
    BY <2>1, <1>10 DEF QueryFails, InFlight
  <2>3. over' = over \o <<held>> /\ over' \in Seq(Msgs)
    BY <1>3, <1>10, AppendIsConcat, AppendProperties DEF QueryFails
  <2> QED BY <2>1, <2>2, <2>3, <1>10, <1>2, ConcatEmptySeq DEF QueryFails, Reopen
<1>11. CASE Result
  <2>1. send # "query" /\ InFlight = inTurn /\ Len(inTurn) = 1
    BY <1>11, <1>2, <1>3 DEF Result
  <2>2. Head(inTurn) \in Msgs /\ inTurn = <<Head(inTurn)>> /\ Tail(inTurn) = <<>>
    <3>1. /\ Head(inTurn) \in Msgs /\ Tail(inTurn) \in Seq(Msgs)
          /\ inTurn = <<Head(inTurn)>> \o Tail(inTurn) /\ Len(Tail(inTurn)) = 0
      BY <2>1, <1>3, <1>11, MoveHead, HeadTailProperties DEF Result
    <3>2. Tail(inTurn) = <<>>
      BY <3>1, EmptySeq
    <3>3. <<Head(inTurn)>> \in Seq(Msgs)
      BY <3>1
    <3> QED BY <3>1, <3>2, <3>3, ConcatEmptySeq
  <2>3. InFlight' = <<>>
    BY <2>1, <2>2, <1>11 DEF Result, InFlight
  <2>4. over' = over \o <<Head(inTurn)>> /\ over' \in Seq(Msgs)
    BY <2>2, <1>3, <1>11, AppendIsConcat, AppendProperties DEF Result
  <2> QED BY <2>1, <2>2, <2>3, <2>4, <1>11, <1>2, ConcatEmptySeq DEF Result, Released
<1> QED BY <1>5, <1>6, <1>7, <1>8, <1>9, <1>10, <1>11
        DEF Next, SendStep, CloseStep, Post, Submit, StreamEnds, StreamRaises,
            CloseStart, CancelSend, CancelRecv, Joined, Closed, vars

\* The queue hands over what it was given, in order.
LEMMA QueueInvariant ==
  ASSUME TypeOK, TypeOK', NothingLost, HandedInOrder, [Next]_vars
  PROVE  NothingLost' /\ HandedInOrder'
<1> DEFINE rest == AtGate \o inbound
<1>1. /\ inbound \in Seq(Msgs) /\ accepted \in Seq(Msgs) /\ handed \in Seq(Msgs)
      /\ AtGate \in Seq(Msgs) /\ rest \in Seq(Msgs)
      /\ send \in {"gate", "query", "taken"} => held \in Msgs
  BY Typing, ConcatProperties
<1>2. /\ send # "ended" => accepted = handed \o rest
      /\ IsPrefix(handed, accepted)
      /\ \A i \in 1..Len(accepted) : post[accepted[i]] = "accepted"
  BY DEF NothingLost, HandedInOrder, TypeOK
<1> HIDE DEF rest
<1>3. ASSUME NEW m \in Msgs, Submit(m) PROVE NothingLost' /\ HandedInOrder'
  <2>1. CASE Enqueue(m)
    <3>1. /\ accepted' = Append(accepted, m) /\ inbound' = Append(inbound, m)
          /\ handed' = handed /\ send' = send /\ AtGate' = AtGate
      BY <2>1, <1>3 DEF Enqueue, Submit, AtGate
    <3>2. NothingLost'
      <4>1. AtGate \o inbound' = Append(rest, m)
        BY <3>1, <1>1, AppendLast DEF rest
      <4>2. handed \o Append(rest, m) = Append(handed \o rest, m)
        BY <1>1, AppendLast
      <4> QED BY <3>1, <4>1, <4>2, <1>2 DEF NothingLost
    <3>3. IsPrefix(handed', accepted')
      BY <3>1, <1>1, <1>2, PrefixOfAppend
    <3>4. ASSUME NEW i \in 1..Len(accepted') PROVE post'[accepted'[i]] = "accepted"
      BY <3>1, <2>1, <1>1, <1>2, AppendProperties DEF Enqueue, TypeOK
    <3> QED BY <3>2, <3>3, <3>4 DEF HandedInOrder
  <2>2. CASE Refuse(m)
    <3>1. UNCHANGED <<accepted, inbound, handed, send, held>>
      BY <2>2, <1>3 DEF Refuse, Submit
    <3>2. NothingLost'
      BY <3>1 DEF NothingLost, AtGate
    <3>3. \A i \in 1..Len(accepted) : post'[accepted[i]] = "accepted"
      BY <2>2, <1>1, <1>2, <1>3 DEF Refuse, Submit, TypeOK
    <3> QED BY <3>1, <3>2, <3>3, <1>2 DEF HandedInOrder
  <2> QED BY <2>1, <2>2, <1>3 DEF Submit
<1>4. ASSUME NEW m \in Msgs, Post(m) PROVE NothingLost' /\ HandedInOrder'
  <2>1. \A i \in 1..Len(accepted) : post'[accepted[i]] = "accepted"
    BY <1>1, <1>2, <1>4 DEF Post, TypeOK
  <2> QED BY <2>1, <1>4, <1>2 DEF Post, NothingLost, HandedInOrder, AtGate
<1>5. ASSUME NEW m \in Msgs, NEW t \in Seq(Msgs), Dispatch(m), inbound' = t,
             rest = <<m>> \o t, send # "ended", UNCHANGED <<accepted, post>>
      PROVE  NothingLost' /\ HandedInOrder'
  <2>1. /\ accepted = handed \o (<<m>> \o t)
        /\ handed' = handed \o <<m>> /\ handed' \in Seq(Msgs)
        /\ <<m>> \in Seq(Msgs)
    BY <1>1, <1>2, <1>5, AppendIsConcat, AppendProperties DEF Dispatch
  <2>2. accepted = handed' \o t
    <3>1. (handed \o <<m>>) \o t = handed \o (<<m>> \o t)
      BY <2>1, <1>1, ConcatAssociative
    <3> QED BY <2>1, <3>1
  <2>3. AtGate' = <<>>
    BY <1>5 DEF Dispatch, AtGate
  <2>4. NothingLost'
    BY <2>2, <2>3, <1>5 DEF NothingLost
  <2>5. IsPrefix(handed', accepted)
    BY <2>1, <2>2, PrefixOfConcat
  <2> QED BY <2>4, <2>5, <1>2, <1>5 DEF HandedInOrder
<1>6. CASE Take
  <2>1. /\ AtGate = <<>> /\ rest = inbound /\ inbound # <<>> /\ send # "ended"
        /\ UNCHANGED <<accepted, post>>
    BY <1>6, <1>1 DEF Take, AtGate, rest
  <2>2. /\ Head(inbound) \in Msgs /\ Tail(inbound) \in Seq(Msgs)
        /\ inbound = <<Head(inbound)>> \o Tail(inbound)
    BY <2>1, <1>1, MoveHead
  <2>3. CASE Dispatch(Head(inbound))
    BY <2>1, <2>2, <2>3, <1>5, <1>6 DEF Take
  <2>4. CASE send' = "gate" /\ handed' = handed
    <3>1. AtGate' \o inbound' = rest
      BY <2>1, <2>2, <2>4, <1>6 DEF Take, AtGate
    <3> QED BY <3>1, <2>1, <2>4, <1>2 DEF NothingLost, HandedInOrder
  <2> QED BY <2>3, <2>4, <1>6 DEF Take
<1>7. CASE Pass
  <2>1. AtGate = <<held>> /\ rest = <<held>> \o inbound /\ held \in Msgs
    BY <1>7, <1>1 DEF Pass, AtGate, rest
  <2> QED BY <2>1, <1>1, <1>5, <1>7 DEF Pass
<1>8. CASE CancelSend
  BY <1>8, <1>2 DEF CancelSend, NothingLost, HandedInOrder
<1>9. CASE \/ QueryTaken \/ QueryReturns \/ QueryFails \/ Result \/ StreamEnds
           \/ StreamRaises \/ CloseStart \/ CancelRecv \/ Joined \/ Closed
           \/ UNCHANGED vars
  <2>1. /\ UNCHANGED <<accepted, handed, inbound, post>>
        /\ AtGate' = AtGate
        /\ send' # "ended" => send # "ended"
    BY <1>9 DEF QueryTaken, QueryReturns, QueryFails, Result, StreamEnds,
                StreamRaises, CloseStart, CancelRecv, Joined, Closed, vars, AtGate
  <2> QED BY <2>1, <1>2 DEF NothingLost, HandedInOrder
<1> QED BY <1>3, <1>4, <1>6, <1>7, <1>8, <1>9 DEF Next, SendStep, CloseStep

\* The loops are over before the client is disconnected, and stay over.
LEMMA CloseInvariant ==
  ASSUME TypeOK, LoopsEndFirst, [Next]_vars
  PROVE  LoopsEndFirst'
BY DEF TypeOK, LoopsEndFirst, LoopsEnded, Next, SendStep, CloseStep, Post, Submit,
       Take, Pass, QueryTaken, QueryReturns, QueryFails, Result, StreamEnds,
       StreamRaises, CloseStart, CancelSend, CancelRecv, Joined, Closed, vars

LEMMA NextInvariant == SessionInv /\ [Next]_vars => SessionInv'
<1> SUFFICES ASSUME SessionInv, [Next]_vars PROVE SessionInv'
  OBVIOUS
<1>1. TypeOK'
  BY TypeInvariant DEF SessionInv
<1>2. OneTurnAtATime' /\ EndsInOrder'
  BY <1>1, GateInvariant DEF SessionInv
<1>3. NothingLost' /\ HandedInOrder'
  BY <1>1, QueueInvariant DEF SessionInv
<1>4. LoopsEndFirst'
  BY CloseInvariant DEF SessionInv
<1> QED BY <1>1, <1>2, <1>3, <1>4 DEF SessionInv
-----------------------------------------------------------------------------
(* The theorems.                                                           *)

\* The conjunction of the properties below is an invariant of the session.
THEOREM SessionInvariant == Spec => []SessionInv
BY InitInvariant, NextInvariant, PTL DEF Spec

\* Type correctness; the queue stays within its capacity.
THEOREM SessionTypeCorrect == Spec => []TypeOK
<1>1. SessionInv => TypeOK
  BY DEF SessionInv
<1> QED BY <1>1, SessionInvariant, PTL

\* While the receive loop runs, one turn at a time, and a gate that is closed
\* exactly while the turn lasts.
THEOREM OneTurn == Spec => []OneTurnAtATime
<1>1. SessionInv => OneTurnAtATime
  BY DEF SessionInv
<1> QED BY <1>1, SessionInvariant, PTL

\* Accepted messages are handed over, at the gate or queued, in order, and no
\* message is lost or doubled while the send loop lives.
THEOREM MessagesConserved == Spec => [](NothingLost /\ HandedInOrder)
<1>1. SessionInv => NothingLost /\ HandedInOrder
  BY DEF SessionInv
<1> QED BY <1>1, SessionInvariant, PTL

\* Each turn has its end before the next query is made.
THEOREM TurnsEndInOrder == Spec => []EndsInOrder
<1>1. SessionInv => EndsInOrder
  BY DEF SessionInv
<1> QED BY <1>1, SessionInvariant, PTL

\* No loop is left to write to the log after done.
THEOREM LoopsEndBeforeDone == Spec => []LoopsEndFirst
<1>1. SessionInv => LoopsEndFirst
  BY DEF SessionInv
<1> QED BY <1>1, SessionInvariant, PTL
-----------------------------------------------------------------------------
(* The registry.                                                           *)
(* The argument: a party removes a session only when it is in no close(),  *)
(* and shutdown removes only when the reaper is off.                       *)

USE LimitAssumption

\* The initial state satisfies the invariant.
LEMMA RegistryStarts == RegistryInit => RegistryInv
BY DEF RegistryInit, RegistryInv, RegistryTypeOK, OneAtATime, ReaperFirst, In, Busy,
       Parties, Closing

\* Removing a session keeps the types and adds its close() to party w's.
LEMMA RemoveAdds ==
  ASSUME RegistryTypeOK, NEW s \in Sessions, NEW w \in Parties, RemoveSession(s, w)
  PROVE  /\ sess' \in [Sessions -> {"none", "creating", "live", "joining",
                                    "disconnecting", "closed", "cut"}]
         /\ closer' \in [Sessions -> Parties \cup {"nobody"}]
         /\ \A t \in Sessions :
              /\ closer'[t] = "nobody" <=> sess'[t] \in {"none", "creating", "live"}
              /\ \A p \in Parties : In(p, t)' <=> In(p, t) \/ (t = s /\ p = w)
BY DEF RegistryTypeOK, RemoveSession, In, Parties, Closing

\* Every action keeps the types.
LEMMA RegistryTypes == RegistryTypeOK /\ [RegistryNext]_registryVars => RegistryTypeOK'
<1> SUFFICES ASSUME RegistryTypeOK, [RegistryNext]_registryVars PROVE RegistryTypeOK'
  OBVIOUS
<1>1. ASSUME NEW s \in Sessions,
             Create(s) \/ Created(s) \/ CreateFails(s) \/ Touch(s) \/ Subscribe(s)
               \/ Unsubscribe(s)
      PROVE  RegistryTypeOK'
  BY <1>1 DEF RegistryTypeOK, Create, Created, CreateFails, Touch, Subscribe, Unsubscribe,
              Parties
<1>2. ASSUME NEW s \in Sessions, Delete(s) PROVE RegistryTypeOK'
  <2>1. "handler" \in Parties
    BY DEF Parties
  <2> QED BY <1>2, <2>1, RemoveAdds DEF RegistryTypeOK, Delete
<1>3. ASSUME NEW s \in Sessions, CloserStep(s) PROVE RegistryTypeOK'
  BY <1>3 DEF RegistryTypeOK, CloserStep, LoopsJoined, Disconnected, Parties
<1>4. CASE Tick
  BY <1>4 DEF RegistryTypeOK, Tick, Live
<1>5. CASE StartReaper
  BY <1>5 DEF RegistryTypeOK, StartReaper
<1>6. CASE Sweep
  <2>1. PICK s \in Idle : RemoveSession(s, "reaper") /\ stale' = Idle \ {s}
    BY <1>6 DEF Sweep
  <2>2. s \in Sessions /\ Idle \subseteq Sessions /\ "reaper" \in Parties
    BY DEF Idle, Live, Parties
  <2> QED BY <1>6, <2>1, <2>2, RemoveAdds DEF RegistryTypeOK, Sweep
<1>7. CASE ReapNext
  <2>1. ASSUME NEW s \in stale, RemoveSession(s, "reaper"), stale' = stale \ {s},
               UNCHANGED reaper
        PROVE  RegistryTypeOK'
    <3>1. s \in Sessions /\ "reaper" \in Parties
      BY DEF RegistryTypeOK, Parties
    <3> QED BY <1>7, <2>1, <3>1, RemoveAdds DEF RegistryTypeOK, ReapNext
  <2>2. CASE stale' = {} /\ reaper' = "sleeping" /\ UNCHANGED <<sess, closer>>
    BY <1>7, <2>2 DEF RegistryTypeOK, ReapNext
  <2> QED BY <1>7, <2>1, <2>2 DEF ReapNext
<1>8. CASE ShutdownStart
  <2> DEFINE cut == {s \in Sessions : closer[s] = "reaper" /\ sess[s] = "disconnecting"}
  <2>1. /\ stage = "up" /\ stage' = "joining"
        /\ sess' = [s \in Sessions |-> IF s \in cut THEN "cut" ELSE sess[s]]
        /\ reaper' \in {"off", reaper} /\ stale' \in {{}, stale}
        /\ UNCHANGED <<idle, streams, closer, todo>>
    BY <1>8 DEF ShutdownStart
  <2> QED BY <2>1 DEF RegistryTypeOK
<1>9. CASE ShutdownList
  <2>1. ASSUME NEW s \in Live, RemoveSession(s, "shutdown"), todo' = Live \ {s},
               stage' = "removing"
        PROVE  RegistryTypeOK'
    <3>1. s \in Sessions /\ Live \subseteq Sessions /\ "shutdown" \in Parties
      BY DEF Live, Parties
    <3> QED BY <1>9, <2>1, <3>1, RemoveAdds DEF RegistryTypeOK, ShutdownList
  <2>2. CASE stage' = "down" /\ UNCHANGED <<sess, closer, todo>>
    BY <1>9, <2>2 DEF RegistryTypeOK, ShutdownList
  <2> QED BY <1>9, <2>1, <2>2 DEF ShutdownList
<1>10. CASE ShutdownNext
  <2>1. ASSUME NEW s \in todo, RemoveSession(s, "shutdown"), todo' = todo \ {s},
               UNCHANGED stage
        PROVE  RegistryTypeOK'
    <3>1. s \in Sessions /\ "shutdown" \in Parties
      BY DEF RegistryTypeOK, Parties
    <3> QED BY <1>10, <2>1, <3>1, RemoveAdds DEF RegistryTypeOK, ShutdownNext
  <2>2. CASE todo' = {} /\ stage' = "down" /\ UNCHANGED <<sess, closer>>
    BY <1>10, <2>2 DEF RegistryTypeOK, ShutdownNext
  <2> QED BY <1>10, <2>1, <2>2 DEF ShutdownNext
<1>11. CASE UNCHANGED registryVars
  BY <1>11 DEF RegistryTypeOK, registryVars
<1> QED BY <1>1, <1>2, <1>3, <1>4, <1>5, <1>6, <1>7, <1>8, <1>9, <1>10, <1>11
        DEF RegistryNext, ReaperStep, ShutdownStep

\* The reaper removes a session when it is in no close(), and shutdown is in none.
LEMMA ReaperRemoves ==
  ASSUME RegistryInv, NEW s \in Sessions, RemoveSession(s, "reaper"), ~Busy("reaper"),
         reaper # "off", reaper' = "closing", stage' = stage
  PROVE  OneAtATime'
<1>1. "reaper" \in Parties /\ "shutdown" \in Parties
  BY DEF Parties
<1>2. /\ ~Busy("shutdown") /\ RegistryTypeOK
      /\ \A t \in Sessions : ~In("reaper", t) /\ ~In("shutdown", t)
  BY DEF RegistryInv, OneAtATime, Busy
<1>3. \A t \in Sessions : (In("reaper", t)' <=> t = s) /\ ~In("shutdown", t)'
  BY <1>1, <1>2, RemoveAdds
<1>4. ~Busy("shutdown")'
  BY <1>3 DEF Busy
<1> QED BY <1>3, <1>4 DEF OneAtATime

\* Shutdown removes a session when it is in no close(), and the reaper is off.
LEMMA ShutdownRemoves ==
  ASSUME RegistryInv, NEW s \in Sessions, RemoveSession(s, "shutdown"), ~Busy("shutdown"),
         reaper = "off", reaper' = reaper, stage' = "removing"
  PROVE  OneAtATime'
<1>1. "reaper" \in Parties /\ "shutdown" \in Parties
  BY DEF Parties
<1>2. /\ ~Busy("reaper") /\ RegistryTypeOK
      /\ \A t \in Sessions : ~In("reaper", t) /\ ~In("shutdown", t)
  BY DEF RegistryInv, OneAtATime, Busy
<1>3. \A t \in Sessions : (In("shutdown", t)' <=> t = s) /\ ~In("reaper", t)'
  BY <1>1, <1>2, RemoveAdds
<1>4. ~Busy("reaper")'
  BY <1>3 DEF Busy
<1> QED BY <1>3, <1>4 DEF OneAtATime

\* A step that adds no close() of the reaper or of shutdown, and lets neither
\* go on, keeps them apart.
LEMMA NoneAdded ==
  ASSUME OneAtATime, reaper' = reaper, stage' = stage,
         \A t \in Sessions, w \in {"reaper", "shutdown"} : In(w, t)' => In(w, t)
  PROVE  OneAtATime'
BY DEF OneAtATime, Busy

\* Shutdown goes on only without the reaper.
LEMMA ReaperStaysOff == ReaperFirst /\ [RegistryNext]_registryVars => ReaperFirst'
BY DEF ReaperFirst, RegistryNext, Create, Created, CreateFails, Touch, Subscribe, Unsubscribe,
       Delete, CloserStep, LoopsJoined, Disconnected, Tick, StartReaper, ReaperStep, Sweep,
       ReapNext, ShutdownStart, ShutdownStep, ShutdownList, ReaperGone, ShutdownNext, registryVars

\* The invariant is inductive.
LEMMA RegistryKeeps == RegistryInv /\ [RegistryNext]_registryVars => RegistryInv'
<1> SUFFICES ASSUME RegistryInv, [RegistryNext]_registryVars PROVE OneAtATime'
  BY RegistryTypes, ReaperStaysOff DEF RegistryInv
<1>1. RegistryTypeOK /\ OneAtATime /\ ReaperFirst
  BY DEF RegistryInv
<1>2. ASSUME NEW s \in Sessions,
             Create(s) \/ Created(s) \/ CreateFails(s) \/ Touch(s) \/ Subscribe(s)
               \/ Unsubscribe(s) \/ CloserStep(s)
      PROVE  OneAtATime'
  <2>1. /\ reaper' = reaper /\ stage' = stage
        /\ \A t \in Sessions, w \in {"reaper", "shutdown"} : In(w, t)' => In(w, t)
    BY <1>1, <1>2 DEF RegistryTypeOK, Create, Created, CreateFails, Touch, Subscribe,
                      Unsubscribe, CloserStep, LoopsJoined, Disconnected, In, Closing
  <2> QED BY <1>1, <2>1, NoneAdded
<1>3. ASSUME NEW s \in Sessions, Delete(s) PROVE OneAtATime'
  <2>1. {"handler", "reaper", "shutdown"} \subseteq Parties
    BY DEF Parties
  <2>2. \A t \in Sessions, w \in {"reaper", "shutdown"} : In(w, t)' => In(w, t)
    BY <1>1, <1>3, <2>1, RemoveAdds DEF Delete
  <2> QED BY <1>1, <1>3, <2>2, NoneAdded DEF Delete
<1>4. CASE Tick \/ UNCHANGED registryVars
  BY <1>1, <1>4, NoneAdded DEF Tick, registryVars, In
<1>5. CASE StartReaper
  BY <1>1, <1>5 DEF StartReaper, OneAtATime, Busy, In
<1>6. CASE Sweep
  <2>1. PICK s \in Idle : RemoveSession(s, "reaper")
    BY <1>6 DEF Sweep
  <2>2. s \in Sessions /\ ~Busy("reaper")
    BY <1>1, <1>6 DEF Idle, Live, Sweep, OneAtATime
  <2> QED BY <1>6, <2>1, <2>2, ReaperRemoves DEF Sweep
<1>7. CASE ReapNext
  <2>1. ASSUME NEW s \in stale, RemoveSession(s, "reaper"), UNCHANGED reaper
        PROVE  OneAtATime'
    BY <1>1, <1>7, <2>1, ReaperRemoves DEF ReapNext, RegistryTypeOK
  <2>2. CASE reaper' = "sleeping" /\ UNCHANGED <<sess, closer>>
    BY <1>1, <1>7, <2>2 DEF ReapNext, OneAtATime, Busy, In
  <2> QED BY <1>7, <2>1, <2>2 DEF ReapNext
<1>8. CASE ShutdownStart
  <2> DEFINE cut == {s \in Sessions : closer[s] = "reaper" /\ sess[s] = "disconnecting"}
  <2>1. /\ stage = "up"
        /\ sess' = [s \in Sessions |-> IF s \in cut THEN "cut" ELSE sess[s]]
        /\ reaper' = IF reaper = "sleeping" \/ cut # {} THEN "off" ELSE reaper
        /\ closer' = closer
    BY <1>8 DEF ShutdownStart
  <2>2. \A t \in Sessions, w \in {"reaper", "shutdown"} :
          In(w, t)' <=> In(w, t) /\ t \notin cut
    BY <2>1 DEF In, Closing
  <2>3. ~Busy("shutdown")
    BY <1>1, <2>1 DEF OneAtATime
  <2>4. ~Busy("shutdown")'
    BY <2>2, <2>3 DEF Busy
  <2>5. ASSUME Busy("reaper")' PROVE reaper' = "closing"
    <3>1. PICK t \in Sessions : In("reaper", t) /\ t \notin cut
      BY <2>2, <2>5 DEF Busy
    <3>2. reaper = "closing"
      BY <1>1, <3>1 DEF OneAtATime, Busy
    <3>3. \A u \in cut : u \in Sessions /\ In("reaper", u)
      BY DEF In, Closing
    <3>4. cut = {}
      BY <1>1, <3>1, <3>3 DEF OneAtATime
    <3> QED BY <2>1, <3>2, <3>4
  <2>6. \A s, t \in Sessions, w \in {"reaper", "shutdown"} :
          In(w, s)' /\ In(w, t)' => s = t
    BY <1>1, <2>2 DEF OneAtATime
  <2> QED BY <2>4, <2>5, <2>6 DEF OneAtATime
<1>9. CASE ShutdownList
  <2>1. reaper = "off" /\ ~Busy("shutdown") /\ reaper' = reaper
    BY <1>1, <1>9 DEF ShutdownList, ReaperGone, OneAtATime
  <2>2. ASSUME NEW s \in Live, RemoveSession(s, "shutdown"), stage' = "removing"
        PROVE  OneAtATime'
    BY <2>1, <2>2, ShutdownRemoves DEF Live
  <2>3. CASE stage' = "down" /\ UNCHANGED <<sess, closer>>
    BY <1>1, <2>1, <2>3 DEF OneAtATime, Busy, In
  <2> QED BY <1>9, <2>2, <2>3 DEF ShutdownList
<1>10. CASE ShutdownNext
  <2>1. /\ stage = "removing" /\ ~Busy("shutdown")
        /\ reaper = "off" /\ reaper' = reaper
    BY <1>1, <1>10 DEF ShutdownNext, ReaperFirst
  <2>2. ASSUME NEW s \in todo, RemoveSession(s, "shutdown"), UNCHANGED stage
        PROVE  OneAtATime'
    BY <1>1, <2>1, <2>2, ShutdownRemoves DEF RegistryTypeOK
  <2>3. CASE stage' = "down" /\ UNCHANGED <<sess, closer>>
    BY <1>1, <2>1, <2>3 DEF OneAtATime, Busy, In
  <2> QED BY <1>10, <2>2, <2>3 DEF ShutdownNext
<1> QED BY <1>2, <1>3, <1>4, <1>5, <1>6, <1>7, <1>8, <1>9, <1>10
        DEF RegistryNext, ReaperStep, ShutdownStep
-----------------------------------------------------------------------------
(* The theorems of the registry.                                           *)

\* The conjunction behind the theorems below is an invariant of the registry.
THEOREM RegistryInvariant == RegistrySpec => []RegistryInv
BY RegistryStarts, RegistryKeeps, PTL DEF RegistrySpec

\* Type correctness.
THEOREM RegistryTypeCorrect == RegistrySpec => []RegistryTypeOK
<1>1. RegistryInv => RegistryTypeOK
  BY DEF RegistryInv
<1> QED BY <1>1, RegistryInvariant, PTL

\* The reaper and shutdown close one session at a time, never both at once.
THEOREM ClosersExclude == RegistrySpec => []OneAtATime
<1>1. RegistryInv => OneAtATime
  BY DEF RegistryInv
<1> QED BY <1>1, RegistryInvariant, PTL

\* Whoever removed a session remains the one that closes it.
THEOREM CloserStays == RegistrySpec => CloserKept
<1> DEFINE Kept == \A s \in Sessions : closer[s] # "nobody" => closer'[s] = closer[s]
<1>1. RegistryTypeOK /\ [RegistryNext]_registryVars => [Kept]_registryVars
  <2> SUFFICES ASSUME RegistryTypeOK, [RegistryNext]_registryVars
               PROVE  Kept \/ UNCHANGED registryVars
    OBVIOUS
  <2>1. ASSUME NEW s \in Sessions, NEW w, RemoveSession(s, w) PROVE Kept
    BY <2>1 DEF RegistryTypeOK, RemoveSession
  <2>2. CASE closer' = closer
    BY <2>2
  <2>3. closer' = closer \/ \E s \in Sessions, w \in Parties : RemoveSession(s, w)
    BY DEF RegistryTypeOK, RegistryNext, Create, Created, CreateFails, Touch, Subscribe, Unsubscribe,
           Delete, CloserStep, LoopsJoined, Disconnected, Tick, StartReaper, ReaperStep,
           Sweep, ReapNext, ShutdownStart, ShutdownStep, ShutdownList, ShutdownNext,
           registryVars, Live, Idle, Parties
  <2> QED BY <2>1, <2>2, <2>3
<1> QED BY <1>1, RegistryTypeCorrect, PTL DEF RegistrySpec, CloserKept
=============================================================================
