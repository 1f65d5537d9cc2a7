--------------------------- MODULE EventLogProofs ---------------------------
(***************************************************************************)
(* Proofs about EventLog for every set of subscribers, every ring size and *)
(* every length of the log.  The argument: the ring is the tail of the     *)
(* log, hence a run of consecutive numbers; a snapshot was the ring once,  *)
(* so what lies before its head is evicted by now; hence the first element *)
(* past a cursor is the cursor's successor, or all between is evicted.     *)
(***************************************************************************)
EXTENDS EventLog, TLAPS

USE SizeAssumption, SeqAssumption

\* Pushing on the ring keeps its type and its bound, puts e last, and shifts
\* the rest by one exactly when the ring was full.
LEMMA PushProperties ==
  ASSUME NEW ring \in Seq(1..MaxSeq), NEW e \in 1..MaxSeq, Len(ring) <= MaxSize
  PROVE  /\ Push(ring, e) \in Seq(1..MaxSeq)
         /\ Len(Push(ring, e)) = IF Len(ring) = MaxSize THEN MaxSize
                                                        ELSE Len(ring) + 1
         /\ \A i \in 1..Len(Push(ring, e)) :
              Push(ring, e)[i] =
                IF i = Len(Push(ring, e)) THEN e
                ELSE IF Len(ring) = MaxSize THEN ring[i+1] ELSE ring[i]
<1>1. CASE Len(ring) = MaxSize
  <2>1. /\ Tail(ring) \in Seq(1..MaxSeq)
        /\ Len(Tail(ring)) = MaxSize - 1
        /\ \A i \in 1..(MaxSize - 1) : Tail(ring)[i] = ring[i+1]
    BY <1>1
  <2>2. Push(ring, e) = Append(Tail(ring), e)
    BY <1>1 DEF Push
  <2> QED BY <2>1, <2>2, <1>1
<1>2. CASE Len(ring) # MaxSize
  <2>1. Push(ring, e) = Append(ring, e)
    BY <1>2 DEF Push
  <2> QED BY <2>1, <1>2
<1> QED BY <1>1, <1>2
\* A history that increases and lies in k+1..c, followed by an e past c, is a
\* history that increases and lies in k+1..e, and holds what it held and e.
LEMMA HistoryGrows ==
  ASSUME NEW d \in Seq(1..MaxSeq), NEW k \in Nat, NEW c \in Nat,
         NEW e \in 1..MaxSeq, k <= c, c < e, Within(d, k, c), Increasing(d)
  PROVE  /\ Append(d, e) \in Seq(1..MaxSeq)
         /\ Within(Append(d, e), k, e)
         /\ Increasing(Append(d, e))
         /\ Contains(Append(d, e), e)
         /\ \A x \in Nat : Contains(d, x) => Contains(Append(d, e), x)
<1> DEFINE f == Append(d, e)
<1>1. /\ f \in Seq(1..MaxSeq) /\ Len(d) \in Nat /\ Len(f) = Len(d) + 1
      /\ \A i \in 1..Len(d) : f[i] = d[i] /\ d[i] \in Nat
      /\ f[Len(d) + 1] = e
  OBVIOUS
<1> HIDE DEF f
<1>2. \A i \in 1..Len(f) : i = Len(d) + 1 \/ i \in 1..Len(d)
  BY <1>1
<1>3. Within(f, k, e)
  BY <1>1, <1>2 DEF Within
<1>4. Increasing(f)
  <2> SUFFICES ASSUME NEW i \in 1..Len(f), NEW j \in 1..Len(f), i < j
               PROVE  f[i] < f[j]
    BY DEF Increasing
  <2>1. i \in 1..Len(d)
    BY <1>1, <1>2
  <2>2. CASE j = Len(d) + 1
    <3>1. d[i] <= c /\ f[i] = d[i] /\ d[i] \in Nat
      BY <2>1, <1>1 DEF Within
    <3> QED BY <2>2, <3>1, <1>1
  <2>3. CASE j \in 1..Len(d)
    BY <2>1, <2>3, <1>1 DEF Increasing
  <2> QED BY <2>2, <2>3, <1>2
<1>5. 1..Len(d) \subseteq 1..Len(f) /\ Len(d) + 1 \in 1..Len(f)
  BY <1>1
<1>6. Contains(f, e) /\ \A x \in Nat : Contains(d, x) => Contains(f, x)
  BY <1>1, <1>5 DEF Contains
<1> QED BY <1>1, <1>3, <1>4, <1>6 DEF f

\* What TypeOK says of single elements.
LEMMA Elements ==
  ASSUME TypeOK
  PROVE  /\ nextSeq \in Nat /\ LastSeq \in Nat /\ OldestSeq \in Nat
         /\ \A s \in Subscribers :
              /\ after[s] \in Nat /\ cursor[s] \in Nat
              /\ \A i \in 1..Len(delivered[s]) : delivered[s][i] \in 1..MaxSeq
              /\ \A i \in 1..Len(snapshot[s]) : snapshot[s][i] \in 1..MaxSeq
<1>1. nextSeq \in Nat /\ LastSeq \in Nat
  BY DEF TypeOK, LastSeq
<1>2. OldestSeq \in Nat
  <2>1. buf \in Seq(1..MaxSeq)
    BY DEF TypeOK
  <2> QED BY <1>1, <2>1 DEF OldestSeq
<1>3. ASSUME NEW s \in Subscribers
      PROVE  /\ after[s] \in Nat /\ cursor[s] \in Nat
             /\ \A i \in 1..Len(delivered[s]) : delivered[s][i] \in 1..MaxSeq
             /\ \A i \in 1..Len(snapshot[s]) : snapshot[s][i] \in 1..MaxSeq
  <2>1. /\ after[s] \in 0..MaxSeq /\ cursor[s] \in 0..MaxSeq
        /\ delivered[s] \in Seq(1..MaxSeq) /\ snapshot[s] \in Seq(1..MaxSeq)
    BY DEF TypeOK
  <2> QED BY <2>1
<1> QED BY <1>1, <1>2, <1>3
-----------------------------------------------------------------------------
(* The inductive invariant.                                                *)

LEMMA InitInvariant == Init => IInv
<1> SUFFICES ASSUME Init PROVE IInv
  OBVIOUS
<1>1. TypeOK
  <2>1. <<>> \in Seq(1..MaxSeq)
    OBVIOUS
  <2>2. /\ snapshot \in [Subscribers -> Seq(1..MaxSeq)]
        /\ delivered \in [Subscribers -> Seq(1..MaxSeq)]
    BY <2>1 DEF Init
  <2>3. /\ after \in [Subscribers -> 0..MaxSeq]
        /\ cursor \in [Subscribers -> 0..MaxSeq]
    BY DEF Init
  <2>4. pc \in [Subscribers -> Places]
    BY DEF Init, Places
  <2>5. buf \in Seq(1..MaxSeq) /\ nextSeq \in 1..(MaxSeq + 1) /\ closed \in BOOLEAN
    BY <2>1, 1 \in 1..(MaxSeq + 1) DEF Init
  <2>6. waiters \in SUBSET Subscribers /\ signalled \in SUBSET Subscribers
    BY DEF Init
  <2> QED BY <2>2, <2>3, <2>4, <2>5, <2>6 DEF TypeOK
<1>2. RingIsTail /\ LastSeq = 0
  BY DEF Init, RingIsTail, OldestSeq, LastSeq, Window
<1>3. \A s \in Subscribers : SubscriberInv(s)
  <2> TAKE s \in Subscribers
  <2>1. /\ Len(snapshot[s]) = 0 /\ Len(delivered[s]) = 0
        /\ cursor[s] = 0 /\ after[s] = 0 /\ pc[s] = "idle"
    BY DEF Init
  <2> QED BY <2>1, <1>2 DEF SubscriberInv, Window, CursorBounds, Within, Increasing,
                            SkipsOnlyEvicted, Wakeable, RefusalIsDue
<1> QED BY <1>1, <1>2, <1>3 DEF IInv

\* The writer's step: the ring moves on, no cursor does.
LEMMA RecordInvariant ==
  ASSUME IInv, Record, closed' \in BOOLEAN, ~closed' => nextSeq < MaxSeq
  PROVE  IInv'
<1> DEFINE full == Len(buf) = MaxSize
<1>1. /\ TypeOK /\ RingIsTail /\ ~closed /\ nextSeq \in 1..MaxSeq
      /\ nextSeq' = nextSeq + 1 /\ LastSeq' = nextSeq
  BY DEF IInv, TypeOK, RingIsTail, Record, LastSeq
<1>2. /\ buf' \in Seq(1..MaxSeq)
      /\ Len(buf') = IF full THEN MaxSize ELSE Len(buf) + 1
      /\ \A i \in 1..Len(buf') :
           buf'[i] = IF i = Len(buf') THEN nextSeq
                     ELSE IF full THEN buf[i+1] ELSE buf[i]
  <2>1. /\ buf \in Seq(1..MaxSeq) /\ nextSeq \in 1..MaxSeq
        /\ Len(buf) <= MaxSize /\ buf' = Push(buf, nextSeq)
    BY <1>1 DEF TypeOK, RingIsTail, Record
  <2>2. /\ Push(buf, nextSeq) \in Seq(1..MaxSeq)
        /\ Len(Push(buf, nextSeq)) = IF full THEN MaxSize ELSE Len(buf) + 1
        /\ \A i \in 1..Len(Push(buf, nextSeq)) :
             Push(buf, nextSeq)[i] =
               IF i = Len(Push(buf, nextSeq)) THEN nextSeq
               ELSE IF full THEN buf[i+1] ELSE buf[i]
    BY <2>1, PushProperties
  <2> QED BY <2>1, <2>2
<1>3. \A i \in 1..Len(buf) : buf[i] = nextSeq - Len(buf) + (i - 1)
  <2>1. CASE Len(buf) = 0
    BY <2>1
  <2>2. CASE Len(buf) # 0
    <3>1. buf[1] = nextSeq - Len(buf)
      BY <1>1, <2>2 DEF RingIsTail, OldestSeq
    <3> QED BY <1>1, <3>1 DEF RingIsTail, Window, TypeOK
  <2> QED BY <2>1, <2>2
<1>4. /\ Len(buf') \in 1..MaxSize
      /\ \A i \in 1..Len(buf') : buf'[i] = nextSeq' - Len(buf') + (i - 1)
  <2>1. Len(buf) \in 0..MaxSize
    BY <1>1 DEF TypeOK, RingIsTail
  <2>2. Len(buf') \in 1..MaxSize
    BY <2>1, <1>2
  <2>3. ASSUME NEW i \in 1..Len(buf')
        PROVE  buf'[i] = nextSeq' - Len(buf') + (i - 1)
    <3>1. CASE i = Len(buf')
      BY <3>1, <2>2, <1>1, <1>2
    <3>2. CASE i # Len(buf') /\ full
      BY <3>2, <2>1, <2>2, <1>1, <1>2, <1>3
    <3>3. CASE i # Len(buf') /\ ~full
      BY <3>3, <2>1, <2>2, <1>1, <1>2, <1>3
    <3> QED BY <3>1, <3>2, <3>3
  <2> QED BY <2>2, <2>3
<1>5. /\ OldestSeq' = nextSeq' - Len(buf')
      /\ OldestSeq \in Nat
      /\ OldestSeq' \in Nat
      /\ OldestSeq <= OldestSeq'
  <2>1. Len(buf') # 0
    BY <1>2, <1>4
  <2>2. OldestSeq' = nextSeq' - Len(buf')
    BY <2>1, <1>1, <1>4 DEF OldestSeq
  <2>3. OldestSeq = nextSeq - Len(buf) /\ OldestSeq \in Nat
    BY <1>1 DEF RingIsTail, OldestSeq, TypeOK
  <2>4. OldestSeq <= OldestSeq'
    BY <2>2, <2>3, <1>1, <1>2 DEF TypeOK, RingIsTail
  <2>5. OldestSeq' \in Nat
    BY <2>2, <2>3, <2>4, <1>1, <1>2, <1>4 DEF TypeOK
  <2> QED BY <2>2, <2>3, <2>4, <2>5
<1>6. TypeOK'
  BY <1>1, <1>2 DEF TypeOK, Record, WakeAll
<1>7. RingIsTail'
  <2>1. \A i \in 1..Len(buf') : buf'[i] = buf'[1] + (i - 1) /\ buf'[i] <= nextSeq
    BY <1>1, <1>4
  <2>2. buf'[1] = OldestSeq'
    BY <1>4, <1>5 DEF OldestSeq
  <2>3. Window(buf)'
    BY <2>1, <2>2, <1>1, <1>5 DEF Window
  <2> QED BY <2>3, <1>1, <1>4, <1>5 DEF RingIsTail
<1>8. ASSUME NEW s \in Subscribers
      PROVE  SubscriberInv(s)'
  <2>1. /\ SubscriberInv(s)
        /\ LastSeq \in Nat /\ LastSeq < LastSeq' /\ cursor[s] \in Nat /\ after[s] \in Nat
        /\ \A i \in 1..Len(snapshot[s]) : snapshot[s][i] \in Nat
        /\ pc'[s] = pc[s] /\ after'[s] = after[s] /\ cursor'[s] = cursor[s]
        /\ snapshot'[s] = snapshot[s] /\ delivered'[s] = delivered[s]
    BY <1>1, Elements DEF IInv, Record, LastSeq
  <2>2. Window(snapshot[s])'
    <3>1. /\ \A i \in 1..Len(snapshot[s]) : snapshot[s][i] <= LastSeq'
          /\ Len(snapshot[s]) > 0 => snapshot[s][1] <= OldestSeq'
      <4>1. /\ \A i \in 1..Len(snapshot[s]) : snapshot[s][i] <= LastSeq
            /\ Len(snapshot[s]) > 0 => snapshot[s][1] <= OldestSeq
        BY <2>1 DEF SubscriberInv, Window
      <4>2. snapshot[s] \in Seq(1..MaxSeq)
        BY <1>1 DEF TypeOK
      <4>3. Len(snapshot[s]) > 0 => snapshot[s][1] <= OldestSeq'
        BY <4>1, <4>2, <1>5
      <4>4. ASSUME NEW i \in 1..Len(snapshot[s])
            PROVE  snapshot[s][i] <= LastSeq'
        <5>1. snapshot[s][i] <= LastSeq /\ snapshot[s][i] \in Nat
          BY <4>1, <2>1
        <5> QED BY <5>1, <2>1, <1>1
      <4> QED BY <4>3, <4>4
    <3> QED BY <2>1, <3>1 DEF SubscriberInv, Window
  <2>3. CursorBounds(s)'
    <3>1. CursorBounds(s)
      BY <2>1 DEF SubscriberInv
    <3>2. cursor[s] <= LastSeq' \/ cursor[s] = after[s]
      BY <2>1, <3>1, <1>1 DEF CursorBounds
    <3> QED BY <2>1, <3>1, <3>2 DEF CursorBounds
  <2>4. SkipsOnlyEvicted(s)'
    <3> SUFFICES ASSUME NEW e \in (after[s] + 1)..cursor[s]
                 PROVE  e < OldestSeq' \/ Contains(delivered[s], e)
      BY <2>1 DEF SkipsOnlyEvicted
    <3>1. e < OldestSeq \/ Contains(delivered[s], e)
      BY <2>1 DEF SubscriberInv, SkipsOnlyEvicted
    <3> QED BY <2>1, <3>1, <1>5
  <2>5. Wakeable(s)'
    BY <2>1, <1>1 DEF SubscriberInv, Wakeable, Record, WakeAll
  <2>6. RefusalIsDue(s)'
    BY <2>1, <1>5 DEF SubscriberInv, RefusalIsDue
  <2> QED BY <2>1, <2>2, <2>3, <2>4, <2>5, <2>6 DEF SubscriberInv
<1> QED BY <1>6, <1>7, <1>8 DEF IInv

\* The first element of a window past c is c + 1, or nothing between is kept.
LEMMA FirstPastSkipsOnlyEvicted ==
  ASSUME TypeOK, NEW events \in Seq(1..MaxSeq), Window(events), NEW c \in Nat,
         NEW i \in 1..Len(events), FirstPast(events, c, i),
         NEW e \in Nat, c < e, e < events[i]
  PROVE  e < OldestSeq
<1>0. /\ i \in 1..Len(events)
      /\ \A j \in 1..Len(events) : events[j] \in Nat
      /\ OldestSeq \in Nat
  BY DEF OldestSeq, TypeOK
<1>1. CASE i = 1
  BY <1>0, <1>1 DEF Window
<1>2. CASE i # 1
  <2>1. i - 1 \in 1..Len(events) /\ i - 1 \in 1..(i-1)
    BY <1>0, <1>2
  <2>2. events[i] = events[1] + (i - 1) /\ events[i-1] = events[1] + (i - 2)
    BY <2>1, <1>0 DEF Window
  <2>3. events[i-1] <= c
    BY <2>1 DEF FirstPast
  <2> QED BY <2>2, <2>3, <1>0, <1>2
<1> QED BY <1>1, <1>2

\* A step of generator s over the window `events` from cursor c, its after_seq
\* being k, keeps the invariant when the history up to c already agrees.
LEMMA RunInvariant ==
  ASSUME IInv,
         NEW s \in Subscribers, NEW k \in 0..MaxSeq, NEW c \in 0..MaxSeq,
         NEW events \in Seq(1..MaxSeq), Window(events), k <= c, c <= LastSeq \/ c = k,
         Within(delivered[s], k, c),
         \A e \in (k+1)..c : e < OldestSeq \/ Contains(delivered[s], e),
         Run(s, events, c), after' = [after EXCEPT ![s] = k], UNCHANGED logVars
  PROVE  IInv'
<1>1. /\ TypeOK /\ RingIsTail /\ SubscriberInv(s)
      /\ LastSeq' = LastSeq /\ OldestSeq' = OldestSeq
      /\ buf' = buf /\ nextSeq' = nextSeq /\ closed' = closed
  BY DEF IInv, logVars, LastSeq, OldestSeq
<1>2. RingIsTail'
  BY <1>1 DEF RingIsTail, Window
<1>3. after'[s] = k /\ after' \in [Subscribers -> 0..MaxSeq]
  BY <1>1 DEF TypeOK
<1>4. ASSUME NEW t \in Subscribers \ {s}
      PROVE  SubscriberInv(t)'
  <2>1. /\ after'[t] = after[t] /\ cursor'[t] = cursor[t] /\ pc'[t] = pc[t]
        /\ snapshot'[t] = snapshot[t] /\ delivered'[t] = delivered[t]
        /\ t \in waiters' <=> t \in waiters
        /\ t \in signalled' <=> t \in signalled
    BY <1>1 DEF TypeOK, Run, YieldNext, EndDrain
  <2> SUFFICES SubscriberInv(t)
    BY <2>1, <1>1 DEF SubscriberInv, Window, CursorBounds, SkipsOnlyEvicted,
                      Wakeable, RefusalIsDue
  <2> QED BY DEF IInv
<1>5. CASE YieldNext(s, events, c)
  <2>1. PICK i \in 1..Len(events) :
          /\ FirstPast(events, c, i)
          /\ cursor' = [cursor EXCEPT ![s] = events[i]]
          /\ delivered' = [delivered EXCEPT ![s] = Append(@, events[i])]
          /\ snapshot' = [snapshot EXCEPT ![s] = events]
          /\ pc' = [pc EXCEPT ![s] = "yielded"]
          /\ UNCHANGED <<waiters, signalled>>
    BY <1>5 DEF YieldNext
  <2> DEFINE e == events[i]
             h == Append(delivered[s], e)
  <2>2. e \in 1..MaxSeq /\ c < e /\ e <= LastSeq
    BY <2>1 DEF FirstPast, Window
  <2>3. \A x \in Nat : c < x /\ x < e => x < OldestSeq
    BY <2>1, <1>1, FirstPastSkipsOnlyEvicted
  <2>4. /\ cursor'[s] = e /\ snapshot'[s] = events /\ pc'[s] = "yielded"
        /\ delivered'[s] = h /\ delivered[s] \in Seq(1..MaxSeq)
    BY <2>1, <1>1 DEF TypeOK
  <2>5. /\ h \in Seq(1..MaxSeq) /\ Within(h, k, e) /\ Increasing(h) /\ Contains(h, e)
        /\ \A x \in Nat : Contains(delivered[s], x) => Contains(h, x)
    BY <2>2, <2>4, <1>1, HistoryGrows DEF SubscriberInv
  <2>6. TypeOK'
    <3>1. delivered' \in [Subscribers -> Seq(1..MaxSeq)]
      BY <2>1, <2>5, <1>1 DEF TypeOK
    <3>2. cursor' \in [Subscribers -> 0..MaxSeq]
      BY <2>1, <2>2, <1>1 DEF TypeOK
    <3>3. snapshot' \in [Subscribers -> Seq(1..MaxSeq)]
      BY <2>1, <1>1 DEF TypeOK
    <3>4. pc' \in [Subscribers -> Places]
      BY <2>1, <1>1 DEF TypeOK, Places
    <3> QED BY <3>1, <3>2, <3>3, <3>4, <2>1, <1>1, <1>3 DEF TypeOK
  <2> HIDE DEF e, h
  <2>7. SubscriberInv(s)'
    <3>1. Window(snapshot[s])'
      BY <2>4, <1>1 DEF Window
    <3>2. CursorBounds(s)'
      BY <2>2, <2>4, <2>5, <1>1, <1>3 DEF CursorBounds
    <3>3. SkipsOnlyEvicted(s)'
      <4> SUFFICES ASSUME NEW x \in (k+1)..e
                   PROVE  x < OldestSeq \/ Contains(h, x)
        BY <2>4, <1>1, <1>3 DEF SkipsOnlyEvicted
      <4>1. CASE x = e
        BY <4>1, <2>5
      <4>2. CASE c < x /\ x < e
        BY <4>2, <2>2, <2>3
      <4>3. CASE x \in (k+1)..c
        BY <4>3, <2>5
      <4> QED BY <4>1, <4>2, <4>3, <2>2
    <3>4. Wakeable(s)' /\ RefusalIsDue(s)'
      BY <2>4 DEF Wakeable, RefusalIsDue
    <3> QED BY <3>1, <3>2, <3>3, <3>4, <2>4, <2>5 DEF SubscriberInv
  <2> QED BY <2>6, <2>7, <1>2, <1>4 DEF IInv
<1>6. CASE EndDrain(s, events, c)
  <2>1. /\ cursor'[s] = c /\ snapshot'[s] = <<>> /\ delivered' = delivered
        /\ pc'[s] = IF closed THEN "ended" ELSE "parked"
        /\ ~closed => s \in waiters'
    BY <1>6, <1>1 DEF EndDrain, TypeOK
  <2>2. TypeOK'
    <3>1. <<>> \in Seq(1..MaxSeq)
      OBVIOUS
    <3>2. snapshot' \in [Subscribers -> Seq(1..MaxSeq)]
      BY <3>1, <1>6, <1>1 DEF EndDrain, TypeOK
    <3>3. cursor' \in [Subscribers -> 0..MaxSeq]
      BY <1>6, <1>1 DEF EndDrain, TypeOK
    <3>4. pc' \in [Subscribers -> Places]
      BY <1>6, <1>1 DEF EndDrain, TypeOK, Places
    <3>5. waiters' \in SUBSET Subscribers /\ signalled' \in SUBSET Subscribers
      BY <1>6, <1>1 DEF EndDrain, TypeOK
    <3> QED BY <3>2, <3>3, <3>4, <3>5, <2>1, <1>1, <1>3 DEF TypeOK
  <2>3. SubscriberInv(s)'
    <3>1. Window(snapshot[s])'
      <4>1. Len(snapshot'[s]) = 0
        BY <2>1
      <4> QED BY <4>1 DEF Window
    <3>2. CursorBounds(s)'
      BY <2>1, <1>1, <1>3 DEF CursorBounds
    <3>3. SkipsOnlyEvicted(s)'
      BY <2>1, <1>1, <1>3 DEF SkipsOnlyEvicted
    <3>4. Wakeable(s)' /\ RefusalIsDue(s)'
      BY <2>1, <1>1 DEF Wakeable, RefusalIsDue
    <3> QED BY <3>1, <3>2, <3>3, <3>4, <2>1, <1>1 DEF SubscriberInv
  <2> QED BY <2>2, <2>3, <1>2, <1>4 DEF IInv
<1> QED BY <1>5, <1>6 DEF Run

\* Every step keeps the invariant.
LEMMA NextInvariant == IInv /\ [Next]_vars => IInv'
<1> SUFFICES ASSUME IInv, [Next]_vars PROVE IInv'
  OBVIOUS
<1>0. TypeOK /\ RingIsTail
  BY DEF IInv
<1>1. CASE AppendEvent
  <2>1. Record /\ closed' \in BOOLEAN /\ nextSeq < MaxSeq
    BY <1>0, <1>1 DEF AppendEvent, TypeOK
  <2> QED BY <2>1, RecordInvariant
<1>2. CASE CloseLog
  <2>1. Record /\ closed' = TRUE
    BY <1>2 DEF CloseLog
  <2> QED BY <2>1, RecordInvariant
<1>3. ASSUME NEW s \in Subscribers, NEW k \in 0..MaxSeq, Subscribe(s, k)
      PROVE  IInv'
  <2>1. /\ SubscriberInv(s) /\ pc[s] = "idle" /\ cursor[s] = 0
        /\ after[s] \in Nat /\ delivered[s] \in Seq(1..MaxSeq)
        /\ LastSeq \in 0..MaxSeq /\ k \in 0..MaxSeq
    BY <1>0, <1>3 DEF IInv, SubscriberInv, CursorBounds, Subscribe, TypeOK, LastSeq
  <2>2. Len(delivered[s]) = 0
    BY <2>1 DEF SubscriberInv, CursorBounds, Within
  <2>3. CASE Evicted(k) /\ pc' = [pc EXCEPT ![s] = "evicted"]
             /\ UNCHANGED <<cursor, snapshot, delivered, waiters, signalled>>
    <3>1. /\ buf' = buf /\ nextSeq' = nextSeq /\ closed' = closed
          /\ LastSeq' = LastSeq /\ OldestSeq' = OldestSeq /\ OldestSeq \in Nat
          /\ after' = [after EXCEPT ![s] = k]
      BY <1>0, <1>3, Elements DEF Subscribe, logVars, LastSeq, OldestSeq
    <3>2. TypeOK' /\ RingIsTail'
      BY <1>0, <2>1, <2>3, <3>1 DEF TypeOK, RingIsTail, Window, Places
    <3>3. SubscriberInv(s)'
      <4>1. after'[s] = k /\ pc'[s] = "evicted"
        BY <1>0, <2>3, <3>1 DEF TypeOK
      <4>2. Window(snapshot[s])' /\ CursorBounds(s)' /\ Increasing(delivered[s])'
        BY <2>1, <2>2, <2>3, <3>1, <4>1
           DEF SubscriberInv, Window, CursorBounds, Within, Increasing
      <4>3. SkipsOnlyEvicted(s)' /\ Wakeable(s)'
        BY <2>1, <2>3, <3>1, <4>1 DEF SkipsOnlyEvicted, Wakeable
      <4>4. RefusalIsDue(s)'
        BY <2>1, <2>3, <3>1, <4>1 DEF RefusalIsDue, Evicted
      <4> QED BY <4>2, <4>3, <4>4 DEF SubscriberInv
    <3>4. ASSUME NEW t \in Subscribers \ {s}
          PROVE  SubscriberInv(t)'
      <4>1. /\ after'[t] = after[t] /\ pc'[t] = pc[t] /\ cursor' = cursor
            /\ snapshot' = snapshot /\ delivered' = delivered
            /\ waiters' = waiters /\ signalled' = signalled
        BY <1>0, <2>3, <3>1 DEF TypeOK
      <4> SUFFICES SubscriberInv(t)
        BY <3>1, <4>1 DEF SubscriberInv, Window, CursorBounds, SkipsOnlyEvicted,
                          Wakeable, RefusalIsDue
      <4> QED BY DEF IInv
    <3> QED BY <3>2, <3>3, <3>4 DEF IInv
  <2>4. CASE Run(s, buf, k)
    <3>1. buf \in Seq(1..MaxSeq) /\ Window(buf)
      BY <1>0 DEF TypeOK, RingIsTail
    <3>2. Within(delivered[s], k, k)
      BY <2>1, <2>2 DEF Within
    <3>3. \A e \in (k+1)..k : e < OldestSeq \/ Contains(delivered[s], e)
      BY <2>1
    <3>4. after' = [after EXCEPT ![s] = k] /\ UNCHANGED logVars
      BY <1>3 DEF Subscribe
    <3>5. k <= k
      BY <2>1
    <3> QED BY <2>1, <2>4, <3>1, <3>2, <3>3, <3>4, <3>5, RunInvariant
  <2> QED BY <1>3, <2>3, <2>4 DEF Subscribe
<1>4. ASSUME NEW s \in Subscribers, NEW events \in Seq(1..MaxSeq), Window(events),
             pc[s] \in {"yielded", "parked"}, Run(s, events, cursor[s]),
             UNCHANGED <<buf, nextSeq, closed, after>>
      PROVE  IInv'
  <2>1. SubscriberInv(s) /\ cursor[s] \in 0..MaxSeq /\ after[s] \in 0..MaxSeq
    BY <1>0 DEF IInv, TypeOK
  <2>2. after[s] <= cursor[s] /\ (cursor[s] <= LastSeq \/ cursor[s] = after[s])
        /\ Within(delivered[s], after[s], cursor[s])
    BY <1>4, <2>1 DEF SubscriberInv, CursorBounds
  <2>3. \A e \in (after[s] + 1)..cursor[s] : e < OldestSeq \/ Contains(delivered[s], e)
    BY <2>1 DEF SubscriberInv, SkipsOnlyEvicted
  <2>4. after' = [after EXCEPT ![s] = after[s]] /\ UNCHANGED logVars
    BY <1>0, <1>4 DEF TypeOK, logVars
  <2> QED BY <1>4, <2>1, <2>2, <2>3, <2>4, RunInvariant
<1>5. ASSUME NEW s \in Subscribers, Resume(s)
      PROVE  IInv'
  <2>1. snapshot[s] \in Seq(1..MaxSeq) /\ Window(snapshot[s])
    BY <1>0 DEF TypeOK, IInv, SubscriberInv
  <2> QED BY <1>4, <1>5, <2>1 DEF Resume
<1>6. ASSUME NEW s \in Subscribers, Wake(s)
      PROVE  IInv'
  <2>1. buf \in Seq(1..MaxSeq) /\ Window(buf)
    BY <1>0 DEF TypeOK, RingIsTail
  <2> QED BY <1>4, <1>6, <2>1 DEF Wake
<1>7. ASSUME NEW s \in Subscribers, Cancel(s)
      PROVE  IInv'
  <2>1. /\ buf' = buf /\ nextSeq' = nextSeq /\ closed' = closed
        /\ LastSeq' = LastSeq /\ OldestSeq' = OldestSeq
        /\ after' = after /\ cursor' = cursor /\ delivered' = delivered
        /\ waiters' = waiters /\ signalled' = signalled
        /\ pc' = [pc EXCEPT ![s] = "cancelled"]
        /\ snapshot' = [snapshot EXCEPT ![s] = <<>>]
    BY <1>7 DEF Cancel, LastSeq, OldestSeq
  <2>2. TypeOK'
    <3>1. <<>> \in Seq(1..MaxSeq)
      OBVIOUS
    <3>2. snapshot' \in [Subscribers -> Seq(1..MaxSeq)]
      BY <3>1, <2>1, <1>0 DEF TypeOK
    <3> QED BY <3>2, <2>1, <1>0 DEF TypeOK, Places
  <2>3. RingIsTail'
    BY <1>0, <2>1 DEF RingIsTail, Window
  <2>4. ASSUME NEW t \in Subscribers
        PROVE  SubscriberInv(t)'
    <3>1. SubscriberInv(t)
      BY DEF IInv
    <3>2. CASE t = s
      <4>1. Len(snapshot'[s]) = 0 /\ pc'[s] = "cancelled" /\ Live(s)
        BY <1>0, <1>7, <2>1 DEF TypeOK, Cancel
      <4> QED BY <2>1, <3>1, <3>2, <4>1
              DEF SubscriberInv, Window, CursorBounds, SkipsOnlyEvicted, Wakeable,
                  RefusalIsDue, Live
    <3>3. CASE t # s
      <4>1. snapshot'[t] = snapshot[t] /\ pc'[t] = pc[t]
        BY <1>0, <2>1, <3>3 DEF TypeOK
      <4> QED BY <2>1, <3>1, <4>1
              DEF SubscriberInv, Window, CursorBounds, SkipsOnlyEvicted, Wakeable,
                  RefusalIsDue
    <3> QED BY <3>2, <3>3
  <2> QED BY <2>2, <2>3, <2>4 DEF IInv
<1>8. CASE UNCHANGED vars
  BY <1>8 DEF vars, IInv, TypeOK, RingIsTail, SubscriberInv, Window, CursorBounds,
              SkipsOnlyEvicted, Wakeable, RefusalIsDue, LastSeq, OldestSeq
<1> QED BY <1>1, <1>2, <1>3, <1>5, <1>6, <1>7, <1>8 DEF Next, Step
-----------------------------------------------------------------------------
(* The theorems.                                                           *)

\* The invariant holds in every reachable state.
THEOREM InductiveInvariant == Spec => []IInv
BY InitInvariant, NextInvariant, PTL DEF Spec

\* Every variable keeps its type, the ring and each history included.
THEOREM TypeCorrect == Spec => []TypeOK
<1>1. IInv => TypeOK
  BY DEF IInv
<1> QED BY <1>1, InductiveInvariant, PTL

\* A subscriber sees events in the order of their numbers, none twice.
THEOREM DeliveryInOrder == Spec => []InOrderOnce
<1>1. IInv => InOrderOnce
  <2> SUFFICES ASSUME IInv, NEW s \in Subscribers
               PROVE  Increasing(delivered[s]) /\ Within(delivered[s], after[s], LastSeq)
    BY DEF InOrderOnce
  <2>1. SubscriberInv(s) /\ TypeOK
    BY DEF IInv
  <2>2. /\ cursor[s] \in Nat /\ LastSeq \in Nat
        /\ \A i \in 1..Len(delivered[s]) : delivered[s][i] \in 1..MaxSeq
    BY <2>1, Elements
  <2> QED BY <2>1, <2>2 DEF SubscriberInv, CursorBounds, Within
<1> QED BY <1>1, InductiveInvariant, PTL

\* What a cursor has passed was yielded, or the ring no longer holds it.
THEOREM NothingRetainedIsSkipped == Spec => []OnlyEvictedSkipped
<1>1. IInv => OnlyEvictedSkipped
  BY DEF IInv, SubscriberInv, OnlyEvictedSkipped
<1> QED BY <1>1, InductiveInvariant, PTL

\* A parked subscriber's waiter is set or on the list of an open log.
THEOREM WaitersAreReachable == Spec => []NoLostWaiter
<1>1. IInv => NoLostWaiter
  BY DEF IInv, SubscriberInv, NoLostWaiter
<1> QED BY <1>1, InductiveInvariant, PTL

\* A 412 is answered only when the next event is gone.
THEOREM RefusalsAreDue == Spec => []RefusedOnlyIfLost
<1>1. IInv => RefusedOnlyIfLost
  BY DEF IInv, SubscriberInv, RefusedOnlyIfLost
<1> QED BY <1>1, InductiveInvariant, PTL
-----------------------------------------------------------------------------
(* The log implements the feed.                                            *)

LEMMA PhaseMoves ==
  ASSUME TypeOK, NEW s \in Subscribers, NEW place, pc' = [pc EXCEPT ![s] = place]
  PROVE  Phases' = [Phases EXCEPT ![s] = PhaseOf(place)]
BY DEF Phases, TypeOK

\* Where the ring lies: every number from OldestSeq to LastSeq, in order.
LEMMA RingHolds ==
  ASSUME IInv
  PROVE  /\ Len(buf) \in Nat
         /\ \A i \in 1..Len(buf) : buf[i] = OldestSeq + (i - 1)
         /\ Len(buf) = nextSeq - OldestSeq
         /\ LastSeq > 0 => OldestSeq <= LastSeq
<1>1. /\ TypeOK /\ RingIsTail
      /\ Len(buf) \in Nat /\ nextSeq \in Nat /\ OldestSeq \in Nat
  BY Elements DEF IInv, TypeOK
<1>2. Len(buf) = nextSeq - OldestSeq
  BY <1>1 DEF RingIsTail
<1>3. \A i \in 1..Len(buf) : buf[i] = OldestSeq + (i - 1)
  BY <1>1 DEF RingIsTail, Window, OldestSeq
<1>4. LastSeq > 0 => OldestSeq <= LastSeq
  BY <1>1, <1>2 DEF RingIsTail, LastSeq
<1> QED BY <1>1, <1>2, <1>3, <1>4

\* A generator that yields takes an event the feed offers a reader at c.
LEMMA YieldIsOffered ==
  ASSUME IInv, NEW s \in Subscribers, NEW events \in Seq(1..MaxSeq), Window(events),
         NEW c \in 0..MaxSeq, YieldNext(s, events, c), UNCHANGED logVars
  PROVE  Feed!ReadFrom(s, c)
<1>0. TypeOK /\ LastSeq \in Nat /\ OldestSeq \in Nat
  BY Elements DEF IInv
<1>1. PICK i \in 1..Len(events) :
        /\ FirstPast(events, c, i)
        /\ cursor' = [cursor EXCEPT ![s] = events[i]]
        /\ delivered' = [delivered EXCEPT ![s] = Append(@, events[i])]
        /\ pc' = [pc EXCEPT ![s] = "yielded"]
  BY DEF YieldNext
<1> DEFINE e == events[i]
<1>2. e \in 1..MaxSeq /\ c < e /\ e <= LastSeq
  BY <1>1 DEF FirstPast, Window
<1>3. \A x \in Nat : c < x /\ x < e => x < OldestSeq
  BY <1>0, <1>1, FirstPastSkipsOnlyEvicted
<1>4. e \in Feed!NextFor(c)
  BY <1>0, <1>2, <1>3 DEF Feed!NextFor
<1>5. Phases' = [Phases EXCEPT ![s] = "reading"]
  BY <1>0, <1>1, PhaseMoves DEF PhaseOf
<1> QED BY <1>1, <1>4, <1>5 DEF Feed!ReadFrom

LEMMA FeedInit == Init => Feed!Init
BY DEF Init, Feed!Init, LastSeq, OldestSeq, Phases, PhaseOf

LEMMA FeedStep == IInv /\ [Next]_vars => [Feed!Next]_(Feed!feedVars)
<1> SUFFICES ASSUME IInv, [Next]_vars PROVE [Feed!Next]_(Feed!feedVars)
  OBVIOUS
<1>0. /\ TypeOK /\ RingIsTail
      /\ nextSeq \in Nat /\ LastSeq \in Nat /\ OldestSeq \in Nat
  BY Elements DEF IInv
<1>1. CASE Record /\ closed' \in BOOLEAN /\ (~closed' => nextSeq < MaxSeq)
  <2>1. IInv'
    BY <1>1, RecordInvariant
  <2>2. /\ LastSeq' = LastSeq + 1 /\ LastSeq' > 0 /\ ~closed
        /\ pc' = pc /\ cursor' = cursor /\ delivered' = delivered
    BY <1>0, <1>1 DEF Record, LastSeq
  <2>3. OldestSeq' \in OldestSeq..LastSeq'
    <3>1. /\ OldestSeq' <= LastSeq'
          /\ OldestSeq' = nextSeq' - Len(buf')
      <4>1. /\ OldestSeq' = nextSeq' - Len(buf') /\ Len(buf') > 0
            /\ Len(buf') \in Nat /\ nextSeq' \in Nat /\ LastSeq' = nextSeq' - 1
        BY <2>1, <2>2 DEF IInv, RingIsTail, TypeOK, LastSeq
      <4> QED BY <4>1
    <3>2. Len(buf') <= Len(buf) + 1
      <4>1. /\ buf \in Seq(1..MaxSeq) /\ nextSeq \in 1..MaxSeq
            /\ Len(buf) <= MaxSize /\ buf' = Push(buf, nextSeq)
        BY <1>0, <1>1 DEF TypeOK, RingIsTail, Record
      <4> QED BY <4>1, PushProperties
    <3>3. OldestSeq = nextSeq - Len(buf) /\ Len(buf) \in Nat /\ Len(buf') \in Nat
      BY <1>0, <2>1 DEF RingIsTail, IInv, TypeOK
    <3> QED BY <3>1, <3>2, <3>3, <1>0, <1>1 DEF Record
  <2>4. Phases' = Phases
    BY <2>2 DEF Phases
  <2> QED BY <1>1, <2>2, <2>3, <2>4 DEF Feed!Next, Feed!Publish, Feed!readerVars
<1>2. ASSUME NEW s \in Subscribers, NEW k \in 0..MaxSeq, Subscribe(s, k)
      PROVE  Feed!Refuse(s) \/ Feed!Join(s)
  <2>1. /\ pc[s] = "idle" /\ UNCHANGED logVars
        /\ LastSeq' = LastSeq /\ OldestSeq' = OldestSeq /\ closed' = closed
        /\ Phases[s] = "new"
    BY <1>2 DEF Subscribe, logVars, LastSeq, OldestSeq, Phases, PhaseOf
  <2>2. CASE Evicted(k) /\ pc' = [pc EXCEPT ![s] = "evicted"]
             /\ UNCHANGED <<cursor, snapshot, delivered, waiters, signalled>>
    <3>1. k \in (0..MaxSeq) \ {0} /\ k + 1 < OldestSeq
      BY <1>0, <2>2 DEF Evicted
    <3>2. Phases' = [Phases EXCEPT ![s] = "refused"]
      BY <1>0, <2>2, PhaseMoves DEF PhaseOf
    <3> QED BY <2>1, <2>2, <3>1, <3>2 DEF Feed!Refuse
  <2>3. CASE ~Evicted(k) /\ Run(s, buf, k)
    <3>1. k = 0 \/ k + 1 >= OldestSeq
      BY <1>0, <2>3, RingHolds DEF Evicted, LastSeq
    <3>2. k \in 0..MaxSeq
      OBVIOUS
    <3>3. CASE YieldNext(s, buf, k)
      <4>1. Feed!ReadFrom(s, k)
        BY <1>0, <2>1, <3>2, <3>3, YieldIsOffered DEF TypeOK, RingIsTail
      <4> QED BY <2>1, <3>1, <4>1 DEF Feed!Join
    <3>4. CASE EndDrain(s, buf, k)
      <4>1. Feed!NextFor(k) = {}
        <5>1. LastSeq <= k
          <6>1. CASE Len(buf) = 0
            BY <6>1, <1>0 DEF RingIsTail
          <6>2. CASE Len(buf) > 0
            <7>1. Len(buf) \in 1..Len(buf) /\ buf[Len(buf)] <= k
              BY <6>2, <3>4, <1>0 DEF EndDrain, TypeOK
            <7>2. buf[Len(buf)] = LastSeq
              BY <7>1, <1>0, RingHolds DEF LastSeq
            <7> QED BY <7>1, <7>2
          <6> QED BY <6>1, <6>2, RingHolds
        <5> QED BY <5>1, <1>0 DEF Feed!NextFor
      <4>2. pc' = [pc EXCEPT ![s] = IF closed THEN "ended" ELSE "parked"]
            /\ cursor' = [cursor EXCEPT ![s] = k] /\ delivered' = delivered
        BY <3>4 DEF EndDrain
      <4>3. Phases' = [Phases EXCEPT ![s] = IF closed THEN "over" ELSE "reading"]
        BY <1>0, <4>2, PhaseMoves DEF PhaseOf
      <4> QED BY <2>1, <3>1, <4>1, <4>2, <4>3 DEF Feed!Join
    <3> QED BY <2>3, <3>3, <3>4 DEF Run
  <2> QED BY <1>2, <2>2, <2>3 DEF Subscribe
<1>3. ASSUME NEW s \in Subscribers, NEW events \in Seq(1..MaxSeq), Window(events),
             pc[s] \in {"yielded", "parked"}, Run(s, events, cursor[s]),
             UNCHANGED <<buf, nextSeq, closed, after>>
      PROVE  Feed!Read(s) \/ Feed!Leave(s) \/ UNCHANGED Feed!feedVars
  <2>1. /\ LastSeq' = LastSeq /\ OldestSeq' = OldestSeq /\ closed' = closed
        /\ UNCHANGED logVars /\ Phases[s] = "reading" /\ cursor[s] \in 0..MaxSeq
        /\ Phases \in [Subscribers -> {"new", "reading", "over", "refused"}]
    BY <1>0, <1>3 DEF logVars, LastSeq, OldestSeq, Phases, PhaseOf, TypeOK
  <2>2. CASE YieldNext(s, events, cursor[s])
    <3>1. Feed!ReadFrom(s, cursor[s])
      BY <1>3, <2>1, <2>2, YieldIsOffered
    <3> QED BY <2>1, <3>1 DEF Feed!Read
  <2>3. CASE EndDrain(s, events, cursor[s])
    <3>1. /\ pc' = [pc EXCEPT ![s] = IF closed THEN "ended" ELSE "parked"]
          /\ cursor' = [cursor EXCEPT ![s] = cursor[s]] /\ delivered' = delivered
      BY <2>3 DEF EndDrain
    <3>2. cursor' = cursor
      BY <1>0, <3>1 DEF TypeOK
    <3>3. Phases' = [Phases EXCEPT ![s] = IF closed THEN "over" ELSE "reading"]
      BY <1>0, <3>1, PhaseMoves DEF PhaseOf
    <3>4. CASE closed
      BY <2>1, <3>1, <3>2, <3>3, <3>4 DEF Feed!Leave
    <3>5. CASE ~closed
      <4>1. Phases' = Phases
        BY <2>1, <3>3, <3>5
      <4> QED BY <2>1, <3>1, <3>2, <4>1 DEF Feed!feedVars
    <3> QED BY <3>4, <3>5
  <2> QED BY <1>3, <2>2, <2>3 DEF Run
<1>4. ASSUME NEW s \in Subscribers, Resume(s)
      PROVE  Feed!Read(s) \/ Feed!Leave(s) \/ UNCHANGED Feed!feedVars
  <2>1. snapshot[s] \in Seq(1..MaxSeq) /\ Window(snapshot[s])
    BY <1>0 DEF TypeOK, IInv, SubscriberInv
  <2> QED BY <1>3, <1>4, <2>1 DEF Resume
<1>5. ASSUME NEW s \in Subscribers, Wake(s)
      PROVE  Feed!Read(s) \/ Feed!Leave(s) \/ UNCHANGED Feed!feedVars
  <2>1. buf \in Seq(1..MaxSeq) /\ Window(buf)
    BY <1>0 DEF TypeOK, RingIsTail
  <2> QED BY <1>3, <1>5, <2>1 DEF Wake
<1>6. ASSUME NEW s \in Subscribers, Cancel(s)
      PROVE  Feed!Leave(s)
  <2>1. /\ LastSeq' = LastSeq /\ OldestSeq' = OldestSeq /\ closed' = closed
        /\ cursor' = cursor /\ delivered' = delivered
        /\ Phases[s] = "reading"
    BY <1>6 DEF Cancel, Live, LastSeq, OldestSeq, Phases, PhaseOf
  <2>2. Phases' = [Phases EXCEPT ![s] = "over"]
    BY <1>0, <1>6, PhaseMoves DEF Cancel, PhaseOf
  <2> QED BY <2>1, <2>2 DEF Feed!Leave
<1>7. CASE UNCHANGED vars
  BY <1>7 DEF vars, Feed!feedVars, LastSeq, OldestSeq, Phases
<1>8. CASE AppendEvent \/ CloseLog
  BY <1>0, <1>1, <1>8 DEF AppendEvent, CloseLog, TypeOK
<1> QED BY <1>2, <1>4, <1>5, <1>6, <1>7, <1>8 DEF Next, Step, Feed!Next

\* The first event of an accepted resume after k > 0 is k + 1.
LEMMA ResumeStep ==
  ASSUME IInv, [Next]_vars, NEW s \in Subscribers,
         pc[s] = "idle", pc'[s] = "yielded", after'[s] > 0
  PROVE  delivered'[s] = <<after'[s] + 1>>
<1>0. TypeOK /\ LastSeq \in Nat /\ OldestSeq \in Nat
  BY Elements DEF IInv
<1>1. PICK k \in 0..MaxSeq : Subscribe(s, k)
  <2>1. pc'[s] # pc[s]
    OBVIOUS
  <2>2. ASSUME NEW t \in Subscribers, NEW k \in 0..MaxSeq, Subscribe(t, k)
        PROVE  t = s
    BY <2>1, <2>2, <1>0 DEF Subscribe, Run, YieldNext, EndDrain, TypeOK
  <2>3. ASSUME NEW t \in Subscribers, Step(t) \/ Cancel(t)
        PROVE  FALSE
    BY <2>3, <1>0 DEF Step, Resume, Wake, Cancel, Live, Run, YieldNext, EndDrain, TypeOK
  <2>4. ~AppendEvent /\ ~CloseLog /\ ~UNCHANGED vars
    BY <2>1 DEF AppendEvent, CloseLog, Record, vars
  <2> QED BY <2>2, <2>3, <2>4 DEF Next
<1>2. after'[s] = k /\ ~Evicted(k) /\ YieldNext(s, buf, k)
  BY <1>0, <1>1 DEF Subscribe, Run, EndDrain, TypeOK
<1>3. PICK i \in 1..Len(buf) :
        /\ FirstPast(buf, k, i)
        /\ delivered' = [delivered EXCEPT ![s] = Append(@, buf[i])]
  BY <1>2 DEF YieldNext
<1>4. buf[i] = OldestSeq + (i - 1) /\ OldestSeq <= k + 1 /\ k < buf[i] /\ Len(buf) \in Nat
  BY <1>0, <1>2, <1>3, RingHolds DEF Evicted, FirstPast
<1>5. buf[i] = k + 1
  <2>1. CASE i = 1
    BY <2>1, <1>0, <1>4
  <2>2. CASE i # 1
    <3>1. i - 1 \in 1..(i-1) /\ i - 1 \in 1..Len(buf)
      BY <2>2, <1>4
    <3>2. buf[i-1] = OldestSeq + (i - 2) /\ buf[i-1] <= k
      BY <3>1, <1>3, RingHolds DEF FirstPast
    <3> QED BY <3>2, <1>0, <1>4
  <2> QED BY <2>1, <2>2
<1>6. delivered[s] = <<>>
  <2>1. SubscriberInv(s) /\ delivered[s] \in Seq(1..MaxSeq) /\ after[s] \in Nat
    BY <1>0 DEF IInv, TypeOK
  <2>2. Within(delivered[s], after[s], 0)
    BY <2>1 DEF SubscriberInv, CursorBounds
  <2>3. ASSUME Len(delivered[s]) # 0
        PROVE  FALSE
    <3>1. 1 \in 1..Len(delivered[s]) /\ delivered[s][1] \in 1..MaxSeq
      BY <2>1, <2>3
    <3>2. after[s] < delivered[s][1] /\ delivered[s][1] <= 0
      BY <2>2, <3>1 DEF Within
    <3> QED BY <3>1, <3>2
  <2> QED BY <2>1, <2>3
<1>7. delivered'[s] = Append(<<>>, k + 1)
  BY <1>0, <1>3, <1>5, <1>6 DEF TypeOK
<1> QED BY <1>2, <1>7

THEOREM ResumeStartsAtNext == Spec => ResumesAtNext
<1>1. IInv /\ [Next]_vars =>
        [\A s \in Subscribers :
           (pc[s] = "idle" /\ pc'[s] = "yielded" /\ after'[s] > 0)
             => delivered'[s] = <<after'[s] + 1>>]_vars
  BY ResumeStep
<1> QED BY <1>1, InductiveInvariant, PTL DEF Spec, ResumesAtNext

\* The ring, the snapshots and the waiters together provide the feed.
THEOREM LogImplementsFeed == Spec => ImplementsFeed
BY InductiveInvariant, FeedInit, FeedStep, PTL DEF Spec, ImplementsFeed, Feed!Spec
=============================================================================
