----------------------------- MODULE GenUIProofs -----------------------------
(***************************************************************************)
(* Proofs about GenUI for every set of tool calls, every length of their    *)
(* inputs and any number of events, resets and attachments.                 *)
(***************************************************************************)
EXTENDS GenUI, FiniteSetTheorems, SequenceTheorems, WellFoundedInduction, TLAPS

USE GenUIAssumption, NoneAssumption

(* Induction over the first numbers, and the queue of React.               *)

\* What holds of 0, and of the next number with each, holds of all up to m.
LEMMA Climb ==
  ASSUME NEW m \in Nat, NEW T, 0 \in T, \A n \in 0..(m - 1) : n \in T => n + 1 \in T
  PROVE  \A n \in 0..m : n \in T
<1> DEFINE Bad == {n \in 0..m : n \notin T}
<1> SUFFICES ASSUME Bad # {} PROVE FALSE
  OBVIOUS
<1>1. Bad \subseteq Nat
  OBVIOUS
<1>2. PICK b \in Bad : \A n \in Bad : ~ (<<n, b>> \in OpToRel(<, Nat))
  <2> HIDE DEF Bad
  <2> QED BY <1>1, NatLessThanWellFounded, WFMin
<1>3. b \in 0..m /\ b \notin T /\ b # 0
  OBVIOUS
<1>4. b - 1 \in 0..(m - 1) /\ b - 1 \in 0..m /\ (b - 1) + 1 = b
  BY <1>3
<1>5. b - 1 \notin Bad
  <2> DEFINE c == b - 1
  <2>1. <<c, b>> \in OpToRel(<, Nat) <=> <<c, b>> \in Nat \X Nat /\ <<c, b>>[1] < <<c, b>>[2]
    BY ZenonT(20) DEF OpToRel
  <2>2. c \in Nat /\ b \in Nat /\ c < b
    BY <1>3, <1>4
  <2>3. <<c, b>> \in OpToRel(<, Nat)
    <3> HIDE DEF c
    <3> QED BY <2>1, <2>2
  <2> QED BY <1>2, <2>3
<1> QED BY <1>3, <1>4, <1>5

\* The list and index after n + 1 entries are those after n, and the next entry.
LEMMA AppliedEquation ==
  ASSUME NEW r, NEW q, Len(q) \in Nat
  PROVE  \A n \in 0..Len(q) :
           Applied(r, q)[n] = IF n = 0 THEN r ELSE Apply(Applied(r, q)[n - 1], q[n])
<1> DEFINE N == Len(q)
           Step(g, n) == IF n = 0 THEN r ELSE Apply(g[n - 1], q[n])
           Upto(g, n) == g = [k \in 0..n |-> Step(g, k)]
           T == {n \in 0..N : \E g : Upto(g, n)}
<1>1. 0 \in T
  <2> DEFINE g == [k \in 0..0 |-> r]
  <2>1. \A k \in 0..0 : Step(g, k) = r
    OBVIOUS
  <2>2. Upto(g, 0)
    BY <2>1
  <2>3. 0 \in 0..N
    OBVIOUS
  <2> HIDE DEF Upto, g
  <2> QED BY <2>2, <2>3
<1>2. ASSUME NEW n \in 0..(N - 1), NEW g, Upto(g, n) PROVE \E h : Upto(h, n + 1)
  <2> DEFINE h == [k \in 0..(n + 1) |-> IF k = n + 1 THEN Step(g, n + 1) ELSE g[k]]
  <2>1. n \in Nat /\ \A k \in 0..(n + 1) : k = n + 1 \/ k \in 0..n
    OBVIOUS
  <2>2. \A k \in 0..n : h[k] = g[k]
    BY <2>1
  <2>3. ASSUME NEW k \in 0..(n + 1) PROVE Step(h, k) = Step(g, k)
    <3>1. CASE k = 0
      BY <3>1
    <3>2. CASE k # 0
      <4>1. k - 1 \in 0..n
        BY <2>1, <3>2
      <4>2. h[k - 1] = g[k - 1]
        BY <2>2, <4>1
      <4> HIDE DEF h
      <4> QED BY <3>2, <4>2
    <3> QED BY <3>1, <3>2
  <2>4. \A k \in 0..n : g[k] = Step(g, k)
    <3> HIDE DEF Step
    <3> QED BY <1>2
  <2>5. h[n + 1] = Step(g, n + 1)
    BY <2>1
  <2>6. \A k \in 0..(n + 1) : h[k] = Step(h, k)
    <3> HIDE DEF Step, h
    <3> QED BY <2>1, <2>2, <2>3, <2>4, <2>5
  <2>7. h = [k \in 0..(n + 1) |-> Step(h, k)]
    <3>1. h = [k \in 0..(n + 1) |-> h[k]]
      OBVIOUS
    <3> HIDE DEF h, Step
    <3> QED BY <2>6, <3>1
  <2> HIDE DEF h, Step
  <2> QED BY <2>7
<1>3. \A n \in 0..(N - 1) : n \in T => n + 1 \in T
  <2>1. \A n \in 0..(N - 1) : n + 1 \in 0..N
    OBVIOUS
  <2> HIDE DEF Upto
  <2> QED BY <1>2, <2>1
<1>4. \A n \in 0..N : n \in T
  <2> HIDE DEF T
  <2> QED BY <1>1, <1>3, Climb
<1>5. N \in T
  <2> HIDE DEF T
  <2> QED BY <1>4
<1>6. PICK g : Upto(g, N)
  <2> HIDE DEF Upto
  <2> QED BY <1>5
<1>7. Applied(r, q) = CHOOSE f : f = [n \in 0..N |-> IF n = 0 THEN r ELSE Apply(f[n - 1], q[n])]
  BY DEF Applied
<1>8. Applied(r, q) = [n \in 0..N |-> IF n = 0 THEN r ELSE Apply(Applied(r, q)[n - 1], q[n])]
  BY <1>6, <1>7
<1> QED BY <1>8

\* One more entry applies to what the others left.
LEMMA AppliedAppend ==
  ASSUME NEW S, NEW q \in Seq(S), NEW o \in S, NEW r
  PROVE  Applied(r, Append(q, o))[Len(Append(q, o))] = Apply(Applied(r, q)[Len(q)], o)
<1> DEFINE N == Len(q)
           p == Append(q, o)
           A == Applied(r, q)
           B == Applied(r, p)
           T == {n \in 0..N : A[n] = B[n]}
<1>1. /\ N \in Nat /\ Len(p) = N + 1 /\ p[N + 1] = o
      /\ \A n \in 1..N : p[n] = q[n]
  OBVIOUS
<1>2. \A n \in 0..N : A[n] = IF n = 0 THEN r ELSE Apply(A[n - 1], q[n])
  BY <1>1, AppliedEquation
<1>3. \A n \in 0..(N + 1) : B[n] = IF n = 0 THEN r ELSE Apply(B[n - 1], p[n])
  <2> HIDE DEF p, N
  <2> QED BY <1>1, AppliedEquation
<1> HIDE DEF A, B, p, N
<1>4. 0 \in T
  BY <1>1, <1>2, <1>3
<1>5. ASSUME NEW n \in 0..(N - 1), n \in T PROVE n + 1 \in T
  <2>1. n + 1 \in 1..N /\ n + 1 \in 0..N /\ n + 1 \in 0..(N + 1) /\ (n + 1) - 1 = n /\ n + 1 # 0
    BY <1>1
  <2>2. A[n + 1] = Apply(A[n], q[n + 1])
    BY <1>2, <2>1
  <2>3. B[n + 1] = Apply(B[n], p[n + 1])
    BY <1>3, <2>1
  <2> QED BY <1>1, <1>5, <2>1, <2>2, <2>3
<1>6. N \in 0..N /\ N + 1 \in 0..(N + 1) /\ (N + 1) - 1 = N /\ N + 1 # 0
  BY <1>1
<1>7. N \in T
  <2> HIDE DEF T
  <2> QED BY <1>1, <1>4, <1>5, <1>6, Climb
<1>8. B[N + 1] = Apply(B[N], p[N + 1])
  BY <1>3, <1>6
<1>9. B[Len(p)] = Apply(A[N], o)
  BY <1>1, <1>7, <1>8
<1> QED BY <1>9 DEF A, B, N, p

\* Nothing applied leaves the list and the index.
LEMMA AppliedNone == ASSUME NEW r PROVE Applied(r, <<>>)[Len(<<>>)] = r
<1>1. Len(<<>>) = 0 /\ 0 \in 0..Len(<<>>) /\ Len(<<>>) \in Nat
  OBVIOUS
<1> QED BY <1>1, AppliedEquation

(* A list and its index: what an updater leaves of them.                   *)

Lists == Seq(Updates \cup {None})
Ops == [op : {"put"}, update : Updates] \cup [op : {"set"}, list : Lists]
Views == [list : Lists, index : [Ids -> Nat]]

\* Where an update goes.
Spot(r, u) == IF r.index[u.id] = 0 THEN Len(r.list) + 1 ELSE r.index[u.id]

PlacedAt(r, u, p) ==
  /\ p.list \in Lists /\ p.index \in [Ids -> Nat]
  /\ Len(p.list) = IF Spot(r, u) > Len(r.list) THEN Spot(r, u) ELSE Len(r.list)
  /\ \A i \in 1..Len(p.list) :
       p.list[i] = IF i = Spot(r, u) THEN u ELSE IF i <= Len(r.list) THEN r.list[i] ELSE None
  /\ \A id \in Ids : p.index[id] = IF id = u.id THEN Spot(r, u) ELSE r.index[id]

LEMMA ViewFields ==
  ASSUME NEW r \in Views
  PROVE  /\ r.list \in Lists /\ r.index \in [Ids -> Nat] /\ Len(r.list) \in Nat
         /\ \A id \in Ids : r.index[id] \in Nat
BY DEF Views, Lists

LEMMA UpdateFields ==
  ASSUME NEW u \in Updates PROVE u.id \in Ids /\ u.props \in Seq(1..Chunks) /\ u.complete \in BOOLEAN
BY DEF Updates

LEMMA SpotIs ==
  ASSUME NEW r \in Views, NEW u \in Updates
  PROVE  Spot(r, u) \in Nat /\ Spot(r, u) # 0
BY ViewFields, UpdateFields DEF Spot

LEMMA PlaceList ==
  ASSUME NEW r \in Views, NEW u \in Updates
  PROVE  PlacedAt(r, u, Place(r, u))
<1> DEFINE at == Spot(r, u)
           n == IF at > Len(r.list) THEN at ELSE Len(r.list)
           l == [i \in 1..n |-> IF i = at THEN u ELSE IF i <= Len(r.list) THEN r.list[i] ELSE None]
           p == Place(r, u)
<1>1. p.list = l /\ p.index = [r.index EXCEPT ![u.id] = at]
  BY DEF Place, Spot
<1>2. at \in Nat /\ n \in Nat /\ Len(r.list) \in Nat
  BY SpotIs, ViewFields
<1>3. r.list \in Seq(Updates \cup {None}) /\ r.index \in [Ids -> Nat] /\ u.id \in Ids
  BY ViewFields, UpdateFields DEF Lists
<1> HIDE DEF at, p
<1>4. \A i \in 1..n : l[i] \in Updates \cup {None}
  <2> SUFFICES ASSUME NEW i \in 1..n PROVE l[i] \in Updates \cup {None}
    OBVIOUS
  <2>1. i <= Len(r.list) => i \in 1..Len(r.list)
    BY <1>2
  <2>2. i <= Len(r.list) => r.list[i] \in Updates \cup {None}
    BY <1>3, <2>1
  <2> QED BY <2>2
<1>5. l \in Seq(Updates \cup {None}) /\ Len(l) = n
  <2>1. l \in [1..n -> Updates \cup {None}]
    BY <1>4
  <2>2. l \in Seq(Updates \cup {None})
    <3> HIDE DEF l, n
    <3> QED BY <1>2, <2>1, IsASeq
  <2>3. DOMAIN l = 1..n
    OBVIOUS
  <2>4. DOMAIN l = 1..Len(l) /\ Len(l) \in Nat
    <3> HIDE DEF l, n
    <3> QED BY <2>2
  <2>5. Len(l) = n
    <3> HIDE DEF l, n
    <3> QED BY <1>2, <2>3, <2>4
  <2> QED BY <2>2, <2>5
<1>6. \A i \in 1..n : l[i] = IF i = at THEN u ELSE IF i <= Len(r.list) THEN r.list[i] ELSE None
  OBVIOUS
<1>7. p.index \in [Ids -> Nat] /\ \A id \in Ids : p.index[id] = IF id = u.id THEN at ELSE r.index[id]
  BY <1>1, <1>2, <1>3
<1>8. Len(p.list) = n /\ p.list \in Lists
  <2> HIDE DEF l, n
  <2> QED BY <1>1, <1>5 DEF Lists
<1>9. \A i \in 1..Len(p.list) :
        p.list[i] = IF i = at THEN u ELSE IF i <= Len(r.list) THEN r.list[i] ELSE None
  <2> HIDE DEF l, n
  <2> QED BY <1>1, <1>6, <1>8
<1> QED BY <1>7, <1>8, <1>9 DEF PlacedAt, at, p

LEMMA PlaceType ==
  ASSUME NEW r \in Views, NEW u \in Updates
  PROVE  Place(r, u) \in Views
<1>1. Place(r, u).list \in Lists /\ Place(r, u).index \in [Ids -> Nat]
  BY PlaceList DEF PlacedAt
<1>2. Place(r, u) = [list |-> Place(r, u).list, index |-> Place(r, u).index]
  BY DEF Place
<1> QED BY <1>1, <1>2 DEF Views

\* An entry of the queue leaves a list and an index, and a position once given.
LEMMA ApplyType ==
  ASSUME NEW r \in Views, NEW o \in Ops
  PROVE  /\ Apply(r, o) \in Views
         /\ \A id \in Ids : r.index[id] # 0 => Apply(r, o).index[id] = r.index[id]
<1>1. CASE o.op = "put"
  <2>1. o.update \in Updates
    BY <1>1 DEF Ops
  <2>2. Apply(r, o) = Place(r, o.update)
    BY <1>1 DEF Apply
  <2>3. ASSUME NEW id \in Ids, r.index[id] # 0 PROVE Place(r, o.update).index[id] = r.index[id]
    BY <2>1, <2>3, PlaceList DEF PlacedAt, Spot
  <2> QED BY <2>1, <2>2, <2>3, PlaceType
<1>2. CASE o.op # "put"
  <2>1. o.list \in Lists
    BY <1>2 DEF Ops
  <2>2. Apply(r, o) = [r EXCEPT !.list = o.list]
    BY <1>2 DEF Apply
  <2> QED BY <2>1, <2>2 DEF Views
<1> QED BY <1>1, <1>2

LEMMA AppliedType ==
  ASSUME NEW r \in Views, NEW q \in Seq(Ops)
  PROVE  \A n \in 0..Len(q) : Applied(r, q)[n] \in Views
<1> DEFINE N == Len(q)
           A == Applied(r, q)
           T == {n \in 0..N : A[n] \in Views}
<1>1. N \in Nat /\ \A n \in 1..N : q[n] \in Ops
  OBVIOUS
<1>2. \A n \in 0..N : A[n] = IF n = 0 THEN r ELSE Apply(A[n - 1], q[n])
  BY <1>1, AppliedEquation
<1> HIDE DEF A, N
<1>3. 0 \in T
  BY <1>1, <1>2
<1>4. ASSUME NEW n \in 0..(N - 1), n \in T PROVE n + 1 \in T
  <2>1. n + 1 \in 1..N /\ n + 1 \in 0..N /\ (n + 1) - 1 = n /\ n + 1 # 0
    BY <1>1
  <2>2. A[n + 1] = Apply(A[n], q[n + 1]) /\ A[n] \in Views /\ q[n + 1] \in Ops
    BY <1>1, <1>2, <1>4, <2>1
  <2> QED BY <2>1, <2>2, ApplyType
<1>5. \A n \in 0..N : n \in T
  <2> HIDE DEF T
  <2> QED BY <1>1, <1>3, <1>4, Climb
<1> QED BY <1>5 DEF A, N

\* A position once given stays to the end of the queue.
LEMMA PositionStays ==
  ASSUME NEW r \in Views, NEW q \in Seq(Ops), NEW m \in 0..Len(q), NEW id \in Ids,
         Applied(r, q)[m].index[id] # 0
  PROVE  Applied(r, q)[Len(q)].index[id] = Applied(r, q)[m].index[id]
<1> DEFINE N == Len(q)
           A == Applied(r, q)
           T == {n \in 0..N : m <= n => A[n].index[id] = A[m].index[id]}
<1>1. N \in Nat /\ m \in 0..N /\ \A n \in 1..N : q[n] \in Ops
  OBVIOUS
<1>2. \A n \in 0..N : A[n] = IF n = 0 THEN r ELSE Apply(A[n - 1], q[n])
  BY <1>1, AppliedEquation
<1>3. \A n \in 0..N : A[n] \in Views
  BY AppliedType
<1>4. A[m].index[id] # 0
  OBVIOUS
<1> HIDE DEF A, N
<1>5. 0 \in T
  BY <1>1
<1>6. ASSUME NEW n \in 0..(N - 1), n \in T PROVE n + 1 \in T
  <2>1. n + 1 \in 1..N /\ n + 1 \in 0..N /\ (n + 1) - 1 = n /\ n + 1 # 0 /\ n \in 0..N
    BY <1>1
  <2>2. A[n + 1] = Apply(A[n], q[n + 1]) /\ A[n] \in Views /\ q[n + 1] \in Ops
    BY <1>1, <1>2, <1>3, <2>1
  <2>3. A[n].index[id] # 0 => A[n + 1].index[id] = A[n].index[id]
    BY <2>2, ApplyType
  <2>4. m <= n + 1 => m <= n \/ m = n + 1
    BY <1>1
  <2> QED BY <1>4, <1>6, <2>1, <2>3, <2>4
<1>7. \A n \in 0..N : n \in T
  <2> HIDE DEF T
  <2> QED BY <1>1, <1>5, <1>6, Climb
<1>8. N \in 0..N /\ m <= N
  BY <1>1
<1> QED BY <1>7, <1>8 DEF A, N

\* With the positions of the end of the queue, an updater puts where it put.
LEMMA PlaceAgain ==
  ASSUME NEW r \in Views, NEW u \in Updates, NEW F \in [Ids -> Nat], F[u.id] = Spot(r, u)
  PROVE  Place([list |-> r.list, index |-> F], u) = [list |-> Place(r, u).list, index |-> F]
<1> DEFINE s == [list |-> r.list, index |-> F]
           n == IF Spot(r, u) > Len(r.list) THEN Spot(r, u) ELSE Len(r.list)
           L(at, l) == [i \in 1..n |-> IF i = at THEN u ELSE IF i <= Len(l) THEN l[i] ELSE None]
<1>1. s.list = r.list /\ s.index = F
  OBVIOUS
<1>2. Spot(s, u) = Spot(r, u)
  BY <1>1, SpotIs DEF Spot
<1>3. Place(r, u).list = L(Spot(r, u), r.list)
  BY DEF Place, Spot
<1>4. Place(s, u).list = L(Spot(r, u), r.list)
  BY <1>1, <1>2 DEF Place, Spot
<1>5. Place(s, u).index = [s.index EXCEPT ![u.id] = Spot(s, u)]
  BY DEF Place, Spot
<1>6. [F EXCEPT ![u.id] = F[u.id]] = F
  OBVIOUS
<1>7. Place(s, u).index = F
  BY <1>1, <1>2, <1>5, <1>6
<1>8. Place(s, u) = [list |-> Place(s, u).list, index |-> Place(s, u).index]
  BY DEF Place
<1> HIDE DEF L, s
<1> QED BY <1>3, <1>4, <1>7, <1>8 DEF s

\* StrictMode: the updaters run once for nothing, and the second run, with the
\* index the first one left, gives what a single run gives.
LEMMA SecondRun ==
  ASSUME NEW r \in Views, NEW q \in Seq(Ops)
  PROVE  LET once == Applied(r, q)[Len(q)]
         IN  Applied([list |-> r.list, index |-> once.index], q)[Len(q)] = once
<1> DEFINE N == Len(q)
           A == Applied(r, q)
           F == A[N].index
           s == [list |-> r.list, index |-> F]
           B == Applied(s, q)
           T == {n \in 0..N : B[n] = [list |-> A[n].list, index |-> F]}
<1>1. N \in Nat /\ N \in 0..N /\ \A n \in 1..N : q[n] \in Ops
  OBVIOUS
<1>2. \A n \in 0..N : A[n] = IF n = 0 THEN r ELSE Apply(A[n - 1], q[n])
  BY <1>1, AppliedEquation
<1>3. \A n \in 0..N : A[n] \in Views
  BY AppliedType
<1>4. \A m \in 0..N, id \in Ids : A[m].index[id] # 0 => F[id] = A[m].index[id]
  BY PositionStays
<1>5. \A n \in 0..N : B[n] = IF n = 0 THEN s ELSE Apply(B[n - 1], q[n])
  <2> HIDE DEF s
  <2> QED BY <1>1, AppliedEquation
<1>6. s = [list |-> r.list, index |-> F] /\ F \in [Ids -> Nat]
  BY <1>1, <1>3 DEF Views
<1> HIDE DEF A, B, F, s, N
<1>7. 0 \in T
  BY <1>1, <1>2, <1>5, <1>6
<1>8. ASSUME NEW n \in 0..(N - 1), n \in T PROVE n + 1 \in T
  <2>1. n + 1 \in 1..N /\ n + 1 \in 0..N /\ (n + 1) - 1 = n /\ n + 1 # 0 /\ n \in 0..N
    BY <1>1
  <2>2. A[n + 1] = Apply(A[n], q[n + 1]) /\ A[n] \in Views /\ q[n + 1] \in Ops /\ A[n + 1] \in Views
    BY <1>1, <1>2, <1>3, <2>1
  <2>3. B[n + 1] = Apply([list |-> A[n].list, index |-> F], q[n + 1])
    BY <1>5, <1>8, <2>1
  <2> DEFINE o == q[n + 1]
  <2>4. CASE o.op = "put"
    <3>1. o.update \in Updates
      BY <2>2, <2>4 DEF Ops
    <3>2. A[n + 1] = Place(A[n], o.update)
      BY <2>2, <2>4 DEF Apply
    <3>3. B[n + 1] = Place([list |-> A[n].list, index |-> F], o.update)
      BY <2>3, <2>4 DEF Apply
    <3>4. A[n + 1].index[o.update.id] = Spot(A[n], o.update)
      BY <2>2, <3>1, <3>2, PlaceList, UpdateFields DEF PlacedAt
    <3>5. F[o.update.id] = Spot(A[n], o.update)
      BY <1>4, <2>1, <2>2, <3>1, <3>4, SpotIs, UpdateFields
    <3>6. B[n + 1] = [list |-> Place(A[n], o.update).list, index |-> F]
      <4> HIDE DEF o
      <4> QED BY <1>6, <2>2, <3>1, <3>3, <3>5, PlaceAgain
    <3> QED BY <2>1, <3>2, <3>6
  <2>5. CASE o.op # "put"
    <3>1. A[n + 1] = [A[n] EXCEPT !.list = o.list]
      BY <2>2, <2>5 DEF Apply
    <3>2. B[n + 1] = [list |-> o.list, index |-> F]
      BY <2>3, <2>5 DEF Apply
    <3>3. A[n + 1].list = o.list
      BY <2>2, <3>1 DEF Views
    <3> QED BY <2>1, <3>2, <3>3
  <2> QED BY <2>4, <2>5
<1>9. N \in T
  <2> HIDE DEF T
  <2> QED BY <1>1, <1>7, <1>8, Climb
<1>10. A[N] = [list |-> A[N].list, index |-> A[N].index]
  BY <1>1, <1>3 DEF Views
<1>11. B[N] = A[N]
  BY <1>9, <1>10 DEF F
<1> QED BY <1>11 DEF A, B, F, N, s

(* The types of the variables, and the outcomes of an event.               *)

Events == [event : {"message_delta"}, id : Ids, chunk : 0..Chunks, named : BOOLEAN]
            \cup [event : {"tool_use"}, id : Ids]

GenTypes ==
  /\ log \in Seq(Events) /\ cursor \in 0..Len(log) /\ schema \in BOOLEAN
  /\ pending \in [Ids -> Buffers \cup {None}] /\ settled \subseteq Ids
  /\ updates \in Lists /\ queue \in Seq(Ops) /\ index \in [Ids -> Nat]
  /\ emitted \in Seq(Updates)
  /\ torn \subseteq Ids /\ crossed \in BOOLEAN
  /\ resets \in 0..MaxResets /\ attaches \in 0..MaxAttach

\* An update given, or none.
Says(u, eager) == Dispatch(u, eager) /\ emitted' = Append(emitted, u)
Quiet == UNCHANGED <<queue, index, emitted>>

\* An event is passed over, buffered, or the last of its call.
Skips(e) ==
  /\ e.event = "message_delta" => e.id \in settled
  /\ UNCHANGED <<pending, settled>> /\ Quiet
BuffersIt(e, eager) ==
  /\ e.event = "message_delta" /\ e.id \notin settled
  /\ pending' = [pending EXCEPT ![e.id] = Buffered(e)]
  /\ settled' = settled
  /\ \/ Quiet
     \/ Buffered(e).text # <<>> /\ Says(Update(e.id, Buffered(e).text, FALSE), eager)
Finishes(e, eager) ==
  /\ e.event = "tool_use"
  /\ pending' = [pending EXCEPT ![e.id] = None]
  /\ settled' = settled \cup {e.id}
  /\ Says(Update(e.id, Whole, TRUE), eager)

LEMMA EventFields ==
  ASSUME NEW e \in Events
  PROVE  /\ e.id \in Ids /\ e.event \in {"message_delta", "tool_use"}
         /\ e.event = "message_delta" => e.chunk \in 0..Chunks /\ e.named \in BOOLEAN
BY DEF Events

LEMMA WholeType == Whole \in Seq(1..Chunks) /\ Len(Whole) = Chunks
<1>1. Whole \in [1..Chunks -> 1..Chunks] /\ DOMAIN Whole = 1..Chunks
  BY DEF Whole
<1>2. Whole \in Seq(1..Chunks)
  BY <1>1, IsASeq
<1>3. DOMAIN Whole = 1..Len(Whole) /\ Len(Whole) \in Nat
  BY <1>2
<1> QED BY <1>1, <1>2, <1>3

\* What a fragment adds to the buffer.
TextBefore(e) == IF pending[e.id] = None THEN <<>> ELSE pending[e.id].text

LEMMA BufferedType ==
  ASSUME GenTypes, NEW e \in Events, e.event = "message_delta"
  PROVE  /\ Buffered(e) \in Buffers /\ TextBefore(e) \in Seq(1..Chunks)
         /\ Buffered(e).text = IF e.chunk = 0 THEN TextBefore(e) ELSE Append(TextBefore(e), e.chunk)
<1> DEFINE fresh == [named |-> e.named /\ Matches(e.id), text |-> <<>>]
           p == IF pending[e.id] = None THEN fresh ELSE pending[e.id]
<1>1. e.id \in Ids /\ e.chunk \in 0..Chunks
  BY EventFields
<1>2. pending[e.id] \in Buffers \cup {None}
  BY <1>1 DEF GenTypes
<1>3. fresh \in Buffers /\ fresh.text = <<>>
  <2>1. (e.named /\ Matches(e.id)) \in BOOLEAN
    OBVIOUS
  <2> HIDE DEF Matches
  <2> QED BY <2>1 DEF Buffers
<1> HIDE DEF fresh
<1>4. p \in Buffers /\ p.text = TextBefore(e)
  BY <1>2, <1>3 DEF TextBefore
<1>5. Buffered(e) = IF e.chunk = 0 THEN p ELSE [p EXCEPT !.text = Append(@, e.chunk)]
  BY DEF Buffered, fresh
<1> HIDE DEF p
<1>6. p.text \in Seq(1..Chunks)
  BY <1>4 DEF Buffers
<1>7. e.chunk # 0 => Append(p.text, e.chunk) \in Seq(1..Chunks)
  <2>1. e.chunk # 0 => e.chunk \in 1..Chunks
    BY <1>1
  <2> QED BY <1>6, <2>1
<1>8. e.chunk # 0 => [p EXCEPT !.text = Append(@, e.chunk)] \in Buffers
                       /\ [p EXCEPT !.text = Append(@, e.chunk)].text = Append(p.text, e.chunk)
  BY <1>4, <1>7 DEF Buffers
<1> QED BY <1>4, <1>5, <1>6, <1>8

LEMMA UpdateMade ==
  ASSUME NEW id \in Ids, NEW t \in Seq(1..Chunks), NEW c \in BOOLEAN
  PROVE  /\ Update(id, t, c) \in Updates /\ Update(id, t, c) # None
         /\ Update(id, t, c).id = id /\ Update(id, t, c).props = t /\ Update(id, t, c).complete = c
BY DEF Update, Updates

LEMMA NextEventType ==
  ASSUME GenTypes, cursor < Len(log)
  PROVE  log[cursor + 1] \in Events
<1>1. log \in Seq(Events) /\ cursor + 1 \in 1..Len(log)
  BY DEF GenTypes
<1> QED BY <1>1

LEMMA OnEventCases ==
  ASSUME GenTypes, NEW eager, OnEvent(eager)
  PROVE  /\ cursor < Len(log) /\ log[cursor + 1] \in Events
         /\ cursor' = cursor + 1 /\ UNCHANGED <<log, schema, updates, torn, crossed, resets, attaches>>
         /\ \/ Skips(log[cursor + 1]) \/ BuffersIt(log[cursor + 1], eager)
            \/ Finishes(log[cursor + 1], eager)
<1> DEFINE e == log[cursor + 1]
           r == IF e.event = "tool_use" THEN FeedToolUse(e) ELSE FeedDelta(e)
<1>1. /\ cursor < Len(log) /\ cursor' = cursor + 1
      /\ UNCHANGED <<log, schema, updates, torn, crossed, resets, attaches>>
      /\ pending' = r.pending /\ settled' = r.settled
      /\ IF r.update = None THEN Quiet ELSE Says(r.update, eager)
  BY DEF OnEvent, Quiet, Says
<1>2. e \in Events /\ e.id \in Ids /\ e.event \in {"message_delta", "tool_use"}
  BY <1>1, NextEventType, EventFields
<1> HIDE DEF e
<1>3. pending = [pending EXCEPT ![e.id] = pending[e.id]]
  BY <1>2 DEF GenTypes
<1>4. ASSUME r = Ignored(e), e.event = "message_delta" => e.id \in settled PROVE Skips(e)
  <2>1. r.update = None /\ r.pending = pending /\ r.settled = settled
    BY <1>3, <1>4 DEF Ignored, Fed
  <2> HIDE DEF r
  <2> QED BY <1>1, <1>4, <2>1 DEF Skips
<1>5. CASE e.event = "tool_use"
  <2>1. CASE ~Matches(e.id)
    <3>1. r = Ignored(e)
      BY <1>5, <2>1 DEF FeedToolUse
    <3> HIDE DEF r
    <3> QED BY <1>1, <1>2, <1>4, <1>5, <3>1 DEF e
  <2>2. CASE Matches(e.id)
    <3>1. r = Fed(Update(e.id, Whole, TRUE), e.id, None, settled \cup {e.id})
      BY <1>5, <2>2 DEF FeedToolUse
    <3>2. /\ r.update = Update(e.id, Whole, TRUE) /\ r.pending = [pending EXCEPT ![e.id] = None]
          /\ r.settled = settled \cup {e.id}
      <4> HIDE DEF r
      <4> QED BY <3>1 DEF Fed
    <3>3. r.update # None
      <4>1. TRUE \in BOOLEAN /\ Whole \in Seq(1..Chunks)
        BY WholeType
      <4>2. Update(e.id, Whole, TRUE) # None
        BY <1>2, <4>1, UpdateMade
      <4> HIDE DEF r
      <4> QED BY <3>2, <4>2
    <3> HIDE DEF r
    <3>4. Finishes(e, eager)
      BY <1>1, <1>5, <3>2, <3>3 DEF Finishes
    <3> QED BY <1>1, <1>2, <3>4 DEF e
  <2> QED BY <2>1, <2>2
<1>6. CASE e.event = "message_delta"
  <2>1. CASE e.id \in settled
    <3>1. r = Ignored(e)
      BY <1>6, <2>1 DEF FeedDelta
    <3> HIDE DEF r
    <3> QED BY <1>1, <1>2, <1>4, <2>1, <3>1 DEF e
  <2>2. CASE e.id \notin settled
    <3> DEFINE p == Buffered(e)
               u == IF p.named /\ p.text # <<>> THEN Update(e.id, p.text, FALSE) ELSE None
    <3>1. r = Fed(u, e.id, p, settled)
      BY <1>6, <2>2 DEF FeedDelta
    <3>2. r.update = u /\ r.pending = [pending EXCEPT ![e.id] = p] /\ r.settled = settled
      <4> HIDE DEF u, p, r
      <4> QED BY <3>1 DEF Fed
    <3>3. u = None \/ (p.text # <<>> /\ u = Update(e.id, p.text, FALSE) /\ u # None)
      <4>1. p.text \in Seq(1..Chunks)
        BY <1>2, <1>6, BufferedType DEF Buffers
      <4> HIDE DEF p
      <4> QED BY <1>2, <4>1, UpdateMade
    <3>4. BuffersIt(e, eager)
      <4> HIDE DEF r, u
      <4> QED BY <1>1, <1>6, <2>2, <3>2, <3>3 DEF BuffersIt
    <3> QED BY <1>1, <1>2, <3>4 DEF e
  <2> QED BY <2>1, <2>2
<1> QED BY <1>2, <1>5, <1>6

(* What the list comes to: the rendered one after the whole queue.         *)

Coming == Pass(index)
Now == [list |-> updates, index |-> index]

LEMMA ComingType ==
  ASSUME GenTypes
  PROVE  /\ Now \in Views /\ Coming \in Views
         /\ queue = <<>> => Coming = Now
         /\ \A id \in Ids : index[id] # 0 => Coming.index[id] = index[id]
<1>1. Now \in Views /\ queue \in Seq(Ops) /\ Len(queue) \in Nat
  BY DEF GenTypes, Now, Views
<1>2. Coming = Applied(Now, queue)[Len(queue)]
  BY DEF Coming, Pass, Now
<1>3. Coming \in Views
  BY <1>1, <1>2, AppliedType
<1>4. queue = <<>> => Coming = Now
  BY <1>2, AppliedNone
<1>5. ASSUME NEW id \in Ids, index[id] # 0 PROVE Coming.index[id] = index[id]
  <2>1. 0 \in 0..Len(queue)
    BY <1>1
  <2>2. Applied(Now, queue)[0] = Now
    BY <1>1, <2>1, AppliedEquation
  <2>3. Applied(Now, queue)[0].index[id] # 0
    BY <1>5, <2>2 DEF Now
  <2>4. Coming.index[id] = Now.index[id]
    BY <1>1, <1>2, <2>1, <2>2, <2>3, PositionStays
  <2> QED BY <2>4 DEF Now
<1> QED BY <1>1, <1>3, <1>4, <1>5

LEMMA OpsMade ==
  /\ \A u \in Updates : PutOp(u) \in Ops /\ PutOp(u).op = "put"
  /\ \A l \in Lists : SetOp(l) \in Ops /\ SetOp(l).op = "set" /\ SetOp(l).list = l
BY DEF PutOp, SetOp, Ops

\* The queue after an update: one more updater, or the list it gives now.
Waits(u) == queue' = Append(queue, PutOp(u)) /\ index' = index
AtOnce == queue = <<>> /\ queue' = <<SetOp(Coming'.list)>>

\* However React takes an update, the list to come is the one that came before
\* with the update placed in it.
LEMMA DispatchPlaces ==
  ASSUME GenTypes, NEW u \in Updates, NEW eager, Dispatch(u, eager), updates' = updates
  PROVE  /\ queue' \in Seq(Ops) /\ index' \in [Ids -> Nat]
         /\ Coming' = Place(Coming, u)
         /\ Waits(u) \/ AtOnce
<1> DEFINE now == Place(Now, u)
<1>1. Now \in Views /\ Coming \in Views /\ (queue = <<>> => Coming = Now)
  BY ComingType
<1>2. queue \in Seq(Ops) /\ index \in [Ids -> Nat]
  BY DEF GenTypes
<1>3. Coming = Applied(Now, queue)[Len(queue)]
  BY DEF Coming, Pass, Now
<1>4. Coming' = Applied([list |-> updates, index |-> index'], queue')[Len(queue')]
  BY DEF Coming, Pass
<1>5. \/ queue = <<>> /\ queue' = <<SetOp(now.list)>> /\ index' = now.index
      \/ queue' = Append(queue, PutOp(u)) /\ index' = index
  BY DEF Dispatch, Now
<1>6. CASE queue = <<>> /\ queue' = <<SetOp(now.list)>> /\ index' = now.index
  <2>1. now \in Views /\ now.list \in Lists /\ now.index \in [Ids -> Nat]
    BY <1>1, PlaceType, ViewFields
  <2>2. now = [list |-> now.list, index |-> now.index]
    BY DEF Place
  <2> HIDE DEF now
  <2> DEFINE s == [list |-> updates, index |-> now.index]
             o == SetOp(now.list)
  <2>3. o \in Ops /\ Apply(s, o) = [list |-> now.list, index |-> now.index]
    BY <2>1, OpsMade DEF Apply, SetOp
  <2>4. queue' = Append(<<>>, o) /\ <<>> \in Seq(Ops) /\ queue' \in Seq(Ops)
    <3> HIDE DEF o
    <3> QED BY <1>6, <2>3 DEF o
  <2>5. Coming' = Apply(s, o)
    <3> HIDE DEF o, s
    <3>1. Applied(s, Append(<<>>, o))[Len(Append(<<>>, o))] = Apply(Applied(s, <<>>)[Len(<<>>)], o)
      BY <2>3, <2>4, AppliedAppend
    <3>2. Applied(s, <<>>)[Len(<<>>)] = s
      BY AppliedNone
    <3>3. Coming' = Applied(s, queue')[Len(queue')]
      BY <1>4, <1>6 DEF s
    <3> QED BY <2>4, <3>1, <3>2, <3>3
  <2>6. Coming' = now /\ Coming' = Place(Coming, u)
    <3>1. Coming' = now
      BY <2>2, <2>3, <2>5
    <3> QED BY <1>1, <1>6, <3>1 DEF now
  <2> QED BY <1>6, <2>1, <2>4, <2>6 DEF AtOnce
<1>7. CASE queue' = Append(queue, PutOp(u)) /\ index' = index
  <2>1. PutOp(u) \in Ops /\ Apply(Coming, PutOp(u)) = Place(Coming, u)
    BY OpsMade DEF Apply, PutOp
  <2>2. queue' \in Seq(Ops)
    BY <1>2, <1>7, <2>1
  <2>3. Coming' = Applied(Now, Append(queue, PutOp(u)))[Len(Append(queue, PutOp(u)))]
    BY <1>4, <1>7 DEF Now
  <2>4. Coming' = Apply(Coming, PutOp(u))
    BY <1>2, <1>3, <2>1, <2>3, AppliedAppend
  <2> QED BY <1>2, <1>7, <2>1, <2>2, <2>4 DEF Waits
<1> QED BY <1>5, <1>6, <1>7

\* Rendering shows the list to come, also when the updaters run twice.
LEMMA RenderShows ==
  ASSUME GenTypes, NEW passes, Render(passes)
  PROVE  /\ updates' = Coming.list /\ index' = Coming.index /\ queue' = <<>>
         /\ Coming' = Coming
         /\ UNCHANGED <<log, cursor, schema, pending, settled, emitted, torn, crossed, resets, attaches>>
<1>1. Now \in Views /\ Coming \in Views /\ queue \in Seq(Ops)
  BY ComingType DEF GenTypes
<1>2. Coming = Applied(Now, queue)[Len(queue)]
  BY DEF Coming, Pass, Now
<1>3. Pass(Pass(index).index) = Coming
  <2>1. Pass(Coming.index) = Applied([list |-> Now.list, index |-> Coming.index], queue)[Len(queue)]
    BY DEF Pass, Now
  <2>2. Pass(Coming.index) = Coming
    BY <1>1, <1>2, <2>1, SecondRun
  <2> QED BY <2>2 DEF Coming
<1> DEFINE r == Pass(IF passes = 2 THEN Pass(index).index ELSE index)
<1>4. r = Coming
  <2>1. CASE passes = 2
    BY <1>3, <2>1
  <2>2. CASE passes # 2
    BY <2>2 DEF Coming
  <2> QED BY <2>1, <2>2
<1>5. /\ updates' = r.list /\ index' = r.index /\ queue' = <<>>
      /\ UNCHANGED <<log, cursor, schema, pending, settled, emitted, torn, crossed, resets, attaches>>
  BY DEF Render, streamVars, history
<1> HIDE DEF r
<1>6. Coming' = Applied([list |-> r.list, index |-> r.index], <<>>)[Len(<<>>)]
  BY <1>5 DEF Coming, Pass
<1>7. Coming' = [list |-> r.list, index |-> r.index]
  BY <1>6, AppliedNone
<1>8. Coming = [list |-> Coming.list, index |-> Coming.index]
  BY <1>1 DEF Views
<1> QED BY <1>4, <1>5, <1>7, <1>8

\* A reset leaves the empty list to come; its index is empty when no updater waits.
LEMMA ResetClears ==
  ASSUME GenTypes, Reset
  PROVE  /\ queue' = Append(queue, SetOp(<<>>)) /\ queue' \in Seq(Ops)
         /\ index' = [id \in Ids |-> 0] /\ Coming' \in Views /\ Coming'.list = <<>>
         /\ ~crossed' => \A id \in Ids : Coming'.index[id] = 0
<1> DEFINE zero == [id \in Ids |-> 0]
           s == [list |-> updates, index |-> zero]
           o == SetOp(<<>>)
           A == Applied(s, queue)
<1>1. queue' = Append(queue, o) /\ index' = zero /\ updates' = updates
      /\ crossed' = (\E i \in 1..Len(queue) : queue[i].op = "put")
  BY DEF Reset, ClearIndex
<1>2. queue \in Seq(Ops) /\ Len(queue) \in Nat /\ \A i \in 1..Len(queue) : queue[i] \in Ops
  BY DEF GenTypes
<1>3. s \in Views
  BY DEF GenTypes, Views
<1>4. <<>> \in Lists
  BY DEF Lists
<1>5. o \in Ops /\ o.op = "set" /\ o.list = <<>>
  BY <1>4, OpsMade
<1>6. A[Len(queue)] \in Views
  BY <1>2, <1>3, AppliedType
<1>7. Coming' = Apply(A[Len(queue)], o)
  <2>1. Coming' = Applied(s, Append(queue, o))[Len(Append(queue, o))]
    BY <1>1 DEF Coming, Pass
  <2> HIDE DEF s, o
  <2> QED BY <1>2, <1>5, <2>1, AppliedAppend
<1>8. Apply(A[Len(queue)], o) = [A[Len(queue)] EXCEPT !.list = <<>>]
  <2> HIDE DEF A, o
  <2> QED BY <1>5 DEF Apply
<1>9. Coming' \in Views /\ Coming'.list = <<>> /\ Coming'.index = A[Len(queue)].index
  <2> HIDE DEF A, o
  <2> QED BY <1>4, <1>6, <1>7, <1>8 DEF Views
<1>10. ASSUME ~crossed' PROVE A[Len(queue)].index = zero
  <2> DEFINE N == Len(queue)
             T == {n \in 0..N : A[n].index = zero}
  <2>1. \A n \in 0..N : A[n] = IF n = 0 THEN s ELSE Apply(A[n - 1], queue[n])
    BY <1>2, AppliedEquation
  <2>2. \A n \in 0..N : A[n] \in Views
    BY <1>2, <1>3, AppliedType
  <2>3. s.index = zero
    OBVIOUS
  <2>4. \A i \in 1..N : queue[i] \in Ops /\ queue[i].op # "put"
    BY <1>1, <1>2, <1>10
  <2> HIDE DEF A, s, N, zero
  <2>5. N \in Nat
    BY <1>2 DEF N
  <2>6. 0 \in T
    BY <2>1, <2>3, <2>5
  <2>7. ASSUME NEW n \in 0..(N - 1), n \in T PROVE n + 1 \in T
    <3>1. n + 1 \in 1..N /\ n + 1 \in 0..N /\ (n + 1) - 1 = n /\ n + 1 # 0 /\ n \in 0..N
      BY <2>5
    <3>2. A[n + 1] = Apply(A[n], queue[n + 1]) /\ A[n] \in Views /\ A[n].index = zero
      BY <2>1, <2>2, <2>7, <3>1
    <3>3. queue[n + 1].op # "put"
      BY <2>4, <3>1
    <3>4. A[n + 1] = [A[n] EXCEPT !.list = queue[n + 1].list]
      BY <3>2, <3>3 DEF Apply
    <3>5. A[n + 1].index = zero
      BY <3>2, <3>4 DEF Views
    <3> QED BY <3>1, <3>5
  <2>8. N \in T
    <3>1. N \in 0..N
      BY <2>5
    <3> HIDE DEF T
    <3> QED BY <2>5, <2>6, <2>7, <3>1, Climb
  <2> QED BY <2>8 DEF N
<1>11. ~crossed' => \A id \in Ids : Coming'.index[id] = 0
  BY <1>9, <1>10
<1>12. queue' \in Seq(Ops)
  <2> HIDE DEF o
  <2> QED BY <1>1, <1>2, <1>5
<1> HIDE DEF zero, A, s
<1> QED BY <1>1, <1>9, <1>11, <1>12 DEF zero

(* Counting the fragments of a call.                                       *)

FragmentsIn(l, id, n) == {i \in 1..n : l[i].event = "message_delta" /\ l[i].id = id}
Count(l, id, n) == Cardinality(FragmentsIn(l, id, n))

LEMMA CountType ==
  ASSUME NEW l, NEW id, NEW n \in Nat
  PROVE  /\ IsFiniteSet(FragmentsIn(l, id, n)) /\ Count(l, id, n) \in Nat
         /\ Count(l, id, n) = 0 <=> FragmentsIn(l, id, n) = {}
<1>1. IsFiniteSet(1..n)
  BY FS_Interval
<1>2. FragmentsIn(l, id, n) \subseteq 1..n
  BY DEF FragmentsIn
<1>3. IsFiniteSet(FragmentsIn(l, id, n))
  BY <1>1, <1>2, FS_Subset
<1> QED BY <1>3, FS_CardinalityType, FS_EmptySet DEF Count

LEMMA CountNone == ASSUME NEW l, NEW id PROVE Count(l, id, 0) = 0
<1>1. FragmentsIn(l, id, 0) = {}
  BY DEF FragmentsIn
<1> QED BY <1>1, CountType

LEMMA CountNext ==
  ASSUME NEW l, NEW id, NEW n \in Nat
  PROVE  Count(l, id, n + 1) =
           IF l[n + 1].event = "message_delta" /\ l[n + 1].id = id
           THEN Count(l, id, n) + 1 ELSE Count(l, id, n)
<1> DEFINE hit == l[n + 1].event = "message_delta" /\ l[n + 1].id = id
<1>1. IsFiniteSet(FragmentsIn(l, id, n)) /\ n + 1 \notin FragmentsIn(l, id, n)
  <2>1. n + 1 \notin 1..n
    OBVIOUS
  <2>2. n + 1 \notin FragmentsIn(l, id, n)
    BY <2>1 DEF FragmentsIn
  <2> QED BY <2>2, CountType
<1>2. \A i : i \in 1..(n + 1) <=> i \in 1..n \/ i = n + 1
  OBVIOUS
<1>3. CASE hit
  <2>1. \A i : i \in FragmentsIn(l, id, n + 1) <=> i \in FragmentsIn(l, id, n) \cup {n + 1}
    BY <1>2, <1>3 DEF FragmentsIn
  <2>2. FragmentsIn(l, id, n + 1) = FragmentsIn(l, id, n) \cup {n + 1}
    BY <2>1
  <2>3. Cardinality(FragmentsIn(l, id, n) \cup {n + 1}) = Cardinality(FragmentsIn(l, id, n)) + 1
    BY <1>1, FS_AddElement
  <2> QED BY <1>3, <2>2, <2>3 DEF Count
<1>4. CASE ~hit
  <2>1. \A i : i \in FragmentsIn(l, id, n + 1) <=> i \in FragmentsIn(l, id, n)
    BY <1>2, <1>4 DEF FragmentsIn
  <2>2. FragmentsIn(l, id, n + 1) = FragmentsIn(l, id, n)
    BY <2>1
  <2> QED BY <1>4, <2>2 DEF Count
<1> QED BY <1>3, <1>4

LEMMA CountAppend ==
  ASSUME NEW l \in Seq(Events), NEW e \in Events, NEW id, NEW n \in 0..Len(l)
  PROVE  Count(Append(l, e), id, n) = Count(l, id, n)
<1>1. \A i \in 1..n : Append(l, e)[i] = l[i]
  OBVIOUS
<1>2. \A i : i \in FragmentsIn(Append(l, e), id, n) <=> i \in FragmentsIn(l, id, n)
  BY <1>1 DEF FragmentsIn
<1>3. FragmentsIn(Append(l, e), id, n) = FragmentsIn(l, id, n)
  BY <1>2
<1> QED BY <1>3 DEF Count

(* The types hold.                                                         *)

LEMMA TypesInit == Init => GenTypes
<1> SUFFICES ASSUME Init PROVE GenTypes
  OBVIOUS
<1>1. log \in Seq(Events) /\ cursor \in 0..Len(log)
  BY DEF Init
<1>2. schema \in BOOLEAN /\ crossed \in BOOLEAN
  BY DEF Init
<1>3. pending \in [Ids -> Buffers \cup {None}] /\ index \in [Ids -> Nat]
  BY DEF Init
<1>4. updates \in Lists /\ queue \in Seq(Ops) /\ emitted \in Seq(Updates)
  BY DEF Init, Lists
<1>5. resets \in 0..MaxResets /\ attaches \in 0..MaxAttach
  BY DEF Init
<1>6. settled \subseteq Ids /\ torn \subseteq Ids
  BY DEF Init
<1> QED BY <1>1, <1>2, <1>3, <1>4, <1>5, <1>6 DEF GenTypes

LEMMA EventsMade ==
  /\ \A id \in Ids, k \in 0..Chunks, named \in BOOLEAN : DeltaEvent(id, k, named) \in Events
  /\ \A id \in Ids : ToolUseEvent(id) \in Events
BY DEF Events, DeltaEvent, ToolUseEvent

\* The session gives one more event.
LEMMA EmitCases ==
  ASSUME GenTypes, NEW id \in Ids,
         EmitToolUse(id) \/ \E named \in BOOLEAN : EmitDelta(id, named)
  PROVE  /\ \E e \in Events :
              /\ log' = Append(log, e) /\ e.id = id
              /\ e.event = "message_delta" => e.chunk = Count(log, id, Len(log))
         /\ UNCHANGED <<cursor, schema, pending, settled, updates, queue, index>>
         /\ UNCHANGED <<emitted, torn, crossed, resets, attaches>>
<1>1. CASE EmitToolUse(id)
  <2>1. log' = Append(log, ToolUseEvent(id))
    BY <1>1 DEF EmitToolUse
  <2>2. ToolUseEvent(id) \in Events /\ ToolUseEvent(id).id = id /\ ToolUseEvent(id).event = "tool_use"
    BY EventsMade DEF ToolUseEvent
  <2> QED BY <1>1, <2>1, <2>2 DEF EmitToolUse, streamVars, hookVars, history
<1>2. ASSUME NEW named \in BOOLEAN, EmitDelta(id, named)
      PROVE  \E e \in Events :
              /\ log' = Append(log, e) /\ e.id = id
              /\ e.event = "message_delta" => e.chunk = Count(log, id, Len(log))
  <2> DEFINE k == Cardinality(Fragments(id, Len(log)))
  <2>1. k = Count(log, id, Len(log))
    BY DEF Fragments, Count, FragmentsIn
  <2>2. log' = Append(log, DeltaEvent(id, k, named)) /\ k <= Chunks
    BY <1>2 DEF EmitDelta
  <2>3. k \in 0..Chunks
    <3>1. Len(log) \in Nat
      BY DEF GenTypes
    <3>2. k \in Nat
      <4> HIDE DEF k
      <4> QED BY <2>1, <3>1, CountType
    <3> HIDE DEF k
    <3> QED BY <2>2, <3>2
  <2> DEFINE e == DeltaEvent(id, k, named)
  <2>4. e \in Events
    <3> HIDE DEF k
    <3> QED BY <2>3, EventsMade
  <2>5. e.id = id /\ e.chunk = k
    BY DEF DeltaEvent
  <2> HIDE DEF e, k
  <2> QED BY <2>1, <2>2, <2>4, <2>5 DEF e
<1>3. ASSUME NEW named \in BOOLEAN, EmitDelta(id, named)
      PROVE  /\ UNCHANGED <<cursor, schema, pending, settled, updates, queue, index>>
             /\ UNCHANGED <<emitted, torn, crossed, resets, attaches>>
  BY <1>3 DEF EmitDelta, streamVars, hookVars, history
<1> QED BY <1>1, <1>2, <1>3

LEMMA TypesNext ==
  ASSUME GenTypes, [Next]_vars
  PROVE  GenTypes'
<1> USE DEF GenTypes
<1>1. ASSUME NEW id \in Ids, EmitToolUse(id) \/ \E named \in BOOLEAN : EmitDelta(id, named)
      PROVE  GenTypes'
  <2>1. PICK e \in Events : log' = Append(log, e)
    BY <1>1, EmitCases
  <2>2. /\ UNCHANGED <<cursor, schema, pending, settled, updates, queue, index>>
        /\ UNCHANGED <<emitted, torn, crossed, resets, attaches>>
    BY <1>1, EmitCases
  <2>3. log' \in Seq(Events) /\ cursor \in 0..Len(log')
    BY <2>1
  <2> QED BY <2>2, <2>3
<1>2. CASE LoadSchema
  BY <1>2 DEF LoadSchema, streamVars, hookVars, history
<1>3. ASSUME NEW eager \in BOOLEAN, OnEvent(eager) PROVE GenTypes'
  <2> DEFINE e == log[cursor + 1]
  <2>1. /\ cursor < Len(log) /\ e \in Events
        /\ cursor' = cursor + 1 /\ UNCHANGED <<log, schema, updates, torn, crossed, resets, attaches>>
        /\ Skips(e) \/ BuffersIt(e, eager) \/ Finishes(e, eager)
    BY <1>3, OnEventCases
  <2>2. cursor' \in 0..Len(log')
    BY <2>1
  <2>3. e.id \in Ids
    BY <2>1, EventFields
  <2>4. Quiet => queue' \in Seq(Ops) /\ index' \in [Ids -> Nat] /\ emitted' \in Seq(Updates)
    BY DEF Quiet
  <2>5. ASSUME NEW u \in Updates, Says(u, eager)
        PROVE  queue' \in Seq(Ops) /\ index' \in [Ids -> Nat] /\ emitted' \in Seq(Updates)
    <3>1. queue' \in Seq(Ops) /\ index' \in [Ids -> Nat]
      BY <2>1, <2>5, DispatchPlaces DEF Says
    <3>2. emitted' \in Seq(Updates)
      BY <2>5 DEF Says
    <3> QED BY <3>1, <3>2
  <2> DEFINE Rest == queue' \in Seq(Ops) /\ index' \in [Ids -> Nat] /\ emitted' \in Seq(Updates)
             Kept == pending' \in [Ids -> Buffers \cup {None}] /\ settled' \subseteq Ids
  <2> HIDE DEF e
  <2>6. CASE Skips(e)
    BY <2>1, <2>2, <2>4, <2>6 DEF Skips
  <2>7. CASE BuffersIt(e, eager)
    <3>1. Buffered(e) \in Buffers
      BY <2>1, <2>7, BufferedType DEF BuffersIt
    <3>2. Kept
      BY <2>3, <2>7, <3>1 DEF BuffersIt
    <3>3. Update(e.id, Buffered(e).text, FALSE) \in Updates
      <4>1. Buffered(e).text \in Seq(1..Chunks) /\ FALSE \in BOOLEAN
        BY <3>1 DEF Buffers
      <4> QED BY <2>3, <4>1, UpdateMade
    <3>4. Rest
      BY <2>4, <2>5, <2>7, <3>3 DEF BuffersIt
    <3> QED BY <2>1, <2>2, <3>2, <3>4
  <2>8. CASE Finishes(e, eager)
    <3>1. Kept
      BY <2>3, <2>8 DEF Finishes
    <3>2. Update(e.id, Whole, TRUE) \in Updates
      <4>1. Whole \in Seq(1..Chunks) /\ TRUE \in BOOLEAN
        BY WholeType
      <4> QED BY <2>3, <4>1, UpdateMade
    <3>3. Rest
      BY <2>5, <2>8, <3>2 DEF Finishes
    <3> QED BY <2>1, <2>2, <3>1, <3>3
  <2> QED BY <2>1, <2>6, <2>7, <2>8
<1>4. ASSUME NEW passes, Render(passes) PROVE GenTypes'
  <2>1. Coming.list \in Lists /\ Coming.index \in [Ids -> Nat]
    BY ComingType, ViewFields
  <2>2. /\ updates' = Coming.list /\ index' = Coming.index /\ queue' = <<>>
        /\ UNCHANGED <<log, cursor, schema, pending, settled, emitted, torn, crossed, resets, attaches>>
    BY <1>4, RenderShows
  <2>3. queue' \in Seq(Ops)
    BY <2>2
  <2> QED BY <2>1, <2>2, <2>3
<1>5. CASE Reset
  <2>1. queue' \in Seq(Ops) /\ index' = [id \in Ids |-> 0]
    BY <1>5, ResetClears
  <2>2. resets' \in 0..MaxResets /\ UNCHANGED <<log, cursor, schema, updates, attaches>>
    BY <1>5 DEF Reset
  <2>3. pending' \in [Ids -> Buffers \cup {None}] /\ settled' \subseteq Ids /\ torn' \subseteq Ids
    BY <1>5 DEF Reset
  <2>4. emitted' \in Seq(Updates)
    BY <1>5 DEF Reset
  <2>5. crossed' \in BOOLEAN
    BY <1>5 DEF Reset
  <2>6. index' \in [Ids -> Nat]
    BY <2>1
  <2> QED BY <2>1, <2>2, <2>3, <2>4, <2>5, <2>6
<1>6. CASE Reattach
  <2>1. attaches' \in 0..MaxAttach /\ cursor' \in 0..Len(log)
    BY <1>6 DEF Reattach
  <2>2. torn' \subseteq Ids
    BY <1>6 DEF Reattach
  <2> QED BY <1>6, <2>1, <2>2 DEF Reattach, streamVars, hookVars
<1>7. CASE UNCHANGED vars
  BY <1>7 DEF vars, streamVars, hookVars, history
<1> QED BY <1>1, <1>2, <1>3, <1>4, <1>5, <1>6, <1>7 DEF Next

(* The stream: what is buffered and what was last said of each call.       *)

Upto(k) == [i \in 1..k |-> i]

\* A fragment carries the number of those before it.
Numbered ==
  \A i \in 1..Len(log) :
    log[i].event = "message_delta" => log[i].chunk = Count(log, log[i].id, i - 1)

\* A call whose fragments came whole and once has them all in its buffer; the
\* first is empty.
BufferOf(id) ==
  /\ pending[id] # None => id \notin settled
  /\ id \notin torn /\ pending[id] # None
       => Count(log, id, cursor) >= 1 /\ pending[id].text = Upto(Count(log, id, cursor) - 1)
  /\ id \notin torn /\ pending[id] = None /\ id \notin settled => Count(log, id, cursor) = 0
Buffering == \A id \in Ids : BufferOf(id)

\* The last update of a call is final, or of a buffer that is still there, and
\* so cannot leave torn unless the call does.
Right(u) ==
  /\ u.complete => u.props = Whole
  /\ ~u.complete => pending[u.id] # None
  /\ u.id \notin torn => \E n \in 0..Chunks : u.props = Upto(n)
Emitting == \A u \in Updates : IsLatest(emitted, u) => Right(u)

StreamInv == Numbered /\ Buffering /\ Emitting

LEMMA LatestAppend ==
  ASSUME NEW E \in Seq(Updates), NEW u \in Updates, NEW v
  PROVE  IsLatest(Append(E, u), v) <=> v = u \/ (v.id # u.id /\ IsLatest(E, v))
<1> DEFINE N == Len(E)
           D == Append(E, u)
<1>1. N \in Nat /\ Len(D) = N + 1 /\ D[N + 1] = u /\ \A i \in 1..N : D[i] = E[i]
  OBVIOUS
<1> HIDE DEF N, D
<1>2. ASSUME IsLatest(D, v), v # u PROVE v.id # u.id /\ IsLatest(E, v)
  <2>1. PICK k \in 1..Len(D) : D[k] = v /\ \A l \in (k + 1)..Len(D) : D[l].id # v.id
    BY <1>2 DEF IsLatest
  <2>2. k \in 1..N /\ N + 1 \in (k + 1)..Len(D)
    BY <1>1, <1>2, <2>1
  <2>3. E[k] = v /\ v.id # u.id
    BY <1>1, <2>1, <2>2
  <2>4. \A l \in (k + 1)..N : l \in (k + 1)..Len(D) /\ l \in 1..N
    BY <1>1, <2>2
  <2>5. \A l \in (k + 1)..N : E[l].id # v.id
    BY <1>1, <2>1, <2>4
  <2> QED BY <2>2, <2>3, <2>5 DEF IsLatest, N
<1>3. IsLatest(D, u)
  <2>1. N + 1 \in 1..Len(D) /\ \A l \in (N + 1 + 1)..Len(D) : FALSE
    BY <1>1
  <2> QED BY <1>1, <2>1 DEF IsLatest
<1>4. ASSUME v.id # u.id, IsLatest(E, v) PROVE IsLatest(D, v)
  <2>1. PICK k \in 1..N : E[k] = v /\ \A l \in (k + 1)..N : E[l].id # v.id
    BY <1>4 DEF IsLatest, N
  <2>2. k \in 1..Len(D) /\ D[k] = v
    BY <1>1, <2>1
  <2>3. \A l \in (k + 1)..Len(D) : l = N + 1 \/ (l \in (k + 1)..N /\ l \in 1..N)
    BY <1>1, <2>1
  <2>4. \A l \in (k + 1)..Len(D) : D[l].id # v.id
    BY <1>1, <1>4, <2>1, <2>3
  <2> QED BY <2>2, <2>4 DEF IsLatest
<1> QED BY <1>2, <1>3, <1>4 DEF D

LEMMA UptoNext ==
  /\ Upto(0) = <<>> /\ Whole = Upto(Chunks)
  /\ \A n \in Nat : Upto(n) \in Seq(Nat) /\ Append(Upto(n), n + 1) = Upto(n + 1)
<1>1. Upto(0) = <<>>
  <2>1. Upto(0) \in [1..0 -> Nat]
    BY DEF Upto
  <2>2. Upto(0) \in Seq(Nat) /\ DOMAIN Upto(0) = 1..0
    BY <2>1, IsASeq
  <2>3. Len(Upto(0)) = 0
    BY <2>2
  <2> QED BY <2>2, <2>3
<1>2. ASSUME NEW n \in Nat PROVE Upto(n) \in Seq(Nat) /\ Append(Upto(n), n + 1) = Upto(n + 1)
  <2>1. Upto(n) \in [1..n -> Nat] /\ Upto(n + 1) \in [1..(n + 1) -> Nat]
    BY DEF Upto
  <2>2. Upto(n) \in Seq(Nat) /\ Upto(n + 1) \in Seq(Nat)
    BY <2>1, IsASeq
  <2>3. DOMAIN Upto(n) = 1..n /\ DOMAIN Upto(n + 1) = 1..(n + 1)
    BY <2>1
  <2>4. Len(Upto(n)) = n /\ Len(Upto(n + 1)) = n + 1
    BY <2>2, <2>3
  <2>5. \A i \in 1..(n + 1) : Append(Upto(n), n + 1)[i] = IF i = n + 1 THEN n + 1 ELSE Upto(n)[i]
    BY <2>2, <2>4
  <2>6. \A i \in 1..(n + 1) : Append(Upto(n), n + 1)[i] = i
    BY <2>5 DEF Upto
  <2>7. \A i \in 1..(n + 1) : Upto(n + 1)[i] = i
    BY DEF Upto
  <2>8. Append(Upto(n), n + 1) \in Seq(Nat) /\ Len(Append(Upto(n), n + 1)) = n + 1
    BY <2>2, <2>4
  <2> HIDE DEF Upto
  <2>9. \A i \in 1..(n + 1) : Append(Upto(n), n + 1)[i] = Upto(n + 1)[i]
    BY <2>6, <2>7
  <2> DEFINE a == Append(Upto(n), n + 1)
             b == Upto(n + 1)
  <2>10. a = b
    <3>1. a \in Seq(Nat) /\ b \in Seq(Nat) /\ Len(a) = n + 1 /\ Len(b) = n + 1
          /\ \A i \in 1..(n + 1) : a[i] = b[i]
      BY <2>2, <2>4, <2>8, <2>9
    <3> HIDE DEF a, b
    <3> QED BY <3>1
  <2> QED BY <2>2, <2>10
<1> QED BY <1>1, <1>2 DEF Whole, Upto

\* A fragment is told by its number where it is the next of the call.
LEMMA BufferGrows ==
  ASSUME GenTypes, StreamInv, cursor < Len(log), NEW e \in Events, e = log[cursor + 1],
         e.event = "message_delta", e.id \notin settled, e.id \notin torn
  PROVE  /\ Count(log, e.id, cursor + 1) = Count(log, e.id, cursor) + 1
         /\ e.chunk = Count(log, e.id, cursor) /\ e.chunk \in 0..Chunks
         /\ Buffered(e).text = Upto(e.chunk)
<1> DEFINE n == Count(log, e.id, cursor)
<1>1. e.id \in Ids /\ e.chunk \in 0..Chunks
  BY EventFields
<1>2. cursor \in Nat /\ cursor + 1 \in 1..Len(log) /\ (cursor + 1) - 1 = cursor
  BY DEF GenTypes
<1>3. n \in Nat /\ Count(log, e.id, cursor + 1) = n + 1
  BY <1>2, CountType, CountNext
<1>4. e.chunk = n
  BY <1>2 DEF StreamInv, Numbered
<1>5. /\ pending[e.id] = None => n = 0
      /\ pending[e.id] # None => n >= 1 /\ pending[e.id].text = Upto(n - 1)
  BY <1>1 DEF StreamInv, Buffering, BufferOf
<1>6. Buffered(e).text = IF e.chunk = 0 THEN TextBefore(e) ELSE Append(TextBefore(e), e.chunk)
  BY BufferedType
<1> HIDE DEF n
<1>7. pending[e.id] = None => Buffered(e).text = Upto(e.chunk)
  BY <1>4, <1>5, <1>6, UptoNext DEF TextBefore
<1>8. ASSUME pending[e.id] # None PROVE Buffered(e).text = Upto(e.chunk)
  <2>1. TextBefore(e) = Upto(n - 1) /\ n - 1 \in Nat /\ e.chunk # 0 /\ e.chunk = (n - 1) + 1
    BY <1>3, <1>4, <1>5, <1>8 DEF TextBefore
  <2>2. Buffered(e).text = Append(Upto(n - 1), (n - 1) + 1)
    BY <1>6, <2>1
  <2>3. Buffered(e).text = Upto((n - 1) + 1)
    BY <2>1, <2>2, UptoNext
  <2> QED BY <2>1, <2>3
<1> QED BY <1>1, <1>3, <1>4, <1>7, <1>8 DEF n

LEMMA StreamInit == Init => StreamInv
<1> SUFFICES ASSUME Init PROVE StreamInv
  OBVIOUS
<1>1. Numbered
  BY DEF Init, Numbered
<1>2. Buffering
  BY CountNone DEF Init, Buffering, BufferOf
<1>3. Emitting
  BY DEF Init, Emitting, IsLatest
<1> QED BY <1>1, <1>2, <1>3 DEF StreamInv

LEMMA StreamOnEvent ==
  ASSUME GenTypes, StreamInv, NEW eager, OnEvent(eager)
  PROVE  StreamInv'
<1> DEFINE e == log[cursor + 1]
<1>1. /\ cursor < Len(log) /\ e \in Events
      /\ cursor' = cursor + 1 /\ UNCHANGED <<log, schema, updates, torn, crossed, resets, attaches>>
      /\ Skips(e) \/ BuffersIt(e, eager) \/ Finishes(e, eager)
  BY OnEventCases
<1>2. e.id \in Ids /\ e.event \in {"message_delta", "tool_use"}
  BY <1>1, EventFields
<1>3. cursor \in Nat /\ emitted \in Seq(Updates) /\ pending \in [Ids -> Buffers \cup {None}]
  BY DEF GenTypes
<1>4. \A id : Count(log', id, cursor') =
        IF e.event = "message_delta" /\ e.id = id
        THEN Count(log, id, cursor) + 1 ELSE Count(log, id, cursor)
  BY <1>1, <1>3, CountNext
<1>5. e.event = "message_delta" => Buffered(e) \in Buffers /\ Buffered(e) # None
  BY <1>1, BufferedType
<1>6. e.event = "message_delta" /\ e.id \notin settled /\ e.id \notin torn
        => /\ Count(log', e.id, cursor') = Count(log, e.id, cursor) + 1
           /\ e.chunk = Count(log, e.id, cursor) /\ e.chunk \in 0..Chunks
           /\ Buffered(e).text = Upto(e.chunk)
  BY <1>1, BufferGrows
<1>7. \A n \in Nat : (n + 1) - 1 = n /\ n + 1 >= 1
  OBVIOUS
<1> HIDE DEF e
<1>8. Numbered'
  BY <1>1 DEF StreamInv, Numbered
<1>9. Buffering'
  <2> SUFFICES ASSUME NEW id \in Ids PROVE BufferOf(id)'
    BY DEF Buffering
  <2>1. BufferOf(id)
    BY DEF StreamInv, Buffering
  <2>2. CASE id # e.id
    <3>1. Count(log', id, cursor') = Count(log, id, cursor)
      BY <1>4, <2>2
    <3>2. pending'[id] = pending[id] /\ (id \in settled' <=> id \in settled) /\ torn' = torn
      BY <1>1, <1>2, <1>3, <2>2 DEF Skips, BuffersIt, Finishes
    <3> QED BY <2>1, <3>1, <3>2 DEF BufferOf
  <2>3. CASE id = e.id /\ Skips(e)
    <3>1. pending' = pending /\ settled' = settled /\ torn' = torn
      BY <1>1, <2>3 DEF Skips
    <3>2. CASE e.event = "message_delta"
      BY <2>1, <2>3, <3>1, <3>2 DEF BufferOf, Skips
    <3>3. CASE e.event # "message_delta"
      <4>1. Count(log', id, cursor') = Count(log, id, cursor)
        BY <1>4, <3>3
      <4> QED BY <2>1, <3>1, <4>1 DEF BufferOf
    <3> QED BY <3>2, <3>3
  <2>4. CASE id = e.id /\ BuffersIt(e, eager)
    <3>1. pending'[id] = Buffered(e) /\ pending'[id] # None /\ id \notin settled' /\ torn' = torn
      BY <1>1, <1>2, <1>3, <1>5, <2>4 DEF BuffersIt
    <3>2. ASSUME id \notin torn PROVE Count(log', id, cursor') >= 1
                                     /\ pending'[id].text = Upto(Count(log', id, cursor') - 1)
      <4>1. /\ Count(log', id, cursor') = Count(log, id, cursor) + 1
            /\ e.chunk = Count(log, id, cursor) /\ Buffered(e).text = Upto(e.chunk)
            /\ e.chunk \in Nat
        BY <1>6, <2>4, <3>2 DEF BuffersIt
      <4>2. Count(log', id, cursor') - 1 = e.chunk /\ Count(log', id, cursor') >= 1
        BY <1>7, <4>1
      <4> QED BY <3>1, <4>1, <4>2
    <3> QED BY <3>1, <3>2 DEF BufferOf
  <2>5. CASE id = e.id /\ Finishes(e, eager)
    <3>1. pending'[id] = None /\ id \in settled'
      BY <1>2, <1>3, <2>5 DEF Finishes
    <3> QED BY <3>1 DEF BufferOf
  <2> QED BY <1>1, <2>2, <2>3, <2>4, <2>5
<1>10. Emitting'
  <2> SUFFICES ASSUME NEW u \in Updates, IsLatest(emitted', u) PROVE Right(u)'
    BY DEF Emitting
  <2>1. IsLatest(emitted, u) => Right(u)
    BY DEF StreamInv, Emitting
  <2>2. u.id \in Ids
    BY UpdateFields
  <2>3. CASE Quiet
    <3>1. Right(u) /\ torn' = torn
      BY <1>1, <2>1, <2>3 DEF Quiet
    <3>2. pending[u.id] # None => pending'[u.id] # None
      <4>1. CASE Skips(e)
        BY <4>1 DEF Skips
      <4>2. CASE BuffersIt(e, eager)
        BY <1>2, <1>3, <1>5, <2>2, <4>2 DEF BuffersIt
      <4>3. CASE Finishes(e, eager)
        <5>1. emitted' = Append(emitted, Update(e.id, Whole, TRUE)) /\ emitted' = emitted
          BY <2>3, <4>3 DEF Finishes, Says, Quiet
        <5>2. Len(Append(emitted, Update(e.id, Whole, TRUE))) = Len(emitted) + 1 /\ Len(emitted) \in Nat
          BY <1>3
        <5> QED BY <5>1, <5>2
      <4> QED BY <1>1, <4>1, <4>2, <4>3
    <3> QED BY <3>1, <3>2 DEF Right
  <2>4. ASSUME NEW w \in Updates, Says(w, eager), w.id = e.id PROVE u = w \/ (u.id # e.id /\ IsLatest(emitted, u))
    <3>1. emitted' = Append(emitted, w)
      BY <2>4 DEF Says
    <3> QED BY <1>3, <2>4, <3>1, LatestAppend
  <2>5. ASSUME u.id # e.id, IsLatest(emitted, u) PROVE Right(u)'
    <3>1. pending'[u.id] = pending[u.id] /\ torn' = torn
      BY <1>1, <1>2, <1>3, <2>2, <2>5 DEF Skips, BuffersIt, Finishes
    <3> QED BY <2>1, <2>5, <3>1 DEF Right
  <2>6. CASE BuffersIt(e, eager) /\ ~Quiet
    <3> DEFINE w == Update(e.id, Buffered(e).text, FALSE)
    <3>1. Says(w, eager) /\ e.event = "message_delta" /\ e.id \notin settled
      BY <2>6 DEF BuffersIt
    <3>2. w \in Updates /\ w.id = e.id /\ w.props = Buffered(e).text /\ w.complete = FALSE
      <4>1. Buffered(e).text \in Seq(1..Chunks) /\ FALSE \in BOOLEAN
        BY <1>5, <3>1 DEF Buffers
      <4>2. w \in Updates
        BY <1>2, <4>1, UpdateMade
      <4>3. w.id = e.id /\ w.props = Buffered(e).text /\ w.complete = FALSE
        BY DEF Update
      <4> QED BY <4>2, <4>3
    <3>3. pending'[e.id] # None /\ torn' = torn
      BY <1>1, <1>2, <1>3, <1>5, <2>6, <3>1 DEF BuffersIt
    <3>4. e.id \notin torn => e.chunk \in 0..Chunks /\ Buffered(e).text = Upto(e.chunk)
      BY <1>6, <3>1
    <3> HIDE DEF w
    <3>5. u = w \/ (u.id # e.id /\ IsLatest(emitted, u))
      BY <2>4, <3>1, <3>2
    <3>6. ASSUME u = w PROVE Right(u)'
      <4>1. u.id \notin torn' => \E n \in 0..Chunks : u.props = Upto(n)
        BY <3>2, <3>3, <3>4, <3>6
      <4> QED BY <3>2, <3>3, <3>6, <4>1 DEF Right
    <3> QED BY <2>5, <3>5, <3>6
  <2>7. CASE Finishes(e, eager)
    <3> DEFINE w == Update(e.id, Whole, TRUE)
    <3>1. Says(w, eager)
      BY <2>7 DEF Finishes
    <3>2. w \in Updates /\ w.id = e.id /\ w.props = Whole /\ w.complete = TRUE
      <4>1. Whole \in Seq(1..Chunks) /\ TRUE \in BOOLEAN
        BY WholeType
      <4>2. w \in Updates
        BY <1>2, <4>1, UpdateMade
      <4>3. w.id = e.id /\ w.props = Whole /\ w.complete = TRUE
        BY DEF Update
      <4> QED BY <4>2, <4>3
    <3>3. Chunks \in 0..Chunks /\ Whole = Upto(Chunks)
      BY UptoNext
    <3> HIDE DEF w
    <3>4. u = w \/ (u.id # e.id /\ IsLatest(emitted, u))
      BY <2>4, <3>1, <3>2
    <3>5. \E n \in 0..Chunks : w.props = Upto(n)
      BY <3>2, <3>3
    <3>6. ASSUME u = w PROVE Right(u)'
      BY <3>2, <3>5, <3>6 DEF Right
    <3> QED BY <2>5, <3>4, <3>6
  <2>8. Skips(e) => Quiet
    BY DEF Skips
  <2> QED BY <1>1, <2>3, <2>6, <2>7, <2>8
<1> QED BY <1>8, <1>9, <1>10 DEF StreamInv

LEMMA StreamNext ==
  ASSUME GenTypes, StreamInv, [Next]_vars
  PROVE  StreamInv'
<1>1. ASSUME NEW id \in Ids, EmitToolUse(id) \/ \E named \in BOOLEAN : EmitDelta(id, named)
      PROVE  StreamInv'
  <2>1. PICK e \in Events : /\ log' = Append(log, e)
                            /\ e.event = "message_delta" => e.chunk = Count(log, e.id, Len(log))
    BY <1>1, EmitCases
  <2>2. /\ UNCHANGED <<cursor, schema, pending, settled, updates, queue, index>>
        /\ UNCHANGED <<emitted, torn, crossed, resets, attaches>>
    BY <1>1, EmitCases
  <2>3. log \in Seq(Events) /\ Len(log) \in Nat /\ cursor \in 0..Len(log)
    BY DEF GenTypes
  <2>4. \A i, n \in 0..Len(log) : Count(log', i, n) = Count(log, i, n)
    BY <2>1, <2>3, CountAppend
  <2>5. \A i, n : n \in 0..Len(log) => Count(log', i, n) = Count(log, i, n)
    BY <2>1, <2>3, CountAppend
  <2>6. Numbered'
    <3> SUFFICES ASSUME NEW i \in 1..Len(log'), log'[i].event = "message_delta"
                 PROVE  log'[i].chunk = Count(log', log'[i].id, i - 1)
      BY DEF Numbered
    <3>1. Len(log') = Len(log) + 1 /\ log'[Len(log) + 1] = e /\ \A j \in 1..Len(log) : log'[j] = log[j]
      BY <2>1, <2>3
    <3>2. i - 1 \in 0..Len(log) /\ (i \in 1..Len(log) \/ (i = Len(log) + 1 /\ i - 1 = Len(log)))
      BY <2>3, <3>1
    <3>3. Count(log', log'[i].id, i - 1) = Count(log, log'[i].id, i - 1)
      BY <2>5, <3>2
    <3>4. CASE i \in 1..Len(log)
      BY <3>1, <3>3, <3>4 DEF StreamInv, Numbered
    <3>5. CASE i = Len(log) + 1 /\ i - 1 = Len(log)
      BY <2>1, <3>1, <3>3, <3>5
    <3> QED BY <3>2, <3>4, <3>5
  <2>7. Buffering'
    <3> SUFFICES ASSUME NEW j \in Ids PROVE BufferOf(j)'
      BY DEF Buffering
    <3>1. Count(log', j, cursor') = Count(log, j, cursor) /\ BufferOf(j)
      BY <2>2, <2>3, <2>5 DEF StreamInv, Buffering
    <3> QED BY <2>2, <3>1 DEF BufferOf
  <2>8. Emitting'
    BY <2>2 DEF StreamInv, Emitting, Right
  <2> QED BY <2>6, <2>7, <2>8 DEF StreamInv
<1>2. ASSUME UNCHANGED <<log, cursor, pending, settled, emitted, torn>> PROVE StreamInv'
  BY <1>2 DEF StreamInv, Numbered, Buffering, BufferOf, Emitting, Right
<1>3. CASE LoadSchema
  BY <1>2, <1>3 DEF LoadSchema, streamVars, hookVars, history
<1>4. ASSUME NEW eager \in BOOLEAN, OnEvent(eager) PROVE StreamInv'
  BY <1>4, StreamOnEvent
<1>5. ASSUME NEW passes, Render(passes) PROVE StreamInv'
  BY <1>2, <1>5, RenderShows
<1>6. CASE Reset
  <2>1. Numbered'
    BY <1>6 DEF Reset, StreamInv, Numbered
  <2>2. /\ pending' = [id \in Ids |-> None] /\ settled' = {} /\ emitted' = <<>>
        /\ torn' = {id \in Ids : Fragments(id, cursor) # {}} /\ log' = log /\ cursor' = cursor
    BY <1>6 DEF Reset
  <2>3. Buffering'
    <3> SUFFICES ASSUME NEW id \in Ids PROVE BufferOf(id)'
      BY DEF Buffering
    <3>1. ASSUME id \notin torn' PROVE Count(log', id, cursor') = 0
      <4>1. FragmentsIn(log, id, cursor) = {}
        BY <2>2, <3>1 DEF Fragments, FragmentsIn
      <4>2. cursor \in Nat
        BY DEF GenTypes
      <4> QED BY <2>2, <4>1, <4>2, CountType
    <3> QED BY <2>2, <3>1 DEF BufferOf
  <2>4. Emitting'
    BY <2>2 DEF Emitting, IsLatest
  <2> QED BY <2>1, <2>3, <2>4 DEF StreamInv
<1>7. CASE Reattach
  <2>1. /\ cursor' = 0 /\ torn' = {id \in Ids : pending[id] # None}
        /\ UNCHANGED <<log, pending, settled, emitted>>
    BY <1>7 DEF Reattach, streamVars
  <2>2. Numbered'
    BY <2>1 DEF StreamInv, Numbered
  <2>3. Buffering'
    <3> SUFFICES ASSUME NEW id \in Ids PROVE BufferOf(id)'
      BY DEF Buffering
    <3>1. Count(log', id, cursor') = 0 /\ BufferOf(id)
      BY <2>1, CountNone DEF StreamInv, Buffering
    <3> QED BY <2>1, <3>1 DEF BufferOf
  <2>4. Emitting'
    <3> SUFFICES ASSUME NEW u \in Updates, IsLatest(emitted', u) PROVE Right(u)'
      BY DEF Emitting
    <3>1. Right(u) /\ u.id \in Ids
      BY <2>1, UpdateFields DEF StreamInv, Emitting
    <3>2. ASSUME u.id \notin torn' PROVE \E n \in 0..Chunks : u.props = Upto(n)
      <4>1. u.props = Whole
        BY <2>1, <3>1, <3>2, UpdateFields DEF Right
      <4>2. Chunks \in 0..Chunks /\ Whole = Upto(Chunks)
        BY UptoNext
      <4> QED BY <4>1, <4>2
    <3> QED BY <2>1, <3>1, <3>2 DEF Right
  <2> QED BY <2>2, <2>3, <2>4 DEF StreamInv
<1>8. CASE UNCHANGED vars
  BY <1>2, <1>8 DEF vars, streamVars, hookVars, history
<1> QED BY <1>1, <1>3, <1>4, <1>5, <1>6, <1>7, <1>8 DEF Next

(* The list to come.                                                       *)

\* An entry is where the index says, is the latest update of its call, and
\* is final only for a settled call: of every list, also one with holes.
Fresh(E, S, V) ==
  \A i \in 1..Len(V.list) : V.list[i] # None =>
    /\ V.index[V.list[i].id] = i
    /\ IsLatest(E, V.list[i])
    /\ V.list[i].complete => V.list[i].id \in S

\* No hole, every position of the index that of an entry of its call, and the
\* updates those of the calls in arrival order.
Tidy(E, V) ==
  /\ \A i \in 1..Len(V.list) : V.list[i] # None
  /\ \A id \in Ids : V.index[id] # 0 =>
       V.index[id] \in 1..Len(V.list) /\ V.list[V.index[id]].id = id
  /\ LatestPerCall(E, V.list)

\* A call is complete in a list.
Final(list, id) ==
  \E i \in 1..Len(list) : list[i] # None /\ list[i].id = id /\ list[i].complete

LEMMA Placing ==
  ASSUME NEW V \in Views, NEW u \in Updates
  PROVE  LET P == Place(V, u) IN
         /\ P \in Views /\ Len(V.list) \in Nat /\ Len(P.list) \in Nat /\ Len(V.list) <= Len(P.list)
         /\ P.index[u.id] = Spot(V, u) /\ Spot(V, u) \in 1..Len(P.list)
         /\ P.list[Spot(V, u)] = u /\ u # None
         /\ \A id \in Ids : id # u.id => P.index[id] = V.index[id]
         /\ \A i \in 1..Len(P.list) : i # Spot(V, u) =>
              \/ i \in 1..Len(V.list) /\ P.list[i] = V.list[i]
              \/ i \notin 1..Len(V.list) /\ P.list[i] = None
<1> DEFINE P == Place(V, u)
<1>1. P \in Views /\ PlacedAt(V, u, P)
  BY PlaceType, PlaceList
<1>2. /\ Len(V.list) \in Nat /\ Len(P.list) \in Nat /\ Spot(V, u) \in Nat /\ Spot(V, u) # 0
      /\ u.id \in Ids /\ u # None
  BY <1>1, ViewFields, SpotIs, UpdateFields
<1>3. /\ Len(P.list) = IF Spot(V, u) > Len(V.list) THEN Spot(V, u) ELSE Len(V.list)
      /\ \A i \in 1..Len(P.list) :
           P.list[i] = IF i = Spot(V, u) THEN u ELSE IF i <= Len(V.list) THEN V.list[i] ELSE None
      /\ \A id \in Ids : P.index[id] = IF id = u.id THEN Spot(V, u) ELSE V.index[id]
  BY <1>1 DEF PlacedAt
<1> HIDE DEF P
<1>4. Len(V.list) <= Len(P.list) /\ Spot(V, u) \in 1..Len(P.list)
  BY <1>2, <1>3
<1>5. P.list[Spot(V, u)] = u
  BY <1>3, <1>4
<1>6. ASSUME NEW i \in 1..Len(P.list), i # Spot(V, u)
      PROVE  \/ i \in 1..Len(V.list) /\ P.list[i] = V.list[i]
             \/ i \notin 1..Len(V.list) /\ P.list[i] = None
  <2>1. CASE i <= Len(V.list)
    <3>1. i \in 1..Len(V.list)
      BY <1>2, <2>1
    <3>2. P.list[i] = V.list[i]
      BY <1>3, <1>6, <2>1
    <3> QED BY <3>1, <3>2
  <2>2. CASE ~ (i <= Len(V.list))
    <3>1. i \notin 1..Len(V.list)
      BY <1>2, <2>2
    <3>2. P.list[i] = None
      BY <1>3, <1>6, <2>2
    <3> QED BY <3>1, <3>2
  <2> QED BY <2>1, <2>2
<1>7. P.index[u.id] = Spot(V, u) /\ \A id \in Ids : id # u.id => P.index[id] = V.index[id]
  BY <1>2, <1>3
<1> QED BY <1>1, <1>2, <1>4, <1>5, <1>6, <1>7 DEF P

\* The entries of a list are updates or holes.
LEMMA EntryType ==
  ASSUME NEW V \in Views, NEW i \in 1..Len(V.list), V.list[i] # None
  PROVE  V.list[i] \in Updates /\ V.list[i].id \in Ids
<1>1. V.list \in Seq(Updates \cup {None})
  BY ViewFields DEF Lists
<1>2. V.list[i] \in Updates \cup {None}
  BY <1>1
<1> QED BY <1>2, UpdateFields

LEMMA FreshPlace ==
  ASSUME NEW V \in Views, NEW u \in Updates, NEW E \in Seq(Updates), NEW S, NEW R,
         Fresh(E, S, V), S \subseteq R, u.complete => u.id \in R
  PROVE  Fresh(Append(E, u), R, Place(V, u))
<1> DEFINE P == Place(V, u)
<1> SUFFICES ASSUME NEW i \in 1..Len(P.list), P.list[i] # None
             PROVE  /\ P.index[P.list[i].id] = i
                    /\ IsLatest(Append(E, u), P.list[i])
                    /\ P.list[i].complete => P.list[i].id \in R
  BY DEF Fresh
<1>1. /\ P.index[u.id] = Spot(V, u) /\ P.list[Spot(V, u)] = u
      /\ \A id \in Ids : id # u.id => P.index[id] = V.index[id]
      /\ i # Spot(V, u) => \/ i \in 1..Len(V.list) /\ P.list[i] = V.list[i]
                           \/ i \notin 1..Len(V.list) /\ P.list[i] = None
  BY Placing
<1> HIDE DEF P
<1>2. CASE i = Spot(V, u)
  <2>1. P.list[i] = u
    BY <1>1, <1>2
  <2>2. IsLatest(Append(E, u), u)
    BY LatestAppend
  <2> QED BY <1>1, <1>2, <2>1, <2>2
<1>3. CASE i # Spot(V, u)
  <2>1. i \in 1..Len(V.list) /\ P.list[i] = V.list[i] /\ V.list[i] # None
    BY <1>1, <1>3
  <2> DEFINE w == V.list[i]
  <2>2. V.index[w.id] = i /\ IsLatest(E, w) /\ (w.complete => w.id \in S)
    BY <2>1 DEF Fresh
  <2>3. w.id \in Ids /\ i # 0
    BY <2>1, EntryType
  <2> HIDE DEF w
  <2>4. w.id # u.id
    BY <1>3, <2>2, <2>3 DEF Spot
  <2>5. P.index[w.id] = i
    BY <1>1, <2>2, <2>3, <2>4
  <2>6. IsLatest(Append(E, u), w)
    BY <2>2, <2>4, LatestAppend
  <2> QED BY <2>1, <2>2, <2>5, <2>6 DEF w
<1> QED BY <1>2, <1>3

\* Where a call is in a tidy list, and that it is where it is put.
LEMMA TidySpot ==
  ASSUME NEW V \in Views, NEW u \in Updates, NEW E, Tidy(E, V)
  PROVE  \/ /\ Spot(V, u) \in 1..Len(V.list) /\ V.list[Spot(V, u)].id = u.id
            /\ Len(Place(V, u).list) = Len(V.list)
         \/ /\ V.index[u.id] = 0 /\ Spot(V, u) = Len(V.list) + 1
            /\ Len(Place(V, u).list) = Len(V.list) + 1
<1>1. /\ Len(V.list) \in Nat /\ u.id \in Ids
      /\ Len(Place(V, u).list) = IF Spot(V, u) > Len(V.list) THEN Spot(V, u) ELSE Len(V.list)
  BY ViewFields, UpdateFields, PlaceList DEF PlacedAt
<1>2. CASE V.index[u.id] = 0
  BY <1>1, <1>2 DEF Spot
<1>3. CASE V.index[u.id] # 0
  <2>1. Spot(V, u) \in 1..Len(V.list) /\ V.list[Spot(V, u)].id = u.id
    BY <1>1, <1>3 DEF Tidy, Spot
  <2>2. Len(Place(V, u).list) = Len(V.list)
    <3>1. Spot(V, u) \in 1..Len(V.list)
      BY <2>1
    <3> QED BY <1>1, <3>1
  <2> QED BY <2>1, <2>2
<1> QED BY <1>2, <1>3

LEMMA BeforeAppend ==
  ASSUME NEW E \in Seq(Updates), NEW u \in Updates, NEW id, NEW other, Before(E, id, other)
  PROVE  Before(Append(E, u), id, other)
<1> DEFINE D == Append(E, u)
<1>1. Len(E) \in Nat /\ Len(D) = Len(E) + 1 /\ \A i \in 1..Len(E) : D[i] = E[i]
  OBVIOUS
<1> HIDE DEF D
<1>2. PICK k \in 1..Len(E) : E[k].id = id /\ \A l \in 1..k : E[l].id # other
  BY DEF Before
<1>3. k \in 1..Len(D) /\ \A l \in 1..k : l \in 1..Len(E)
  BY <1>1
<1>4. D[k].id = id /\ \A l \in 1..k : D[l].id # other
  BY <1>1, <1>2, <1>3
<1> QED BY <1>3, <1>4 DEF Before, D

LEMMA TidyPlace ==
  ASSUME NEW V \in Views, NEW u \in Updates, NEW E \in Seq(Updates), NEW S,
         Fresh(E, S, V), Tidy(E, V)
  PROVE  Tidy(Append(E, u), Place(V, u))
<1> DEFINE P == Place(V, u)
           at == Spot(V, u)
           D == Append(E, u)
           M == Len(V.list)
<1>1. /\ P \in Views /\ M \in Nat /\ Len(P.list) \in Nat /\ M <= Len(P.list)
      /\ P.index[u.id] = at /\ at \in 1..Len(P.list)
      /\ P.list[at] = u /\ u # None
      /\ \A id \in Ids : id # u.id => P.index[id] = V.index[id]
      /\ \A i \in 1..Len(P.list) : i # at =>
           \/ i \in 1..M /\ P.list[i] = V.list[i]
           \/ i \notin 1..M /\ P.list[i] = None
  BY Placing
<1>2. \/ at \in 1..M /\ V.list[at].id = u.id /\ Len(P.list) = M
      \/ V.index[u.id] = 0 /\ at = M + 1 /\ Len(P.list) = M + 1
  BY TidySpot
<1>3. Fresh(D, S \cup {u.id}, P)
  <2>1. S \subseteq S \cup {u.id} /\ u.id \in S \cup {u.id}
    OBVIOUS
  <2> QED BY <2>1, FreshPlace
<1>4. /\ \A i \in 1..M : V.list[i] # None
      /\ \A id \in Ids : V.index[id] # 0 => V.index[id] \in 1..M /\ V.list[V.index[id]].id = id
      /\ LatestPerCall(E, V.list)
  BY DEF Tidy
<1>5. /\ \A i \in 1..M : V.index[V.list[i].id] = i /\ IsLatest(E, V.list[i])
      /\ \A i \in 1..M : V.list[i].id \in Ids
  BY <1>4, EntryType DEF Fresh
<1>6. u.id \in Ids
  BY UpdateFields
<1>7. /\ Len(E) \in Nat /\ Len(D) = Len(E) + 1 /\ D[Len(E) + 1] = u
      /\ \A i \in 1..Len(E) : D[i] = E[i]
  OBVIOUS
<1> HIDE DEF P, at, D, M
  \* Every position but the one of u is one of the list before.
<1>8. \A i \in 1..Len(P.list) : i # at => i \in 1..M /\ P.list[i] = V.list[i]
  BY <1>1, <1>2
<1>9. \A i \in 1..M : i \in 1..Len(P.list) /\ P.list[i].id = V.list[i].id
  <2> SUFFICES ASSUME NEW i \in 1..M PROVE i \in 1..Len(P.list) /\ P.list[i].id = V.list[i].id
    OBVIOUS
  <2>1. i \in 1..Len(P.list)
    BY <1>1
  <2>2. CASE i = at
    <3>1. V.list[at].id = u.id
      BY <1>1, <1>2, <2>2
    <3> QED BY <1>1, <2>1, <2>2, <3>1
  <2>3. CASE i # at
    BY <1>8, <2>1, <2>3
  <2> QED BY <2>2, <2>3
<1>10. \A i \in 1..Len(P.list) : P.list[i] # None
  BY <1>1, <1>4, <1>8
<1>11. ASSUME NEW id \in Ids, P.index[id] # 0
       PROVE  P.index[id] \in 1..Len(P.list) /\ P.list[P.index[id]].id = id
  <2>1. CASE id = u.id
    BY <1>1, <2>1
  <2>2. CASE id # u.id
    <3>1. P.index[id] = V.index[id]
      BY <1>1, <2>2
    <3>2. V.index[id] \in 1..M /\ V.list[V.index[id]].id = id
      BY <1>4, <1>11, <3>1
    <3> QED BY <1>9, <3>1, <3>2
  <2> QED BY <2>1, <2>2
<1>12. \A i \in 1..Len(P.list) : IsLatest(D, P.list[i])
  BY <1>3, <1>10 DEF Fresh
<1>13. ASSUME NEW k \in 1..Len(D) PROVE \E i \in 1..Len(P.list) : P.list[i].id = D[k].id
  <2>1. CASE k = Len(E) + 1
    BY <1>1, <1>7, <2>1
  <2>2. CASE k # Len(E) + 1
    <3>1. k \in 1..Len(E)
      BY <1>7, <2>2
    <3>2. PICK i \in 1..M : V.list[i].id = E[k].id
      BY <1>4, <3>1 DEF LatestPerCall, M
    <3> QED BY <1>7, <1>9, <3>1, <3>2
  <2> QED BY <2>1, <2>2
<1>14. ASSUME NEW i \in 1..Len(P.list), NEW j \in 1..Len(P.list), i < j
       PROVE  Before(D, P.list[i].id, P.list[j].id)
  <2>1. CASE j \in 1..M
    <3>1. i \in 1..M
      BY <1>1, <1>14, <2>1
    <3>2. Before(E, V.list[i].id, V.list[j].id)
      BY <1>4, <1>14, <2>1, <3>1 DEF LatestPerCall, M
    <3>3. Before(D, V.list[i].id, V.list[j].id)
      BY <3>2, BeforeAppend DEF D
    <3>4. P.list[i].id = V.list[i].id /\ P.list[j].id = V.list[j].id
      BY <1>9, <2>1, <3>1
    <3> QED BY <3>3, <3>4
  <2>2. CASE j \notin 1..M
    <3>1. j = at /\ V.index[u.id] = 0 /\ at = M + 1
      BY <1>1, <1>2, <1>8, <2>2
    <3>2. i \in 1..M /\ P.list[i].id = V.list[i].id /\ P.list[j].id = u.id
      BY <1>1, <1>9, <1>14, <3>1
    <3>3. PICK k \in 1..Len(E) : E[k] = V.list[i]
      BY <1>5, <3>2 DEF IsLatest
    <3>4. ASSUME NEW l \in 1..Len(E) PROVE E[l].id # u.id
      <4>1. PICK m \in 1..M : V.list[m].id = E[l].id
        BY <1>4 DEF LatestPerCall, M
      <4>2. V.index[E[l].id] = m /\ m # 0
        BY <1>1, <1>5, <4>1
      <4> QED BY <3>1, <4>2
    <3>5. k \in 1..Len(D) /\ \A l \in 1..k : l \in 1..Len(E)
      BY <1>7
    <3>6. D[k].id = P.list[i].id /\ \A l \in 1..k : D[l].id # P.list[j].id
      BY <1>7, <3>2, <3>3, <3>4, <3>5
    <3> QED BY <3>5, <3>6 DEF Before
  <2> QED BY <2>1, <2>2
<1>15. LatestPerCall(D, P.list)
  BY <1>12, <1>13, <1>14 DEF LatestPerCall
<1>16. Tidy(D, P)
  BY <1>10, <1>11, <1>15 DEF Tidy
<1> QED BY <1>16 DEF D, P

\* A call complete in a tidy list stays so when a settled call can only be
\* told complete.
LEMMA FinalPlace ==
  ASSUME NEW V \in Views, NEW u \in Updates, NEW E, NEW S, NEW id,
         Fresh(E, S, V), Tidy(E, V), Final(V.list, id), u.id \in S => u.complete
  PROVE  Final(Place(V, u).list, id)
<1> DEFINE P == Place(V, u)
<1>1. PICK i \in 1..Len(V.list) : V.list[i] # None /\ V.list[i].id = id /\ V.list[i].complete
  BY DEF Final
<1>2. id \in S
  BY <1>1 DEF Fresh
<1>3. /\ Len(V.list) \in Nat /\ Len(P.list) \in Nat /\ Len(V.list) <= Len(P.list)
      /\ P.list[Spot(V, u)] = u /\ u # None
      /\ \A j \in 1..Len(P.list) : j # Spot(V, u) =>
           \/ j \in 1..Len(V.list) /\ P.list[j] = V.list[j]
           \/ j \notin 1..Len(V.list) /\ P.list[j] = None
  BY Placing
<1>4. \/ Spot(V, u) \in 1..Len(V.list) /\ V.list[Spot(V, u)].id = u.id
      \/ Spot(V, u) = Len(V.list) + 1
  BY TidySpot
<1> HIDE DEF P
<1>5. i \in 1..Len(P.list)
  BY <1>3
<1>6. CASE i = Spot(V, u)
  <2>1. u.id = id
    BY <1>1, <1>3, <1>4, <1>6
  <2>2. u.complete
    BY <1>2, <2>1
  <2> QED BY <1>3, <1>5, <1>6, <2>1, <2>2 DEF Final, P
<1>7. CASE i # Spot(V, u)
  BY <1>1, <1>3, <1>5, <1>7 DEF Final, P
<1> QED BY <1>6, <1>7

\* A tidy list is no longer than there are calls.
LEMMA TidyLength ==
  ASSUME NEW V \in Views, NEW E, NEW S, Fresh(E, S, V), Tidy(E, V)
  PROVE  /\ Cardinality(Ids) \in Nat /\ Len(V.list) <= Cardinality(Ids)
         /\ \A id \in Ids : V.index[id] \in 0..Cardinality(Ids)
<1> DEFINE M == Len(V.list)
           f == [i \in 1..M |-> V.list[i].id]
<1>1. M \in Nat /\ Cardinality(Ids) \in Nat
  BY ViewFields, FS_CardinalityType
<1>2. \A i \in 1..M : V.list[i].id \in Ids /\ V.index[V.list[i].id] = i
  BY EntryType DEF Fresh, Tidy
<1>3. f \in Injection(1..M, Ids)
  <2>1. f \in [1..M -> Ids]
    BY <1>2
  <2>2. \A i, j \in 1..M : f[i] = f[j] => i = j
    BY <1>2
  <2> HIDE DEF f, M
  <2> QED BY <2>1, <2>2 DEF Injection, IsInjective
<1>4. IsFiniteSet(1..M) /\ Cardinality(1..M) = M
  <2>1. 1 \in Int /\ M \in Int
    BY <1>1
  <2>2. Cardinality(1..M) = IF 1 > M THEN 0 ELSE M - 1 + 1
    <3> HIDE DEF M
    <3> QED BY <2>1, FS_Interval
  <2> HIDE DEF M
  <2> QED BY <1>1, <2>1, <2>2, FS_Interval
<1>5. Cardinality(1..M) <= Cardinality(Ids)
  <2> HIDE DEF f, M
  <2> QED BY <1>3, FS_Injection
<1>6. M <= Cardinality(Ids)
  BY <1>4, <1>5
<1>7. ASSUME NEW id \in Ids PROVE V.index[id] \in 0..Cardinality(Ids)
  <2>1. V.index[id] = 0 \/ V.index[id] \in 1..M
    BY DEF Tidy
  <2> HIDE DEF M
  <2> QED BY <1>1, <1>6, <2>1
<1> QED BY <1>1, <1>6, <1>7

(* The list through the steps.                                             *)

\* No value React has accepted is longer than the list to come.
Rooms == \A i \in 1..Len(queue) : queue[i].op = "set" => Len(queue[i].list) <= Len(Coming.list)
\* What is complete in the rendered list is complete in the list to come.
Carried == \A id \in Ids : ShownComplete(id) => Final(Coming.list, id)
\* Holes are rendered only after a reset() that crossed updaters.
Holes == \A i \in 1..Len(updates) : updates[i] = None => crossed \/ Resetting

ListInv ==
  /\ Fresh(emitted, settled, Coming)
  /\ ~crossed => Tidy(emitted, Coming)
  /\ ~crossed /\ ~Resetting => Carried /\ Rooms
  /\ Holes

GenUIInv == GenTypes /\ StreamInv /\ ListInv

LEMMA NothingTidy ==
  ASSUME NEW V, V.list = <<>>, \A id \in Ids : V.index[id] = 0
  PROVE  Tidy(<<>>, V)
BY DEF Tidy, LatestPerCall

LEMMA NothingFresh == ASSUME NEW V, NEW E, NEW S, V.list = <<>> PROVE Fresh(E, S, V)
BY DEF Fresh

LEMMA ListInit == Init => ListInv
<1> SUFFICES ASSUME Init PROVE ListInv
  OBVIOUS
<1>1. GenTypes
  BY TypesInit
<1>2. Coming = Now /\ Now.list = <<>> /\ \A id \in Ids : Now.index[id] = 0
  BY <1>1, ComingType DEF Now, Init
<1>3. emitted = <<>> /\ queue = <<>> /\ updates = <<>>
  BY DEF Init
<1>4. Fresh(emitted, settled, Coming) /\ Tidy(emitted, Coming)
  BY <1>2, <1>3, NothingTidy, NothingFresh
<1>5. Holes /\ Carried /\ Rooms
  BY <1>3 DEF Holes, Carried, Rooms, ShownComplete
<1> QED BY <1>4, <1>5 DEF ListInv

\* The queue only grows: a reset that waits goes on waiting.
LEMMA StillResetting ==
  ASSUME GenTypes, NEW u \in Updates, Waits(u) \/ AtOnce, Resetting
  PROVE  Resetting'
<1>1. queue \in Seq(Ops)
  BY DEF GenTypes
<1>2. PICK i \in 1..Len(queue) : queue[i] = SetOp(<<>>)
  BY DEF Resetting
<1>3. queue # <<>>
  BY <1>1, <1>2
<1>4. queue' = Append(queue, PutOp(u))
  BY <1>3 DEF Waits, AtOnce
<1>5. i \in 1..Len(queue') /\ queue'[i] = queue[i]
  BY <1>1, <1>4
<1> QED BY <1>2, <1>5 DEF Resetting

\* An update given to React.
LEMMA ListSays ==
  ASSUME GenTypes, ListInv, NEW u \in Updates, NEW eager, Says(u, eager),
         updates' = updates, crossed' = crossed, settled \subseteq settled',
         u.complete => u.id \in settled', u.id \in settled => u.complete
  PROVE  ListInv'
<1>1. Coming' = Place(Coming, u) /\ queue' \in Seq(Ops) /\ (Waits(u) \/ AtOnce)
  BY DispatchPlaces DEF Says
<1>2. emitted' = Append(emitted, u)
  BY DEF Says
<1>3. Coming \in Views /\ Coming' \in Views /\ Len(Coming.list) \in Nat
      /\ Len(Coming'.list) \in Nat /\ Len(Coming.list) <= Len(Coming'.list)
  BY <1>1, ComingType, Placing
<1>4. emitted \in Seq(Updates) /\ queue \in Seq(Ops)
  BY DEF GenTypes
<1>5. Resetting => Resetting'
  BY <1>1, StillResetting
<1>6. Fresh(emitted, settled, Coming)
  BY DEF ListInv
<1>7. Fresh(emitted', settled', Coming')
  BY <1>1, <1>2, <1>3, <1>4, <1>6, FreshPlace
<1>8. ~crossed' => Tidy(emitted', Coming')
  BY <1>1, <1>2, <1>3, <1>4, <1>6, TidyPlace DEF ListInv
<1>9. ASSUME ~crossed', ~Resetting' PROVE Carried'
  <2>1. Tidy(emitted, Coming) /\ Carried
    BY <1>5, <1>9 DEF ListInv
  <2> SUFFICES ASSUME NEW id \in Ids, ShownComplete(id)' PROVE Final(Coming'.list, id)
    BY DEF Carried
  <2>2. ShownComplete(id)
    BY DEF ShownComplete
  <2>3. Final(Coming.list, id)
    BY <2>1, <2>2 DEF Carried
  <2> QED BY <1>1, <1>3, <1>6, <2>1, <2>3, FinalPlace
<1>10. ASSUME ~crossed', ~Resetting' PROVE Rooms'
  <2>1. Rooms
    BY <1>5, <1>10 DEF ListInv
  <2> SUFFICES ASSUME NEW i \in 1..Len(queue'), queue'[i].op = "set"
               PROVE  Len(queue'[i].list) <= Len(Coming'.list)
    BY DEF Rooms
  <2>2. CASE Waits(u)
    <3>1. queue' = Append(queue, PutOp(u)) /\ PutOp(u).op = "put"
      BY <2>2, OpsMade DEF Waits
    <3>2. i \in 1..Len(queue) /\ queue'[i] = queue[i]
      BY <1>4, <3>1
    <3>3. queue[i] \in Ops /\ queue[i].op = "set"
      BY <1>4, <3>2
    <3>4. Len(queue[i].list) \in Nat
      BY <3>3 DEF Ops, Lists
    <3>5. Len(queue[i].list) <= Len(Coming.list)
      BY <2>1, <3>2, <3>3 DEF Rooms
    <3> QED BY <1>3, <3>2, <3>4, <3>5
  <2>3. CASE AtOnce
    <3>1. queue'[i] = SetOp(Coming'.list)
      BY <2>3 DEF AtOnce
    <3>2. queue'[i].list = Coming'.list
      BY <3>1 DEF SetOp
    <3> QED BY <1>3, <3>2
  <2> QED BY <1>1, <2>2, <2>3
<1>11. Holes'
  BY <1>5 DEF ListInv, Holes
<1> QED BY <1>7, <1>8, <1>9, <1>10, <1>11 DEF ListInv

LEMMA ListUnchanged ==
  ASSUME ListInv, UNCHANGED <<updates, queue, index, emitted, crossed, settled>>
  PROVE  ListInv'
<1>1. Coming' = Coming
  BY DEF Coming, Pass
<1>2. Resetting' <=> Resetting
  BY DEF Resetting
<1>3. Carried' <=> Carried
  BY <1>1 DEF Carried, ShownComplete
<1>4. Rooms' <=> Rooms
  BY <1>1 DEF Rooms
<1>5. Holes'
  BY <1>2 DEF ListInv, Holes
<1> QED BY <1>1, <1>2, <1>3, <1>4, <1>5 DEF ListInv

LEMMA ListOnEvent ==
  ASSUME GenTypes, ListInv, NEW eager, OnEvent(eager)
  PROVE  ListInv'
<1> DEFINE e == log[cursor + 1]
<1>1. /\ e \in Events /\ UNCHANGED <<log, schema, updates, torn, crossed, resets, attaches>>
      /\ Skips(e) \/ BuffersIt(e, eager) \/ Finishes(e, eager)
  BY OnEventCases
<1>2. e.id \in Ids
  BY <1>1, EventFields
<1> HIDE DEF e
<1>3. ASSUME Quiet, settled' = settled PROVE ListInv'
  BY <1>1, <1>3, ListUnchanged DEF Quiet
<1>4. CASE Skips(e)
  BY <1>3, <1>4 DEF Skips
<1>5. CASE BuffersIt(e, eager) /\ ~Quiet
  <2> DEFINE u == Update(e.id, Buffered(e).text, FALSE)
  <2>1. Says(u, eager) /\ e.event = "message_delta" /\ e.id \notin settled /\ settled' = settled
    BY <1>5 DEF BuffersIt
  <2>2. u \in Updates
    <3>1. Buffered(e).text \in Seq(1..Chunks) /\ FALSE \in BOOLEAN
      BY <1>1, <2>1, BufferedType DEF Buffers
    <3> QED BY <1>2, <3>1, UpdateMade
  <2>3. u.complete = FALSE /\ u.id = e.id
    BY DEF Update
  <2> HIDE DEF u
  <2>4. (u.complete => u.id \in settled') /\ (u.id \in settled => u.complete)
    BY <2>1, <2>3
  <2> QED BY <1>1, <2>1, <2>2, <2>4, ListSays
<1>6. CASE Finishes(e, eager)
  <2> DEFINE u == Update(e.id, Whole, TRUE)
  <2>1. Says(u, eager) /\ settled' = settled \cup {e.id}
    BY <1>6 DEF Finishes
  <2>2. u \in Updates
    <3>1. Whole \in Seq(1..Chunks) /\ TRUE \in BOOLEAN
      BY WholeType
    <3> QED BY <1>2, <3>1, UpdateMade
  <2>3. u.complete = TRUE /\ u.id = e.id
    BY DEF Update
  <2> HIDE DEF u
  <2>4. settled \subseteq settled' /\ (u.complete => u.id \in settled') /\ (u.id \in settled => u.complete)
    BY <2>1, <2>3
  <2> QED BY <1>1, <2>1, <2>2, <2>4, ListSays
<1>7. BuffersIt(e, eager) => settled' = settled
  BY DEF BuffersIt
<1> QED BY <1>1, <1>3, <1>4, <1>5, <1>6, <1>7

LEMMA ListNext ==
  ASSUME GenUIInv, [Next]_vars
  PROVE  ListInv'
<1>1. GenTypes /\ ListInv
  BY DEF GenUIInv
<1>2. ASSUME NEW id \in Ids, EmitToolUse(id) \/ \E named \in BOOLEAN : EmitDelta(id, named)
      PROVE  ListInv'
  BY <1>1, <1>2, EmitCases, ListUnchanged
<1>3. CASE LoadSchema
  BY <1>1, <1>3, ListUnchanged DEF LoadSchema, streamVars, hookVars, history
<1>4. ASSUME NEW eager \in BOOLEAN, OnEvent(eager) PROVE ListInv'
  BY <1>1, <1>4, ListOnEvent
<1>5. ASSUME NEW passes, Render(passes) PROVE ListInv'
  <2>1. /\ updates' = Coming.list /\ queue' = <<>> /\ Coming' = Coming
        /\ UNCHANGED <<emitted, crossed, settled>>
    BY <1>1, <1>5, RenderShows
  <2>2. Fresh(emitted', settled', Coming') /\ (~crossed' => Tidy(emitted', Coming'))
    BY <1>1, <2>1 DEF ListInv
  <2>3. Carried'
    BY <2>1 DEF Carried, ShownComplete, Final
  <2>4. Rooms'
    BY <2>1 DEF Rooms
  <2>5. Holes'
    BY <2>1, <2>2 DEF Holes, Tidy
  <2> QED BY <2>2, <2>3, <2>4, <2>5 DEF ListInv
<1>6. CASE Reset
  <2>1. /\ queue' = Append(queue, SetOp(<<>>)) /\ Coming' \in Views /\ Coming'.list = <<>>
        /\ ~crossed' => \A id \in Ids : Coming'.index[id] = 0
    BY <1>1, <1>6, ResetClears
  <2>2. emitted' = <<>>
    BY <1>6 DEF Reset
  <2>3. Resetting'
    <3>1. queue \in Seq(Ops)
      BY <1>1 DEF GenTypes
    <3>2. Len(queue) + 1 \in 1..Len(queue') /\ queue'[Len(queue) + 1] = SetOp(<<>>)
      BY <2>1, <3>1
    <3> QED BY <3>2 DEF Resetting
  <2>4. Fresh(emitted', settled', Coming')
    BY <2>1, NothingFresh
  <2>5. ~crossed' => Tidy(emitted', Coming')
    BY <2>1, <2>2, NothingTidy
  <2>6. Holes'
    BY <2>3 DEF Holes
  <2> QED BY <2>3, <2>4, <2>5, <2>6 DEF ListInv
<1>7. CASE Reattach
  BY <1>1, <1>7, ListUnchanged DEF Reattach, streamVars, hookVars
<1>8. CASE UNCHANGED vars
  BY <1>1, <1>8, ListUnchanged DEF vars, streamVars, hookVars, history
<1> QED BY <1>2, <1>3, <1>4, <1>5, <1>6, <1>7, <1>8 DEF Next

(* The theorems.                                                           *)

\* The inductive invariant: the types, the stream's buffers, and the list to come.
THEOREM GenUIInvariant == Spec => []GenUIInv
<1>1. Init => GenUIInv
  BY TypesInit, StreamInit, ListInit DEF GenUIInv
<1>2. GenUIInv /\ [Next]_vars => GenUIInv'
  <2> SUFFICES ASSUME GenUIInv, [Next]_vars PROVE GenUIInv'
    OBVIOUS
  <2>1. GenTypes /\ StreamInv
    BY DEF GenUIInv
  <2> QED BY <2>1, TypesNext, StreamNext, ListNext DEF GenUIInv
<1> QED BY <1>1, <1>2, PTL DEF Spec

\* The checked type invariant: a settled call has no buffer, and no list or
\* position goes past the number of calls but after a reset() that crossed
\* updaters.
THEOREM GenUITypeCorrect == Spec => []TypeOK
<1>1. GenUIInv => TypeOK
  <2> SUFFICES ASSUME GenUIInv PROVE TypeOK
    OBVIOUS
  <2>1. GenTypes /\ StreamInv /\ ListInv
    BY DEF GenUIInv
  <2>2. \A id \in Ids : pending[id] # None => id \notin settled /\ pending[id] \in Buffers
    <3>1. \A id \in Ids : pending[id] # None => id \notin settled
      BY <2>1 DEF StreamInv, Buffering, BufferOf
    <3>2. pending \in [Ids -> Buffers \cup {None}]
      BY <2>1 DEF GenTypes
    <3> QED BY <3>1, <3>2
  <2>3. \A i \in 1..Len(updates) :
          IF updates[i] = None THEN crossed \/ Resetting ELSE updates[i] \in Updates
    <3>1. updates \in Seq(Updates \cup {None})
      BY <2>1 DEF GenTypes, Lists
    <3>2. \A i \in 1..Len(updates) : updates[i] \in Updates \cup {None}
      BY <3>1
    <3> QED BY <2>1, <3>2 DEF ListInv, Holes
  <2>4. Coming \in Views /\ \A id \in Ids : index[id] # 0 => Coming.index[id] = index[id]
    BY <2>1, ComingType
  <2>5. ASSUME ~crossed
        PROVE  /\ Cardinality(Ids) \in Nat /\ Len(Coming.list) <= Cardinality(Ids)
               /\ \A id \in Ids : Coming.index[id] \in 0..Cardinality(Ids)
    <3>1. Fresh(emitted, settled, Coming) /\ Tidy(emitted, Coming)
      BY <2>1, <2>5 DEF ListInv
    <3> QED BY <2>4, <3>1, TidyLength
  <2>6. crossed \/ \A id \in Ids : index[id] \in 0..Cardinality(Ids)
    <3> SUFFICES ASSUME ~crossed, NEW id \in Ids PROVE index[id] \in 0..Cardinality(Ids)
      OBVIOUS
    <3>1. CASE index[id] = 0
      BY <2>5, <3>1
    <3>2. CASE index[id] # 0
      BY <2>4, <2>5, <3>2
    <3> QED BY <3>1, <3>2
  <2>7. ASSUME NEW i \in 1..Len(queue)
        PROVE  \/ queue[i].op = "put" /\ queue[i].update \in Updates
               \/ /\ queue[i].op = "set"
                  /\ crossed \/ Resetting \/ Len(queue[i].list) \in 0..Cardinality(Ids)
    <3>1. queue[i] \in Ops
      BY <2>1 DEF GenTypes
    <3>2. CASE queue[i].op = "put"
      BY <3>1, <3>2 DEF Ops
    <3>3. CASE queue[i].op # "put"
      <4>1. queue[i].op = "set" /\ Len(queue[i].list) \in Nat
        BY <3>1, <3>3 DEF Ops, Lists
      <4>2. ASSUME ~crossed, ~Resetting PROVE Len(queue[i].list) \in 0..Cardinality(Ids)
        <5>1. Len(queue[i].list) <= Len(Coming.list)
          BY <2>1, <4>1, <4>2 DEF ListInv, Rooms
        <5>2. Len(Coming.list) \in Nat
          BY <2>4, ViewFields
        <5>3. Cardinality(Ids) \in Nat /\ Len(Coming.list) <= Cardinality(Ids)
          BY <2>5, <4>2
        <5> QED BY <4>1, <5>1, <5>2, <5>3
      <4> QED BY <4>1, <4>2
    <3> QED BY <3>2, <3>3
  <2>8. \A i \in 1..Len(emitted) : emitted[i] \in Updates
    BY <2>1 DEF GenTypes
  <2>9. cursor \in 0..Len(log) /\ schema \in BOOLEAN /\ settled \subseteq Ids /\ index \in [Ids -> Nat]
    BY <2>1 DEF GenTypes
  <2>10. torn \subseteq Ids /\ crossed \in BOOLEAN /\ resets \in 0..MaxResets /\ attaches \in 0..MaxAttach
    BY <2>1 DEF GenTypes
  <2> QED BY <2>2, <2>3, <2>6, <2>7, <2>8, <2>9, <2>10 DEF TypeOK
<1> QED BY <1>1, GenUIInvariant, PTL

\* When React has applied all it accepted, the rendered list is the latest
\* update of each call in arrival order, whatever ran early, late or twice,
\* unless the last reset() found updaters still to run.
THEOREM LatestShown == Spec => []LatestInArrivalOrder
<1>1. GenUIInv => LatestInArrivalOrder
  <2> SUFFICES ASSUME GenUIInv, queue = <<>>, ~crossed PROVE LatestPerCall(emitted, updates)
    BY DEF LatestInArrivalOrder
  <2>1. Coming = Now
    BY ComingType DEF GenUIInv
  <2>2. LatestPerCall(emitted, Coming.list)
    BY DEF GenUIInv, ListInv, Tidy
  <2> QED BY <2>1, <2>2 DEF Now
<1> QED BY <1>1, GenUIInvariant, PTL

\* A call whose fragments came whole and once shows a prefix of its input, and
\* all of it once it is complete, whatever the others do.
THEOREM PrefixShown == Spec => []ShowsPrefix
<1>1. GenUIInv => ShowsPrefix
  <2> SUFFICES ASSUME GenUIInv, queue = <<>>, NEW i \in 1..Len(updates), updates[i] # None,
                      updates[i].id \notin torn
               PROVE  /\ IsPrefix(updates[i].props, Whole)
                      /\ updates[i].complete => updates[i].props = Whole
    BY DEF ShowsPrefix
  <2> DEFINE u == updates[i]
  <2>1. Coming = Now /\ Coming \in Views
    BY ComingType DEF GenUIInv
  <2>2. u = Coming.list[i] /\ i \in 1..Len(Coming.list)
    BY <2>1 DEF Now
  <2>3. IsLatest(emitted, u) /\ u \in Updates
    BY <2>1, <2>2, EntryType DEF GenUIInv, ListInv, Fresh
  <2>4. Right(u)
    BY <2>3 DEF GenUIInv, StreamInv, Emitting
  <2>5. PICK n \in 0..Chunks : u.props = Upto(n)
    BY <2>4 DEF Right
  <2>6. IsPrefix(u.props, Whole)
    <3>1. n \in Nat /\ Chunks \in Nat /\ n <= Chunks
      OBVIOUS
    <3>2. u.props \in Seq(Nat) /\ Whole \in Seq(Nat) /\ Whole = Upto(Chunks)
      BY <2>5, <3>1, UptoNext
    <3>3. Len(u.props) = n /\ Len(Whole) = Chunks
      <4>1. DOMAIN u.props = 1..n /\ DOMAIN Whole = 1..Chunks
        BY <2>5, <3>2 DEF Upto
      <4> QED BY <3>1, <3>2, <4>1
    <3>4. SubSeq(u.props, 1, n) = u.props
      BY <3>1, <3>2, <3>3
    <3>5. SubSeq(Whole, 1, n) = u.props
      <4> DEFINE s == SubSeq(Whole, 1, n)
                 p == u.props
      <4>1. s \in Seq(Nat) /\ Len(s) = n /\ \A j \in 1..n : s[j] = Whole[j]
        BY <3>1, <3>2, <3>3
      <4>2. \A j \in 1..n : j \in 1..Chunks /\ p[j] = j /\ Whole[j] = j
        BY <2>5, <3>1, <3>2 DEF Upto
      <4>3. p \in Seq(Nat) /\ Len(p) = n
        BY <3>2, <3>3
      <4> HIDE DEF s, p
      <4>4. s = p
        BY <4>1, <4>2, <4>3
      <4> QED BY <4>4 DEF s, p
    <3> QED BY <3>1, <3>3, <3>4, <3>5 DEF IsPrefix
  <2> QED BY <2>4, <2>6 DEF Right
<1> QED BY <1>1, GenUIInvariant, PTL

\* A call shown complete stays so until the list is reset: fragments delivered
\* again do not bring a partial one back.
THEOREM CompleteIsKept == Spec => CompleteStays
<1>1. GenUIInv /\ [Next]_vars => CompleteStep
  <2> SUFFICES ASSUME GenUIInv, [Next]_vars, NEW id \in Ids, ShownComplete(id), ~crossed, ~Resetting
               PROVE  ShownComplete(id)'
    BY DEF CompleteStep
  <2>1. GenTypes /\ ListInv
    BY DEF GenUIInv
  <2>2. Final(Coming.list, id)
    BY <2>1 DEF ListInv, Carried
  <2>3. updates' = updates => ShownComplete(id)'
    BY DEF ShownComplete
  <2>4. ASSUME NEW j \in Ids, EmitToolUse(j) \/ \E named \in BOOLEAN : EmitDelta(j, named)
        PROVE  ShownComplete(id)'
    BY <2>1, <2>3, <2>4, EmitCases
  <2>5. CASE LoadSchema
    BY <2>3, <2>5 DEF LoadSchema, hookVars
  <2>6. ASSUME NEW eager \in BOOLEAN, OnEvent(eager) PROVE ShownComplete(id)'
    BY <2>3, <2>6 DEF OnEvent
  <2>7. ASSUME NEW passes, Render(passes) PROVE ShownComplete(id)'
    <3>1. updates' = Coming.list
      BY <2>1, <2>7, RenderShows
    <3> QED BY <2>2, <3>1 DEF ShownComplete, Final
  <2>8. CASE Reset
    BY <2>3, <2>8 DEF Reset
  <2>9. CASE Reattach
    BY <2>3, <2>9 DEF Reattach, hookVars
  <2>10. CASE UNCHANGED vars
    BY <2>3, <2>10 DEF vars, hookVars
  <2> QED BY <2>4, <2>5, <2>6, <2>7, <2>8, <2>9, <2>10 DEF Next
<1> QED BY <1>1, GenUIInvariant, PTL DEF Spec, CompleteStays
=============================================================================
