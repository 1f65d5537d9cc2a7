----------------------------- MODULE EventFeed ------------------------------
(***************************************************************************)
(* What an event log with bounded retention promises its readers, with no  *)
(* ring, snapshot, waiter or task in sight.  Events are numbered 1, 2, ... *)
(* as they are published; those below `floor` are no longer retained.  A   *)
(* reader resumes after a number k, that of an event it has seen (0: from  *)
(* the start) or one that is still to come, is refused exactly when an     *)
(* event it needs is gone, and then reads in order, never passing over an  *)
(* event that is still retained.                                           *)
(***************************************************************************)
EXTENDS Integers, Sequences

CONSTANTS Readers,
          Cursors   \* the numbers a reader may name

VARIABLES published, floor, finished, phase, position, got

feedVars == <<published, floor, finished, phase, position, got>>
readerVars == <<phase, position, got>>

Init ==
  /\ published = 0
  /\ floor = 1
  /\ finished = FALSE
  /\ phase = [r \in Readers |-> "new"]
  /\ position = [r \in Readers |-> 0]
  /\ got = [r \in Readers |-> <<>>]

\* A new event; retention forgets some of the oldest, never the newest.
Publish ==
  /\ ~finished
  /\ published' = published + 1
  /\ floor' \in floor..published'
  /\ finished' \in BOOLEAN
  /\ UNCHANGED readerVars

\* What a reader that has seen everything up to p may get next.
NextFor(p) ==
  {e \in (p+1)..published : \A x \in (p+1)..(e-1) : x < floor}

ReadFrom(r, p) ==
  \E e \in NextFor(p) :
    /\ position' = [position EXCEPT ![r] = e]
    /\ got' = [got EXCEPT ![r] = Append(@, e)]
    /\ phase' = [phase EXCEPT ![r] = "reading"]

Refuse(r) ==
  /\ phase[r] = "new"
  /\ \E k \in Cursors \ {0} : k + 1 < floor
  /\ phase' = [phase EXCEPT ![r] = "refused"]
  /\ UNCHANGED <<published, floor, finished, position, got>>

\* A reader joins after k, and may get its first event at once.
Join(r) ==
  /\ phase[r] = "new"
  /\ \E k \in Cursors :
       /\ k = 0 \/ k + 1 >= floor
       /\ \/ ReadFrom(r, k)
          \/ /\ NextFor(k) = {}
             /\ position' = [position EXCEPT ![r] = k]
             /\ phase' = [phase EXCEPT ![r] = IF finished THEN "over"
                                                          ELSE "reading"]
             /\ UNCHANGED got
  /\ UNCHANGED <<published, floor, finished>>

Read(r) ==
  /\ phase[r] = "reading"
  /\ ReadFrom(r, position[r])
  /\ UNCHANGED <<published, floor, finished>>

Leave(r) ==
  /\ phase[r] = "reading"
  /\ phase' = [phase EXCEPT ![r] = "over"]
  /\ UNCHANGED <<published, floor, finished, position, got>>

Next == Publish \/ \E r \in Readers : Refuse(r) \/ Join(r) \/ Read(r) \/ Leave(r)

Spec == Init /\ [][Next]_feedVars
=============================================================================
