--------------------------- MODULE FirstReplyWins ---------------------------
(***************************************************************************)
(* What the server promises about prompts, with no futures and no table:   *)
(* a prompt is asked once and then decided by the first reply that names   *)
(* its id, or dropped.  While the session is served, a reply is refused    *)
(* only when no prompt of that id is open.                                 *)
(***************************************************************************)
CONSTANTS Calls, Replies, Ids, IdOf, None

VARIABLES
  prompt,   \* "unasked", "open", "decided" or "dropped"
  winner,   \* the reply that decided it
  outcome,  \* what each reply was told
  about,    \* the id each reply named
  serving   \* the session has not begun to close

promptVars == <<prompt, winner, outcome, about, serving>>

Init ==
  /\ prompt = [c \in Calls |-> "unasked"]
  /\ winner = [c \in Calls |-> None]
  /\ outcome = [r \in Replies |-> "unsent"]
  /\ about = [r \in Replies |-> None]
  /\ serving = TRUE

OpenFor(i) == {c \in Calls : prompt[c] = "open" /\ IdOf[c] = i}

Ask(c) ==
  /\ prompt[c] = "unasked"
  /\ prompt' = [prompt EXCEPT ![c] = "open"]
  /\ UNCHANGED <<winner, outcome, about, serving>>

Decide(r, c) ==
  /\ outcome[r] = "unsent"
  /\ c \in OpenFor(IdOf[c])
  /\ prompt' = [prompt EXCEPT ![c] = "decided"]
  /\ winner' = [winner EXCEPT ![c] = r]
  /\ outcome' = [outcome EXCEPT ![r] = "accepted"]
  /\ about' = [about EXCEPT ![r] = IdOf[c]]
  /\ UNCHANGED serving

Refuse(r, i) ==
  /\ outcome[r] = "unsent"
  /\ OpenFor(i) = {} \/ ~serving
  /\ outcome' = [outcome EXCEPT ![r] = "refused"]
  /\ about' = [about EXCEPT ![r] = i]
  /\ UNCHANGED <<prompt, winner, serving>>

Drop(c) ==
  /\ prompt[c] = "open"
  /\ prompt' = [prompt EXCEPT ![c] = "dropped"]
  /\ UNCHANGED <<winner, outcome, about, serving>>

\* Closing drops every open prompt at once.
Close ==
  /\ serving
  /\ serving' = FALSE
  /\ prompt' = [c \in Calls |-> IF prompt[c] = "open" THEN "dropped" ELSE prompt[c]]
  /\ UNCHANGED <<winner, outcome, about>>

Next ==
  \/ \E c \in Calls : Ask(c) \/ Drop(c)
  \/ \E r \in Replies, c \in Calls : Decide(r, c)
  \/ \E r \in Replies, i \in Ids : Refuse(r, i)
  \/ Close

Spec == Init /\ [][Next]_promptVars
=============================================================================
