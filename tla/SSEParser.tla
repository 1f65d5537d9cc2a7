------------------------------ MODULE SSEParser ------------------------------
(***************************************************************************)
(* The text of a stream: feedSSE (sse.ts), which is given the chunks of a   *)
(* response as they come, and the loop of streamEvents (transport.ts) that *)
(* feeds it, over connections that break anywhere in a frame.  Stream takes *)
(* a frame as one step; this module is what that step rests on.            *)
(*                                                                         *)
(* A text is a sequence of tokens: CR, LF, ":", " ", the name of a field,   *)
(* or a piece of a value.  A chunk may end after any token.  The server     *)
(* sends Frames[i] in the form Forms[style[i]]; its own form is one of them, *)
(* the others are those the parser is written, and tested, for.            *)
(***************************************************************************)
EXTENDS Naturals, Sequences, SequencesExt, FiniteSets

CONSTANTS Tokens,    \* what a text is made of
          Frames,    \* events of the session: [id, event, data: lines], in order
          Forms,     \* forms of a frame: [eol, colon, idLast, lead, noise: lines]
          None,      \* a field that is not set
          MaxBreaks  \* bound of the model: connections that break

ASSUME TokenAssumption == {"CR", "LF", ":", " ", "id", "event", "data"} \subseteq Tokens

Text == Seq(Tokens)

\* Values are of one line each; ids are told apart and not empty.
OneLine(t) == \A i \in 1..Len(t) : t[i] \notin {"LF", "CR"}

ASSUME FrameAssumption ==
  /\ Frames \in Seq([id : Text, event : Text \cup {None}, data : Seq(Text)])
  /\ None \notin Text
  /\ \A i, j \in 1..Len(Frames) : Frames[i].id = Frames[j].id => i = j
  /\ \A i \in 1..Len(Frames) :
       /\ Frames[i].id # <<>> /\ OneLine(Frames[i].id)
       /\ Frames[i].event # None => OneLine(Frames[i].event)
       /\ \A k \in 1..Len(Frames[i].data) : OneLine(Frames[i].data[k])

VARIABLES
  style,   \* the form of each frame
  client,  \* "connecting", "reading", "done"
  text,    \* what the response has still to bring
  state,   \* SSEParserState: [buffer, current: [id, event, data]]
  lastId,  \* the id of the last event handed over, or None
  start,   \* the events the server left out of the response, up to Last-Event-ID
  got,     \* tokens read of the response
  out,     \* history: the events handed over
  breaks   \* connections that broke

vars == <<style, client, text, state, lastId, start, got, out, breaks>>

NoField == [id |-> None, event |-> None, data |-> <<>>]

newSSEParserState == [buffer |-> <<>>, current |-> NoField]

\* A value that begins with a space needs one before it.
Fits(f, form) ==
  form.colon = <<":", " ">> \/
    \A value \in {f.id, f.event} \cup ToSet(f.data) :
      value \in {None, <<>>} \/ Head(value) # " "

Styles ==
  {choice \in [1..Len(Frames) -> 1..Len(Forms)] :
     \A i \in 1..Len(Frames) : Fits(Frames[i], Forms[choice[i]])}

Init ==
  /\ style \in Styles
  /\ client = "connecting"
  /\ text = <<>>
  /\ state = newSSEParserState
  /\ lastId = None
  /\ start = 0
  /\ got = 0
  /\ out = <<>>
  /\ breaks = 0
-----------------------------------------------------------------------------
(* The server's side: the text of a frame.                                 *)

Field(name, value, form) == <<name>> \o form.colon \o value

\* The lines of a frame, after keepalives (lead), with some to be ignored (noise).
LinesOf(f, form) ==
  LET id    == << Field("id", f.id, form) >>
      event == IF f.event = None THEN <<>> ELSE << Field("event", f.event, form) >>
      rest  == event \o form.noise
               \o [k \in 1..Len(f.data) |-> Field("data", f.data[k], form)]
  IN  form.lead \o (IF form.idLast THEN rest \o id ELSE id \o rest) \o << <<>> >>

Encode(f, form) ==
  FlattenSeq([k \in 1..Len(LinesOf(f, form)) |-> LinesOf(f, form)[k] \o form.eol])

\* The text of the k frames after the first from.
Sent(from, k) ==
  FlattenSeq([i \in 1..k |-> Encode(Frames[from + i], Forms[style[from + i]])])

Response(from) == Sent(from, Len(Frames) - from)
-----------------------------------------------------------------------------
(* The parser.                                                             *)

StripCR(line) ==
  IF line # <<>> /\ Last(line) = "CR" THEN Front(line) ELSE line

\* indexOf, from 1; 0 if there is none.
FirstOf(token, t) == SelectInSeq(t, LAMBDA x : x = token)

FieldOf(line) ==
  IF FirstOf(":", line) = 0 THEN line ELSE SubSeq(line, 1, FirstOf(":", line) - 1)

ValueOf(line) ==
  LET value == SubSeq(line, FirstOf(":", line) + 1, Len(line))
  IN  IF FirstOf(":", line) = 0 THEN <<>>
      ELSE IF value # <<>> /\ Head(value) = " " THEN Tail(value) ELSE value

\* What the forms may add: comments and blank lines in front, comments and
\* unknown fields between.
Comment(line) == line # <<>> /\ Head(line) = ":"
Unknown(line) == line # <<>> /\ FieldOf(line) \notin {<<"id">>, <<"event">>, <<"data">>}

ASSUME FormAssumption ==
  /\ Forms \in Seq([eol : {<<"LF">>, <<"CR", "LF">>}, colon : {<<":">>, <<":", " ">>},
                     idLast : BOOLEAN, lead : Seq(Text), noise : Seq(Text)])
  /\ \A j \in 1..Len(Forms) :
       /\ \A k \in 1..Len(Forms[j].lead) : LET line == Forms[j].lead[k] IN
            OneLine(line) /\ (line = <<>> \/ Comment(line))
       /\ \A k \in 1..Len(Forms[j].noise) : LET line == Forms[j].noise[k] IN
            OneLine(line) /\ (Comment(line) \/ Unknown(line))

Truthy(value) == value \notin {None, <<>>}

\* One line: a blank one dispatches, a comment or an unknown field is skipped.
TakeLine(s, line) ==
  CASE line = <<>> ->
         [current |-> NoField,
          out |-> IF s.current.data # <<>> \/ Truthy(s.current.event) \/ Truthy(s.current.id)
                  THEN Append(s.out, s.current) ELSE s.out]
    [] line # <<>> /\ Head(line) # ":" /\ FieldOf(line) = <<"event">> ->
         [s EXCEPT !.current.event = ValueOf(line)]
    [] line # <<>> /\ Head(line) # ":" /\ FieldOf(line) = <<"data">> ->
         [s EXCEPT !.current.data = Append(@, ValueOf(line))]
    [] line # <<>> /\ Head(line) # ":" /\ FieldOf(line) = <<"id">> ->
         [s EXCEPT !.current.id = ValueOf(line)]
    [] OTHER -> s

\* One turn of the loop: the first line, if there is one, is taken off the buffer.
Turn(s) ==
  LET nl  == FirstOf("LF", s.buffer)
      fed == TakeLine([current |-> s.current, out |-> s.out],
                      StripCR(SubSeq(s.buffer, 1, nl - 1)))
  IN  IF nl = 0 THEN s
      ELSE [buffer |-> SubSeq(s.buffer, nl + 1, Len(s.buffer)),
            current |-> fed.current, out |-> fed.out]

\* The loop: it turns until there is no line end.
TakeLines(t, current) ==
  LET turned[k \in 0..Len(t)] ==
        IF k = 0 THEN [buffer |-> t, current |-> current, out |-> <<>>]
        ELSE Turn(turned[k - 1])
  IN  turned[Cardinality({i \in 1..Len(t) : t[i] = "LF"})]

\* Mutant of feedSSE: what a chunk leaves over is not kept.
FeedUnbuffered(s, chunk) == [TakeLines(chunk, s.current) EXCEPT !.buffer = <<>>]

\* A chunk: every line it completes is taken, the rest stays in the buffer.
feedSSE(s, chunk) == TakeLines(s.buffer \o chunk, s.current)
-----------------------------------------------------------------------------
(* The loop.                                                               *)

\* The event an id stands for, from 1; 0 if there is none.
IndexOf(id) == SelectInSeq(Frames, LAMBDA f : f.id = id)

\* Mutant of Connect: the parser's state outlives the connection.
ConnectSameParser ==
  /\ client = "connecting"
  /\ client' = "reading"
  /\ text' = Response(IndexOf(lastId))
  /\ start' = IndexOf(lastId)
  /\ got' = 0
  /\ UNCHANGED <<style, state, lastId, out, breaks>>

\* The request with Last-Event-ID; the parser starts anew.
Connect ==
  /\ client = "connecting"
  /\ client' = "reading"
  /\ text' = Response(IndexOf(lastId))
  /\ start' = IndexOf(lastId)
  /\ got' = 0
  /\ state' = newSSEParserState
  /\ UNCHANGED <<style, lastId, out, breaks>>

\* Ids of the events of a chunk: an event without one leaves lastId.
NewestId(events, id) ==
  LET k == SelectLastInSeq(events, LAMBDA e : e.id # None)
  IN  IF k = 0 THEN id ELSE events[k].id

\* A chunk of n tokens arrives; its events are handed over.  The application
\* stops after the last event of the session.
Read(n) ==
  LET fed == feedSSE(state, SubSeq(text, 1, n))
  IN  /\ client = "reading"
      /\ text' = SubSeq(text, n + 1, Len(text))
      /\ got' = got + n
      /\ state' = [buffer |-> fed.buffer, current |-> fed.current]
      /\ out' = out \o fed.out
      /\ lastId' = NewestId(fed.out, lastId)
      /\ client' = IF IndexOf(lastId') = Len(Frames) THEN "done" ELSE "reading"
      /\ UNCHANGED <<style, start, breaks>>

\* The connection breaks: what was not read is lost.
Break ==
  /\ client = "reading"
  /\ breaks < MaxBreaks
  /\ breaks' = breaks + 1
  /\ client' = "connecting"
  /\ text' = <<>>
  /\ UNCHANGED <<style, state, lastId, start, got, out>>

Next == Connect \/ (\E n \in 1..Len(text) : Read(n)) \/ Break

Spec == Init /\ [][Next]_vars
-----------------------------------------------------------------------------
(* Properties.                                                             *)

\* However the stream is cut into chunks, whatever the form of its frames, and
\* wherever its connections break (sse.ts, transport.ts:105-119), the events
\* handed over are those the server sent, in order and once: a frame torn by a
\* broken connection is not joined with what the next one brings.
OnceInOrder == out = SubSeq(Frames, 1, IndexOf(lastId))

\* No complete line waits in the buffer, and an event is handed over with the
\* chunk that brings its blank line: not earlier, and not a chunk later.
NothingHeldBack ==
  /\ "LF" \notin ToSet(state.buffer)
  /\ client # "connecting" =>
       Len(out) = start + Cardinality({k \in 1 .. Len(Frames) - start : Len(Sent(start, k)) <= got})
=============================================================================
