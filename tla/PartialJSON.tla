----------------------------- MODULE PartialJSON -----------------------------
(***************************************************************************)
(* What a card shows of a tool input while the model is still writing it:   *)
(* parsePartialJSON (partial-json.ts), given a longer prefix of one JSON    *)
(* document with every fragment, or with text that is no JSON at its end.   *)
(*                                                                         *)
(* A text is a sequence of tokens: brackets, comma, colon, quote, backslash, *)
(* a blank, the pieces of numbers and of the literal true, and one other    *)
(* character.  A value is a tree of nodes; the items of an object are its   *)
(* members, whose text is the key.  TLC only: the parsers are recursive.    *)
(***************************************************************************)
EXTENDS Naturals, Sequences, SequencesExt, FiniteSets

CONSTANTS Documents,   \* the values whose texts are streamed
          Blanks,      \* the white space put between tokens: a set of texts
          Strays,      \* fragments that need not continue a document
          Null,        \* the result null
          MaxGarbage   \* bound of the model: such fragments

Quote == "quote"
Backslash == "backslash"
Blank == " "
Digits == {"7", "2"}
LiteralChars == Digits \cup {"-", "tr", "ue"}
Tokens == {"{", "}", "[", "]", ",", ":", Quote, Backslash, Blank, "x"} \cup LiteralChars

VARIABLES
  doc,     \* the value that is being written
  blank,   \* and its white space
  input,   \* the text so far
  garbage, \* fragments at its end that are not of the document
  result   \* what parsePartialJSON returns for it: [value, complete] or Null

vars == <<doc, blank, input, garbage, result>>

Node(kind, text, items) == [kind |-> kind, text |-> text, items |-> items]
IsContainer(v) == v.kind \in {"array", "object"}
-----------------------------------------------------------------------------
(* The text of a value.                                                    *)

RECURSIVE Encode(_, _)

\* Items apart by commas, white space w around every token.
Separated(texts, w) ==
  FlattenSeq([i \in 1..Len(texts) |->
                texts[i] \o w \o (IF i = Len(texts) THEN <<>> ELSE <<",">> \o w)])

Encode(v, w) ==
  LET inner == Separated([i \in 1..Len(v.items) |-> Encode(v.items[i], w)], w)
      key   == <<Quote>> \o v.text \o <<Quote>>
  IN CASE v.kind = "literal" -> v.text
       [] v.kind = "string"  -> key
       [] v.kind = "member"  -> key \o w \o <<":">> \o w \o Encode(v.items[1], w)
       [] v.kind = "array"   -> <<"[">> \o w \o inner \o <<"]">>
       [] v.kind = "object"  -> <<"{">> \o w \o inner \o <<"}">>

TextOf(v, w) == w \o Encode(v, w) \o w
-----------------------------------------------------------------------------
(* JSON.parse, of the engine: a node or Null.                              *)

\* The first position from i on that is not in a run of such tokens.
PastRun(t, i, run) ==
  CHOOSE j \in i .. Len(t) + 1 :
    /\ j = Len(t) + 1 \/ t[j] \notin run
    /\ \A k \in i .. j - 1 : t[k] \in run

At(t, i) == IF i \in 1..Len(t) THEN t[i] ELSE Null

RECURSIVE ClosingQuote(_, _)

\* The quote that ends a string whose content begins at i, 0 if there is none.
ClosingQuote(t, i) ==
  CASE i > Len(t)       -> 0
    [] At(t, i) = Quote -> i
    [] At(t, i) = Backslash -> ClosingQuote(t, i + 2)
    [] OTHER -> ClosingQuote(t, i + 1)

RECURSIVE ValidString(_)
ValidString(s) ==
  \/ s = <<>>
  \/ Head(s) # Backslash /\ ValidString(Tail(s))
  \/ /\ Head(s) = Backslash
     /\ At(s, 2) \in {Quote, Backslash}
     /\ ValidString(SubSeq(s, 3, Len(s)))

ValidLiteral(s) ==
  \/ s = <<"tr", "ue">>
  \/ /\ s # <<>> /\ Last(s) \in Digits
     /\ \A i \in 1..Len(s) : s[i] \in Digits \/ (i = 1 /\ s[i] = "-")

Bad == [node |-> Null, next |-> 0]

RECURSIVE ParseValue(_, _), ParseItems(_, _, _, _)

\* The value at position i, and the position after it.
ParseValue(t, i0) ==
  LET i     == PastRun(t, i0, {Blank})
      close == ClosingQuote(t, i + 1)
      end   == PastRun(t, i, LiteralChars)
      empty == PastRun(t, i + 1, {Blank})
  IN CASE At(t, i) = Quote ->
            IF close = 0 \/ ~ValidString(SubSeq(t, i + 1, close - 1)) THEN Bad
            ELSE [node |-> Node("string", SubSeq(t, i + 1, close - 1), <<>>),
                  next |-> close + 1]
       [] At(t, i) \in LiteralChars ->
            IF ~ValidLiteral(SubSeq(t, i, end - 1)) THEN Bad
            ELSE [node |-> Node("literal", SubSeq(t, i, end - 1), <<>>), next |-> end]
       [] At(t, i) = "[" ->
            IF At(t, empty) = "]" THEN [node |-> Node("array", <<>>, <<>>), next |-> empty + 1]
            ELSE ParseItems(t, i + 1, "array", <<>>)
       [] At(t, i) = "{" ->
            IF At(t, empty) = "}" THEN [node |-> Node("object", <<>>, <<>>), next |-> empty + 1]
            ELSE ParseItems(t, i + 1, "object", <<>>)
       [] OTHER -> Bad

\* One more item of an array or an object, which has those of acc.
ParseItems(t, i, kind, acc) ==
  LET key   == ParseValue(t, i)
      colon == PastRun(t, key.next, {Blank})
      val   == IF kind = "array" THEN key
               ELSE IF key = Bad \/ key.node.kind # "string" \/ At(t, colon) # ":" THEN Bad
               ELSE ParseValue(t, colon + 1)
      item  == IF kind = "array" THEN val.node
               ELSE Node("member", key.node.text, <<val.node>>)
      after == PastRun(t, val.next, {Blank})
  IN CASE val = Bad -> Bad
       [] val # Bad /\ At(t, after) = "," -> ParseItems(t, after + 1, kind, Append(acc, item))
       [] val # Bad /\ At(t, after) = (IF kind = "array" THEN "]" ELSE "}") ->
            [node |-> Node(kind, <<>>, Append(acc, item)), next |-> after + 1]
       [] OTHER -> Bad

JSONparse(t) ==
  LET v == ParseValue(t, 1)
  IN  IF v # Bad /\ PastRun(t, v.next, {Blank}) > Len(t) THEN v.node ELSE Null
-----------------------------------------------------------------------------
(* The scan.  Its state: the position, the open brackets and for each of    *)
(* them whether a key is expected, the checkpoints, and whether it ended.   *)

Scan0 == [i |-> 1, stack |-> <<>>, expectKey |-> <<>>, checkpoints |-> <<>>, over |-> FALSE]

Break(s) == [s EXCEPT !.over = TRUE]

InObject(s) == s.stack # <<>> /\ Last(s.stack) = "}"

\* expectKey of the innermost bracket, if that is an object.
Expect(s, key) ==
  IF InObject(s) THEN [s EXCEPT !.expectKey = Append(Front(@), key)] ELSE s

pushCheckpoint(s, end, trimComma) ==
  [s EXCEPT !.checkpoints =
     Append(@, [end |-> end, closing |-> Reverse(s.stack), trimComma |-> trimComma])]

OpenBracket(s, c) ==
  [s EXCEPT !.stack = Append(@, IF c = "{" THEN "}" ELSE "]"),
            !.expectKey = Append(@, c = "{"),
            !.i = @ + 1]

\* The value that was closed is one of the enclosing bracket; the root's end is
\* the end of the scan.
CloseBracket(s, c) ==
  LET popped == [s EXCEPT !.stack = Front(@), !.expectKey = Front(@), !.i = @ + 1]
  IN  IF s.stack = <<>> \/ Last(s.stack) # c THEN Break(s)
      ELSE [pushCheckpoint(Expect(popped, FALSE), s.i, FALSE)
              EXCEPT !.over = popped.stack = <<>>]

Comma(s) == Expect([pushCheckpoint(s, s.i - 1, TRUE) EXCEPT !.i = @ + 1], TRUE)

\* Mutant of Colon: it leaves expectKey alone.
ColonSkipped(s) == [s EXCEPT !.i = @ + 1]

Colon(s) == Expect([s EXCEPT !.i = @ + 1], FALSE)

\* A string: a key leaves no checkpoint; an unfinished or invalid one ends the
\* scan, and the checkpoint of an invalid value is taken back.
String(t, s) ==
  LET close  == ClosingQuote(t, s.i + 1)
      wasKey == InObject(s) /\ Last(s.expectKey)
      past   == [s EXCEPT !.i = close + 1]
      valid  == ValidString(SubSeq(t, s.i + 1, close - 1))
      value  == pushCheckpoint(Expect(past, FALSE), close, FALSE)
  IN CASE close = 0 -> Break(s)
       [] close # 0 /\ s.stack = <<>> -> Break(value)
       [] close # 0 /\ s.stack # <<>> /\ ~valid -> Break(past)
       [] OTHER -> IF wasKey THEN past ELSE value

\* Mutant of Literal: a number at the end of the text counts as finished.
LiteralEager(t, s) ==
  LET end == PastRun(t, s.i, LiteralChars)
  IN  IF ~ValidLiteral(SubSeq(t, s.i, end - 1)) THEN Break(s)
      ELSE pushCheckpoint(Expect([s EXCEPT !.i = end], FALSE), end - 1, FALSE)

\* A number or literal: at the end of the text it may go on, and leaves no
\* checkpoint unless it is the root.
Literal(t, s) ==
  LET end        == PastRun(t, s.i, LiteralChars)
      past       == Expect([s EXCEPT !.i = end], FALSE)
      terminated == At(t, end) \in {",", "}", "]", Blank}
  IN CASE ~ValidLiteral(SubSeq(t, s.i, end - 1)) -> Break(s)
       [] ValidLiteral(SubSeq(t, s.i, end - 1)) /\ terminated ->
            pushCheckpoint(past, end - 1, FALSE)
       [] OTHER -> IF s.stack = <<>> THEN Break(pushCheckpoint(past, end - 1, FALSE)) ELSE past

ScanStep(t, s) ==
  LET c == t[s.i]
  IN CASE c = Blank -> [s EXCEPT !.i = @ + 1]
       [] c \in {"{", "["} -> OpenBracket(s, c)
       [] c \in {"}", "]"} -> CloseBracket(s, c)
       [] c = "," -> Comma(s)
       [] c = ":" -> Colon(s)
       [] c = Quote -> String(t, s)
       [] c \in LiteralChars -> Literal(t, s)
       [] OTHER -> Break(s)

RECURSIVE ScanFrom(_, _)
ScanFrom(t, s) == IF s.over \/ s.i > Len(t) THEN s ELSE ScanFrom(t, ScanStep(t, s))

\* The text up to a checkpoint, with the brackets closed.
Candidate(t, cp) ==
  LET text == SubSeq(t, 1, cp.end)
  IN  (IF cp.trimComma /\ text # <<>> /\ Last(text) = "," THEN Front(text) ELSE text) \o cp.closing

Trimmed(t) == SubSeq(t, 1, CHOOSE n \in 0..Len(t) :
                             /\ n = 0 \/ t[n] # Blank
                             /\ \A k \in n + 1 .. Len(t) : t[k] = Blank)

\* Whole documents at once; else the latest checkpoint that parses; else an
\* empty container.
parsePartialJSON(t) ==
  LET whole == JSONparse(Trimmed(t))
      cps   == ScanFrom(t, Scan0).checkpoints
      good  == {k \in 1..Len(cps) : JSONparse(Candidate(t, cps[k])) # Null}
      latest == CHOOSE k \in good : \A l \in good : l <= k
      head  == At(t, PastRun(t, 1, {Blank}))
      Partial(v) == [value |-> v, complete |-> FALSE]
  IN CASE Trimmed(t) = <<>> -> Null
       [] whole # Null -> [value |-> whole, complete |-> TRUE]
       [] Trimmed(t) # <<>> /\ whole = Null /\ good # {} ->
            Partial(JSONparse(Candidate(t, cps[latest])))
       [] OTHER -> CASE head = "{" -> Partial(Node("object", <<>>, <<>>))
                     [] head = "[" -> Partial(Node("array", <<>>, <<>>))
                     [] OTHER -> Null
-----------------------------------------------------------------------------
(* The stream.                                                             *)

Init ==
  /\ doc \in Documents
  /\ blank \in Blanks
  /\ input = <<>>
  /\ garbage = 0
  /\ result = parsePartialJSON(<<>>)

\* The next token of the document.
Arrive ==
  /\ garbage = 0
  /\ Len(input) < Len(TextOf(doc, blank))
  /\ input' = Append(input, TextOf(doc, blank)[Len(input) + 1])
  /\ result' = parsePartialJSON(input')
  /\ UNCHANGED <<doc, blank, garbage>>

\* A fragment that need not continue the document.
Stray(g) ==
  /\ garbage < MaxGarbage
  /\ garbage' = garbage + 1
  /\ input' = input \o g
  /\ result' = parsePartialJSON(input')
  /\ UNCHANGED <<doc, blank>>

Next == Arrive \/ \E g \in Strays : Stray(g)

Spec == Init /\ [][Next]_vars
-----------------------------------------------------------------------------
(* Properties.                                                             *)

RECURSIVE Final(_, _)

\* The part of v that cannot change any more once n tokens of its text have
\* come, Null if there is none: a string that is closed, a literal with a token
\* after it, a container that is closed or has such a part in it.
Final(v, n) ==
  LET w      == blank
      len    == Len(Encode(v, w))
      start  == [k \in 1..Len(v.items) |->
                   CASE v.kind = "member" -> len - Len(Encode(v.items[1], w))
                     [] OTHER -> 1 + Len(w) +
                          Len(FlattenSeq([j \in 1 .. k - 1 |->
                                            Encode(v.items[j], w) \o w \o <<",">> \o w]))]
      parts  == [k \in 1..Len(v.items) |-> Final(v.items[k], IF n > start[k] THEN n - start[k] ELSE 0)]
      there  == SelectSeq(parts, LAMBDA p : p # Null)
  IN CASE v.kind = "string"  -> IF n >= len THEN v ELSE Null
       [] v.kind = "literal" -> IF n > len THEN v ELSE Null
       [] OTHER -> IF there = <<>> /\ n < len THEN Null
                   ELSE IF v.kind = "member" /\ there = <<>> THEN Null
                   ELSE Node(v.kind, v.text, there)

\* generative-ui.mdx:132: of an input that has come in part, a key is shown if
\* and only if its value, or something within it, is fully delimited, and
\* "complete" says exactly that the whole has come.  Numbers and literals at
\* the root, which are no tool inputs, are left out.
ShowsFinalPart ==
  LET n == IF Len(input) > Len(blank) THEN Len(input) - Len(blank) ELSE 0
      f == Final(doc, n)
  IN  garbage = 0 /\ doc.kind # "literal" =>
        IF n = 0 THEN result = Null
        ELSE IF f = Null
        THEN result = IF IsContainer(doc)
                      THEN [value |-> Node(doc.kind, <<>>, <<>>), complete |-> FALSE] ELSE Null
        ELSE result = [value |-> f, complete |-> n >= Len(Encode(doc, blank))]

RECURSIVE Grows(_, _)

\* b is a, with items added at the end of the last open containers.
Grows(a, b) ==
  \/ a = b
  \/ /\ a.kind = b.kind /\ a.text = b.text /\ a.kind \notin {"string", "literal"}
     /\ Len(a.items) <= Len(b.items)
     /\ \A k \in 1..Len(a.items) :
          IF k < Len(a.items) THEN a.items[k] = b.items[k] ELSE Grows(a.items[k], b.items[k])

\* What a card has shown is not taken back or changed by more text, not even by
\* text that breaks the document: no value flickers.
NeverTakenBack ==
  [][IsContainer(doc) /\ result # Null => result' # Null /\ Grows(result.value, result'.value)]_vars
=============================================================================
