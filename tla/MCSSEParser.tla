----------------------------- MODULE MCSSEParser -----------------------------
(* The tokens, the forms of a frame and three events for TLC.              *)
EXTENDS SSEParser

MCTokens ==
  {"CR", "LF", ":", " ", "id", "event", "data", "retry", "1", "2", "3", "e", "done",
   "a", "b", "c", "k"}

\* Data with a colon in it, data of three lines, an event without a name.
MCFrames ==
  << [id |-> <<"1">>, event |-> <<"e">>, data |-> << <<"a", ":", "b">> >>],
     [id |-> <<"2">>, event |-> None, data |-> << <<"a">>, <<>>, <<" ", "b">> >>],
     [id |-> <<"3">>, event |-> <<"done">>, data |-> << <<"c">> >>] >>

Form(eol, colon, lead, noise, idLast) ==
  [eol |-> eol, colon |-> colon, lead |-> lead, noise |-> noise, idLast |-> idLast]

\* The server's form (fastapi.py:191-195) alone and after a keepalive; with CR
\* LF and an unknown field; with a comment in between and no space after a colon.
MCForms ==
  << Form(<<"LF">>, <<":", " ">>, <<>>, <<>>, FALSE),
     Form(<<"LF">>, <<":", " ">>, << <<":", " ", "k">>, <<>> >>, <<>>, FALSE),
     Form(<<"CR", "LF">>, <<":", " ">>, << <<":", "k">>, <<>> >>, << <<"retry", ":", "k">> >>, FALSE),
     Form(<<"LF">>, <<":">>, <<>>, << <<":", "data", ":", "k">> >>, TRUE) >>
=============================================================================
