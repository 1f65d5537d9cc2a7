---------------------------- MODULE MCPartialJSON ----------------------------
(* Documents for TLC: numbers that are prefixes of one another, strings that *)
(* hold brackets, commas and escaped quotes, three levels of nesting.        *)
EXTENDS PartialJSON

Lit(s) == Node("literal", s, <<>>)
Str(s) == Node("string", s, <<>>)
Arr(items) == Node("array", <<>>, items)
Obj(members) == Node("object", <<>>, members)

Scalars == { Lit(<<"-", "7", "2">>), Lit(<<"tr", "ue">>), Str(<<"x">>),
             Str(<<",", Backslash, Quote, "}">>) }

Upto2(S) == {<<>>} \cup {<<a>> : a \in S} \cup (S \X S)

\* Objects have distinct keys, x and 7.
Key(i) == IF i = 1 THEN <<"x">> ELSE <<"7">>
Containers(S) ==
  {Arr(s) : s \in Upto2(S)}
    \cup {Obj([i \in 1..Len(s) |-> Node("member", Key(i), <<s[i]>>)]) : s \in Upto2(S)}

Inner == {Lit(<<"7">>), Str(<<"x">>), Arr(<<>>), Obj(<<>>), Arr(<<Lit(<<"7", "2">>)>>),
          Obj(<<Node("member", <<"x">>, <<Lit(<<"7">>)>>)>>),
          Arr(<<Arr(<<Str(<<"x">>)>>), Lit(<<"7">>)>>)}

MCDocuments == Scalars \cup Containers(Scalars) \cup Containers(Inner)

\* Any one token; a string with an invalid escape, as a value and as a key; an
\* empty item; a member and its bracket.
MCStrays ==
  {<<c>> : c \in Tokens} \cup
  {<<Quote, Backslash, "x", Quote>>, <<Quote, Backslash, "x", Quote, ":", "7", ",">>,
   <<",", ",", "7", ",">>, <<Quote, "2", Quote, ":", "7", "}">>}

MCBlanks == {<<>>, <<Blank>>}
=============================================================================
