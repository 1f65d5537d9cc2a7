------------------------------- MODULE MCMount -------------------------------
(* A session for TLC: two messages whose deltas interleave, one whole in the  *)
(* end and one that is cut short, a tool result, the result of the turn, and  *)
(* done.  The ids of messages and of tool calls are told apart by their kind; *)
(* that of the last two events is not read.                                   *)
EXTENDS Mount

Text(t) == [type |-> "text", text |-> t]
Tool == [type |-> "tool_use", text |-> <<>>]
Ev(event, id, content) == [event |-> event, id |-> id, content |-> content]

MCScript ==
  << Ev("message_delta", 1, <<Text(<<"a">>)>>),
     Ev("message_delta", 2, <<Tool>>),
     Ev("message_delta", 1, <<Text(<<"b">>)>>),
     Ev("message_complete", 1, <<Text(<<"a", "b">>), Tool>>),
     Ev("tool_result", 1, <<>>),
     Ev("result", 1, <<>>),
     Ev("done", 1, <<>>) >>
=============================================================================
