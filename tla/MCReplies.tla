------------------------------ MODULE MCReplies ------------------------------
(***************************************************************************)
(* Instances of ReplyStream: the reference encoder of the protocol, which  *)
(* is only evaluated by TLC, and the scripts of the runs.                  *)
(***************************************************************************)
EXTENDS ReplyStream

CRLF == <<"CR", "LF">>

RECURSIVE Decimal(_)
Decimal(n) ==
  IF n < 0 THEN <<"-">> \o Decimal(-n)
  ELSE IF n < 10 THEN <<ToString(n)>>
  ELSE Decimal(n \div 10) \o <<ToString(n % 10)>>

RECURSIVE Encode(_)
Encode(r) ==
  CASE r.type = "simple_string" -> <<"+">> \o r.strval \o CRLF
    [] r.type = "error" -> <<"-">> \o r.strval \o CRLF
    [] r.type = "integer" -> <<":">> \o Decimal(r.intval) \o CRLF
    [] r.type = "null" -> <<"$", "-", "1">> \o CRLF
    [] r.type = "bulk_string" ->
         <<"$">> \o Decimal(Len(r.strval)) \o CRLF \o r.strval \o CRLF
    [] r.type = "array" ->
         <<"*">> \o Decimal(Len(r.rows)) \o CRLF
           \o FlattenSeq([i \in 1 .. Len(r.rows) |-> Encode(r.rows[i])])

Script(replies, invalid, badAt) ==
  LET encoded == [i \in 1 .. Len(replies) |-> Encode(replies[i])]
      ends == [i \in 1 .. Len(replies) |->
                 Len(FlattenSeq(SubSeq(encoded, 1, i)))]
      all == FlattenSeq(encoded)
  IN  [bytes |-> all \o invalid, replies |-> replies, ends |-> ends,
       bad |-> Len(all) + (IF invalid = <<>> THEN 1 ELSE badAt)]

OK == string_reply(<<"O">>, "simple_string")
Err == string_reply(<<"e">>, "error")
Empty == string_reply(<<>>, "bulk_string")
\* A payload that looks like the end of a reply and the mark of the next.
Tricky == string_reply(<<"CR", "LF", "+">>, "bulk_string")
Lowest == integer_reply(-(2^(Width - 1)))
Highest == integer_reply(2^(Width - 1) - 1)

ValidReplies ==
  { <<OK, Tricky>>,
    <<array_reply(<<>>), array_reply(<<Empty, null_reply>>), Err>>,
    <<array_reply(<<array_reply(<<OK>>), array_reply(<<>>), Highest>>), OK>>,
    <<Lowest, integer_reply(0)>> }

MCScripts ==
  {Script(r, <<>>, 0) : r \in ValidReplies}
    \cup { Script(<<OK>>, <<"?">>, 1),
           Script(<<Err>>, <<":", "1", "-", "CR", "LF">>, 5),
           Script(<<>>, <<"*", "2", "CR", "LF", "$", "?", "CR", "LF">>, 8),
           Script(<<>>, <<"$", "1", "CR", "LF", "a", "b", "CR">>, 7) }
=============================================================================
