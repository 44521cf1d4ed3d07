---------------------------- MODULE ReplyBuilder ----------------------------
(***************************************************************************)
(* builders::reply_builder and the builders it drives: an incremental      *)
(* parser that is fed with packets cut at any byte.                        *)
(*                                                                         *)
(* Each builder owns the builder of the element it is reading, so the      *)
(* builders alive at a moment form a chain: it is a stack here, the        *)
(* outermost builder first.  operator<< runs to completion before anything *)
(* else happens to the object; "busy" is true in the middle of its loop,   *)
(* and a step of the module is what one builder does when its turn comes.  *)
(***************************************************************************)
EXTENDS Reply, SequencesExt

CONSTANT Width    \* bits of int64_t

ASSUME WidthAssumption == Width \in Nat \ {0}

VARIABLES
  m_buffer,             \* bytes received and not consumed
  m_builder,            \* the chain of builders; empty: nullptr
  m_available_replies,  \* built, not taken yet
  busy,                 \* operator<< is running
  thrown                \* operator<< has thrown since the last reset

builderVars == <<m_buffer, m_builder, m_available_replies, busy, thrown>>

Digit == [c \in {"0", "1", "2", "3", "4", "5", "6", "7", "8", "9"} |->
            CASE c = "0" -> 0 [] c = "1" -> 1 [] c = "2" -> 2 [] c = "3" -> 3
              [] c = "4" -> 4 [] c = "5" -> 5 [] c = "6" -> 6 [] c = "7" -> 7
              [] c = "8" -> 8 [] c = "9" -> 9]

Marks == {"+", "-", ":", "$", "*"}

\* A value of type int64_t, on Width bits.  The accumulation is not checked;
\* its overflow is undefined behaviour, compiled to additions that wrap.
Wrap(n) ==
  LET m == n % (2^Width) IN IF m >= 2^(Width - 1) THEN m - 2^Width ELSE m

\* Position of the first end sequence, 0 when there is none (npos).
FindEnd(b) ==
  LET ends == {i \in 1 .. Len(b) - 1 : b[i] = "CR" /\ b[i + 1] = "LF"}
  IN  IF ends = {} THEN 0 ELSE Min(ends)

Line(b) == SubSeq(b, 1, FindEnd(b) - 1)
AfterLine(b) == SubSeq(b, FindEnd(b) + 2, Len(b))

(***************************************************************************)
(* integer_builder: a sign is only accepted in front.                      *)
(***************************************************************************)
Negative(l) == l # <<>> /\ Head(l) = "-"
Digits(l) == IF Negative(l) THEN Tail(l) ELSE l

\* Mutant: no sign is accepted.
ValidUnsigned(l) == \A i \in 1 .. Len(l) : l[i] \in DOMAIN Digit

ValidInteger(l) == \A i \in 1 .. Len(Digits(l)) : Digits(l)[i] \in DOMAIN Digit

IntegerOf(l) ==
  LET nbr == FoldLeft(LAMBDA n, c : Wrap(Wrap(n * 10) + Digit[c]), 0, Digits(l))
  IN  IF Negative(l) THEN Wrap(-nbr) ELSE nbr

(***************************************************************************)
(* The chain of builders                                                   *)
(***************************************************************************)
\* create_builder.  "size" is what m_int_builder of an array or of a bulk
\* string has read, if "sized".
NewBuilder(mark) == [mark |-> mark, sized |-> FALSE, size |-> 0,
                     rows |-> <<>>]

Current == Last(m_builder)

\* The current builder is ready with reply r.  Its owner takes the reply: the
\* enclosing array as a row, or else reply_builder as an available reply.
Ready(r) ==
  LET rest == Front(m_builder) IN
  IF rest = <<>>
  THEN /\ m_builder' = <<>>
       /\ m_available_replies' = Append(m_available_replies, r)
  ELSE /\ m_builder' = [rest EXCEPT ![Len(rest)].rows = Append(@, r)]
       /\ UNCHANGED m_available_replies

\* Mutant: the exception is swallowed.
ThrowQuietly ==
  /\ busy' = FALSE
  /\ UNCHANGED <<m_buffer, m_builder, m_available_replies, thrown>>

Throw ==
  /\ busy' = FALSE
  /\ thrown' = TRUE
  /\ UNCHANGED <<m_buffer, m_builder, m_available_replies>>

\* Mutant: the loop goes on although nothing could be built.
ReturnNever == UNCHANGED builderVars

Return ==
  /\ busy' = FALSE
  /\ UNCHANGED <<m_buffer, m_builder, m_available_replies, thrown>>

\* An array that knows its size and has no row in progress.
InArray == m_builder # <<>> /\ Current.mark = "*" /\ Current.sized

\* Mutant: one row too many is read.
ArrayFullLate == InArray /\ Len(Current.rows) = Current.size + 1

ArrayFull == InArray /\ Len(Current.rows) = Current.size

\* A row, or a reply, begins with its mark.
NeedsBuilder == m_builder = <<>> \/ (InArray /\ ~ArrayFull)

(***************************************************************************)
(* operator<<                                                              *)
(***************************************************************************)
Feed(data) ==
  /\ ~busy
  /\ m_buffer' = m_buffer \o data
  /\ busy' = TRUE
  /\ UNCHANGED <<m_builder, m_available_replies, thrown>>

CreateBuilder ==
  /\ busy /\ NeedsBuilder /\ m_buffer # <<>>
  /\ \/ /\ Head(m_buffer) \in Marks
        /\ m_builder' = Append(m_builder, NewBuilder(Head(m_buffer)))
        /\ m_buffer' = Tail(m_buffer)
        /\ UNCHANGED <<m_available_replies, busy, thrown>>
     \/ /\ Head(m_buffer) \notin Marks
        /\ Throw

\* simple_string_builder and error_builder.
BuildString ==
  /\ busy /\ m_builder # <<>> /\ Current.mark \in {"+", "-"}
  /\ FindEnd(m_buffer) # 0
  /\ Ready(string_reply(Line(m_buffer),
             IF Current.mark = "+" THEN "simple_string" ELSE "error"))
  /\ m_buffer' = AfterLine(m_buffer)
  /\ UNCHANGED <<busy, thrown>>

BuildInteger ==
  /\ busy /\ m_builder # <<>> /\ Current.mark = ":"
  /\ FindEnd(m_buffer) # 0
  /\ \/ /\ ValidInteger(Line(m_buffer))
        /\ Ready(integer_reply(IntegerOf(Line(m_buffer))))
        /\ m_buffer' = AfterLine(m_buffer)
        /\ UNCHANGED <<busy, thrown>>
     \/ /\ ~ValidInteger(Line(m_buffer))
        /\ Throw

\* fetch_size and fetch_array_size.  A negative size is a null reply; the
\* protocol has no size below -1.
FetchSize ==
  /\ busy /\ m_builder # <<>> /\ Current.mark \in {"$", "*"} /\ ~Current.sized
  /\ FindEnd(m_buffer) # 0
  /\ \/ /\ ValidInteger(Line(m_buffer))
        /\ LET n == IntegerOf(Line(m_buffer)) IN
           IF n < 0
           THEN Ready(null_reply)
           ELSE /\ m_builder' = [m_builder EXCEPT ![Len(m_builder)] =
                                   [@ EXCEPT !.sized = TRUE, !.size = n]]
                /\ UNCHANGED m_available_replies
        /\ m_buffer' = AfterLine(m_buffer)
        /\ UNCHANGED <<busy, thrown>>
     \/ /\ ~ValidInteger(Line(m_buffer))
        /\ Throw

\* Mutant: the first byte after the end sequence is waited for.
HasBulkLate == Len(m_buffer) > Current.size + 2

\* fetch_str also waits for the end sequence.
HasBulk == Len(m_buffer) >= Current.size + 2

FetchStr ==
  /\ busy /\ m_builder # <<>> /\ Current.mark = "$" /\ Current.sized
  /\ HasBulk
  /\ LET n == Current.size IN
     \/ /\ SubSeq(m_buffer, n + 1, n + 2) = <<"CR", "LF">>
        /\ Ready(string_reply(SubSeq(m_buffer, 1, n), "bulk_string"))
        /\ m_buffer' = SubSeq(m_buffer, n + 3, Len(m_buffer))
        /\ UNCHANGED <<busy, thrown>>
     \/ /\ SubSeq(m_buffer, n + 1, n + 2) # <<"CR", "LF">>
        /\ Throw

FinishArray ==
  /\ busy /\ ArrayFull
  /\ Ready(array_reply(Current.rows))
  /\ UNCHANGED <<m_buffer, busy, thrown>>

\* Nothing more can be built from the bytes received so far.
WaitForData ==
  /\ busy
  /\ \/ NeedsBuilder /\ m_buffer = <<>>
     \/ /\ m_builder # <<>> /\ ~InArray
        /\ IF Current.mark = "$" /\ Current.sized THEN ~HasBulk
                                                  ELSE FindEnd(m_buffer) = 0
  /\ Return

BuildStep ==
  \/ CreateBuilder \/ BuildString \/ BuildInteger \/ FetchSize \/ FetchStr
  \/ FinishArray \/ WaitForData

(***************************************************************************)
(* get_front and pop_front, reset                                          *)
(***************************************************************************)
pop_front ==
  /\ ~busy
  /\ m_available_replies # <<>>
  /\ m_available_replies' = Tail(m_available_replies)
  /\ UNCHANGED <<m_buffer, m_builder, busy, thrown>>

\* Mutant: the builder in progress survives.
ResetKeepsBuilder ==
  /\ ~busy
  /\ m_buffer' = <<>>
  /\ thrown' = FALSE
  /\ UNCHANGED <<m_builder, busy, m_available_replies>>

reset ==
  /\ ~busy
  /\ m_builder' = <<>>
  /\ m_buffer' = <<>>
  /\ thrown' = FALSE
  /\ UNCHANGED <<busy, m_available_replies>>

BuilderInit ==
  /\ m_buffer = <<>>
  /\ m_builder = <<>>
  /\ m_available_replies = <<>>
  /\ busy = FALSE
  /\ thrown = FALSE
=============================================================================
