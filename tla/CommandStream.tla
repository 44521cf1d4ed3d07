---------------------------- MODULE CommandStream ----------------------------
(***************************************************************************)
(* The writing side of a redis_connection: the application calls command   *)
(* functions, send() encodes what they build into the buffer, commit()     *)
(* writes the buffer, and the server cuts what it reads back into          *)
(* requests.                                                               *)
(*                                                                         *)
(* A word on the wire is a header ("*" and the number of arguments) or a   *)
(* bulk string: the length that precedes an argument makes it one word,    *)
(* whatever bytes it contains.                                             *)
(***************************************************************************)
EXTENDS Commands

CONSTANTS
  Calls,      \* the calls the application may make
  Pipelined,  \* those it may make when it has already made one
  MaxCalls    \* bound: calls

VARIABLES
  sent,       \* the calls made, in order
  m_buffer,   \* words encoded, not committed
  wire,       \* words written, not read by the server
  missing,    \* arguments of the current request not read yet
  current,    \* arguments of the current request read so far
  requests    \* requests the server has read

vars == <<sent, m_buffer, wire, missing, current, requests>>

Header(n) == "*" \o ToString(n)

\* Mutant: the name of the command is not counted.
BuildUncounted(cmd) == <<Header(Len(cmd) - 1)>> \o cmd

build_command(cmd) == <<Header(Len(cmd))>> \o cmd

\* A command function, which calls send().
Call(c) ==
  /\ sent' = Append(sent, c)
  /\ m_buffer' = m_buffer \o build_command(Request(c))
  /\ UNCHANGED <<wire, missing, current, requests>>

Commit ==
  /\ m_buffer # <<>>
  /\ wire' = wire \o m_buffer
  /\ m_buffer' = <<>>
  /\ UNCHANGED <<sent, missing, current, requests>>

\* The server: a header says how many bulk strings make the request.
ReadHeader ==
  /\ wire # <<>> /\ missing = 0
  /\ \E n \in 1 .. Len(wire) :
       /\ Head(wire) = Header(n)
       /\ missing' = n
  /\ current' = <<>>
  /\ wire' = Tail(wire)
  /\ UNCHANGED <<sent, m_buffer, requests>>

ReadArgument ==
  /\ wire # <<>> /\ missing > 0
  /\ current' = Append(current, Head(wire))
  /\ missing' = missing - 1
  /\ wire' = Tail(wire)
  /\ requests' = IF missing = 1 THEN Append(requests, current') ELSE requests
  /\ UNCHANGED <<sent, m_buffer>>

Init ==
  /\ sent = <<>>
  /\ m_buffer = <<>>
  /\ wire = <<>>
  /\ missing = 0
  /\ current = <<>>
  /\ requests = <<>>

Next ==
  \/ /\ Len(sent) < MaxCalls
     /\ \E c \in (IF sent = <<>> THEN Calls ELSE Pipelined) : Call(c)
  \/ Commit
  \/ ReadHeader
  \/ ReadArgument

Spec == Init /\ [][Next]_vars

(***************************************************************************)
(* Properties                                                              *)
(***************************************************************************)

\* Whatever is pipelined behind it and however much of it has been committed,
\* the server reads each request as it was built, in order; nothing an
\* argument contains is taken for a header.
SameRequests ==
  /\ Len(requests) <= Len(sent)
  /\ \A i \in DOMAIN requests : requests[i] = Request(sent[i])

\* The parameters that take part in a call: an optional part that is not
\* asked for takes its operands with it.
Ignored(c) ==
  {p \in DOMAIN c.args :
     \E w \in Range(c.template) \cap DOMAIN Options :
       p \in Range(Options[w].push) /\ c.args[Options[w].given] = <<>>}

\* set_advanced with no option is set.
Meaning(c) ==
  <<IF c.name = "set_advanced" THEN "set" ELSE c.name,
    {<<p, c.args[p]>> : p \in {q \in DOMAIN c.args \ Ignored(c) :
                                 c.args[q] # <<>>}}>>

Readings == {<<Request(c), Meaning(c)>> : c \in Calls}

\* The server can tell what was asked for: no two calls that differ, in the
\* function, in a parameter or in an optional part, build the same request.
\* It is not local to a function, and a keyword pushed without its operand,
\* an operand pushed twice or a count that does not say where a vector ends
\* breaks it.
OneMeaning ==
  \A i \in DOMAIN requests : \A r \in Readings :
    r[1] = requests[i] => r[2] = Meaning(sent[i])
=============================================================================
