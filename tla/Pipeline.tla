------------------------------ MODULE Pipeline ------------------------------
(***************************************************************************)
(* What cpp_redis::client promises its caller, without connections,        *)
(* threads or locks: commands are accepted into a pipeline; the oldest one *)
(* receives its own reply; or the youngest ones are given up and each of   *)
(* them receives a failure.  Every accepted command is completed at most   *)
(* once, and replies never overtake each other.                            *)
(***************************************************************************)
EXTENDS Integers, Sequences, Functions

CONSTANT Cmds

VARIABLES
  queue,     \* accepted commands that wait for their reply, oldest first
  failing,   \* commands given up, failure not delivered yet
  outcome    \* what the callback of a command was called with

vars == <<queue, failing, outcome>>

TypeOK ==
  /\ queue \in Seq(Cmds)
  /\ failing \subseteq Cmds
  /\ outcome \in [Cmds -> {"none", "reply", "failure"}]

Init ==
  /\ queue = <<>>
  /\ failing = {}
  /\ outcome = [c \in Cmds |-> "none"]

Accept(c) ==
  /\ outcome[c] = "none"
  /\ c \notin Range(queue) \cup failing
  /\ queue' = Append(queue, c)
  /\ UNCHANGED <<failing, outcome>>

Reply ==
  /\ queue # <<>>
  /\ outcome' = [outcome EXCEPT ![Head(queue)] = "reply"]
  /\ queue' = Tail(queue)
  /\ UNCHANGED failing

GiveUp ==
  \E n \in 0 .. Len(queue) - 1 :
    /\ failing' = failing \cup Range(SubSeq(queue, n + 1, Len(queue)))
    /\ queue' = SubSeq(queue, 1, n)
    /\ UNCHANGED outcome

Fail(c) ==
  /\ c \in failing
  /\ failing' = failing \ {c}
  /\ outcome' = [outcome EXCEPT ![c] = "failure"]
  /\ UNCHANGED queue

Next ==
  \/ \E c \in Cmds : Accept(c) \/ Fail(c)
  \/ Reply
  \/ GiveUp

Spec == Init /\ [][Next]_vars
=============================================================================
