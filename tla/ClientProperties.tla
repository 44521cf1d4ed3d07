--------------------------- MODULE ClientProperties ---------------------------
(***************************************************************************)
(* What makes Client correct: invariants, action properties, the abstract  *)
(* specification it implements, and liveness.                              *)
(***************************************************************************)
EXTENDS Client

UserLabels == {"idle", "push", "write", "clear", "spawn", "slock", "sblock",
               "swait", "synced", "tcp", "aread", "handlers", "remove",
               "buffers"}
WorkerLabels == {"idle", "loop", "rlock", "call", "rdone", "dropped", "dcheck",
                 "dset", "dlock", "dloop", "rstart", "tcp", "aread", "handlers",
                 "rcheck", "rauth", "rselect", "rmove", "resend", "rcommit",
                 "dfinal", "dend", "ret"}
DetachedLabels == {"idle", "fail", "dec", "notify"}

States == {"none", "dropped", "start", "sleeping", "ok", "failed", "stopped"}

ControlOK ==
  /\ pc \in [Threads -> UserLabels \cup WorkerLabels \cup DetachedLabels]
  /\ \A u \in Users : pc[u] \in UserLabels
  /\ \A w \in Workers : pc[w] \in WorkerLabels
  /\ \A d \in Detached : pc[d] \in DetachedLabels
  /\ op \in [Users -> {"commit", "sync", "timed"}]
  /\ mutex \in Threads \cup {None}
  /\ m_reconnecting \in BOOLEAN
  /\ m_cancel \in BOOLEAN
  /\ attempts \in Nat
  /\ notified \in States
  /\ faults \in [drops : Nat, refusals : Nat, malformed : Nat]

DataOK ==
  /\ m_commands \in Seq(AllCmds)
  /\ running \in Int
  /\ cur \in [Threads -> AllCmds \cup {None}]
  /\ rep \in [Workers -> AllCmds \cup {None}]
  /\ job \in [Threads -> Seq(AllCmds)]
  /\ sender \in [Cmds -> Users \cup {None}]
  /\ calls \in [Cmds -> Seq(AllCmds \cup {Failure})]

\* Every variable has the type its declaration in client.hpp gives it; in
\* particular no callback is ever called without a reply.  (That the unsigned
\* m_callbacks_running never wraps below zero follows from RunningCount.)
TypeOK == ConnTypeOK(AllCmds) /\ ControlOK /\ DataOK

\* Labels at which a thread is between lock and unlock of m_callbacks_mutex.
UserLocked == {"push", "sblock"}
HandlerLocked == {"dloop", "rstart", "tcp", "aread", "handlers", "rcheck",
                  "rauth", "rselect", "rmove", "resend", "rcommit", "dfinal",
                  "dend"}
Locked(t) == \/ t \in Users /\ pc[t] \in UserLocked
             \/ t \in Workers /\ pc[t] \in HandlerLocked

\* m_callbacks_mutex excludes: a thread is inside a critical section exactly
\* when it owns the mutex, whatever path (exceptions included) it took.
MutexOwner == \A t \in Threads : Locked(t) <=> mutex = t

\* Whoever takes the front of a queue it has moved out finds one there:
\* commands.front() is never evaluated on an empty std::queue.
FrontDefined ==
  \A t \in Threads : pc[t] \in {"spawn", "resend", "fail", "dec"} => job[t] # <<>>

\* m_callbacks_running counts the callbacks that have been taken out of
\* m_commands and accounted for, but have not completed: one per worker in
\* connection_receive_handler, one per command left to a detached thread.
Receiving == {w \in Workers : pc[w] \in {"call", "rdone"}}

Outstanding == (Receiving \X {0})
               \cup UNION {{d} \X (1 .. Len(job[d])) : d \in Detached}

RunningCount == running = Cardinality(Outstanding)

\* Every command whose send() has begun is in exactly one place: held by the
\* sender, queued, moved to the local queue of some thread, held by the
\* worker that popped it, or its callback has been called - once.
Occurrences(c, s) == {i \in DOMAIN s : s[i] = c}

Uncalled(t) == IF pc[t] = "dec" THEN Tail(job[t]) ELSE job[t]

Places(c) ==
  ({"held"} \X {t \in Threads : cur[t] = c} \X {0})
  \cup ({"queued"} \X {None} \X Occurrences(c, m_commands))
  \cup ({"called"} \X {None} \X DOMAIN calls[c])
  \cup UNION {{"moved"} \X {t} \X Occurrences(c, Uncalled(t)) : t \in Threads}

OnePlace ==
  \A c \in Cmds : IF sender[c] = None THEN Places(c) = {}
                  ELSE \E p \in Places(c) : Places(c) = {p}

\* A callback is called with the reply to its own command, or with the
\* network failure error, never with the reply to another command.
ReplyMatches == \A c \in Cmds : Range(calls[c]) \subseteq {c, Failure}

\* When sync_commit() returns (other than by timeout or exception), the
\* callback of every command its caller had sent has been called.
SyncComplete ==
  \A u \in Users : pc[u] = "synced" =>
    \A c \in Cmds : sender[c] = u => calls[c] # <<>>

\* Labels at which the disconnection handler has set m_reconnecting.
Reconnecting == HandlerLocked \cup {"dlock"}

\* m_reconnecting is set only while a handler is at work: commit() relies on
\* "the reconnection flow will do it for us".
ReconnectingHandled == m_reconnecting => \E w \in Workers : pc[w] \in Reconnecting

\* While no send, clear or disconnection handler is in progress, the commands
\* whose callback is queued are exactly those whose reply is still to come, in
\* order: replies not dispatched yet, then commands on the wire, then commands
\* in the send buffer.
Dispatching == {w \in Workers : pc[w] = "rlock"}
InHand == IF Dispatching = {} THEN <<>>
          ELSE <<rep[CHOOSE w \in Dispatching : TRUE]>>

QueuesAtRest ==
  /\ \A u \in Users : pc[u] \notin {"push", "remove", "buffers", "clear"}
  /\ \A w \in Workers : pc[w] \notin (DropWindow \cup HandlerLocked) \ {"dend"}

QueuesAgree ==
  QueuesAtRest => m_commands = InHand \o avail \o wire \o m_buffer

\* The states given to m_connect_callback follow each other as an attempt to
\* connect does: start before ok or failed, no sleep after ok, stopped only
\* once the connection was lost.
Follows == [none     |-> {"start"},
            start    |-> {"ok", "failed", "dropped"},
            ok       |-> {"dropped", "start"},
            dropped  |-> {"sleeping", "start", "stopped"},
            sleeping |-> {"start"},
            failed   |-> {"sleeping", "start", "stopped"},
            stopped  |-> {"start"}]

NotifyOrder == [][notified' \in Follows[notified]]_notified

(***************************************************************************)
(* The pipeline this client implements: commands held by a worker whose    *)
(* callback has not run, queued, or waiting to be sent again are in the    *)
(* queue; those moved out by clear_callbacks are failing.                  *)
(***************************************************************************)
Calling == {w \in Workers : pc[w] = "call" /\ cur[w] # None}
Resending == {w \in Workers : pc[w] = "resend"}

Pending == (IF Calling = {} THEN <<>> ELSE <<cur[CHOOSE w \in Calling : TRUE]>>)
           \o m_commands
           \o (IF Resending = {} THEN <<>>
               ELSE job[CHOOSE w \in Resending : TRUE])

Failing == UNION {Range(Uncalled(t)) : t \in Users \cup Detached}

Outcome == [c \in Cmds |-> CASE calls[c] = <<>>        -> "none"
                             [] calls[c] = <<c>>       -> "reply"
                             [] calls[c] = <<Failure>> -> "failure"
                             [] OTHER                  -> "wrong"]

P == INSTANCE Pipeline WITH queue <- Pending, failing <- Failing, outcome <- Outcome

Implements == P!Spec

(***************************************************************************)
(* Liveness, under Fairness                                                *)
(***************************************************************************)
InSync(u) == op[u] # "commit" /\ pc[u] \in {"write", "clear", "spawn", "slock",
                                            "sblock", "swait", "synced"}

\* sync_commit() returns, unless another thread has sent commands since that
\* nobody commits: it waits for the commands of all threads.
SyncTerminates == \A u \in Users : []<>(~InSync(u) \/ m_buffer # <<>>)

\* The callback of a command that has been written, or that was pending when
\* its connection was lost, is eventually called.
CallbackCalled ==
  \A c \in Cmds : c \in Range(wire) ~> calls[c] # <<>>
=============================================================================
