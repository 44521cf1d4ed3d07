------------------------------- MODULE Client -------------------------------
(***************************************************************************)
(* cpp_redis::client: the pipelining facade over one redis_connection.     *)
(*                                                                         *)
(* Three kinds of threads share its state: application threads (Users),    *)
(* workers of the io_service, which run the receive and the disconnection  *)
(* handlers, and the detached threads clear_callbacks spawns.  Each thread *)
(* has a program counter; a step is the code between two points at which   *)
(* another thread can observe or change what it uses.                      *)
(***************************************************************************)
EXTENDS RedisConnection, FiniteSets, Functions

CONSTANTS
  Users,              \* application threads
  Detached,           \* identities for the threads clear_callbacks detaches
  Cmds,               \* commands of the application, each sent at most once
  Auth, Select,       \* commands re_auth and re_select issue on their own
  Failure,            \* the error reply {"network failure", error}
  Ops,                \* which operations the application uses
  HasPassword,        \* m_password is not empty
  HasDatabase,        \* m_database_index > 0
  MaxReconnects,      \* m_max_reconnects (-1: no limit)
  ReconnectInterval,  \* m_reconnect_interval_msecs
  StartConnected,     \* connect() has already returned in the initial state
  Quiet,              \* the connection is lost only while no application
                      \*   thread is inside a call other than the wait of
                      \*   sync_commit, no call starts before the handler
                      \*   holds m_callbacks_mutex, and connect() is not
                      \*   called while is_reconnecting()
  MaxDrops,           \* bound: connections lost
  MaxRefusals,        \* bound: connection attempts refused
  MaxMalformed        \* bound: malformed replies received

AllOps == {"send", "commit", "sync", "timed", "connect", "disconnect",
           "disconnect_wait", "cancel"}

Threads == Users \cup Workers \cup Detached

AllCmds == Cmds \cup {Auth, Select}

ASSUME ThreadsAssumption ==
  /\ Users \cap Workers = {}
  /\ Users \cap Detached = {}
  /\ Workers \cap Detached = {}
  /\ None \notin Threads

ASSUME CommandsAssumption ==
  /\ None \notin AllCmds
  /\ Failure \notin AllCmds
  /\ Auth \notin Cmds
  /\ Select \notin Cmds

ASSUME ParametersAssumption ==
  /\ Ops \subseteq AllOps
  /\ HasPassword \in BOOLEAN
  /\ HasDatabase \in BOOLEAN
  /\ StartConnected \in BOOLEAN
  /\ Quiet \in BOOLEAN
  /\ MaxReconnects \in Int
  /\ ReconnectInterval \in Nat
  /\ MaxDrops \in Nat
  /\ MaxRefusals \in Nat
  /\ MaxMalformed \in Nat

VARIABLES
  m_commands,        \* commands whose callback waits for a reply
  running,           \* m_callbacks_running
  mutex,             \* owner of m_callbacks_mutex, or None
  m_reconnecting,
  m_cancel,
  attempts,          \* m_current_reconnect_attempts
  notified,          \* last state given to m_connect_callback
  pc,                \* where each thread is
  op,                \* the commit flavour an application thread is in
  cur,               \* the command a thread holds (being pushed, or popped)
  rep,               \* the reply a worker holds
  job,               \* local queue of a thread (commands moved out)
  faults,            \* faults of the environment so far
  sender,            \* history: the thread that sent a command
  calls              \* history: replies given to the callback of a command

queueVars == <<m_commands, running>>
reconVars == <<m_reconnecting, m_cancel, attempts, notified>>
localVars == <<op, cur, rep, job>>
histVars == <<faults, sender, calls>>

vars == <<connVars, queueVars, mutex, reconVars, pc, localVars, histVars>>

(***************************************************************************)
(* Helpers                                                                 *)
(***************************************************************************)
Goto(t, from, to) ==
  /\ pc[t] = from
  /\ pc' = [pc EXCEPT ![t] = to]

\* m_sync_condvar.notify_all() by thread t, which moves on to label l.
NotifyAll(t, l) ==
  pc' = [x \in Threads |-> IF x = t THEN l
                           ELSE IF pc[x] = "swait" THEN "slock" ELSE pc[x]]

\* The window of the disconnection handler before it holds the mutex.
DropWindow == {"dropped", "dcheck", "dset", "dlock"}

CallAllowed(o) ==
  Quiet => /\ \A w \in Workers : pc[w] \notin DropWindow
           /\ o = "connect" => ~m_reconnecting

DropAllowed == Quiet => \A u \in Users : pc[u] \in {"idle", "swait"}

\* Start of a call of the application.
Begin(u, o) ==
  /\ o \in Ops
  /\ pc[u] = "idle"
  /\ CallAllowed(o)

\* The callback of command c runs on reply r; those of re_auth and re_select
\* only log.
RunCallback(c, r) ==
  calls' = IF c \in Cmds THEN [calls EXCEPT ![c] = Append(@, r)] ELSE calls

\* Second half of clear_callbacks: thread t has moved the commands q out of
\* m_commands, accounts for them and hands them to a detached thread.
SpawnClear(t, q, l) ==
  \E d \in Detached :
    /\ pc[d] = "idle"
    /\ d = CHOOSE x \in Detached : pc[x] = "idle"
    /\ running' = running + Len(q)
    /\ job' = [job EXCEPT ![t] = <<>>, ![d] = q]
    /\ pc' = [pc EXCEPT ![t] = l, ![d] = "fail"]

(***************************************************************************)
(* send(): under m_callbacks_mutex, the command is buffered by the         *)
(* connection and then recorded with its callback.                         *)
(***************************************************************************)
\* Mutant: the command is buffered without m_callbacks_mutex.
SendUnlocked(u, c) ==
  /\ Begin(u, "send")
  /\ sender[c] = None
  /\ BufferCommand(c)
  /\ cur' = [cur EXCEPT ![u] = c]
  /\ sender' = [sender EXCEPT ![c] = u]
  /\ Goto(u, "idle", "push")
  /\ UNCHANGED <<queueVars, mutex, reconVars, op, rep, job, faults, calls>>

Send(u, c) ==
  /\ Begin(u, "send")
  /\ sender[c] = None
  /\ mutex = None
  /\ mutex' = u
  /\ BufferCommand(c)
  /\ cur' = [cur EXCEPT ![u] = c]
  /\ sender' = [sender EXCEPT ![c] = u]
  /\ Goto(u, "idle", "push")
  /\ UNCHANGED <<queueVars, reconVars, op, rep, job, faults, calls>>

SendPush(u) ==
  /\ Goto(u, "push", "idle")
  /\ m_commands' = Append(m_commands, cur[u])
  /\ cur' = [cur EXCEPT ![u] = None]
  /\ mutex' = None
  /\ UNCHANGED <<connVars, running, reconVars, op, rep, job, histVars>>

(***************************************************************************)
(* commit() and sync_commit(): nothing is written while the handler is     *)
(* reconnecting; a write on a closed connection clears the callbacks and   *)
(* throws.                                                                 *)
(***************************************************************************)
AfterCommit(o) == IF o = "commit" THEN "idle" ELSE "slock"

Commit(u, o) ==
  /\ Begin(u, o)
  /\ op' = [op EXCEPT ![u] = o]
  /\ Goto(u, "idle", IF m_reconnecting THEN AfterCommit(o) ELSE "write")
  /\ UNCHANGED <<connVars, queueVars, mutex, reconVars, cur, rep, job,
                 histVars>>

TryCommit(u) ==
  /\ \/ WriteBuffer /\ Goto(u, "write", AfterCommit(op[u]))
     \/ WriteFails /\ Goto(u, "write", "clear")
  /\ UNCHANGED <<queueVars, mutex, reconVars, localVars, histVars>>

\* Mutant: the queue is copied instead of moved.
ClearCopy(u) ==
  /\ Goto(u, "clear", IF m_commands = <<>> THEN "idle" ELSE "spawn")
  /\ job' = [job EXCEPT ![u] = m_commands]
  /\ UNCHANGED <<connVars, queueVars, mutex, reconVars, op, cur, rep, histVars>>

\* clear_callbacks() outside the mutex, first half: the queue is moved out.
ClearMove(u) ==
  /\ Goto(u, "clear", IF m_commands = <<>> THEN "idle" ELSE "spawn")
  /\ job' = [job EXCEPT ![u] = m_commands]
  /\ m_commands' = <<>>
  /\ UNCHANGED <<connVars, running, mutex, reconVars, op, cur, rep, histVars>>

ClearSpawn(u) ==
  /\ pc[u] = "spawn"
  /\ SpawnClear(u, job[u], "idle")
  /\ UNCHANGED <<connVars, m_commands, mutex, reconVars, op, cur, rep,
                 histVars>>

(***************************************************************************)
(* The wait of sync_commit().  The predicate is evaluated with the mutex   *)
(* held; going to sleep releases it.                                       *)
(***************************************************************************)
\* Mutant: callbacks that are still running are not waited for.
NothingQueued == m_commands = <<>>

AllDone == running = 0 /\ m_commands = <<>>

SyncLock(u) ==
  /\ mutex = None
  /\ \/ AllDone /\ Goto(u, "slock", "synced") /\ mutex' = None
     \/ ~AllDone /\ Goto(u, "slock", "sblock") /\ mutex' = u
  /\ UNCHANGED <<connVars, queueVars, reconVars, localVars, histVars>>

SyncBlock(u) ==
  /\ Goto(u, "sblock", "swait")
  /\ mutex' = None
  /\ UNCHANGED <<connVars, queueVars, reconVars, localVars, histVars>>

\* wait_for gives up: it locks the mutex again and returns.
SyncTimeout(u) ==
  /\ op[u] = "timed"
  /\ mutex = None
  /\ Goto(u, "swait", "idle")
  /\ UNCHANGED <<connVars, queueVars, mutex, reconVars, localVars, histVars>>

SyncReturn(u) ==
  /\ Goto(u, "synced", "idle")
  /\ UNCHANGED <<connVars, queueVars, mutex, reconVars, localVars, histVars>>

(***************************************************************************)
(* connect(), called by the application or by reconnect().  Where control  *)
(* goes when it throws or returns depends on the caller.                   *)
(***************************************************************************)
AfterConnect(t) == IF t \in Users THEN "idle" ELSE "rcheck"

Connect(u) ==
  /\ Begin(u, "connect")
  /\ Goto(u, "idle", "tcp")
  /\ notified' = "start"
  /\ UNCHANGED <<connVars, queueVars, mutex, m_reconnecting, m_cancel, attempts,
                 localVars, histVars>>

ConnectTcp(t) ==
  /\ \/ TcpConnect /\ Goto(t, "tcp", "aread") /\ UNCHANGED faults
     \/ \* already connected: the tcp client throws
        /\ connected
        /\ Goto(t, "tcp", AfterConnect(t))
        /\ UNCHANGED <<connVars, faults>>
     \/ \* the server cannot be reached
        /\ ~connected
        /\ faults.refusals < MaxRefusals
        /\ faults' = [faults EXCEPT !.refusals = @ + 1]
        /\ Goto(t, "tcp", AfterConnect(t))
        /\ UNCHANGED connVars
  /\ UNCHANGED <<queueVars, mutex, reconVars, localVars, sender, calls>>

ConnectRead(t) ==
  /\ \/ AsyncRead /\ Goto(t, "aread", "handlers")
     \/ ~connected /\ Goto(t, "aread", AfterConnect(t)) /\ UNCHANGED connVars
  /\ UNCHANGED <<queueVars, mutex, reconVars, localVars, histVars>>

ConnectHandlers(t) ==
  /\ Goto(t, "handlers", AfterConnect(t))
  /\ SetHandlers
  /\ notified' = "ok"
  /\ UNCHANGED <<queueVars, mutex, m_reconnecting, m_cancel, attempts,
                 localVars, histVars>>

(***************************************************************************)
(* disconnect(wait_for_removal): close the connection, clear its buffers,  *)
(* then clear_callbacks() (label "clear").                                 *)
(***************************************************************************)
Disconnect(u, o) ==
  /\ Begin(u, o)
  /\ TcpDisconnect
  /\ Goto(u, "idle",
          IF o = "disconnect_wait" /\ connected THEN "remove" ELSE "buffers")
  /\ UNCHANGED <<queueVars, mutex, reconVars, localVars, histVars>>

DisconnectRemoved(u) ==
  /\ Removed
  /\ Goto(u, "remove", "buffers")
  /\ UNCHANGED <<connVars, queueVars, mutex, reconVars, localVars, histVars>>

DisconnectBuffers(u) ==
  /\ ClearBuffers
  /\ Goto(u, "buffers", "clear")
  /\ UNCHANGED <<queueVars, mutex, reconVars, localVars, histVars>>

CancelReconnect(u) ==
  /\ Begin(u, "cancel")
  /\ m_cancel' = TRUE
  /\ UNCHANGED <<connVars, queueVars, mutex, m_reconnecting, attempts, notified,
                 pc, localVars, histVars>>

(***************************************************************************)
(* A worker is called because the socket is readable, because the peer     *)
(* dropped the connection, or for data the reply builder rejects.          *)
(***************************************************************************)
ReadEvent(w) ==
  /\ \E n \in 1 .. Len(wire) : ReadReplies(w, n)
  /\ Goto(w, "idle", "loop")
  /\ UNCHANGED <<queueVars, mutex, reconVars, localVars, histVars>>

DropEvent(w) ==
  /\ DropAllowed
  /\ faults.drops < MaxDrops
  /\ faults' = [faults EXCEPT !.drops = @ + 1]
  /\ PeerDrop(w)
  /\ Goto(w, "idle", "dropped")
  /\ UNCHANGED <<queueVars, mutex, reconVars, localVars, sender, calls>>

\* The handler is called although the connection is still open, and the next
\* read is not requested.
MalformedEvent(w) ==
  /\ faults.malformed < MaxMalformed
  /\ faults' = [faults EXCEPT !.malformed = @ + 1]
  /\ \E n \in 0 .. Len(wire) : ReadReplies(w, n)
  /\ Goto(w, "idle", IF hset THEN "dcheck" ELSE "ret")
  /\ UNCHANGED <<queueVars, mutex, reconVars, localVars, sender, calls>>

(***************************************************************************)
(* tcp_client_receive_handler's loop and connection_receive_handler.       *)
(***************************************************************************)
\* Mutant: the front is read after it has been popped.
TakeReplyPopped(w) ==
  /\ PopReply
  /\ rep' = [rep EXCEPT ![w] = IF hset /\ Tail(avail) # <<>>
                               THEN Head(Tail(avail)) ELSE None]
  /\ Goto(w, "loop", IF hset THEN "rlock" ELSE "loop")
  /\ UNCHANGED <<queueVars, mutex, reconVars, op, cur, job, histVars>>

TakeReply(w) ==
  /\ PopReply
  /\ rep' = [rep EXCEPT ![w] = IF hset THEN Head(avail) ELSE None]
  /\ Goto(w, "loop", IF hset THEN "rlock" ELSE "loop")
  /\ UNCHANGED <<queueVars, mutex, reconVars, op, cur, job, histVars>>

EndRead(w) ==
  /\ NextRead(w)
  /\ Goto(w, "loop", "idle")
  /\ UNCHANGED <<queueVars, mutex, reconVars, localVars, histVars>>

\* Mutant: the front command is not popped.
ReceivePeek(w) ==
  /\ Goto(w, "rlock", "call")
  /\ mutex = None
  /\ running' = running + 1
  /\ cur' = [cur EXCEPT ![w] = IF m_commands = <<>> THEN None
                               ELSE Head(m_commands)]
  /\ UNCHANGED <<connVars, m_commands, mutex, reconVars, op, rep, job, histVars>>

ReceiveLock(w) ==
  /\ Goto(w, "rlock", "call")
  /\ mutex = None
  /\ running' = running + 1
  /\ cur' = [cur EXCEPT ![w] = IF m_commands = <<>> THEN None
                               ELSE Head(m_commands)]
  /\ m_commands' = IF m_commands = <<>> THEN <<>> ELSE Tail(m_commands)
  /\ UNCHANGED <<connVars, mutex, reconVars, op, rep, job, histVars>>

ReceiveCall(w) ==
  /\ Goto(w, "call", "rdone")
  /\ RunCallback(cur[w], rep[w])
  /\ cur' = [cur EXCEPT ![w] = None]
  /\ rep' = [rep EXCEPT ![w] = None]
  /\ UNCHANGED <<connVars, queueVars, mutex, reconVars, op, job, faults,
                 sender>>

\* Mutant: nobody is notified when a callback completes.
ReceiveSilent(w) ==
  /\ mutex = None
  /\ running' = running - 1
  /\ Goto(w, "rdone", "loop")
  /\ UNCHANGED <<connVars, m_commands, mutex, reconVars, localVars, histVars>>

ReceiveDone(w) ==
  /\ pc[w] = "rdone"
  /\ mutex = None
  /\ running' = running - 1
  /\ NotifyAll(w, "loop")
  /\ UNCHANGED <<connVars, m_commands, mutex, reconVars, localVars, histVars>>

(***************************************************************************)
(* tcp_client_disconnection_handler and connection_disconnection_handler.  *)
(***************************************************************************)
\* Mutant: the send buffer survives a lost connection.
DropKeepsBuffers(w) ==
  /\ Goto(w, "dropped", IF hset THEN "dcheck" ELSE "ret")
  /\ UNCHANGED <<connVars, queueVars, mutex, reconVars, localVars, histVars>>

DropBuffers(w) ==
  /\ ClearBuffers
  /\ Goto(w, "dropped", IF hset THEN "dcheck" ELSE "ret")
  /\ UNCHANGED <<queueVars, mutex, reconVars, localVars, histVars>>

DropCheck(w) ==
  /\ Goto(w, "dcheck", IF m_reconnecting THEN "ret" ELSE "dset")
  /\ UNCHANGED <<connVars, queueVars, mutex, reconVars, localVars, histVars>>

DropSet(w) ==
  /\ Goto(w, "dset", "dlock")
  /\ m_reconnecting' = TRUE
  /\ attempts' = 0
  /\ notified' = "dropped"
  /\ UNCHANGED <<connVars, queueVars, mutex, m_cancel, localVars, histVars>>

\* Mutant: the handler reconnects without m_callbacks_mutex.
DropUnlocked(w) ==
  /\ Goto(w, "dlock", "dloop")
  /\ UNCHANGED <<connVars, queueVars, mutex, reconVars, localVars, histVars>>

DropLock(w) ==
  /\ Goto(w, "dlock", "dloop")
  /\ mutex = None
  /\ mutex' = w
  /\ UNCHANGED <<connVars, queueVars, reconVars, localVars, histVars>>

should_reconnect ==
  /\ ~connected
  /\ ~m_cancel
  /\ MaxReconnects = -1 \/ attempts < MaxReconnects

\* One round of the loop: sleep_before_next_reconnect_attempt, then reconnect
\* counts the attempt.
ReconnectSleep(w) ==
  /\ should_reconnect
  /\ Goto(w, "dloop", "rstart")
  /\ attempts' = attempts + 1
  /\ notified' = IF ReconnectInterval > 0 THEN "sleeping" ELSE notified
  /\ UNCHANGED <<connVars, queueVars, mutex, m_reconnecting, m_cancel,
                 localVars, histVars>>

ReconnectStart(w) ==
  /\ Goto(w, "rstart", "tcp")
  /\ notified' = "start"
  /\ UNCHANGED <<connVars, queueVars, mutex, m_reconnecting, m_cancel, attempts,
                 localVars, histVars>>

\* Mutant: the outcome of the attempt is not looked at before notifying.
ReconnectAlwaysOk(w) ==
  /\ Goto(w, "rcheck", IF connected THEN "rauth" ELSE "dloop")
  /\ notified' = "ok"
  /\ UNCHANGED <<connVars, queueVars, mutex, m_reconnecting, m_cancel, attempts,
                 localVars, histVars>>

ReconnectCheck(w) ==
  /\ Goto(w, "rcheck", IF connected THEN "rauth" ELSE "dloop")
  /\ notified' = IF connected THEN "ok" ELSE "failed"
  /\ UNCHANGED <<connVars, queueVars, mutex, m_reconnecting, m_cancel, attempts,
                 localVars, histVars>>

\* unprotected_send: the mutex is held by the caller.
unprotected_send(c) ==
  /\ BufferCommand(c)
  /\ m_commands' = Append(m_commands, c)

ReAuth(w) ==
  /\ Goto(w, "rauth", "rselect")
  /\ IF HasPassword THEN unprotected_send(Auth)
                    ELSE UNCHANGED <<connVars, m_commands>>
  /\ UNCHANGED <<running, mutex, reconVars, localVars, histVars>>

ReSelect(w) ==
  /\ Goto(w, "rselect", "rmove")
  /\ IF HasDatabase THEN unprotected_send(Select)
                    ELSE UNCHANGED <<connVars, m_commands>>
  /\ UNCHANGED <<running, mutex, reconVars, localVars, histVars>>

\* Mutant: the queue is copied, so that commands sent again are queued twice.
ResendCopy(w) ==
  /\ Goto(w, "rmove", IF m_commands = <<>> THEN "rcommit" ELSE "resend")
  /\ job' = [job EXCEPT ![w] = m_commands]
  /\ UNCHANGED <<connVars, queueVars, mutex, reconVars, op, cur, rep, histVars>>

\* Mutant: resend_failed_commands does not return early on an empty queue.
ResendAlways(w) ==
  /\ Goto(w, "rmove", "resend")
  /\ job' = [job EXCEPT ![w] = m_commands]
  /\ m_commands' = <<>>
  /\ UNCHANGED <<connVars, running, mutex, reconVars, op, cur, rep, histVars>>

\* resend_failed_commands: the queue is moved to a local one, then every
\* command is sent again.
ResendMove(w) ==
  /\ Goto(w, "rmove", IF m_commands = <<>> THEN "rcommit" ELSE "resend")
  /\ job' = [job EXCEPT ![w] = m_commands]
  /\ m_commands' = <<>>
  /\ UNCHANGED <<connVars, running, mutex, reconVars, op, cur, rep, histVars>>

ResendOne(w) ==
  /\ Goto(w, "resend", IF Len(job[w]) = 1 THEN "rcommit" ELSE "resend")
  /\ unprotected_send(Head(job[w]))
  /\ job' = [job EXCEPT ![w] = Tail(@)]
  /\ UNCHANGED <<running, mutex, reconVars, op, cur, rep, histVars>>

\* clear_callbacks() with the mutex held.
ClearLocked(w, l) ==
  IF m_commands = <<>>
  THEN /\ pc' = [pc EXCEPT ![w] = l]
       /\ UNCHANGED <<queueVars, job>>
  ELSE /\ SpawnClear(w, m_commands, l)
       /\ m_commands' = <<>>

\* The last step of reconnect().  When the write fails the exception leaves
\* the handler: the lock_guard releases the mutex, m_reconnecting stays set.
ReconnectCommit(w) ==
  /\ pc[w] = "rcommit"
  /\ \/ /\ WriteBuffer
        /\ pc' = [pc EXCEPT ![w] = "dloop"]
        /\ UNCHANGED <<queueVars, mutex, job>>
     \/ /\ WriteFails
        /\ ClearLocked(w, "ret")
        /\ mutex' = None
  /\ UNCHANGED <<reconVars, op, cur, rep, histVars>>

ReconnectStop(w) ==
  /\ ~should_reconnect
  /\ Goto(w, "dloop", "dfinal")
  /\ UNCHANGED <<connVars, queueVars, mutex, reconVars, localVars, histVars>>

GiveUp(w) ==
  /\ pc[w] = "dfinal"
  /\ \/ /\ connected
        /\ pc' = [pc EXCEPT ![w] = "dend"]
        /\ UNCHANGED <<queueVars, notified, job>>
     \/ /\ ~connected
        /\ ClearLocked(w, "dend")
        /\ notified' = "stopped"
  /\ UNCHANGED <<connVars, mutex, m_reconnecting, m_cancel, attempts, op, cur,
                 rep, histVars>>

\* Mutant: m_reconnecting is not cleared.
DropEndStuck(w) ==
  /\ Goto(w, "dend", "ret")
  /\ mutex' = None
  /\ UNCHANGED <<connVars, queueVars, reconVars, localVars, histVars>>

\* The flag is cleared, then the lock_guard releases the mutex.
DropEnd(w) ==
  /\ Goto(w, "dend", "ret")
  /\ m_reconnecting' = FALSE
  /\ mutex' = None
  /\ UNCHANGED <<connVars, queueVars, m_cancel, attempts, notified, localVars,
                 histVars>>

\* The callback of the tcp client returns to the io_service.
HandlerReturns(w) ==
  /\ Goto(w, "ret", "idle")
  /\ HandlerReturn(w)
  /\ UNCHANGED <<queueVars, mutex, reconVars, localVars, histVars>>

(***************************************************************************)
(* The detached thread of clear_callbacks.  It takes no lock.              *)
(***************************************************************************)
FailCall(d) ==
  /\ Goto(d, "fail", "dec")
  /\ RunCallback(Head(job[d]), Failure)
  /\ UNCHANGED <<connVars, queueVars, mutex, reconVars, localVars, faults,
                 sender>>

\* Mutant: only the last callback of the queue is counted as completed.
FailDoneLast(d) ==
  /\ Goto(d, "dec", IF Len(job[d]) = 1 THEN "notify" ELSE "fail")
  /\ running' = IF Len(job[d]) = 1 THEN running - 1 ELSE running
  /\ job' = [job EXCEPT ![d] = Tail(@)]
  /\ UNCHANGED <<connVars, m_commands, mutex, reconVars, op, cur, rep, histVars>>

FailDone(d) ==
  /\ Goto(d, "dec", IF Len(job[d]) = 1 THEN "notify" ELSE "fail")
  /\ running' = running - 1
  /\ job' = [job EXCEPT ![d] = Tail(@)]
  /\ UNCHANGED <<connVars, m_commands, mutex, reconVars, op, cur, rep,
                 histVars>>

FailNotify(d) ==
  /\ pc[d] = "notify"
  /\ NotifyAll(d, "idle")
  /\ UNCHANGED <<connVars, queueVars, mutex, reconVars, localVars, histVars>>

(***************************************************************************)
(* Specification                                                           *)
(***************************************************************************)
Init ==
  /\ ConnInit(StartConnected)
  /\ m_commands = <<>>
  /\ running = 0
  /\ mutex = None
  /\ m_reconnecting = FALSE
  /\ m_cancel = FALSE
  /\ attempts = 0
  /\ notified = IF StartConnected THEN "ok" ELSE "none"
  /\ pc = [t \in Threads |-> "idle"]
  /\ op = [u \in Users |-> "commit"]
  /\ cur = [t \in Threads |-> None]
  /\ rep = [w \in Workers |-> None]
  /\ job = [t \in Threads |-> <<>>]
  /\ faults = [drops |-> 0, refusals |-> 0, malformed |-> 0]
  /\ sender = [c \in Cmds |-> None]
  /\ calls = [c \in Cmds |-> <<>>]

\* A call of the application begins.
UserCall(u) ==
  \/ \E c \in Cmds : Send(u, c)
  \/ \E o \in {"commit", "sync", "timed"} : Commit(u, o)
  \/ Connect(u)
  \/ \E o \in {"disconnect", "disconnect_wait"} : Disconnect(u, o)
  \/ CancelReconnect(u)

\* A call that has begun goes on.
UserStep(u) ==
  \/ SendPush(u)
  \/ TryCommit(u)
  \/ ClearMove(u)
  \/ ClearSpawn(u)
  \/ SyncLock(u)
  \/ SyncBlock(u)
  \/ SyncReturn(u)
  \/ ConnectTcp(u)
  \/ ConnectRead(u)
  \/ ConnectHandlers(u)
  \/ DisconnectRemoved(u)
  \/ DisconnectBuffers(u)

\* Steps of a worker once it is called.
HandlerStep(w) ==
  \/ TakeReply(w)
  \/ EndRead(w)
  \/ ReceiveLock(w)
  \/ ReceiveCall(w)
  \/ ReceiveDone(w)
  \/ DropBuffers(w)
  \/ DropCheck(w)
  \/ DropSet(w)
  \/ DropLock(w)
  \/ ReconnectSleep(w)
  \/ ReconnectStart(w)
  \/ ConnectTcp(w)
  \/ ConnectRead(w)
  \/ ConnectHandlers(w)
  \/ ReconnectCheck(w)
  \/ ReAuth(w)
  \/ ReSelect(w)
  \/ ResendMove(w)
  \/ ResendOne(w)
  \/ ReconnectCommit(w)
  \/ ReconnectStop(w)
  \/ GiveUp(w)
  \/ DropEnd(w)
  \/ HandlerReturns(w)

DetachedStep(d) == FailCall(d) \/ FailDone(d) \/ FailNotify(d)

Next ==
  \/ \E u \in Users : UserCall(u) \/ UserStep(u) \/ SyncTimeout(u)
  \/ \E w \in Workers : ReadEvent(w) \/ DropEvent(w) \/ MalformedEvent(w)
                        \/ HandlerStep(w)
  \/ \E d \in Detached : DetachedStep(d)

Spec == Init /\ [][Next]_vars

\* Every thread that can take a step of a call in progress eventually does;
\* the server eventually answers what it has received.  Nothing forces the
\* application to begin a call, or the environment to fail.
Fairness ==
  /\ \A u \in Users : WF_vars(UserStep(u))
  /\ \A w \in Workers : WF_vars(HandlerStep(w) \/ ReadEvent(w))
  /\ \A d \in Detached : WF_vars(DetachedStep(d))

FairSpec == Spec /\ Fairness
=============================================================================
