------------------------------ MODULE Sentinel ------------------------------
(***************************************************************************)
(* cpp_redis::sentinel: commands for a redis sentinel, and the lookup of   *)
(* the address of a master, which connects to one sentinel after the       *)
(* other, asks, waits for the reply and disconnects.                       *)
(*                                                                         *)
(* A lookup is called by an application thread or, while a client          *)
(* reconnects, by the worker that runs the disconnection handler of the    *)
(* client (module HighAvailability): its steps are those of any thread.    *)
(*                                                                         *)
(* m_callbacks_mutex protects m_callbacks and m_callbacks_running, is held *)
(* over no callback, and every change that can end the wait of sync_commit *)
(* is followed by notify_all before it is released: each critical section  *)
(* is one step, and the wait is a guard.                                   *)
(*                                                                         *)
(* The command a lookup sends, its callback and its reply are represented  *)
(* by the thread that looks up.                                            *)
(***************************************************************************)
EXTENDS RedisConnection, FiniteSets, Functions

CONSTANTS
  Users,         \* application threads
  Cmds,          \* commands of the application, each sent at most once
  NbSentinels,   \* m_sentinels.size()
  Ops,           \* which operations the application uses; "nowait" is
                 \*   disconnect() without its argument
  Orderly,       \* the application only sends on an open connection, waits
                 \*   for the replies before it closes the connection or
                 \*   looks up, and leaves the sentinel alone during lookups
                 \*   and until the handler of a lost connection has run; the
                 \*   client loses its connection while no call is running
  MaxLookups,    \* bound: lookups called by the application
  MaxDrops,      \* bound: connections to a sentinel lost
  MaxRefusals,   \* bound: connection attempts refused
  MaxUnknown     \* bound: replies that the name is unknown

Threads == Users \cup Workers

ASSUME SentinelAssumption ==
  /\ Users \cap Workers = {}
  /\ Cmds \cap Threads = {}
  /\ None \notin Threads \cup Cmds
  /\ NbSentinels \in Nat

VARIABLES
  m_callbacks,   \* callbacks that wait for a reply
  running,       \* m_callbacks_running
  pc,            \* where each thread is
  mode,          \* the lookup a thread is in: "auto" or "plain", as
                 \*   autoconnect says, or "client" when a client calls it
  it,            \* the sentinel connect_sentinel tries
  cur,           \* the callback a worker runs
  rep,           \* the reply a worker handles
  port,          \* the ports lookups fill in: of the calls of each thread, and
                 \*   m_redis_port of the client at None; 1 for a master
  answered,      \* history: the lookup of a thread has been given a master
  calls,         \* history: replies given to each callback of a command
  counts         \* history: lookups and faults so far (clientDrops is of
                 \*   HighAvailability)

queueVars == <<m_callbacks, running>>
lookupVars == <<mode, it, port, answered>>
workerVars == <<cur, rep>>
histVars == <<calls, counts>>

sentinelVars == <<connVars, queueVars, pc, lookupVars, workerVars, histVars>>

Goto(t, from, to) ==
  /\ pc[t] = from
  /\ pc' = [pc EXCEPT ![t] = to]

Count(what) == counts' = [counts EXCEPT ![what] = @ + 1]

\* Whose port the lookup of thread t fills in.
Out(t) == IF mode[t] = "client" THEN None ELSE t

clear_callbacks == m_callbacks' = <<>> /\ UNCHANGED running

(***************************************************************************)
(* send, commit and sync_commit                                            *)
(***************************************************************************)
send(c) ==
  /\ BufferCommand(c)
  /\ m_callbacks' = Append(m_callbacks, c)
  /\ UNCHANGED running

\* try_commit by thread t: to label l, or to the label where the exception
\* goes.
TryCommit(t, from, l, threw) ==
  \/ /\ WriteBuffer
     /\ Goto(t, from, l)
     /\ UNCHANGED queueVars
  \/ /\ WriteFails
     /\ Goto(t, from, threw)
     /\ clear_callbacks

\* The labels of a lookup that has not returned.
Looking == {"stcp", "sread", "shandlers", "scheck", "lcheck", "ask", "lcommit",
            "lwait", "lclose", "lremove", "lbuffers"}

Settled == Orderly => m_callbacks = <<>>

\* No client is looking up or reconnecting ("hloop" and "connect" are labels
\* of HighAvailability), no handler is going to clear the callbacks.
Alone ==
  Orderly => \A t \in Threads :
    pc[t] \notin Looking \cup {"lret", "connect", "hloop", "dropped", "clear"}

\* ping, masters, master, slaves, sentinels, ckquorum, failover, reset,
\* flushconfig, monitor, remove and set.
Send(u, c) ==
  /\ "send" \in Ops
  /\ pc[u] = "idle"
  /\ Alone /\ (Orderly => connected)
  /\ calls[c] = <<>> /\ ~ \E s \in {m_callbacks, wire, avail} : c \in Range(s)
  /\ \A w \in Workers : cur[w] # c /\ rep[w] # c
  /\ send(c)
  /\ UNCHANGED <<pc, lookupVars, workerVars, histVars>>

Commit(u) ==
  /\ "send" \in Ops
  /\ TryCommit(u, "idle", "idle", "idle")
  /\ UNCHANGED <<lookupVars, workerVars, histVars>>

SyncCommit(u) ==
  /\ "sync" \in Ops
  /\ TryCommit(u, "idle", "swait", "idle")
  /\ UNCHANGED <<lookupVars, workerVars, histVars>>

\* Mutant: a callback that has been popped and still runs is not waited for.
AllPopped == m_callbacks = <<>>

AllDone == running = 0 /\ m_callbacks = <<>>

SyncDone(t) ==
  /\ AllDone
  /\ \/ Goto(t, "swait", "idle")
     \/ Goto(t, "lwait", IF mode[t] = "plain" THEN "lret" ELSE "lclose")
  /\ UNCHANGED <<connVars, queueVars, lookupVars, workerVars, histVars>>

\* sync_commit with a timeout, when the timeout is over.
SyncTimeout(u) ==
  /\ "timed" \in Ops
  /\ Goto(u, "swait", "idle")
  /\ UNCHANGED <<connVars, queueVars, lookupVars, workerVars, histVars>>

(***************************************************************************)
(* connect and disconnect, called by the application or by a lookup        *)
(***************************************************************************)
Connect(u) ==
  /\ "connect" \in Ops
  /\ Alone /\ Settled
  /\ Goto(u, "idle", "tcp")
  /\ UNCHANGED <<connVars, queueVars, lookupVars, workerVars, histVars>>

\* The labels of connect in its two callers, and the one it returns to.
AfterConnect(l) == IF l \in {"tcp", "read", "handlers"} THEN "idle" ELSE "scheck"
Following == [tcp |-> "read", stcp |-> "sread",
              read |-> "handlers", sread |-> "shandlers"]

ConnectTcp(t) ==
  /\ pc[t] \in {"tcp", "stcp"}
  /\ \/ /\ TcpConnect
        /\ Goto(t, pc[t], Following[pc[t]])
        /\ UNCHANGED counts
     \/ /\ connected   \* the tcp client throws
        /\ Goto(t, pc[t], AfterConnect(pc[t]))
        /\ UNCHANGED <<connVars, counts>>
     \/ /\ ~connected  \* the sentinel cannot be reached
        /\ counts.refusals < MaxRefusals
        /\ Count("refusals")
        /\ Goto(t, pc[t], AfterConnect(pc[t]))
        /\ UNCHANGED connVars
  /\ UNCHANGED <<queueVars, lookupVars, workerVars, calls>>

ConnectRead(t) ==
  /\ pc[t] \in {"read", "sread"}
  /\ \/ AsyncRead /\ Goto(t, pc[t], Following[pc[t]])
     \/ /\ ~connected
        /\ Goto(t, pc[t], AfterConnect(pc[t]))
        /\ UNCHANGED connVars
  /\ UNCHANGED <<queueVars, lookupVars, workerVars, histVars>>

ConnectHandlers(t) ==
  /\ pc[t] \in {"handlers", "shandlers"}
  /\ Goto(t, pc[t], AfterConnect(pc[t]))
  /\ SetHandlers
  /\ UNCHANGED <<queueVars, lookupVars, workerVars, histVars>>

\* The callbacks that wait for a reply are kept.  By default it does not wait
\* for the callback that is running on the socket.
Disconnect(u, wait_for_removal) ==
  /\ "disconnect" \in Ops /\ ("nowait" \in Ops \/ wait_for_removal)
  /\ Alone /\ Settled
  /\ Goto(u, "idle",
          IF wait_for_removal /\ connected THEN "remove" ELSE "buffers")
  /\ TcpDisconnect
  /\ UNCHANGED <<queueVars, lookupVars, workerVars, histVars>>

\* The lookup waits for removal.
LookupDisconnect(t) ==
  /\ Goto(t, "lclose", IF connected THEN "lremove" ELSE "lbuffers")
  /\ TcpDisconnect
  /\ UNCHANGED <<queueVars, lookupVars, workerVars, histVars>>

DisconnectRemoved(t) ==
  /\ Removed
  /\ Goto(t, "remove", "buffers") \/ Goto(t, "lremove", "lbuffers")
  /\ UNCHANGED <<connVars, queueVars, lookupVars, workerVars, histVars>>

DisconnectBuffers(t) ==
  /\ ClearBuffers
  /\ Goto(t, "buffers", "idle") \/ Goto(t, "lbuffers", "lret")
  /\ UNCHANGED <<queueVars, lookupVars, workerVars, histVars>>

(***************************************************************************)
(* get_master_addr_by_name                                                 *)
(***************************************************************************)
\* It throws at once without a sentinel, or without a connection.
FirstStep(m) ==
  IF m = "plain" THEN IF connected THEN "ask" ELSE "threw"
                 ELSE IF NbSentinels > 0 THEN "stcp" ELSE "threw"

\* Mutant: the address found by an earlier lookup is kept.
LookupKeepsPort(t, from, m) ==
  /\ Goto(t, from, FirstStep(m))
  /\ mode' = [mode EXCEPT ![t] = m]
  /\ it' = [it EXCEPT ![t] = 1]
  /\ answered' = [answered EXCEPT ![t] = FALSE]
  /\ UNCHANGED port

\* The address is cleared before anything else.
Lookup(t, from, m) ==
  /\ Goto(t, from, FirstStep(m))
  /\ mode' = [mode EXCEPT ![t] = m]
  /\ it' = [it EXCEPT ![t] = 1]
  /\ answered' = [answered EXCEPT ![t] = FALSE]
  /\ port' = [port EXCEPT ![IF m = "client" THEN None ELSE t] = 0]

get_master_addr_by_name(u) ==
  /\ "lookup" \in Ops
  /\ Alone /\ Settled
  /\ counts.lookups < MaxLookups
  /\ Count("lookups")
  /\ \E m \in {"auto", "plain"} : Lookup(u, "idle", m)
  /\ UNCHANGED <<connVars, queueVars, workerVars, calls>>

\* connect_sentinel: connected, or disconnect(true) and the next one.
SentinelCheck(t) ==
  /\ Goto(t, "scheck", IF connected THEN "lcheck"
                       ELSE IF it[t] < NbSentinels THEN "stcp" ELSE "lcheck")
  /\ IF connected THEN UNCHANGED <<connVars, it>>
     ELSE ClearBuffers /\ it' = [it EXCEPT ![t] = @ + 1]
  /\ UNCHANGED <<queueVars, mode, port, answered, workerVars, histVars>>

LookupCheck(t) ==
  /\ Goto(t, "lcheck", IF connected THEN "ask" ELSE "lret")
  /\ UNCHANGED <<connVars, queueVars, lookupVars, workerVars, histVars>>

LookupAsk(t) ==
  /\ Goto(t, "ask", "lcommit")
  /\ send(t)
  /\ UNCHANGED <<lookupVars, workerVars, histVars>>

LookupCommit(t) ==
  /\ TryCommit(t, "lcommit", "lwait", "threw")
  /\ UNCHANGED <<lookupVars, workerVars, histVars>>

\* A lookup called by the application returns, or throws.
LookupReturn(u) ==
  /\ mode[u] # "client"
  /\ Goto(u, "lret", "idle") \/ Goto(u, "threw", "idle")
  /\ UNCHANGED <<connVars, queueVars, lookupVars, workerVars, histVars>>

(***************************************************************************)
(* connection_receive_handler                                              *)
(***************************************************************************)
ReadEvent(w) ==
  /\ \E n \in 1 .. Len(wire) : ReadReplies(w, n)
  /\ Goto(w, "idle", "loop")
  /\ UNCHANGED <<queueVars, lookupVars, workerVars, histVars>>

TakeReply(w) ==
  /\ PopReply
  /\ rep' = [rep EXCEPT ![w] = Head(avail)]
  /\ Goto(w, "loop", IF hset THEN "rlock" ELSE "loop")
  /\ UNCHANGED <<queueVars, lookupVars, cur, histVars>>

\* Mutant: only the replies that have a callback are counted.
ReceiveLockUncounted(w) ==
  /\ Goto(w, "rlock", "callback")
  /\ IF m_callbacks = <<>>
     THEN cur' = [cur EXCEPT ![w] = None] /\ UNCHANGED queueVars
     ELSE /\ cur' = [cur EXCEPT ![w] = Head(m_callbacks)]
          /\ m_callbacks' = Tail(m_callbacks)
          /\ running' = running + 1
  /\ UNCHANGED <<connVars, lookupVars, rep, histVars>>

ReceiveLock(w) ==
  /\ Goto(w, "rlock", "callback")
  /\ running' = running + 1
  /\ IF m_callbacks = <<>>
     THEN cur' = [cur EXCEPT ![w] = None] /\ UNCHANGED m_callbacks
     ELSE /\ cur' = [cur EXCEPT ![w] = Head(m_callbacks)]
          /\ m_callbacks' = Tail(m_callbacks)
  /\ UNCHANGED <<connVars, lookupVars, rep, histVars>>

\* The callback of a lookup: host and port are stored when the reply is an
\* array; a name the sentinel does not know gets a null reply.
LookupCallback(t) ==
  \/ /\ port' = [port EXCEPT ![Out(t)] = 1]
     /\ answered' = [answered EXCEPT ![t] = TRUE]
     /\ UNCHANGED counts
  \/ /\ counts.unknown < MaxUnknown
     /\ Count("unknown")
     /\ UNCHANGED <<port, answered>>

ReceiveCall(w) ==
  /\ Goto(w, "callback", "rdone")
  /\ LET c == cur[w] IN
     \/ c \in Threads /\ LookupCallback(c) /\ UNCHANGED calls
     \/ /\ c \in Cmds
        /\ calls' = [calls EXCEPT ![c] = Append(@, rep[w])]
        /\ UNCHANGED <<port, answered, counts>>
     \/ c = None /\ UNCHANGED <<port, answered, calls, counts>>
  /\ UNCHANGED <<connVars, queueVars, mode, it, workerVars>>

ReceiveDone(w) ==
  /\ Goto(w, "rdone", "loop")
  /\ running' = running - 1
  /\ cur' = [cur EXCEPT ![w] = None]
  /\ UNCHANGED <<connVars, m_callbacks, lookupVars, rep, histVars>>

EndRead(w) ==
  /\ NextRead(w)
  /\ Goto(w, "loop", "idle")
  /\ UNCHANGED <<queueVars, lookupVars, workerVars, histVars>>
(***************************************************************************)
(* connection_disconnect_handler                                           *)
(***************************************************************************)
DropEvent(w) ==
  /\ counts.drops < MaxDrops
  /\ Count("drops")
  /\ PeerDrop(w)
  /\ Goto(w, "idle", "dropped")
  /\ UNCHANGED <<queueVars, lookupVars, workerVars, calls>>

DropBuffers(w) ==
  /\ ClearBuffers
  /\ Goto(w, "dropped", IF hset THEN "clear" ELSE "ret")
  /\ UNCHANGED <<queueVars, lookupVars, workerVars, histVars>>

\* Mutant: the callbacks are kept for the next connection.
DropKeepsCallbacks(w) ==
  /\ Goto(w, "clear", "ret")
  /\ UNCHANGED <<connVars, queueVars, lookupVars, workerVars, histVars>>

DropClear(w) ==
  /\ Goto(w, "clear", "ret")
  /\ clear_callbacks
  /\ UNCHANGED <<connVars, lookupVars, workerVars, histVars>>

HandlerReturns(w) ==
  /\ HandlerReturn(w)
  /\ Goto(w, "ret", "idle")
  /\ UNCHANGED <<queueVars, lookupVars, workerVars, histVars>>

(***************************************************************************)
(* Specification                                                           *)
(***************************************************************************)
SentinelInit ==
  /\ ConnInit(FALSE)
  /\ m_callbacks = <<>>
  /\ running = 0
  /\ pc = [t \in Threads |-> "idle"]
  /\ mode = [t \in Threads |-> "auto"]
  /\ it = [t \in Threads |-> 1]
  /\ cur = [w \in Workers |-> None]
  /\ rep = [w \in Workers |-> None]
  /\ port = [o \in Threads \cup {None} |-> 0]
  /\ answered = [t \in Threads |-> FALSE]
  /\ calls = [c \in Cmds |-> <<>>]
  /\ counts = [lookups |-> 0, drops |-> 0, refusals |-> 0, unknown |-> 0,
               clientDrops |-> 0]

UserCall(u) ==
  \/ \E c \in Cmds : Send(u, c)
  \/ Commit(u)
  \/ SyncCommit(u)
  \/ SyncTimeout(u)
  \/ Connect(u)
  \/ \E wait_for_removal \in BOOLEAN : Disconnect(u, wait_for_removal)
  \/ get_master_addr_by_name(u)

\* The steps of a call that has begun.
CallStep(t) ==
  \/ SyncDone(t)
  \/ ConnectTcp(t)
  \/ ConnectRead(t)
  \/ ConnectHandlers(t)
  \/ SentinelCheck(t)
  \/ LookupCheck(t)
  \/ LookupAsk(t)
  \/ LookupCommit(t)
  \/ LookupDisconnect(t)
  \/ DisconnectRemoved(t)
  \/ DisconnectBuffers(t)
  \/ LookupReturn(t)

WorkerStep(w) ==
  \/ ReadEvent(w)
  \/ TakeReply(w)
  \/ ReceiveLock(w)
  \/ ReceiveCall(w)
  \/ ReceiveDone(w)
  \/ EndRead(w)
  \/ DropBuffers(w)
  \/ DropClear(w)
  \/ HandlerReturns(w)
=============================================================================
