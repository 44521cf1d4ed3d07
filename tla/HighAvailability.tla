-------------------------- MODULE HighAvailability --------------------------
(***************************************************************************)
(* A client (or a subscriber, whose code is the same) that finds its       *)
(* server through a sentinel: connect(name) looks the master up and        *)
(* connects to it, and each attempt to reconnect looks it up again, on the *)
(* worker that runs the disconnection handler.                             *)
(*                                                                         *)
(* The client and its sentinel share the workers of the io_service, and    *)
(* the client's m_redis_server and m_redis_port, which the lookup fills in *)
(* by reference.  What the client does with its own connection is modelled *)
(* in Client and in Subscriber.                                            *)
(***************************************************************************)
EXTENDS Sentinel

CONSTANTS
  Quiet,           \* connect() is not called while is_reconnecting()
  MaxClientDrops   \* bound: connections of the client lost

VARIABLES
  up,              \* client::is_connected()
  m_reconnecting,
  m_cancel,
  escaped          \* history: an exception has left the client's handler

clientVars == <<up, m_reconnecting, m_cancel, escaped>>

vars == <<sentinelVars, clientVars>>

\* connect(name), until the lookup returns.
ConnectName(u) ==
  /\ "client" \in Ops
  /\ Alone /\ Settled
  /\ ~up
  /\ Quiet => ~m_reconnecting
  /\ counts.lookups < MaxLookups
  /\ Count("lookups")
  /\ Lookup(u, "idle", "client")
  /\ UNCHANGED <<connVars, queueVars, workerVars, calls, clientVars>>

CancelReconnect(u) ==
  /\ "cancel" \in Ops
  /\ pc[u] = "idle"
  /\ m_cancel' = TRUE
  /\ UNCHANGED <<sentinelVars, up, m_reconnecting, escaped>>

\* connection_disconnection_handler, which returns at once when another
\* worker already deals with the reconnection.
ClientDrop(w) ==
  /\ up
  /\ Orderly => \A u \in Users : pc[u] = "idle"
  /\ counts.clientDrops < MaxClientDrops
  /\ Count("clientDrops")
  /\ up' = FALSE
  /\ m_reconnecting' = TRUE
  /\ Goto(w, "idle", IF m_reconnecting THEN "idle" ELSE "hloop")
  /\ UNCHANGED <<connVars, queueVars, lookupVars, workerVars, calls, m_cancel,
                 escaped>>

should_reconnect == ~up /\ ~m_cancel

\* reconnect()
Reconnect(w) ==
  /\ should_reconnect
  /\ Lookup(w, "hloop", "client")
  /\ UNCHANGED <<connVars, queueVars, workerVars, histVars, clientVars>>

\* Mutant: a failed attempt is the last one.
FailedForGood(t) == "idle"

\* Where thread t goes when an attempt to connect has failed.
Failed(t) == IF t \in Users THEN "idle" ELSE "hloop"

\* get_master_addr_by_name returns port != 0.
LookupEnd(t) ==
  /\ mode[t] = "client"
  /\ Goto(t, "lret", IF port[None] # 0 THEN "connect" ELSE Failed(t))
  /\ UNCHANGED <<connVars, queueVars, lookupVars, workerVars, histVars,
                 clientVars>>

\* connect(m_redis_server, m_redis_port, ...): connected, or an exception,
\* which reconnect() catches.
ConnectMaster(t) ==
  /\ \/ /\ ~up
        /\ up' = TRUE
        /\ UNCHANGED counts
     \/ /\ up \/ counts.refusals < MaxRefusals
        /\ IF up THEN UNCHANGED counts ELSE Count("refusals")
        /\ UNCHANGED up
  /\ Goto(t, "connect", Failed(t))
  /\ UNCHANGED <<connVars, queueVars, lookupVars, workerVars, calls,
                 m_reconnecting, m_cancel, escaped>>

ReconnectEnd(w) ==
  /\ ~should_reconnect
  /\ Goto(w, "hloop", "idle")
  /\ m_reconnecting' = FALSE
  /\ UNCHANGED <<connVars, queueVars, lookupVars, workerVars, histVars, up,
                 m_cancel, escaped>>

\* An exception of the lookup: connect(name) throws; in the handler nothing
\* catches it, and m_reconnecting stays set.
LookupThrow(t) ==
  /\ mode[t] = "client"
  /\ Goto(t, "threw", "idle")
  /\ escaped' = (escaped \/ t \in Workers)
  /\ UNCHANGED <<connVars, queueVars, lookupVars, workerVars, histVars, up,
                 m_reconnecting, m_cancel>>

(***************************************************************************)
(* Specification                                                           *)
(***************************************************************************)
Init ==
  /\ SentinelInit
  /\ up = FALSE
  /\ m_reconnecting = FALSE
  /\ m_cancel = FALSE
  /\ escaped = FALSE

ClientCall(u) == ConnectName(u) \/ CancelReconnect(u)

ClientStep(t) == LookupEnd(t) \/ LookupThrow(t) \/ ConnectMaster(t)

HandlerStep(w) == Reconnect(w) \/ ReconnectEnd(w)

Next ==
  \/ \E t \in Threads : CallStep(t) /\ UNCHANGED clientVars
  \/ \E t \in Threads : ClientStep(t)
  \/ \E u \in Users : UserCall(u) /\ UNCHANGED clientVars
  \/ \E u \in Users : ClientCall(u)
  \/ \E w \in Workers : WorkerStep(w) /\ UNCHANGED clientVars
  \/ \E w \in Workers : DropEvent(w) /\ UNCHANGED clientVars
  \/ \E w \in Workers : ClientDrop(w) \/ HandlerStep(w)

Spec == Init /\ [][Next]_vars

\* A call that has begun goes on, a handler goes on, and a worker that is
\* free reads what has arrived.
Fairness ==
  /\ \A t \in Threads : WF_vars((CallStep(t) /\ UNCHANGED clientVars)
                                \/ ClientStep(t))
  /\ \A w \in Workers : WF_vars((WorkerStep(w) /\ UNCHANGED clientVars)
                                \/ HandlerStep(w))

FairSpec == Spec /\ Fairness

(***************************************************************************)
(* Properties                                                              *)
(***************************************************************************)
Labels == Looking \cup
  {"idle", "swait", "tcp", "read", "handlers", "remove", "buffers", "lret",
   "threw", "loop", "rlock", "callback", "rdone", "dropped", "clear", "ret",
   "hloop", "connect"}

\* The variables have the types sentinel.hpp and client.hpp give them, and the
\* counter of running callbacks counts the workers that run one.
TypeOK ==
  /\ m_callbacks \in Seq(Cmds \cup Threads)
  /\ pc \in [Threads -> Labels]
  /\ \A u \in Users : pc[u] \notin {"hloop", "loop"}
  /\ running = Cardinality({w \in Workers : pc[w] \in {"callback", "rdone"}})

\* The callback of a lookup, which refers to variables of its caller, is
\* only queued or running while the caller waits for it.
CallbackInScope ==
  \A t \in Threads :
    (t \in Range(m_callbacks) \/ \E w \in Workers : cur[w] = t)
      => pc[t] \in {"lcommit", "lwait"}

\* The callback of a command is given the reply to that command.
OwnReply == \A c \in Cmds : \A i \in DOMAIN calls[c] : calls[c][i] = c

\* The client connects to the address that a sentinel has given in the lookup
\* this attempt began with: never to the cleared one, nor to an older master.
FreshAddress ==
  \A t \in Threads : pc[t] = "connect" => port[None] = 1 /\ answered[t]

\* A lookup ends: found, not found, or by an exception.
LookupReturns == \A t \in Threads : pc[t] \in Looking ~> pc[t] \notin Looking

\* A client that lost its connection is connected again, unless reconnection
\* is cancelled or an exception of the lookup leaves the handler.
Recovers == (~up /\ m_reconnecting) ~> (up \/ m_cancel \/ escaped)
=============================================================================
