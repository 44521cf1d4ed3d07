------------------------ MODULE SubscriberProperties ------------------------
(***************************************************************************)
(* What makes Subscriber correct.                                          *)
(***************************************************************************)
EXTENDS Subscriber

UserLabels == {"idle", "remove", "buffers", "tcp", "aread", "handlers"}

WorkerLabels == {"idle", "loop", "dispatch", "auth", "forget", "callback",
                 "dropped", "dcheck", "dset", "lock1", "lock2", "dloop", "tcp",
                 "aread", "handlers", "rcheck", "rauth", "rsub", "rcommit",
                 "dfinal", "dend", "unlock", "ret"}

\* Every variable the threads synchronise with has the type subscriber.hpp
\* gives it.
TypeOK ==
  /\ m_subscribed \in [Kinds -> SUBSET Names]
  /\ mutex \in [Kinds -> Threads \cup {None}]
  /\ pc \in [Threads -> UserLabels \cup WorkerLabels]
  /\ \A u \in Users : pc[u] \in UserLabels
  /\ \A w \in Workers : pc[w] \in WorkerLabels
  /\ cb \in [Workers -> (Kinds \X Names) \cup {None}]

\* Labels at which the disconnection handler holds both mutexes.
BothLocked == {"dloop", "tcp", "aread", "handlers", "rcheck", "rauth", "rsub",
               "rcommit", "dfinal", "dend", "unlock"}

Holds(w, k) ==
  \/ pc[w] \in BothLocked
  \/ pc[w] = "lock2" /\ k = "channel"
  \/ pc[w] = "callback" /\ cb[w] # None /\ cb[w][1] = k

\* A worker owns a mutex exactly while it is between its lock and its unlock,
\* exceptions included; in particular the handler and a callback exclude each
\* other.
MutexOwner ==
  \A k \in Kinds : \A w \in Workers : Holds(w, k) <=> mutex[k] = w

\* A callback only runs while its subscription exists: once unsubscribe() has
\* returned, the callback is not running and does not run again, so that what
\* it refers to may be destroyed.
CallbackSubscribed ==
  \A w \in Workers : pc[w] = "callback" =>
    cb[w] # None /\ cb[w][2] \in m_subscribed[cb[w][1]]

\* Messages reach a callback in the order they were published, and none
\* reaches it twice, whatever was subscribed again in between.
InOrder ==
  \A t \in Kinds \X Names : \A i, j \in DOMAIN got[t] :
    i < j => got[t][i] < got[t][j]

\* Calls that change the connection are over, and the handler is not between
\* the loss of a connection and the commit of the subscriptions.
AtRest ==
  /\ \A u \in Users : pc[u] = "idle"
  /\ \A w \in Workers : pc[w] \notin DropWindow \cup BothLocked

\* What the server sends is what the application is subscribed to, as soon as
\* everything is committed: after a reconnection as well, and although
\* subscriptions change while the connection is being lost.
InSync ==
  (AtRest /\ connected /\ m_buffer = <<>> /\ ~meddled) =>
    server.subs = m_subscribed

\* The auth callback is only given the reply of an AUTH command.
AuthReplyMatches == \A i \in DOMAIN authReplies : authReplies[i] # "NOAUTH"

\* The application's subscriptions survive the loss of the connection: the
\* server knows them again, unless they are given up or the application
\* interferes.
Resubscribed ==
  \A k \in Kinds, n \in Names :
    (~connected /\ n \in m_subscribed[k] /\ ~meddled)
      ~> (n \in server.subs[k] \/ n \notin m_subscribed[k] \/ meddled)

\* The auth callback that is about to be called is not nullptr, which is
\* checked before and reset after the call without a mutex.
AuthDefined == \A w \in Workers : pc[w] = "auth" => m_auth_reply_callback # None

\* What the server sends is read and handled, or lost with the connection: no
\* reply and no callback keeps the next ones from being read.
Handled ==
  (wire # <<>> \/ avail # <<>>) ~> (wire = <<>> /\ avail = <<>>)
=============================================================================
