----------------------------- MODULE Subscriber -----------------------------
(***************************************************************************)
(* cpp_redis::subscriber: subscriptions to channels and to patterns, the   *)
(* messages the server pushes for them, and their restoration when the     *)
(* connection is lost.                                                     *)
(*                                                                         *)
(* As in Client, each thread has a program counter and a step is the code  *)
(* between two points at which another thread can observe or change what   *)
(* it uses.  The two maps, their mutexes and the functions that come in    *)
(* pairs (subscribe and psubscribe) are indexed by the kind of             *)
(* subscription.  A callback is not told apart from its subscription.      *)
(*                                                                         *)
(* The server is external.  It serves the commands of a write at once; it  *)
(* remembers what the connection is subscribed to and pushes what is       *)
(* published.  wire holds the replies and messages that have not been      *)
(* read yet.                                                               *)
(***************************************************************************)
EXTENDS RedisConnection, Reply, SequencesExt

CONSTANTS
  Users,          \* application threads
  Names,          \* names of channels and of patterns; every pattern
                  \*   matches every channel
  Ops,            \* which operations the application uses
  NeedsAuth,      \* the server asks for a password
  MaxReconnects,  \* m_max_reconnects (-1: no limit)
  Quiet,          \* no call of the application starts between the loss of
                  \*   the connection and the moment the handler holds the
                  \*   mutexes
  MaxCalls,       \* bound: calls of the application, commit() excepted
  MaxMessages,    \* bound: messages published
  MaxDrops,       \* bound: connections lost
  MaxRefusals     \* bound: connection attempts refused

Kinds == {"channel", "pattern"}

Threads == Users \cup Workers

ASSUME SubscriberAssumption ==
  /\ Users \cap Workers = {}
  /\ None \notin Threads
  /\ None \notin Kinds \X Names
  /\ None \notin {"user", "re_auth"}
  /\ NeedsAuth \in BOOLEAN
  /\ MaxReconnects \in Int

VARIABLES
  m_subscribed,           \* domains of m_subscribed_channels and of
                          \*   m_psubscribed_channels
  mutex,                  \* owners of their mutexes
  m_password,             \* m_password is not empty
  m_auth_reply_callback,  \* "user", "re_auth", or None for nullptr
  m_reconnecting,
  m_cancel,
  attempts,               \* m_current_reconnect_attempts
  pc,                     \* where each thread is
  rep,                    \* the reply a worker handles
  cb,                     \* the subscription whose callback a worker runs
  server,                 \* what the server knows of the connection
  got,                    \* history: messages given to each callback
  authReplies,            \* history: replies given to the auth callbacks
  calls,                  \* history: calls, messages and faults so far
  meddled                 \* history: the application has called disconnect()
                          \*   or cancel_reconnect(), or restored the
                          \*   connection itself

mapVars == <<m_subscribed, mutex>>
authVars == <<m_password, m_auth_reply_callback>>
reconVars == <<m_reconnecting, m_cancel, attempts>>
localVars == <<rep, cb>>
histVars == <<got, authReplies, meddled>>

vars == <<connVars, mapVars, authVars, reconVars, pc, localVars, server,
          histVars, calls>>

Goto(t, from, to) ==
  /\ pc[t] = from
  /\ pc' = [pc EXCEPT ![t] = to]

Count(what) == calls' = [calls EXCEPT ![what] = @ + 1]

(***************************************************************************)
(* The server                                                              *)
(***************************************************************************)
Bulk(s) == string_reply(s, "bulk_string")

Noauth == string_reply("NOAUTH", "error")

Command(name, kind, arg) == [name |-> name, kind |-> kind, arg |-> arg]

AuthCommand == Command("AUTH", None, None)

Title == [channel |-> "subscribe", pattern |-> "psubscribe"]

NewConnection == [authenticated |-> ~NeedsAuth, subs |-> [k \in Kinds |-> {}]]

Subs(s) == Cardinality(s.subs["channel"]) + Cardinality(s.subs["pattern"])

\* By the i-th of the commands cs the server has got the password.
Passed(s, cs, i) == s.authenticated \/ \E j \in 1 .. i : cs[j].name = "AUTH"

\* The i-th command is c, and is not refused.
Obeyed(s, cs, i, c) == cs[i] = c /\ Passed(s, cs, i)

\* What was subscribed after i commands still is after n.
Kept(s, cs, i, n, k, x) ==
  \A j \in i + 1 .. n : ~Obeyed(s, cs, j, Command("UNSUBSCRIBE", k, x))

\* What a server whose state is s knows once it has read the first n of the
\* commands cs: the last one it has obeyed about a subscription decides.
After(s, cs, n) ==
  [authenticated |-> Passed(s, cs, n),
   subs |-> [k \in Kinds |->
     {x \in Names :
        \/ x \in s.subs[k] /\ Kept(s, cs, 0, n, k, x)
        \/ \E i \in 1 .. n : /\ Obeyed(s, cs, i, Command("SUBSCRIBE", k, x))
                             /\ Kept(s, cs, i, n, k, x)}]]

\* The reply to command c of a server whose state is then s.
Answer(c, s) ==
  CASE c.name = "AUTH" ->
         string_reply(IF NeedsAuth THEN "OK" ELSE "no password",
                      IF NeedsAuth THEN "simple_string" ELSE "error")
    [] c.name # "AUTH" /\ ~s.authenticated -> Noauth
    [] c.name # "AUTH" /\ s.authenticated ->
         LET title == IF c.name = "SUBSCRIBE" THEN Title[c.kind]
                                              ELSE "un" \o Title[c.kind]
         IN array_reply(<<Bulk(title), Bulk(c.arg), integer_reply(Subs(s))>>)

\* WriteBuffer of RedisConnection, with the answers of this server.
WriteCommands ==
  LET after(i) == After(server, m_buffer, i) IN
  /\ connected
  /\ server' = after(Len(m_buffer))
  /\ wire' = wire \o [i \in 1 .. Len(m_buffer) |-> Answer(m_buffer[i], after(i))]
  /\ m_buffer' = <<>>
  /\ UNCHANGED <<connected, rd, reader, hset, avail>>

\* Message m is published on channel c.
Push(c, m) ==
  (IF c \in server.subs["channel"]
   THEN <<array_reply(<<Bulk("message"), Bulk(c), Bulk(m)>>)>> ELSE <<>>)
  \o SetToSeq({array_reply(<<Bulk("pmessage"), Bulk(p), Bulk(c), Bulk(m)>>) :
                 p \in server.subs["pattern"]})

Publish(c) ==
  /\ connected
  /\ calls.messages < MaxMessages
  /\ Count("messages")
  /\ wire' = wire \o Push(c, calls.messages + 1)
  /\ UNCHANGED <<connected, rd, reader, hset, m_buffer, avail, mapVars,
                 authVars, reconVars, pc, localVars, server, histVars>>

(***************************************************************************)
(* Calls of the application                                                *)
(***************************************************************************)
DropWindow == {"dropped", "dcheck", "dset", "lock1", "lock2"}

Begin(u, o) ==
  /\ o \in Ops
  /\ pc[u] = "idle"
  /\ calls.calls < MaxCalls
  /\ Count("calls")
  /\ Quiet => \A w \in Workers : pc[w] \notin DropWindow

\* subscribe and psubscribe.  The mutex is taken and released in the step:
\* the map is only used by threads that hold it.
Subscribe(u, k, n) ==
  /\ Begin(u, "subscribe")
  /\ mutex[k] = None
  /\ m_subscribed' = [m_subscribed EXCEPT ![k] = @ \cup {n}]
  /\ BufferCommand(Command("SUBSCRIBE", k, n))
  /\ UNCHANGED <<mutex, authVars, reconVars, pc, localVars, server, histVars>>

\* Mutant: the callback is forgotten, the server is not told.
UnsubscribeQuietly(u, k, n) ==
  /\ Begin(u, "unsubscribe")
  /\ mutex[k] = None
  /\ m_subscribed' = [m_subscribed EXCEPT ![k] = @ \ {n}]
  /\ UNCHANGED <<connVars, mutex, authVars, reconVars, pc, localVars, server,
                 histVars>>

\* unsubscribe and punsubscribe: nothing happens without a subscription.
Unsubscribe(u, k, n) ==
  /\ Begin(u, "unsubscribe")
  /\ mutex[k] = None
  /\ IF n \in m_subscribed[k]
     THEN BufferCommand(Command("UNSUBSCRIBE", k, n))
     ELSE UNCHANGED connVars
  /\ m_subscribed' = [m_subscribed EXCEPT ![k] = @ \ {n}]
  /\ UNCHANGED <<mutex, authVars, reconVars, pc, localVars, server, histVars>>

auth(callback) ==
  /\ m_password' = TRUE
  /\ m_auth_reply_callback' = callback
  /\ BufferCommand(AuthCommand)

Auth(u) ==
  /\ Begin(u, "auth")
  /\ auth("user")
  /\ UNCHANGED <<mapVars, reconVars, pc, localVars, server, histVars>>

\* commit() throws when the write fails.
Commit(u) ==
  /\ pc[u] = "idle"
  /\ m_buffer # <<>>
  /\ \/ WriteCommands
     \/ WriteFails /\ UNCHANGED server
  /\ UNCHANGED <<mapVars, authVars, reconVars, pc, localVars, histVars, calls>>

CancelReconnect(u) ==
  /\ Begin(u, "cancel")
  /\ m_cancel' = TRUE
  /\ meddled' = TRUE
  /\ UNCHANGED <<connVars, mapVars, authVars, m_reconnecting, attempts, pc,
                 localVars, server, got, authReplies>>

Disconnect(u, wait_for_removal) ==
  /\ Begin(u, "disconnect")
  /\ TcpDisconnect
  /\ server' = NewConnection
  /\ meddled' = TRUE
  /\ Goto(u, "idle",
          IF wait_for_removal /\ connected THEN "remove" ELSE "buffers")
  /\ UNCHANGED <<mapVars, authVars, reconVars, localVars, got, authReplies>>

DisconnectRemoved(u) ==
  /\ Removed
  /\ Goto(u, "remove", "buffers")
  /\ UNCHANGED <<connVars, mapVars, authVars, reconVars, localVars, server,
                 histVars, calls>>

DisconnectBuffers(u) ==
  /\ ClearBuffers
  /\ Goto(u, "buffers", "idle")
  /\ UNCHANGED <<mapVars, authVars, reconVars, localVars, server, histVars,
                 calls>>

(***************************************************************************)
(* connect(), called by the application or by reconnect()                  *)
(***************************************************************************)
Connect(u) ==
  /\ Begin(u, "connect")
  /\ Goto(u, "idle", "tcp")
  /\ UNCHANGED <<connVars, mapVars, authVars, reconVars, localVars, server,
                 histVars>>

\* Mutant: whoever connects restores the subscriptions.
AfterConnectAll(t) == "rcheck"

AfterConnect(t) == IF t \in Users THEN "idle" ELSE "rcheck"

ConnectTcp(t) ==
  /\ \/ TcpConnect
        /\ server' = NewConnection
        /\ meddled' = (meddled \/ t \in Users)
        /\ Goto(t, "tcp", "aread")
        /\ UNCHANGED calls
     \/ \* already connected: the tcp client throws
        /\ connected
        /\ Goto(t, "tcp", AfterConnect(t))
        /\ UNCHANGED <<connVars, server, meddled, calls>>
     \/ \* the server cannot be reached
        /\ ~connected
        /\ calls.refusals < MaxRefusals
        /\ Count("refusals")
        /\ Goto(t, "tcp", AfterConnect(t))
        /\ UNCHANGED <<connVars, server, meddled>>
  /\ UNCHANGED <<mapVars, authVars, reconVars, localVars, got, authReplies>>

ConnectRead(t) ==
  /\ \/ AsyncRead /\ Goto(t, "aread", "handlers")
     \/ ~connected /\ Goto(t, "aread", AfterConnect(t)) /\ UNCHANGED connVars
  /\ UNCHANGED <<mapVars, authVars, reconVars, localVars, server, histVars,
                 calls>>

ConnectHandlers(t) ==
  /\ Goto(t, "handlers", AfterConnect(t))
  /\ SetHandlers
  /\ UNCHANGED <<mapVars, authVars, reconVars, localVars, server, histVars,
                 calls>>

(***************************************************************************)
(* connection_receive_handler                                              *)
(***************************************************************************)
ReadEvent(w) ==
  /\ \E n \in 1 .. Len(wire) : ReadReplies(w, n)
  /\ Goto(w, "idle", "loop")
  /\ UNCHANGED <<mapVars, authVars, reconVars, localVars, server, histVars,
                 calls>>

\* Mutant: the last available reply is taken first.
TakeLastReply(w) ==
  /\ avail # <<>>
  /\ avail' = Front(avail)
  /\ IF hset
     THEN rep' = [rep EXCEPT ![w] = Last(avail)] /\ Goto(w, "loop", "dispatch")
     ELSE Goto(w, "loop", "loop") /\ UNCHANGED rep
  /\ UNCHANGED <<connected, rd, reader, hset, m_buffer, wire, mapVars, authVars,
                 reconVars, cb, server, histVars, calls>>

TakeReply(w) ==
  /\ PopReply
  /\ IF hset
     THEN rep' = [rep EXCEPT ![w] = Head(avail)] /\ Goto(w, "loop", "dispatch")
     ELSE Goto(w, "loop", "loop") /\ UNCHANGED rep
  /\ UNCHANGED <<mapVars, authVars, reconVars, cb, server, histVars, calls>>

EndRead(w) ==
  /\ NextRead(w)
  /\ Goto(w, "loop", "idle")
  /\ UNCHANGED <<mapVars, authVars, reconVars, localVars, server, histVars,
                 calls>>

\* Mutant: the callback is called whether there is one or not.
DispatchAuthAlways(w) ==
  /\ ~is_array(rep[w])
  /\ Goto(w, "dispatch", "auth")
  /\ UNCHANGED <<connVars, mapVars, authVars, reconVars, localVars, server,
                 histVars, calls>>

\* A reply that is not an array is taken for the reply of AUTH.
DispatchAuth(w) ==
  /\ ~is_array(rep[w])
  /\ Goto(w, "dispatch",
          IF m_auth_reply_callback = None THEN "loop" ELSE "auth")
  /\ UNCHANGED <<connVars, mapVars, authVars, reconVars, localVars, server,
                 histVars, calls>>

\* The auth callback is called, then forgotten.
AuthCall(w) ==
  /\ Goto(w, "auth", "forget")
  /\ authReplies' = Append(authReplies, as_string(rep[w]))
  /\ UNCHANGED <<connVars, mapVars, authVars, reconVars, localVars, server,
                 got, meddled, calls>>

AuthForget(w) ==
  /\ Goto(w, "forget", "loop")
  /\ m_auth_reply_callback' = None
  /\ UNCHANGED <<connVars, mapVars, m_password, reconVars, localVars, server,
                 histVars, calls>>

\* The subscription a reply is for: handle_acknowledgement_reply,
\* handle_subscribe_reply and handle_psubscribe_reply, which ignore what does
\* not have the expected shape.
Strings(rows, n) == \A i \in 1 .. n : is_string(rows[i])

Target(rows) ==
  CASE Len(rows) = 3 /\ Strings(rows, 2) /\ is_integer(rows[3])
         /\ as_string(rows[1]) \in {Title[k] : k \in Kinds} ->
         <<CHOOSE k \in Kinds : Title[k] = as_string(rows[1]),
           as_string(rows[2])>>
    [] Len(rows) = 3 /\ Strings(rows, 3) /\ as_string(rows[1]) = "message" ->
         <<"channel", as_string(rows[2])>>
    [] Len(rows) = 4 /\ Strings(rows, 4) /\ as_string(rows[1]) = "pmessage" ->
         <<"pattern", as_string(rows[2])>>
    [] OTHER -> None

IsMessage(rows) == is_string(rows[Len(rows)])

DispatchNothing(w) ==
  /\ is_array(rep[w])
  /\ Target(as_array(rep[w])) = None
  /\ Goto(w, "dispatch", "loop")
  /\ UNCHANGED <<connVars, mapVars, authVars, reconVars, localVars, server,
                 histVars, calls>>

\* The callback is about to be called, with the mutex held, if there is still
\* a subscription.
Found(w, t) ==
  /\ cb' = [cb EXCEPT ![w] = t]
  /\ LET rows == as_array(rep[w]) IN
     got' = IF IsMessage(rows)
            THEN [got EXCEPT ![t] = Append(@, as_string(rows[Len(rows)]))]
            ELSE got
  /\ Goto(w, "dispatch", "callback")

NotFound(w) == Goto(w, "dispatch", "loop") /\ UNCHANGED <<cb, got>>

\* Mutant: the mutex is released before the callback is called.
LookupUnlocked(w, t) ==
  /\ is_array(rep[w])
  /\ t = Target(as_array(rep[w]))
  /\ mutex[t[1]] = None
  /\ IF t[2] \in m_subscribed[t[1]] THEN Found(w, t) ELSE NotFound(w)
  /\ UNCHANGED <<connVars, mapVars, authVars, reconVars, rep, server,
                 authReplies, meddled, calls>>

Lookup(w, t) ==
  /\ is_array(rep[w])
  /\ t = Target(as_array(rep[w]))
  /\ mutex[t[1]] = None
  /\ \/ /\ t[2] \in m_subscribed[t[1]]
        /\ Found(w, t)
        /\ mutex' = [mutex EXCEPT ![t[1]] = w]
     \/ /\ t[2] \notin m_subscribed[t[1]]
        /\ NotFound(w)
        /\ UNCHANGED mutex
  /\ UNCHANGED <<connVars, m_subscribed, authVars, reconVars, rep, server,
                 authReplies, meddled, calls>>

\* Mutant: the mutex is still held when the callback has returned.
CallbackReturnLocked(w) ==
  /\ Goto(w, "callback", "loop")
  /\ cb' = [cb EXCEPT ![w] = None]
  /\ UNCHANGED <<connVars, mapVars, authVars, reconVars, rep, server, histVars,
                 calls>>

CallbackReturn(w) ==
  /\ Goto(w, "callback", "loop")
  /\ mutex' = [mutex EXCEPT ![cb[w][1]] = None]
  /\ cb' = [cb EXCEPT ![w] = None]
  /\ UNCHANGED <<connVars, m_subscribed, authVars, reconVars, rep, server,
                 histVars, calls>>

(***************************************************************************)
(* connection_disconnection_handler                                        *)
(***************************************************************************)
DropEvent(w) ==
  /\ calls.drops < MaxDrops
  /\ Count("drops")
  /\ PeerDrop(w)
  /\ server' = NewConnection
  /\ Goto(w, "idle", "dropped")
  /\ UNCHANGED <<mapVars, authVars, reconVars, localVars, histVars>>

DropBuffers(w) ==
  /\ ClearBuffers
  /\ Goto(w, "dropped", IF hset THEN "dcheck" ELSE "ret")
  /\ UNCHANGED <<mapVars, authVars, reconVars, localVars, server, histVars,
                 calls>>

DropCheck(w) ==
  /\ Goto(w, "dcheck", IF m_reconnecting THEN "ret" ELSE "dset")
  /\ UNCHANGED <<connVars, mapVars, authVars, reconVars, localVars, server,
                 histVars, calls>>

DropSet(w) ==
  /\ Goto(w, "dset", "lock1")
  /\ m_reconnecting' = TRUE
  /\ attempts' = 0
  /\ UNCHANGED <<connVars, mapVars, authVars, m_cancel, localVars, server,
                 histVars, calls>>

\* m_subscribed_channels_mutex, then m_psubscribed_channels_mutex.
DropLock(w, k) ==
  /\ IF k = "channel" THEN Goto(w, "lock1", "lock2")
                      ELSE Goto(w, "lock2", "dloop")
  /\ mutex[k] = None
  /\ mutex' = [mutex EXCEPT ![k] = w]
  /\ UNCHANGED <<connVars, m_subscribed, authVars, reconVars, localVars,
                 server, histVars, calls>>

should_reconnect ==
  /\ ~connected
  /\ ~m_cancel
  /\ MaxReconnects = -1 \/ attempts < MaxReconnects

\* sleep_before_next_reconnect_attempt, and reconnect() up to connect().
\* Attempts are only counted when they are limited, which is when the counter
\* is read.
ReconnectStart(w) ==
  /\ should_reconnect
  /\ Goto(w, "dloop", "tcp")
  /\ attempts' = IF MaxReconnects = -1 THEN attempts ELSE attempts + 1
  /\ UNCHANGED <<connVars, mapVars, authVars, m_reconnecting, m_cancel,
                 localVars, server, histVars, calls>>

ReconnectCheck(w) ==
  /\ Goto(w, "rcheck", IF connected THEN "rauth" ELSE "dloop")
  /\ UNCHANGED <<connVars, mapVars, authVars, reconVars, localVars, server,
                 histVars, calls>>

ReAuth(w) ==
  /\ Goto(w, "rauth", "rsub")
  /\ IF m_password THEN auth("re_auth") ELSE UNCHANGED <<connVars, authVars>>
  /\ UNCHANGED <<mapVars, reconVars, localVars, server, histVars, calls>>

Resubscriptions(k) ==
  SetToSeq({Command("SUBSCRIBE", k, n) : n \in m_subscribed[k]})

\* Mutant: the patterns are forgotten.
ReSubscribeChannels(w) ==
  /\ Goto(w, "rsub", "rcommit")
  /\ m_buffer' = m_buffer \o Resubscriptions("channel")
  /\ UNCHANGED <<connected, rd, reader, hset, wire, avail, mapVars, authVars,
                 reconVars, localVars, server, histVars, calls>>

\* Each map is moved out and filled again by unprotected_(p)subscribe; both
\* mutexes are held, so that nobody sees a map in between.
ReSubscribe(w) ==
  /\ Goto(w, "rsub", "rcommit")
  /\ m_buffer' = m_buffer \o Resubscriptions("channel")
                          \o Resubscriptions("pattern")
  /\ UNCHANGED <<connected, rd, reader, hset, wire, avail, mapVars, authVars,
                 reconVars, localVars, server, histVars, calls>>

Released == [k \in Kinds |-> None]

\* When the write fails the exception leaves the handler: the lock_guards
\* release the mutexes, m_reconnecting stays set.
ReconnectCommit(w) ==
  /\ \/ WriteCommands /\ Goto(w, "rcommit", "dloop") /\ UNCHANGED mutex
     \/ /\ WriteFails
        /\ Goto(w, "rcommit", "ret")
        /\ mutex' = Released
        /\ UNCHANGED server
  /\ UNCHANGED <<m_subscribed, authVars, reconVars, localVars, histVars, calls>>

ReconnectStop(w) ==
  /\ ~should_reconnect
  /\ Goto(w, "dloop", "dfinal")
  /\ UNCHANGED <<connVars, mapVars, authVars, reconVars, localVars, server,
                 histVars, calls>>

\* clear_subscriptions(), unless connected.
GiveUp(w) ==
  /\ Goto(w, "dfinal", "dend")
  /\ m_subscribed' = IF connected THEN m_subscribed ELSE [k \in Kinds |-> {}]
  /\ UNCHANGED <<connVars, mutex, authVars, reconVars, localVars, server,
                 histVars, calls>>

DropEnd(w) ==
  /\ Goto(w, "dend", "unlock")
  /\ m_reconnecting' = FALSE
  /\ UNCHANGED <<connVars, mapVars, authVars, m_cancel, attempts, localVars,
                 server, histVars, calls>>

\* Mutant: the mutex of the patterns is not released.
DropUnlockChannels(w) ==
  /\ Goto(w, "unlock", "ret")
  /\ mutex' = [mutex EXCEPT !["channel"] = None]
  /\ UNCHANGED <<connVars, m_subscribed, authVars, reconVars, localVars,
                 server, histVars, calls>>

DropUnlock(w) ==
  /\ Goto(w, "unlock", "ret")
  /\ mutex' = Released
  /\ UNCHANGED <<connVars, m_subscribed, authVars, reconVars, localVars,
                 server, histVars, calls>>

HandlerReturns(w) ==
  /\ HandlerReturn(w)
  /\ Goto(w, "ret", "idle")
  /\ UNCHANGED <<mapVars, authVars, reconVars, localVars, server, histVars,
                 calls>>

(***************************************************************************)
(* Specification                                                           *)
(***************************************************************************)
Init ==
  /\ ConnInit(TRUE)
  /\ m_subscribed = [k \in Kinds |-> {}]
  /\ mutex = Released
  /\ m_password = NeedsAuth
  /\ m_auth_reply_callback = None
  /\ m_reconnecting = FALSE
  /\ m_cancel = FALSE
  /\ attempts = 0
  /\ pc = [t \in Threads |-> "idle"]
  /\ rep = [w \in Workers |-> null_reply]
  /\ cb = [w \in Workers |-> None]
  /\ server = [NewConnection EXCEPT !.authenticated = TRUE]
  /\ got = [t \in Kinds \X Names |-> <<>>]
  /\ authReplies = <<>>
  /\ calls = [calls |-> 0, messages |-> 0, drops |-> 0, refusals |-> 0]
  /\ meddled = FALSE

UserCall(u) ==
  \/ \E k \in Kinds, n \in Names : Subscribe(u, k, n) \/ Unsubscribe(u, k, n)
  \/ Auth(u)
  \/ Commit(u)
  \/ CancelReconnect(u)
  \/ \E wait_for_removal \in BOOLEAN : Disconnect(u, wait_for_removal)
  \/ Connect(u)

UserStep(u) ==
  \/ DisconnectRemoved(u)
  \/ DisconnectBuffers(u)
  \/ ConnectTcp(u)
  \/ ConnectRead(u)
  \/ ConnectHandlers(u)

ReceiveStep(w) ==
  \/ TakeReply(w)
  \/ EndRead(w)
  \/ DispatchAuth(w)
  \/ AuthCall(w)
  \/ AuthForget(w)
  \/ DispatchNothing(w)
  \/ \E t \in Kinds \X Names : Lookup(w, t)
  \/ CallbackReturn(w)

DropStep(w) ==
  \/ DropBuffers(w)
  \/ DropCheck(w)
  \/ DropSet(w)
  \/ \E k \in Kinds : DropLock(w, k)
  \/ ReconnectStart(w)
  \/ ConnectTcp(w)
  \/ ConnectRead(w)
  \/ ConnectHandlers(w)
  \/ ReconnectCheck(w)
  \/ ReAuth(w)
  \/ ReSubscribe(w)
  \/ ReconnectCommit(w)
  \/ ReconnectStop(w)
  \/ GiveUp(w)
  \/ DropEnd(w)
  \/ DropUnlock(w)
  \/ HandlerReturns(w)

Next ==
  \/ \E u \in Users : UserCall(u) \/ UserStep(u)
  \/ \E w \in Workers : ReadEvent(w) \/ DropEvent(w) \/ ReceiveStep(w)
                        \/ DropStep(w)
  \/ \E c \in Names : Publish(c)

Spec == Init /\ [][Next]_vars

\* A call or a callback that has begun goes on, and what has arrived is read.
\* The application is not forced to commit.
Fairness ==
  /\ \A u \in Users : WF_vars(UserStep(u))
  /\ \A w \in Workers : WF_vars(ReadEvent(w) \/ ReceiveStep(w) \/ DropStep(w))

FairSpec == Spec /\ Fairness
=============================================================================
