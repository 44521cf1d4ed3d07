# cpp_redis: a TLA+ model of the library

cpp_redis is a C++ client library for Redis: a client, a subscriber and a
sentinel, each over a connection that encodes commands and parses replies. This
directory holds TLA+ modules translated from its sources, TLC configurations that
check them on small instances, and TLAPS proofs of results that hold for every
instance.

## 1. Inventory

### Components, their state and their operations

| component | state | operations | interacts with |
|---|---|---|---|
| `client` (`sources/core/client.cpp`, `client.hpp`) | `m_commands` (commands whose callback waits), `m_callbacks_running`, `m_callbacks_mutex`, `m_sync_condvar`, `m_reconnecting`, `m_cancel`, the attempt counter, saved connection parameters | `send`, `commit`, `sync_commit` (with and without timeout), `connect`, `disconnect`, `cancel_reconnect`; handlers `connection_receive_handler`, `connection_disconnection_handler`; `clear_callbacks` and its detached thread | owns a `redis_connection` and a `sentinel`; calls the application back |
| `redis_connection` (`sources/network/redis_connection.cpp`) | send buffer `m_buffer`, reply builder `m_builder`, the two handlers of the owner | `connect`, `disconnect`, `send`, `commit`; handlers of the tcp client | owns a `tcp_client_iface`; called by client, subscriber, sentinel |
| `tcp_client` | a tacopie client | adapter, one line per operation | tacopie's `io_service` workers call its handlers |
| reply builders (`sources/builders`) | partially built reply, unconsumed bytes, available replies | `operator<<`, `get_front`, `pop_front`, `reset` | fed by `redis_connection` |
| `subscriber` (`sources/core/subscriber.cpp`) | two maps of subscriptions, a mutex for each, `m_password`, `m_auth_reply_callback`, the reconnection flags | `subscribe`, `psubscribe`, `unsubscribe`, `punsubscribe`, `auth`, `commit`, `connect`, `disconnect`, `cancel_reconnect`; receive and disconnection handlers | owns a `redis_connection` and a `sentinel`; calls message, acknowledgement and auth callbacks, the first two with a mutex held |
| `sentinel` (`sources/core/sentinel.cpp`) | list of sentinels, `m_callbacks`, `m_callbacks_running`, a mutex and a condition variable | `get_master_addr_by_name`, `connect_sentinel`, `connect`, `disconnect`, `send`, `commit`, `sync_commit`, twelve commands | owns a `redis_connection`; called by `connect(name)` and `reconnect` of client and subscriber, by the latter on a worker |
| client commands, future API (`client.cpp`, `impl/client.ipp`) | none of their own | build an argument vector and call `send`; `exec_cmd` ties a promise to a callback | `client` |
| `reply`, `logger` | a value; an output stream | accessors; formatting | - |

### What is hard

* **Three kinds of threads.** Application threads call the public operations,
  io_service workers run the receive and the disconnection handler, and
  `clear_callbacks` detaches a thread per call. They share `m_commands`,
  `m_callbacks_running`, `m_reconnecting`, the send buffer and the connection.
  `m_callbacks_mutex` protects some of the accesses, not all.
* **Replies are matched by position.** Nothing but the order of two queues, the
  bytes written and `m_commands`, says which callback a reply belongs to.
* **Failure.** The connection may be lost at any moment, attempts to reconnect
  may be refused, the connection may be lost again while the handler is still at
  work, a write may throw, a reply may be malformed.
* **Waiting.** `sync_commit` waits on a condition variable for a counter and a
  queue that other threads update. A client that reconnects waits for a sentinel
  on a thread of the pool that has to deliver the sentinel's reply.
* **Restoration.** A subscriber that reconnects must send again what its maps
  contain while the application, and the handler of a further loss, change the
  maps and the buffer.
* **Streams.** Replies arrive cut at any byte; requests are sent one behind the
  other, and only counts and lengths tell where one ends.

### What makes each component correct

* client: every callback is called exactly once, with the reply to its own
  command or with the failure reply; `sync_commit` returns, and only after the
  callbacks of the caller; the reconnection flag is set only while someone
  reconnects; the connect callback sees a sensible sequence of states.
* redis_connection: everything stored is written once, in order, or dropped when
  the connection is; replies are dispatched in order.
* reply builders: the replies are those the server wrote, however the bytes are
  cut and whatever the previous connection left unfinished; each is available
  with its last byte; invalid bytes are reported, and nothing else is.
* commands: the server reads each request as it was built, and different calls
  build different requests.
* subscriber: after reconnecting, exactly the current subscriptions are renewed;
  a callback runs only while its subscription exists; messages reach it in order.
* sentinel: a lookup returns, its callback does not outlive it, and the address
  it gives is that of this lookup; a client that uses it recovers.

`PROJECT.json` lists the hazards, each at its line.

## 2. Modules

| module | models |
|---|---|
| `RedisConnection` | the state of one connection and the atomic steps its operations consist of. No specification of its own: its owner composes the steps with its threads |
| `Client` | the client: EXTENDS `RedisConnection`; threads with program counters; `Spec` and `FairSpec` |
| `Pipeline` | the abstract specification: what a client promises its caller |
| `ClientProperties`, `MCClient` | invariants, action properties, refinement mapping, liveness; the instance TLC runs |
| `Session` | what a connection means to the server (password, database, transaction) and what the client's `reconnect` restores of it |
| `Subscriber` | the subscriber: EXTENDS `RedisConnection` and `Reply`; the server's subscriptions are part of it |
| `SubscriberProperties`, `MCSubscriber` | its properties and its instance |
| `Sentinel` | the sentinel: EXTENDS `RedisConnection`. A lookup is a sequence of steps of any thread, an application thread or a worker |
| `HighAvailability` | a client (or subscriber) that finds its server through the sentinel: EXTENDS `Sentinel`, shares its pool of workers, has the specification and the properties |
| `MCHighAvailability` | its instance |
| `Reply` | replies as tagged values |
| `ReplyBuilder` | the incremental parser: what each builder does with the bytes at hand |
| `ReplyStream`, `MCReplies` | packets from the socket, delivery and reset; a reference encoder and the scripts of the run |
| `Commands` | for each command function, the words it hands to `send()` |
| `CommandStream`, `MCCommands` | buffering, commit and the server's reading; the calls of the run |
| `ClientProofs` | the steps of a connection keep its types; types and mutual exclusion of the client, every instance |
| `CallbackProofs` | what happens to a callback, every instance: the counter, the places of a command, `sync_commit` |
| `PipelineProofs` | a connection without faults: replies and queues |
| `ReconnectProofs` | a connection that is lost and restored: the same, the flag, the notifications; the client implements `Pipeline` |
| `SubscriberProofs` | types, mutexes and callbacks of the subscriber, every instance |
| `SubscriptionProofs` | subscriptions, order of messages and the auth callback, with one worker |
| `SentinelProofs` | types of the sentinel, every instance; with one application thread, the scope of a lookup's callback and the address it gives |
| `SessionProofs` | transactions and repeated commands, every instance; passwords and databases of an orderly application |

`ReplyStream` and `CommandStream` discharge what `Client`, `Subscriber` and
`Sentinel` assume of `redis_connection`: reads bring whole replies in the order
they were written, and a write brings the server the commands that were sent.

### State

**Client.** `m_commands`, `m_buffer`, `m_reconnecting`, `m_cancel` keep their names.
`running` is `m_callbacks_running`, `attempts` is `m_current_reconnect_attempts`,
`mutex` the owner of `m_callbacks_mutex`, `avail` the `m_available_replies` of the
reply builder. `wire` stands for what is in transit on the current socket:
commands written whose reply has not been read. A reply is represented by the
command it answers, so that "the callback of c receives the reply to d" is a
state TLC can see. `calls[c]` records the replies the callback of c received.
`m_buffer_mutex` is not a variable: each access to the buffer under it is one
atomic step; the accesses outside it (the clearing of the buffer in
`disconnect` and in the disconnection handler) are steps of their own.

**Subscriber.** `m_subscribed` is the domain of `m_subscribed_channels` and of
`m_psubscribed_channels`, indexed by the kind of subscription, as is `mutex`; the
functions that come in pairs are one definition with the kind as parameter. `cb`
is the subscription whose callback a worker runs. `server` is what the server
knows of the connection; `After` says what it knows once it has read some commands
(the last one it obeyed about a subscription decides), without going through them
one by one, so that a proof can speak of any number of them. Histories: `got` (messages per callback), `authReplies`,
`meddled` (the application called `disconnect`, `connect` or `cancel_reconnect`).
A callback is not distinguished from its subscription, and an acknowledgement
callback is called whether it is null or not, which changes no state.

**Sentinel, HighAvailability.** `m_callbacks`, and `running` for
`m_callbacks_running`. The command a lookup sends, its callback and its reply are
represented by the thread that looks up. `port` holds, per caller, the reference
the lookup fills in; the entry `None` is `m_redis_port` of the client. `up` is
`client::is_connected()`. `escaped` records that an exception has left the client's
handler.

**Session.** `m_commands`, `m_buffer`, `m_password` and `m_database_index` are those of
the client; requests are records of an operation, its argument and the number of
the application's call (`NoCall` for those `reconnect` makes on its own). `server`
holds the state of the connection on the server and the history `log` of what it
executed, in which database and by which EXEC. `calls` and `failed` are histories
of the application. A step is a section the client executes under
`m_callbacks_mutex`, `reconnect` with the four calls at its end included: no `send`
can come in between, and a `commit` that does writes what `try_commit` would write.
The disconnection handler is two steps, because the mutex is taken in the middle of
it: `DropBuffers` clears the send buffer (redis_connection.cpp:190; `conn` becomes
"cleared"), then `Reconnect` or `GiveUp` does what the handler does with the mutex
held (client.cpp:317). What is called in between stays in the buffer and is written
before AUTH and SELECT. One worker is assumed, tacopie's default: the handler of a
second loss does not run inside the first. Two workers, refused attempts and the finer
steps of the handler are the business of `Client`.
What the server makes of a sequence of requests is said without going through them
one by one: `DbAfter` is the last SELECT it accepts, `AuthAfter` the last AUTH, so that
a proof can speak of any number of requests.

**ReplyBuilder.** Each builder owns the builder of the element it reads, so the
builders alive form a chain: `m_builder` is that chain as a stack. Bytes are the
characters of the protocol; payload bytes other than the marks, digits and end
sequences are not told apart. `Width` is the number of bits of an integer (64 in
the code, 8 in the run, where both ends of the range are among the replies).

**Commands.** A function is a template, a sequence of words that are keywords,
parameters or optional parts; a call gives each parameter its texts. Overloads
that differ only in a parameter's type share a template.

### Steps

A step is the code between two points where another thread can interfere: a lock
operation, an access to shared state not protected by a lock, a callback into the
application. The interesting splits are:

* `send` - buffered (`Send`), then pushed (`SendPush`), with the mutex held;
* `clear_callbacks` without the mutex - `m_commands` moved out (`ClearMove`),
  then counted and handed over (`ClearSpawn`); with the mutex it is one step
  (`ClearLocked`). The emptiness test and the move are one step: the interleaving
  of another unprotected access between them is a data race the model leaves out;
* the wait of `sync_commit` - predicate evaluated with the mutex held
  (`SyncLock`), then sleep (`SyncBlock`), so that a notification in between by a
  thread without the mutex is lost; spurious wake-ups are not modelled;
* `redis_connection::connect` - socket, first read, handlers (`ConnectTcp`,
  `ConnectRead`, `ConnectHandlers`), shared by `connect` and `reconnect`;
* the disconnection handler - the buffer cleared, the flag tested, the flag set,
  the mutex taken, then one step per call in `reconnect`; when the final
  `try_commit` throws, the lock is released and the flag stays set. Its end is three
  steps (in the subscriber `ReconnectStop`, `GiveUp`, `DropEnd`): the condition of the
  loop, the test of `is_connected()` with the clearing, and the flag, since a loss that
  another worker handles in between is ignored;
* `disconnect` - with and without waiting for the callback that is running on the
  socket, the latter being the default;
* the subscriber's receive handler - the auth callback tested (`DispatchAuth`),
  called (`AuthCall`), reset (`AuthForget`), none of it under a mutex; the map
  searched with the mutex taken (`Lookup`) and kept until the callback has returned
  (`CallbackReturn`). Its disconnection handler takes the two mutexes one after the
  other (`DropLock`). `subscribe` and the others hold their mutex for the whole of
  one step;
* the sentinel - every change that can end a wait is made, and notified, with the
  mutex held, so that each critical section is one step and the wait a guard;
* the lookup - socket, first read, handlers, check, question, commit, wait, close,
  as steps of the thread that looks up;
* `reply_builder::operator<<` - one step per turn of a builder, `busy` in between.

### Assumptions on tacopie

tacopie is a submodule that is not part of the sources. The model relies on: at
most one callback per socket runs at a time (`reader`); a read is delivered only
when requested; closing by `disconnect` calls no handler; `disconnect(true)` waits
for the running callback; once a connection is closed and opened again, a worker
still in a callback of the old socket does not hold back the new one; a server
answers in the order it reads.

### Parameters that restrict the environment

`Quiet` (`Client`, `Subscriber`, `Session`) describes an application that lets the object
reconnect: in `Client` the connection is lost only while no application thread is
inside a call (waiting in `sync_commit` excepted), no call begins before the handler
holds the mutex, and `connect` is not called during a reconnection; in `Subscriber`
no call begins in that window, and in `Session` no command is called while the handler
has cleared the buffer and does not hold the mutex yet. The passing subscriber run does
without it. client.cpp:316 says that the mutex is there "to prevent more client commands
from being issued until our reconnect has completed"; it prevents them from there on,
not from the clearing of the buffer on, and section 3 shows what the window costs. In
`HighAvailability`, `Quiet` only says that `connect(name)` is not called during a
reconnection.

`Orderly` (`Sentinel`) describes an application that uses the sentinel the way its
interface asks for: it sends on an open connection, waits for the replies before it
closes the connection or looks up, and leaves the sentinel alone while a client
looks up. In `Session` it describes one that waits for its replies before it calls
`auth` or `select`, selects once it has given the right password, and gives no other
afterwards. "nowait" among the `Ops` of `Sentinel` says that the application also calls
`disconnect()` without waiting for removal. Section 3 lists what happens without `Quiet`
and `Orderly`, and with "nowait". `ReuseAfterLoss` (`ReplyStream`)
lets a connection be closed while replies wait to be dispatched. `Ops` lists the
operations the application uses.

## 3. Runs

| run | instance | checks |
|---|---|---|
| `live` | fair; 2 threads, 2 commands, unlimited attempts, 2 drops, 2 refusals, `Quiet` | `QueuesAgree`, `ReplyMatches`, `SyncComplete`, `SyncTerminates`, `CallbackCalled` |
| `reconnect` | 1 thread, 2 commands, 2 drops, 2 refusals, 1 malformed reply, at most 2 attempts, interval, timed waits, `Quiet` | `QueuesAgree`, `ReconnectingHandled`, `NotifyOrder`, `Implements` |
| `disconnect_race` | 2 workers, 2 commands; connect, disconnect(), disconnect(true) and a drop at any moment, not `Quiet` | `TypeOK`, `MutexOwner`, `FrontDefined`, `OnePlace`, `RunningCount`, deadlock |
| `replies` | 8 scripts (nested and empty arrays, null, bulk strings with end sequences inside, both ends of the integers, four kinds of invalid bytes), every cut, 2 connections | `TypeOK`, `SameReplies`, `Prompt`, `ThrowsOnlyOnInvalid`, `NoticesInvalid`, `Returns` |
| `commands` | every function, every combination of optional parts but the two store keys of `georadius` (section 3), at most one parameter different from the others, another command behind it | `SameRequests`, `OneMeaning` |
| `subscriber` | fair; 1 channel and 1 pattern, 2 calls, 2 messages, 1 drop, 1 refusal, password, unlimited attempts, not `Quiet` | `TypeOK`, `MutexOwner`, `CallbackSubscribed`, `AuthDefined`, `InOrder`, `InSync`, `Resubscribed`, `Handled` |
| `session` | a server with and one without a password; 5 calls, 2 databases, 2 drops, `Orderly`, `Quiet` | `RightDatabase`, `Authenticated`, `ExecWhole`, `Settled` |
| `lookup` | fair; 2 workers, 2 sentinels, 1 application lookup, 1 lost sentinel, 1 lost client, 1 refusal, 1 unknown name, `Orderly`, `Quiet` | `TypeOK`, `CallbackInScope`, `OwnReply`, `FreshAddress`, `LookupReturns`, `Recovers` |

Client:

* `ReplyMatches` - a callback gets the reply to its own command or the failure.
* `QueuesAgree` - whenever no send, clear or disconnection handler is in
  progress, `m_commands` equals the replies to come: in hand, available, on the
  wire, in the buffer.
* `SyncComplete` - when `sync_commit` returns, the callbacks of everything its
  caller sent have been called.
* `OnePlace` - a command that was sent is in exactly one place, or its callback
  has been called exactly once: nothing is lost or completed twice. `Places` is the
  set of the places a command is in.
* `RunningCount` - `m_callbacks_running` is exact, hence never wraps: it is the
  cardinality of `Outstanding`, the callbacks begun and not completed.
* `ReconnectingHandled` - the flag is set only while a handler is at work.
* `NotifyOrder` - order of the states given to the connect callback.
* `Implements` - the client implements `Pipeline`: its queue is `Pending`, the
  command in the hands of the receive handler, then `m_commands`, then what is still to
  be sent again; `Failing` is what detached threads have still to fail, `Outcome` how
  each callback was called.
* `SyncTerminates` - `sync_commit` returns, unless another thread has sent what
  nobody commits; `CallbackCalled` - what was written is answered or fails.

Session (all four with `Quiet`; without it TLC violates each of them, see below):

* `RightDatabase` - a command, however often it is sent, is executed in the database
  the application had selected when it called it. It holds because `re_select` comes
  before the pending commands and an orderly application has none from before its
  last `select`.
* `Authenticated` - only what was called before the right password was given is
  refused for want of one: `re_auth` comes before `re_select` and both before the rest.
* `ExecWhole` - an EXEC the server does not refuse runs its transaction and all of it.
  What is pending is always a suffix of what was called, so that a MULTI without its
  commands is never sent; a transaction without its MULTI may be, its commands then
  run alone and its EXEC is refused.
* `Settled` - commands executed twice leave the server in the state of a single run,
  once all have their replies (stated of executions without AUTH, SELECT and MULTI).
  That they may be executed twice is what `resend_failed_commands` implies: it sends
  everything that has no reply, what was sent and executed included.

Replies and commands:

* `SameReplies` - what is delivered is a prefix of what the server wrote.
* `Prompt` - and it is all of it whose last byte has arrived.
* `ThrowsOnlyOnInvalid`, `NoticesInvalid` - `operator<<` throws exactly when a byte
  that makes the stream invalid has arrived.
* `Returns` - the loops of the builders end.
* `SameRequests` - the server reads the requests that were built, in order.
* `OneMeaning` - a request that was read could not have been built by a call that
  differs in the function, in a parameter or in an optional part.

Subscriber:

* `MutexOwner` - a worker owns a mutex exactly from its lock to its unlock.
* `CallbackSubscribed` - a callback only runs while its subscription exists.
* `AuthDefined` - the auth callback about to be called is not null.
* `InOrder` - a callback gets messages in order and none twice.
* `InSync` - with nothing left to commit and no handler at work, the server's
  subscriptions are those of the maps.
* `Resubscribed` - a subscription the loss took from the server comes back.
* `Handled` - what the server sent is handled or lost with the connection.

Sentinel:

* `CallbackInScope` - the callback of a lookup, which refers to variables of its
  caller, is queued or running only while the caller waits.
* `OwnReply` - a command's callback gets its own reply (with at most two workers).
* `FreshAddress` - the client connects to an address given in this very lookup.
* `LookupReturns`, `Recovers` - a lookup ends; a client that lost its connection is
  connected again, unless it gives up or an exception leaves the handler.

### Violation runs

Each is a behaviour of the code that contradicts a statement of its documentation
(quoted in `PROJECT.json`):

| run | property | behaviour |
|---|---|---|
| `auth_twice` | `ReplyMatches` | `re_auth` queues AUTH before `resend_failed_commands` moves the queue out and buffers all of it again: AUTH is written twice, and the surplus reply shifts all later ones |
| `lost_wakeup` | `SyncTerminates` | the detached thread decrements and notifies without the mutex: the notification can precede the sleep |
| `resubscription_lost` | `InSync` | with two workers, the handler of a second loss clears the buffer that the first handler has filled with the subscriptions: connected, and subscribed to nothing |
| `refused_select` | `DatabaseKept` | the index is stored when `select` is called: one the server refuses is selected again after a loss, and commands run in database 0 |

More can be reproduced by changing a configuration. With `MCClient` (1 worker, no
password or database, connected, `MaxReconnects = 1`, one command and one fault,
unless stated):

* `ReplyMatches`, 2 commands, `Ops = {"send", "commit"}`, `MaxDrops = 1`, not
  `Quiet`: a command sent after the buffer was cleared (redis_connection.cpp:190) and
  before the handler locks the mutex (client.cpp:317) is buffered twice.
* `SyncComplete`, 2 users, `Ops = {"send", "sync", "disconnect_wait"}`,
  `MaxReconnects = 0`, not `Quiet`: `clear_callbacks` outside the mutex empties
  `m_commands` (client.cpp:260) before counting (262): `sync_commit` returns in
  between.
* `CallbackCalled` under `FairSpec`, `Ops = {"send", "commit"}`, `Quiet`,
  `MaxMalformed = 1`: a malformed reply ends reading without closing the connection
  (redis_connection.cpp:161).
* `ReconnectingHandled`, 2 workers, `Ops = {"send", "commit"}`, `Quiet`,
  `MaxDrops = 2`: a write failing at the end of `reconnect` (client.cpp:425) leaves
  `m_reconnecting` set.
* `ReplyMatches`, 2 users, 2 commands, `Ops = {"send", "commit", "connect"}`,
  `MaxReconnects = 0`, `MaxDrops = 1`, `Quiet`: a failed commit clears the callback
  of a command another thread has buffered since, whose reply then shifts.
* `ReplyMatches`, the same with `StartConnected = FALSE`, `MaxDrops = 0`, not
  `Quiet`: a reply read before `redis_connection::connect` has stored the handlers
  is dropped.
* `ReplyMatches`, 2 commands, `Ops = {"send", "commit", "disconnect"}`, no
  fault, not `Quiet`: available replies survive `reply_builder::reset`.
* `CallbackCalled` under `FairSpec`, 2 workers, `MaxReconnects = 2`,
  `MaxDrops = 2`, `Quiet`: a drop between the end of the loop and the clearing of
  `m_reconnecting` is ignored.

With the other modules:

* `replies` with `ReuseAfterLoss = TRUE` and the property `FreshAfterReset`: the
  same survival of replies, seen from the builder. `reset` (reply_builder.cpp:45)
  leaves `m_available_replies`.
* `commands` with `StoreKeys <- Some`: `OneMeaning` is violated by `georadius`, which
  pushes `STOREDIST` and the other key for its `store_key` (client.cpp:1025).
* `subscriber` with `AuthReplyMatches` as an invariant: a reply that is no array is
  taken for AUTH's, so the auth callback gets the error of a SUBSCRIBE.
* `session` with `Orderly = FALSE`, `Protected = {FALSE}`, `Passwords = {}`, 3 calls:
  `RightDatabase` is violated: `reconnect` selects the last index before it sends the
  pending commands, those called before that `select` included. With
  `Protected = {TRUE}` and `Passwords = {"right", "wrong"}` `Authenticated` is violated
  too: `reconnect` gives the last
  password, a wrong one, before commands called after the right one. `ExecWhole` and
  `Settled` hold without `Orderly` (checked with 4 calls).
* `session` with `Quiet = FALSE`: all four properties are violated by commands called
  between redis_connection.cpp:190 and client.cpp:317, which are written before what
  `reconnect` restores and again after it. `RightDatabase`: a command called there after
  `select(1)` runs in database 0. `Authenticated`: a command called there after the right
  password is refused. `ExecWhole`: after the calls of a command, `multi` and `exec`,
  a `multi` called there is written first, the command sent again is queued in it and run
  by the EXEC sent again. `Settled`: A was pending, B is called there; B, A, B go to the
  server and A's execution follows B's when all callbacks have been called.
* `lookup` with `Orderly = FALSE`: `OwnReply` and `CallbackInScope` are violated,
  since `sentinel::disconnect` keeps `m_callbacks` (sentinel.cpp:223).
* `lookup` with three workers and `NbSentinels = 1`: `OwnReply` is violated. One
  worker is in the handler of the sentinel's lost connection, before
  `clear_callbacks` (sentinel.cpp:216); a second one, reconnecting the client, finds
  the sentinel disconnected, connects it and queues the callback of its lookup behind
  the one that is still there; a third one reads the reply to the lookup and gives it
  to the old callback. With two workers nobody is left to read.
* `lookup` with "nowait" in `Ops`, 2 commands, `NbSentinels = 1`, `MaxDrops = 2`:
  `CallbackInScope` is violated. After `disconnect()`, which does not wait by default
  (sentinel.hpp:142), and `connect`, a worker that was in the receive handler of the
  closed connection goes on with its loop and takes a reply of the new one, which the
  builder they share holds; that connection is lost and its callbacks cleared; the late
  worker then finds the callback of the next lookup at the front of the queue and takes
  it, and the lookup returns because its write fails. With three workers `OwnReply` is
  violated too. Both hold in the same instances without "nowait".
* `lookup` with one worker: `Recovers` is violated, the lookup waits on the only
  thread that could read its reply (client.cpp:394).

The passing runs are chosen so that these behaviours cannot occur in them, which
is why several have one application thread, one worker, no password, or `Quiet`.

### Bounds

Commands are sent at most once each, so `Cmds` bounds the sends of `Client` and
`Sentinel`; calls, messages and lookups are bounded by `MaxCalls`, `MaxMessages`,
`MaxLookups`, faults by `MaxDrops`, `MaxRefusals`, `MaxMalformed`, `MaxUnknown`,
`MaxClientDrops`; `MaxConnections` bounds the connections of `ReplyStream`. `Detached`
bounds the threads of `clear_callbacks` alive at the same time (a thread that finds
none free waits, and the sets are large enough for this not to happen in the runs
that check for deadlock).

Matching errors need two commands (one whose reply is shifted and one that receives
it), mutual exclusion and drop races need two threads of the same kind and two
drops; the instances have that. For the
subscriber, order needs two messages, and a callback that outlives its subscription
a subscription, a message and an unsubscription. A lookup goes wrong between two
sentinels, or between two lookups, of which `lookup` has one by the application and
one per attempt to reconnect. A session needs `auth`, `select`, a command called
before and one called after a loss, and a second loss while the first is being made
good; a transaction a MULTI, two commands, an EXEC and something before or after. A wrong
password before the right one (`Passwords = {"right", "wrong"}`) and the way back to
database 0 (`Indexes = {0, 1}`) are left out of the run, each adding more than half as
many states to it; the properties hold with each of them, and the proofs cover both. For
the builders, two nested levels, two elements and
two connections are what a forgotten piece of state needs; every cut is tried. For
the commands nothing is bounded but the length of vectors (two elements) and the
texts (two, and those that look like a keyword).

Attempts to reconnect are not counted when their number is unlimited (`Subscriber`):
the counter is not read then. Deadlock checking is off where a thread may wait for
ever for the reason `lost_wakeup` shows, where the application simply makes no
further call, and in the runs with liveness properties, which say the same more
strongly. `Symmetry` permutes commands and application threads, which no definition
distinguishes; it is not used with temporal properties.

### Fairness

Weak fairness of each thread's steps inside a call, and of a worker that can read
what the server has answered. The code justifies it: threads are scheduled, the
reconnection loop sleeps for a finite time, and the server answers. Nothing is
assumed about the application beginning calls, about timeouts, or about faults; a
refused attempt is an outcome of the step of the thread that tries, and is bounded.
Acquiring a mutex is only weakly fair: the model does not exclude that a thread
which repeats timed waits for ever starves a worker, so `live` uses the untimed
wait. `replies` assumes that the loops of `operator<<` and of its caller go on.

## 4. Proofs

Theorems hold for arbitrary sets of threads, commands and names, any bounds on calls
and faults, subject to the assumptions in `Client`, `Subscriber`, `Sentinel` and `Session` (threads,
commands and subscriptions are pairwise different, parameters have their types). TLC evaluates
the assumptions in the runs. What a theorem assumes beyond that is a named predicate
on the constants, given below; a run shows for each that it can be met, and most of
them are necessary: a violation run, or one of the instances of section 3, drops them.

### Client, every instance

`ClientProofs` and `CallbackProofs` assume nothing else: any operation,
password, fault and interleaving, `Quiet` or not.

* `ConnStepTyped`: each step of a connection preserves its types.
* `TypeCorrect`, `FrontAlwaysDefined`: `Spec => []TypeOK`, `Spec => []FrontDefined`.
  Types alone are not inductive: that a callback receives a reply, and that a
  queue taken by `clear_callbacks` is not empty, depend on the program counter.
  The inductive invariant `TypeInv` adds `Held` (a thread about to push a command
  or to run a callback has it in hand) and `FrontDefined`.
* `MutualExclusion`: `Spec => []MutexOwner`, which is inductive given the types of
  the control state.
* `RunningCounts`: `Spec => []RunningCount`, hence `RunningNeverWraps`. Incremented by
  the receive handler and by `clear_callbacks`, decremented by the receive handler and
  by detached threads, the counter is the number of elements of `Outstanding`. Each
  counting step adds or removes elements of this set, which must be finite for its
  cardinality to say anything (`Counted`), and it must be known that no other thread
  holds a moved queue outside the code that uses it (`Local`).
* `CommandsInOnePlace`: `Spec => []OnePlace`, hence `CalledOnce`. `OnePlace` counts
  elements of a set, which is convenient for TLC; the inductive form `Placed` says
  for each place a command can be in that it is there once and nowhere else.
* `SyncWaits`: `Spec /\ []NoClearAside => []SyncComplete`. `NoClearAside` excludes the
  one behaviour of section 3 that breaks `SyncComplete`: `sync_commit` evaluates its
  predicate while another application thread is between the two halves of
  `clear_callbacks`. The theorem shows that there is no other. The argument uses
  everything above: a command whose callback has not been called is, being in one
  place, queued or outstanding, and if it is outstanding the counter is not 0.
  `SyncWaitsAlone`: with one application thread the hypothesis holds by itself.

### Client without faults

`FaultFree`: connected, no drop, no malformed reply, the application sends, commits and
waits, with any number of threads and workers.

* `PipelineReplies`, `PipelineQueues`: `Spec => []ReplyMatches`,
  `Spec => []QueuesAgree`. The inductive invariant is an equation between sequences,
  `Fifo`: the commands queued, followed by the one between the two halves of `send`,
  are the reply in the hands of the worker, the available ones, those on the wire and
  those in the buffer. `Matched` carries the conclusion over to the step that calls
  the callback. Mutual exclusion is used to show that at most one thread is between
  the halves of `send`.
* `PipelineSync`: `[]SyncComplete`, by `SyncWaits`.

### Client that reconnects

`Gentle(w)`: any number of losses, refusals, malformed replies, threads and commands,
and any limit on the attempts; the application sends, commits, waits, with or without a
timeout, and may cancel the reconnection, but does not connect or disconnect; `Quiet`;
no password and no database (with one, `auth_twice` shows `ReplyMatches` violated); one
worker `w`, which is tacopie's default. It contains the instance of `reconnect`.

* `ReconnectReplies`: `[]ReplyMatches`. `ReconnectHandled`: `[]ReconnectingHandled`.
  When the connection is lost the equation `Fifo` is lost with it. The inductive
  invariant `Repairs` says how it comes back: `Flow` is who may be where (no
  application thread is in code that touches the queue or the buffer while the handler
  repairs); `Drained` says that from the loss to `resend_failed_commands` nothing is on
  the wire, available or buffered; `Intact` is `Fifo` whenever the connection is up
  and in use, which `resend_failed_commands` restores between two empty sequences and
  then extends by one command at a time.
* `ReconnectQueues`, `ReconnectSync`: `[]QueuesAgree` and `[]SyncComplete` for a client
  that never gives up (`Persistent`: no limit, no `cancel_reconnect`). After giving up,
  two threads can leave the queues different: a `commit` that fails clears the callback
  of what another thread has just buffered. `Persists` says that a lost connection stays
  with the handler until it is up again.
* `ReconnectQueuesAlone`: `[]QueuesAgree` for one application thread that may give up,
  by `Alone`: the queue is what has been buffered since.
* `ReconnectNotifies`: the action property `NotifyOrder`, from `Announced`, which ties
  the last notification to the label of the handler.
* `ClientRefinesPipeline`: `Spec => Implements`. Every step of the client is a step of
  `Pipeline` or leaves its variables alone. Most are of the second kind: losing the
  connection, the attempts, sending again, all of it moves commands between the three
  parts of `Pending` and changes nothing of their concatenation. The steps that are
  visible are taken one by one with `Repairs`, `Placed` and `Own` (a command is
  accepted only while the application thread that sends it holds it). `Pipeline`
  answers in order and fails what it gives up; it also says that a command has one
  outcome at most.

### Subscriber

* `TypeCorrect` (`[]TypeOK`), `MutexesHeld` (`[]MutexOwner`) and
  `CallbackHasSubscription` (`[]CallbackSubscribed`), of every instance. None is
  inductive alone. That a mutex is released by the thread that took it needs the types
  of the labels and of `cb`; that a callback keeps its subscription needs `MutexOwner`:
  `unsubscribe` and the clearing of the maps by a handler that gives up happen with
  the mutex held by somebody else than the worker in the callback. The inductive
  invariant `SubscriberInv` is the conjunction of the three.

`SubscriptionProofs` assumes one worker (two violate `InSync`: `resubscription_lost`) and
nothing else: any threads, names, operations and faults, with and without a password and
`Quiet`.

* `SubscriptionsInSync`: `[]InSync`, which says nothing once the application itself has
  disconnected, connected or cancelled a reconnection (`meddled`). `InSync` speaks of the moment when nothing is left
  to commit; the invariant speaks of all others through `Final`, what the server will
  know once it has read what is buffered. `Synced` says: while connected and at rest,
  `Final` holds what the maps hold; between the loss and `re_subscribe`, no more than
  that (a `subscribe` in this window changes the map, and its command is in the buffer
  or has been cleared with it); `re_subscribe` adds the rest with the maps locked. That
  commands read in two parts are commands read at once (`ReadConcat`) carries this over
  a `commit`. `Data` gives the types.
* `MessagesInOrder`: `[]InOrder`. `Ordered`: the reply in the hands of the worker, the
  available ones and those on the wire form one line; for each subscription the messages
  in it are in order, later than all its callback has got and not later than the last
  one published. A loss cuts the end of the line off, a read moves within it, the
  worker takes its front. With a second worker there would be two fronts.
* `AuthCallbackDefined`: `[]AuthDefined`. The auth callback is called and then reset
  without a mutex; that only the one worker does this is the reason it is not null.

### Sentinel

* `TypeCorrect`: `Spec => []TypeOK`, of every instance, `Orderly` or not. The counter
  `m_callbacks_running` is the cardinality of `Running`, the workers inside the
  section it counts, which the inductive invariant `TypeInv` also says is finite.

`Considerate(u)`: one application thread, `u`, that uses the sentinel as its interface
asks for (`Orderly`, `Quiet`) and waits when it disconnects (no "nowait"); any number of
workers, sentinels, commands, faults and lookups. It contains the instance of `lookup`.
With two application threads `CallbackInScope` is violated: one waits in
`disconnect(true)` while the other connects. With `disconnect()`, which leaves a reader
behind, it is violated as section 3 tells; that is where `Reading` would fail.

* `CallbackKeepsScope`: `[]CallbackInScope`. The reply to a lookup is delivered, lost
  with the connection, or never asked for because the write failed; in each case the
  callback must be gone before the caller goes on. `Scope` says where it may be while
  the caller is at which label. The case that needs work is the failing commit, which
  clears the queue: no worker may have taken the callback out before. `Reading` says
  that a worker in the receive handler sees an open connection, or one whose closing
  waits for it; `Turns` that nobody else closes it: one thread at a time looks up, and
  the application does not close meanwhile. On an open connection the commit succeeds.
* `AddressIsFresh`: `[]FreshAddress`. `Found`: while a client looks up, its port is
  cleared, or was filled in by the callback of this lookup; with `Scope`, because the
  callback of an earlier lookup would fill it in as well, and `Turns`.

Both hold with three workers, where `OwnReply` does not: the lookup whose reply was
given to another callback ends without an address, when the late handler clears the
queue.

### Session

Any number of calls, lost connections, passwords and databases, with and without a
server that demands a password. All of it speaks of `Line`, what the server has yet to
execute of this connection: the requests of its open transaction, then those on the
wire, then those in `m_buffer`. `Execute` takes requests from the front of `Line` (one,
or a transaction with its EXEC; `ServeEffect` says which), a call appends to it, a
commit does not change it, and `Reconnect` replaces it by `restored`, the pending
commands and `restored` again. All four theorems assume `Quiet`, without which none of
them holds (section 3); it is used in one place, the invariant that the buffer is empty
from `DropBuffers` on (`Connection`), so that nothing precedes `restored`. The invariants say, for each place of `Line`, what the
server will know when it comes to it; a property of the log follows when it does.

* `WholeTransactions`: `Quiet /\ Spec => []ExecWhole`, from `TransactionInv`
  (`TransactionInvariance`). `Order`: the requests of `m_commands` and of `Line` are in
  the order of the calls, and from the first of them on none is missing. `Transaction`:
  what the server has open began at a MULTI that nothing called since is missing from.
  That the pending commands may begin in the middle of a transaction is why the second
  part is needed: then the MULTI is missing, and the server opens nothing.
  `TransactionOf` is fixed when the EXEC is called (`TransactionSame`). `Log` adds that
  each execution is of a call already made, and each EXEC executed all of its
  transaction or nothing.
* `NoRefusal`: `Orderly /\ Quiet /\ Spec => []Authenticated`, from `AuthInv`. `RestAuth`: the
  client keeps the right password once it was given, and every AUTH it would send again
  gives the password it keeps. `LineAuth`: wherever `Line` has a SELECT, or a command
  called since the right password was given, the server is authenticated. `Reconnect`
  establishes it because `restored` begins with AUTH.
* `DatabaseRestored`: `DbAssumption /\ Quiet /\ Spec => []RightDatabase`, from `DatabaseInv`.
  `RestDb`: the index kept is the database of every pending command. `LineDb`: the
  server comes to each command in the database of its call. `DbAssumption` is `Orderly`
  and `Indexes \subseteq 0 .. Databases - 1`. The second part excludes what
  `refused_select` shows: the client keeps an index that the server has refused, and no
  longer knows the one it was in. The SELECT that `reconnect` sends must not be
  refused either, for which `AuthInv` is used.
* `SettledInOrder`: `Quiet /\ Spec => []Settled`, from `ReplayInv`, about an application that
  only sends commands. The last executions of two calls of which no request is left in
  `Line` (in `m_commands`, while there is no connection) are in the order of the calls.
  When a command is executed again after one that was called later, that one is itself
  still in `Line`: `Order` says that what is pending has no gaps. `Plain`
  ties the answers under way to the difference between `m_commands` and `Line`; once a
  failure has been reported it no longer matters.

`Orderly` is necessary for the second and the third, `Quiet` for all (section 3). TLC has checked all
parts of these invariants but the types in the instance of `session`.

### Only model-checked

* Liveness and whatever needs ENABLED (`SyncTerminates`, `CallbackCalled`,
  `Resubscribed`, `Handled`, `Returns`, `LookupReturns`, `Recovers`): out of the
  prover's reach.
* The parsers and the commands. `SameReplies`, `Prompt`, `SameRequests` and `OneMeaning`
  speak of folds and recursive definitions over the bytes and words of any length, whose
  proofs need induction over data, which the installed provers cannot do.
* `OwnReply` of the sentinel, which is false with three workers (section 3): a proof
  would need an equation like `Fifo` between callbacks and replies, and for two workers
  the interleavings of the handler that clears the callbacks.
* `DatabaseKept` of the session, which is false (`refused_select`).
* Reconnection with more than one worker, with a password or with calls in the middle of
  a loss: several of the properties are false there (section 3).

## 5. Not modelled, and what could be added

Not modelled:

* logging, printing, and the moves of `reply`: no property depends on them;
* object lifetime: destructors, and the detached thread that outlives its client;
* callbacks that throw (their effect depends on tacopie) or call back into the
  object (a connect, message or acknowledgement callback that does deadlocks, the
  mutex being held);
* durations: a timeout is a wait that ends, or an attempt that is refused;
* tacopie, a submodule without sources here;
* what a command does on the server beyond `Session`: WATCH and DISCARD, a
  subscriber's AUTH that fails, CLIENT REPLY and MONITOR, which change how many
  replies come.

Could be added, in this order: the promises of the future API when their callback is
destroyed uncalled; a proof of `OwnReply` of the sentinel; that the sections of `Client`
under `m_callbacks_mutex` implement the steps of `Session`.
