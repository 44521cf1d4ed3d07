------------------------------ MODULE Session ------------------------------
(***************************************************************************)
(* What a connection means to the server (the password given, the database *)
(* selected, the open transaction) and what reconnect() restores of it.    *)
(* Here a step is a section the client executes under m_callbacks_mutex:   *)
(* the disconnection handler is two, one before it takes the mutex and one *)
(* after, and one worker runs it.  The interleavings of finer parts, and of*)
(* two workers, are those of Client.  The server is external; it is        *)
(* modelled by what a caller of auth(), select(), multi() and exec() relies*)
(* on.                                                                     *)
(***************************************************************************)
EXTENDS Integers, Sequences, SequencesExt, FiniteSetsExt

CONSTANTS
  Passwords,   \* passwords given to auth(); the server's is "right"
  Indexes,     \* indexes given to select()
  Databases,   \* number of databases the server has
  Protected,   \* whether the server demands a password, the cases to consider
  Orderly,     \* the application changes the session as the comment above
               \* MayChangeSession says
  Quiet,       \* no command is called while the handler has cleared the
               \* buffer and not taken the mutex yet
  MaxCalls,
  MaxDrops

ASSUME SessionAssumption ==
  /\ Passwords \subseteq STRING \ {""}
  /\ Indexes \subseteq Nat
  /\ Databases \in Nat \ {0}
  /\ Protected \subseteq BOOLEAN
  /\ Orderly \in BOOLEAN
  /\ Quiet \in BOOLEAN
  /\ MaxCalls \in Nat
  /\ MaxDrops \in Nat

VARIABLES
  calls,               \* history: the commands of the application, in order
  failed,              \* history: calls whose callback received a failure
  m_commands,          \* requests whose callback waits for a reply
  m_buffer,            \* requests not committed
  m_password,
  m_database_index,
  conn,                \* "up", "lost" (handler not run yet), "cleared" (it
                       \* does not hold the mutex yet) or "down"
  wire,                \* committed requests the server has not executed
  answers,             \* replies the client has not received
  server,              \* its view of this connection, and its history
  drops

clientVars == <<calls, failed, m_commands, m_buffer, m_password, m_database_index>>
vars == <<clientVars, conn, wire, answers, server, drops>>

Request(op, arg, id) == [op |-> op, arg |-> arg, id |-> id]

\* A request that reconnect() makes on its own has no call.
NoCall == 0

(***************************************************************************)
(* The server.                                                             *)
(***************************************************************************)
\* A connection starts unauthenticated, in database 0, outside a transaction.
NewConnection(s) ==
  [s EXCEPT !.auth = ~s.protected, !.db = 0, !.multi = FALSE, !.queued = <<>>]

\* The database after the first n of the requests (or calls) q, when it was d.
DbAfter(d, q, n) ==
  LET S == {k \in 1 .. n : q[k].op = "select" /\ q[k].arg < Databases}
  IN IF S = {} THEN d ELSE q[Max(S)].arg

\* Whether the first n of the requests q leave the server authenticated.
AuthAfter(s, q, n) ==
  \/ s.auth /\ \A k \in 1 .. n : q[k].op # "auth"
  \/ \E k \in 1 .. n : /\ q[k].op = "auth"
                       /\ s.protected => q[k].arg = "right"
                       /\ \A j \in k + 1 .. n : q[j].op # "auth"

\* What the requests q leave of the connection.
Apply(s, q) ==
  [s EXCEPT !.auth = AuthAfter(s, q, Len(q)), !.db = DbAfter(s.db, q, Len(q))]

\* Request r is executed in database d, at the EXEC of call x or on its own.
Execution(r, d, x) == [id |-> r.id, op |-> r.op, db |-> d, exec |-> x]

Serve(s, r) ==
  IF ~s.auth /\ r.op # "auth" THEN [s EXCEPT !.refused = @ \cup {r.id}]
  ELSE IF r.op = "multi" THEN [s EXCEPT !.multi = TRUE]
  ELSE IF r.op = "exec" THEN
    [Apply(s, s.queued) EXCEPT
       !.multi = FALSE,
       !.queued = <<>>,
       !.log = @ \o [k \in DOMAIN s.queued |->
                       Execution(s.queued[k], DbAfter(s.db, s.queued, k - 1), r.id)]]
  ELSE IF s.multi THEN [s EXCEPT !.queued = Append(@, r)]
  ELSE IF r.op = "data" THEN [s EXCEPT !.log = Append(@, Execution(r, s.db, NoCall))]
  ELSE Apply(s, <<r>>)

(***************************************************************************)
(* The application.                                                        *)
(***************************************************************************)
\* The last of the first n calls that is an op; empty when none is.
LastCall(op, n) ==
  {k \in 1 .. n : calls[k].op = op /\ \A j \in k + 1 .. n : calls[j].op # op}

\* Between multi() and exec() the application calls neither auth nor select.
InTransaction ==
  \E k \in LastCall("multi", Len(calls)) :
    \A j \in LastCall("exec", Len(calls)) : j < k

unprotected_send(r) ==
  /\ m_buffer' = Append(m_buffer, r)
  /\ m_commands' = Append(m_commands, r)

Call(op, arg) ==
  /\ Len(calls) < MaxCalls
  /\ Quiet => conn # "cleared"
  /\ calls' = Append(calls, [op |-> op, arg |-> arg])
  /\ unprotected_send(Request(op, arg, Len(calls) + 1))
  /\ UNCHANGED <<failed, conn, wire, answers, server, drops>>

\* An orderly application has no reply to wait for, as after a sync_commit(),
\* gives a password where one is demanded, no other once it gave the right one,
\* and selects after that.
MayChangeSession == ~InTransaction /\ (Orderly => m_commands = <<>>)

auth(p) ==
  /\ MayChangeSession
  /\ Orderly => server.protected /\ m_password # "right"
  /\ m_password' = p
  /\ Call("auth", p)
  /\ UNCHANGED m_database_index

select(i) ==
  /\ MayChangeSession
  /\ Orderly /\ server.protected => m_password = "right"
  /\ m_database_index' = i
  /\ Call("select", i)
  /\ UNCHANGED m_password

send(op) ==
  /\ op = "multi" => ~InTransaction
  /\ op = "exec" => InTransaction
  /\ Call(op, 0)
  /\ UNCHANGED <<m_password, m_database_index>>

clear_callbacks ==
  /\ failed' = failed \cup {r.id : r \in ToSet(m_commands)}
  /\ m_commands' = <<>>

\* A write to a closed socket fails, even of nothing: try_commit clears the
\* callbacks.
Commit ==
  /\ m_buffer' = <<>>
  /\ \/ /\ conn = "up"
        /\ wire' = wire \o m_buffer
        /\ UNCHANGED <<failed, m_commands>>
     \/ /\ conn # "up"
        /\ clear_callbacks
        /\ UNCHANGED wire
  /\ UNCHANGED <<calls, m_password, m_database_index, conn, answers, server, drops>>

\* A reply completes the front command, whichever request it answers.
Receive ==
  /\ answers > 0
  /\ answers' = answers - 1
  /\ m_commands' = IF m_commands = <<>> THEN <<>> ELSE Tail(m_commands)
  /\ UNCHANGED <<calls, failed, m_buffer, m_password, m_database_index,
                 conn, wire, server, drops>>

(***************************************************************************)
(* The network, and the disconnection handler.                             *)
(***************************************************************************)
Execute ==
  /\ wire # <<>>
  /\ wire' = Tail(wire)
  /\ answers' = answers + 1
  /\ server' = Serve(server, Head(wire))
  /\ UNCHANGED <<clientVars, conn, drops>>

\* What is on the way in either direction is lost.
Drop ==
  /\ conn = "up"
  /\ drops < MaxDrops
  /\ drops' = drops + 1
  /\ conn' = "lost"
  /\ wire' = <<>>
  /\ answers' = 0
  /\ UNCHANGED <<clientVars, server>>

re_auth == IF m_password = "" THEN <<>> ELSE <<Request("auth", m_password, NoCall)>>

re_select ==
  IF m_database_index <= 0 THEN <<>>
  ELSE <<Request("select", m_database_index, NoCall)>>

\* Mutant of restored: the database is selected before the password is given.
RestoredSwapped == re_select \o re_auth

restored == re_auth \o re_select

\* Mutant of resend_failed_commands: the loop stops at the last command.
ResendAllButLast == IF m_commands = <<>> THEN restored ELSE Front(m_commands) \o restored

\* The whole queue, which re_auth and re_select have joined, is sent again.
resend_failed_commands == m_commands \o restored

\* Mutant of DropBuffers: the commands buffered before the loss are kept.
DropKeepsBuffers ==
  /\ conn = "lost"
  /\ conn' = "cleared"
  /\ UNCHANGED <<clientVars, wire, answers, server, drops>>

\* The handler clears the buffer, then the client's part of it runs up to the
\* mutex: what is called in between stays in the buffer.
DropBuffers ==
  /\ conn = "lost"
  /\ conn' = "cleared"
  /\ m_buffer' = <<>>
  /\ UNCHANGED <<calls, failed, m_commands, m_password, m_database_index,
                 wire, answers, server, drops>>

\* Mutant of Reconnect: re_auth and re_select follow the pending commands.
ReconnectRestoresLast ==
  /\ conn = "cleared"
  /\ conn' = "up"
  /\ server' = NewConnection(server)
  /\ m_commands' = resend_failed_commands
  /\ m_buffer' = <<>>
  /\ wire' = m_buffer \o resend_failed_commands
  /\ UNCHANGED <<calls, failed, m_password, m_database_index, answers, drops>>

\* An attempt that succeeds; try_commit writes all that it has buffered, after
\* what the buffer held already.
Reconnect ==
  /\ conn = "cleared"
  /\ conn' = "up"
  /\ server' = NewConnection(server)
  /\ m_commands' = resend_failed_commands
  /\ m_buffer' = <<>>
  /\ wire' = m_buffer \o restored \o resend_failed_commands
  /\ UNCHANGED <<calls, failed, m_password, m_database_index, answers, drops>>

\* No attempt is left, or cancel_reconnect().
GiveUp ==
  /\ conn = "cleared"
  /\ conn' = "down"
  /\ clear_callbacks
  /\ UNCHANGED <<calls, m_buffer, m_password, m_database_index, wire, answers,
                 server, drops>>

(***************************************************************************)
(* The specification.                                                      *)
(***************************************************************************)
Init ==
  /\ calls = <<>>
  /\ failed = {}
  /\ m_commands = <<>>
  /\ m_buffer = <<>>
  /\ m_password = ""
  /\ m_database_index = 0
  /\ conn = "up"
  /\ wire = <<>>
  /\ answers = 0
  /\ \E p \in Protected :
       server = [protected |-> p, auth |-> ~p, db |-> 0, multi |-> FALSE,
                 queued |-> <<>>, log |-> <<>>, refused |-> {}]
  /\ drops = 0

Next ==
  \/ \E p \in Passwords : auth(p)
  \/ \E i \in Indexes : select(i)
  \/ \E op \in {"data", "multi", "exec"} : send(op)
  \/ Commit
  \/ Receive
  \/ Execute
  \/ Drop
  \/ DropBuffers
  \/ Reconnect
  \/ GiveUp

Spec == Init /\ [][Next]_vars

(***************************************************************************)
(* Properties.                                                             *)
(***************************************************************************)
\* The executions of commands of the application.
Executions == {k \in DOMAIN server.log : server.log[k].op = "data"}

\* A command is executed in the database the application had selected when it
\* called it, over any number of lost connections: re_select() and the order
\* in which reconnect() sends things restore it before anything else runs.
RightDatabase ==
  \A k \in Executions : server.log[k].db = DbAfter(0, calls, server.log[k].id)

\* The server refuses for want of a password only what was called before a
\* right one was given: the password is given again before anything else.
Authenticated ==
  \A n \in server.refused \ {NoCall} :
    \A k \in LastCall("auth", n) : calls[k].arg # "right"

TransactionOf(x) ==
  {k \in 1 .. x : calls[k].op = "data" /\ \E m \in LastCall("multi", x) : m < k}

\* An EXEC that is not refused executes its own transaction and all of it,
\* although the connection may have been lost anywhere between MULTI and EXEC
\* and commands of the transaction been answered, or given up.
ExecWhole ==
  \A k \in Executions : LET x == server.log[k].exec IN
    x # NoCall => {server.log[j].id : j \in {i \in Executions : server.log[i].exec = x}}
                    = TransactionOf(x)

LastRun(n) ==
  {k \in DOMAIN server.log : /\ server.log[k].id = n
                             /\ \A j \in k + 1 .. Len(server.log) : server.log[j].id # n}

\* When every command has had its reply and none a failure, the last execution
\* of each follows those of the commands called before it, however often they
\* were sent again: the server ends in the state a single run gives.  (A lost
\* connection may cut a transaction, and discard what its EXEC would have run;
\* and the surplus replies to AUTH and SELECT complete commands too early.)
Settled ==
  /\ conn = "up" /\ m_commands = <<>> /\ failed = {}
  /\ \A n \in DOMAIN calls : calls[n].op = "data"
  => \A m, n \in DOMAIN calls : m < n =>
       \A j \in LastRun(m), k \in LastRun(n) : j < k

\* client.hpp:264: "re select db to redis server based on previously selected
\* db": between two commands that no select() of an existing database
\* separates, the database does not change.
DatabaseKept ==
  \A j, k \in Executions :
    LET m == server.log[j].id
        n == server.log[k].id
    IN (/\ m < n
        /\ \A i \in m .. n : calls[i].op = "select" => calls[i].arg >= Databases)
       => server.log[j].db = server.log[k].db
=============================================================================
