---------------------------- MODULE SessionProofs ----------------------------
(***************************************************************************)
(* What Session promises, for any number of calls, of lost connections, of *)
(* passwords and of databases.                                             *)
(*                                                                         *)
(* All of it is about what the server has yet to see of this connection:   *)
(* the requests it has queued in a transaction, those on the wire and those*)
(* the client has buffered (Line).  Execute takes requests from its front, *)
(* a call appends to it, and reconnect() replaces it by what it restores   *)
(* followed by the pending commands.  The invariants say what the server   *)
(* would know at each place of Line, in terms of what the application      *)
(* called: nothing executes in the wrong session because nothing on its    *)
(* way would.  All of it supposes Quiet: a command called between the      *)
(* clearing of the buffer and the handler's taking the mutex is written    *)
(* before what reconnect() restores, and the four properties fail.         *)
(***************************************************************************)
EXTENDS Session, WellFoundedInduction, FiniteSetTheorems, SequenceTheorems, TLAPS

(***************************************************************************)
(* The invariants.                                                         *)
(***************************************************************************)
Ops == {"data", "multi", "exec", "auth", "select"}

\* The argument of auth() is a password, and that of select() an index.
Typed(r) ==
  /\ r.op = "auth" => r.arg \in Passwords
  /\ r.op = "select" => r.arg \in Indexes

CallRecords == {r \in [op : Ops, arg : Passwords \cup Nat] : Typed(r)}
Requests == {r \in [op : Ops, arg : Passwords \cup Nat, id : Nat] : Typed(r)}
Entries == [id : Nat, op : Ops, db : Nat, exec : Nat]
Servers ==
  [protected : BOOLEAN, auth : BOOLEAN, db : Nat, multi : BOOLEAN,
   queued : Seq(Requests), log : Seq(Entries), refused : SUBSET Nat]

TypeInv ==
  /\ calls \in Seq(CallRecords)
  /\ failed \in SUBSET Nat
  /\ m_commands \in Seq(Requests)
  /\ m_buffer \in Seq(Requests)
  /\ wire \in Seq(Requests)
  /\ m_password \in Passwords \cup {""}
  /\ m_database_index \in Indexes \cup {0}
  /\ conn \in {"up", "lost", "cleared", "down"}
  /\ answers \in Nat
  /\ server \in Servers
  /\ drops \in Nat

\* Nothing is on its way without a connection, nothing is buffered where Quiet
\* says so, and only a transaction queues.
Connection ==
  /\ conn # "up" => wire = <<>> /\ answers = 0
  /\ conn = "cleared" => m_buffer = <<>>
  /\ server.multi => server.auth
  /\ ~server.multi => server.queued = <<>>

\* What the server has yet to execute: the requests of the open transaction,
\* those on the way, those not committed.
Line == server.queued \o wire \o m_buffer

\* The requests q of the calls c are in the order of the calls; after the first
\* of them none is missing, and only reconnect() makes requests of its own.
Sent(c, q) ==
  /\ \A i \in 1 .. Len(q) :
       /\ q[i].id <= Len(c)
       /\ q[i].id # NoCall => c[q[i].id].op = q[i].op
       /\ q[i].id = NoCall => q[i].op \in {"auth", "select"}
  /\ \A i, j \in 1 .. Len(q) :
       i < j /\ q[i].id # NoCall /\ q[j].id # NoCall => q[i].id < q[j].id
  /\ \A i \in 1 .. Len(q), n \in 1 .. Len(c) :
       q[i].id # NoCall /\ q[i].id < n => \E j \in 1 .. Len(q) : q[j].id = n

\* Between two calls of multi() there is one of exec().
Alternate(c) ==
  \A a, b \in 1 .. Len(c) : a < b /\ c[a].op = "multi" /\ c[b].op = "multi"
    => \E x \in a .. b : c[x].op = "exec"

Order ==
  /\ Alternate(calls)
  /\ Sent(calls, m_commands)
  /\ conn = "up" => Sent(calls, Line)

\* The requests q are those of the calls made since the MULTI of call m.
OpenAt(c, q, m) ==
  /\ c[m].op = "multi"
  /\ \A i \in 1 .. Len(q) : q[i].id # NoCall => m < q[i].id
  /\ \A n \in m + 1 .. Len(c) : \E i \in 1 .. Len(q) : q[i].id = n

\* The transaction the server has open began at a MULTI since which nothing is
\* lost: what reconnect() sends begins with the MULTI or misses it entirely.
Transaction ==
  /\ \A i \in 1 .. Len(server.queued) : server.queued[i].op \notin {"multi", "exec"}
  /\ conn = "up" /\ server.multi => \E m \in 1 .. Len(calls) : OpenAt(calls, Line, m)

ExecutedBy(log, x) == {k \in 1 .. Len(log) : log[k].op = "data" /\ log[k].exec = x}

\* What an EXEC executed is its transaction, or nothing.
Whole(log, x) ==
  ExecutedBy(log, x) # {} => {log[k].id : k \in ExecutedBy(log, x)} = TransactionOf(x)

Log ==
  /\ \A k \in 1 .. Len(server.log) :
       server.log[k].id <= Len(calls) /\ server.log[k].exec <= Len(calls)
  /\ \A x \in 1 .. Len(calls) : Whole(server.log, x)

TransactionInv == TypeInv /\ Connection /\ Order /\ Transaction /\ Log

\* The right password was given in the first n of the calls c.
Given(c, n) == \E k \in 1 .. n : c[k].op = "auth" /\ c[k].arg = "right"

Trusted == server.protected => m_password = "right"

\* The client has kept the right password once it was given, and what it would
\* send again agrees with it.
RestAuth ==
  /\ Given(calls, Len(calls)) => m_password = "right"
  /\ m_database_index # 0 => Trusted
  /\ \A i \in 1 .. Len(m_commands) :
       /\ m_commands[i].op = "auth" => m_commands[i].arg = m_password
       /\ m_commands[i].op = "select" => Trusted
  /\ \A n \in server.refused : n <= Len(calls) /\ (n # NoCall => ~Given(calls, n))

\* Server s will be authenticated whenever it comes, among the requests q, to a
\* SELECT or to a command called since the right password was given.
LineAuth(s, q) ==
  /\ \A i \in 1 .. Len(q) :
       q[i].op = "select" \/ (q[i].op # "auth" /\ Given(calls, q[i].id))
         => AuthAfter(s, q, i - 1)
  /\ Trusted => AuthAfter(s, q, Len(q))

AuthInv == Orderly => RestAuth /\ (conn = "up" => LineAuth(server, Line))

\* The database of an orderly application is the last it selected if it selects
\* only databases that exist: the client keeps the index whatever the reply.
DbAssumption == Orderly /\ Indexes \subseteq 0 .. Databases - 1

\* The index that the client has kept is the database of every pending command;
\* and each execution was in the database of its call.
RestDb ==
  /\ m_database_index = DbAfter(0, calls, Len(calls))
  /\ \A i \in 1 .. Len(m_commands) :
       /\ m_commands[i].op = "select" => m_commands[i].arg = m_database_index
       /\ m_commands[i].op = "data" => DbAfter(0, calls, m_commands[i].id) = m_database_index
  /\ \A k \in 1 .. Len(server.log) : server.log[k].op = "data"
       => server.log[k].db = DbAfter(0, calls, server.log[k].id)

\* Server s will be in the database of each of the commands q when it comes to it.
LineDb(s, q) ==
  /\ \A i \in 1 .. Len(q) :
       q[i].op = "data" => DbAfter(s.db, q, i - 1) = DbAfter(0, calls, q[i].id)
  /\ DbAfter(s.db, q, Len(q)) = DbAfter(0, calls, Len(calls))

DatabaseInv == DbAssumption => RestDb /\ (conn = "up" => LineDb(server, Line))

\* r is what is left of q without its first p elements.
Suffix(q, p, r) ==
  /\ p \in 0 .. Len(q)
  /\ Len(r) = Len(q) - p
  /\ \A i \in 1 .. Len(r) : r[i] = q[p + i]

\* Every request of q is one of r.
Within(q, r) == \A i \in 1 .. Len(q) : \E j \in 1 .. Len(r) : q[i] = r[j]

OnlyData(q) == \A i \in 1 .. Len(q) : q[i].op = "data"

LastOf(log, n) ==
  {k \in 1 .. Len(log) : log[k].id = n /\ \A j \in k + 1 .. Len(log) : log[j].id # n}

\* The last executions of the calls that have no request left among q are in the
\* order of the calls.
InOrder(c, log, q) ==
  \A m, n \in 1 .. Len(c) :
    m < n /\ (\A i \in 1 .. Len(q) : q[i].id # m /\ q[i].id # n)
      => \A j \in LastOf(log, m), k \in LastOf(log, n) : j < k

\* The requests to be executed again or yet.
Pending == IF conn = "up" THEN Line ELSE m_commands

\* Of an application that only sends commands: reconnect() has nothing to
\* restore, and the callback queue is the requests answered, then Line.
Plain ==
  /\ m_password = "" /\ m_database_index = 0
  /\ OnlyData(m_commands)
  /\ ~server.multi
  /\ server.auth = ~server.protected
  /\ server.protected => server.log = <<>>
  /\ conn = "up" => Suffix(m_commands, answers, Line)

Replayed == Plain /\ (failed = {} => InOrder(calls, server.log, Pending))

ReplayInv == OnlyData(calls) => Replayed

(***************************************************************************)
(* Numbers and sequences.                                                  *)
(***************************************************************************)
\* A non-empty set of naturals has a smallest element: of the sets 1 .. k with k
\* in it, which are finite, one is minimal for inclusion.
LEMMA Smallest ==
  ASSUME NEW S, S \subseteq Nat, S # {}
  PROVE  \E k \in S : \A j \in S : k <= j
<1> DEFINE I == {1 .. k : k \in S}
<1>1. I \subseteq FiniteSubsetsOf(Nat)
  <2>1. ASSUME NEW k \in S PROVE IsFiniteSet(1 .. k) /\ 1 .. k \subseteq Nat
    BY FS_Interval
  <2> QED
    BY <2>1 DEF FiniteSubsetsOf
<1>2. I # {}
  OBVIOUS
<1>3. PICK x \in I : \A y \in I : <<y, x>> \notin StrictSubsetOrdering(Nat)
  <2> HIDE DEF I
  <2> QED
    BY <1>1, <1>2, FS_StrictSubsetOrderingWellFounded, WFMin
<1>4. PICK k \in S : x = 1 .. k
  OBVIOUS
<1>5. ASSUME NEW j \in S, j < k PROVE FALSE
  <2>1. 1 .. j \in I /\ 1 .. j \subseteq 1 .. k /\ k \in 1 .. k /\ k \notin 1 .. j
    BY <1>5
  <2>2. 1 .. j \in SUBSET Nat /\ 1 .. k \in SUBSET Nat
    OBVIOUS
  <2>3. 1 .. j # 1 .. k
    BY <2>1
  <2>4. <<1 .. j, 1 .. k>> \in StrictSubsetOrdering(Nat)
    BY <2>1, <2>2, <2>3 DEF StrictSubsetOrdering
  <2> QED
    BY <1>3, <1>4, <2>1, <2>4
<1> QED
  BY <1>5

\* Max, of the community modules, is a CHOOSE: there is what to choose in a
\* bounded non-empty set of naturals.
LEMMA MaxOf ==
  ASSUME NEW n \in Nat, NEW S, S \subseteq 1 .. n, S # {}
  PROVE  Max(S) \in S /\ \A j \in S : j <= Max(S)
<1> DEFINE D == {n - k : k \in S}
<1>1. D \subseteq Nat /\ D # {}
  OBVIOUS
<1>2. \E d \in D : \A e \in D : d <= e
  <2> HIDE DEF D
  <2> QED
    BY <1>1, Smallest
<1>3. PICK k \in S : \A j \in S : n - k <= n - j
  BY <1>2
<1>4. \A j \in S : k >= j
  BY <1>3
<1> QED
  BY <1>4 DEF Max

\* Induction over the first n naturals, for a set instead of a predicate.
LEMMA Induction ==
  ASSUME NEW n \in Nat, NEW G, 0 \in G,
         \A k \in 0 .. n - 1 : k \in G => k + 1 \in G
  PROVE  0 .. n \subseteq G
<1> DEFINE S == (0 .. n) \ G
<1>1. SUFFICES ASSUME S # {} PROVE FALSE
  OBVIOUS
<1>2. S \subseteq Nat
  OBVIOUS
<1>3. PICK k \in S : \A j \in S : k <= j
  <2> HIDE DEF S
  <2> QED
    BY <1>1, <1>2, Smallest
<1>4. k # 0 /\ k - 1 \in 0 .. n - 1 /\ k - 1 \notin S
  BY <1>3
<1>5. k - 1 \in G
  BY <1>4
<1>6. (k - 1) + 1 \in G
  BY <1>4, <1>5
<1> QED
  BY <1>6

\* The database, as requests go by: it is that of the last SELECT that the
\* server accepts.
LEMMA DbZero == ASSUME NEW d, NEW q PROVE DbAfter(d, q, 0) = d
BY DEF DbAfter

\* A SELECT that the server accepts.
Valid(r) == r.op = "select" /\ r.arg < Databases

\* One more request changes the database only if it is a valid SELECT.
LEMMA DbStep ==
  ASSUME NEW d, NEW q, NEW n \in Nat
  PROVE  DbAfter(d, q, n + 1) = IF Valid(q[n + 1]) THEN q[n + 1].arg ELSE DbAfter(d, q, n)
<1> DEFINE S(k) == {j \in 1 .. k : q[j].op = "select" /\ q[j].arg < Databases}
<1>1. CASE Valid(q[n + 1])
  <2>1. n + 1 \in S(n + 1) /\ \A j \in S(n + 1) : n + 1 >= j
    BY <1>1 DEF Valid
  <2>2. S(n + 1) \subseteq 1 .. n + 1 /\ S(n + 1) # {}
    BY <2>1
  <2>3. Max(S(n + 1)) \in S(n + 1) /\ \A j \in S(n + 1) : j <= Max(S(n + 1))
    <3> HIDE DEF S
    <3> QED
      BY <2>2, MaxOf
  <2>4. Max(S(n + 1)) = n + 1
    BY <2>1, <2>3
  <2> QED
    BY <1>1, <2>1, <2>4 DEF DbAfter
<1>2. CASE ~Valid(q[n + 1])
  <2>1. S(n + 1) = S(n)
    BY <1>2 DEF Valid
  <2> QED
    BY <1>2, <2>1 DEF DbAfter
<1> QED
  BY <1>1, <1>2

\* What it depends on.
LEMMA DbPrefix ==
  ASSUME NEW d, NEW p, NEW q, NEW n \in Nat, \A k \in 1 .. n : p[k] = q[k]
  PROVE  DbAfter(d, p, n) = DbAfter(d, q, n)
<1> DEFINE S == {k \in 1 .. n : p[k].op = "select" /\ p[k].arg < Databases}
<1>1. S = {k \in 1 .. n : q[k].op = "select" /\ q[k].arg < Databases}
  OBVIOUS
<1>2. S # {} => Max(S) \in 1 .. n
  <2>1. S \subseteq 1 .. n
    OBVIOUS
  <2> HIDE DEF S
  <2> QED
    BY <2>1, MaxOf
<1> QED
  BY <1>1, <1>2 DEF DbAfter

\* The database after two sequences of requests is that after the second, begun
\* in the database that the first leaves.
LEMMA DbConcat ==
  ASSUME NEW d, NEW p, NEW q, NEW m \in Nat, NEW n \in Nat, NEW s,
         \A k \in 1 .. m : s[k] = p[k],
         \A k \in 1 .. n : s[m + k] = q[k]
  PROVE  DbAfter(d, s, m + n) = DbAfter(DbAfter(d, p, m), q, n)
<1> DEFINE G == {k \in 0 .. n : DbAfter(d, s, m + k) = DbAfter(DbAfter(d, p, m), q, k)}
<1>1. 0 \in G
  BY DbPrefix, DbZero
<1>2. ASSUME NEW k \in 0 .. n - 1, k \in G PROVE k + 1 \in G
  <2>1. PICK i \in Nat : i = m + k
    OBVIOUS
  <2>2. DbAfter(d, s, i + 1) = IF Valid(q[k + 1]) THEN q[k + 1].arg ELSE DbAfter(d, s, i)
    <3>1. DbAfter(d, s, i + 1) = IF Valid(s[i + 1]) THEN s[i + 1].arg ELSE DbAfter(d, s, i)
      BY DbStep
    <3>2. s[i + 1] = q[k + 1]
      <4>1. k + 1 \in 1 .. n /\ m + (k + 1) = i + 1
        BY <2>1
      <4> QED
        BY <4>1
    <3> QED
      BY <3>1, <3>2
  <2>3. DbAfter(DbAfter(d, p, m), q, k + 1)
          = IF Valid(q[k + 1]) THEN q[k + 1].arg ELSE DbAfter(DbAfter(d, p, m), q, k)
    <3>1. k \in Nat
      OBVIOUS
    <3> QED
      BY <3>1, DbStep
  <2>4. m + (k + 1) = i + 1 /\ k + 1 \in 0 .. n
    BY <2>1
  <2> QED
    BY <1>2, <2>1, <2>2, <2>3, <2>4
<1>3. 0 .. n \subseteq G
  <2> HIDE DEF G
  <2> QED
    BY <1>1, <1>2, Induction
<1> QED
  BY <1>3

(***************************************************************************)
(* Whether the server is authenticated, as requests go by.                 *)
(***************************************************************************)
\* Before any request the server is authenticated if it was.
LEMMA AuthZero == ASSUME NEW s, NEW q, s.auth \in BOOLEAN PROVE AuthAfter(s, q, 0) <=> s.auth
BY DEF AuthAfter

\* One more request changes whether it is only if it is an AUTH.
LEMMA AuthStep ==
  ASSUME NEW s, NEW q, NEW n \in Nat, s.auth \in BOOLEAN
  PROVE  AuthAfter(s, q, n + 1) <=> IF q[n + 1].op = "auth"
                                    THEN s.protected => q[n + 1].arg = "right"
                                    ELSE AuthAfter(s, q, n)
<1>1. CASE q[n + 1].op = "auth"
  <2>1. n + 1 \in 1 .. n + 1 /\ \A j \in (n + 1) + 1 .. n + 1 : FALSE
    OBVIOUS
  <2>2. ASSUME NEW k \in 1 .. n + 1, \A j \in k + 1 .. n + 1 : q[j].op # "auth"
        PROVE  k = n + 1
    BY <1>1, <2>2
  <2> QED
    BY <1>1, <2>1, <2>2 DEF AuthAfter
<1>2. CASE q[n + 1].op # "auth"
  <2>1. (\A k \in 1 .. n + 1 : q[k].op # "auth") <=> (\A k \in 1 .. n : q[k].op # "auth")
    BY <1>2
  <2>2. ASSUME NEW k \in 1 .. n
        PROVE  (\A j \in k + 1 .. n + 1 : q[j].op # "auth") <=> (\A j \in k + 1 .. n : q[j].op # "auth")
    BY <1>2
  <2>3. 1 .. n + 1 = 1 .. n \cup {n + 1}
    OBVIOUS
  <2>4. AuthAfter(s, q, n + 1) => AuthAfter(s, q, n)
    <3>1. CASE s.auth /\ \A k \in 1 .. n + 1 : q[k].op # "auth"
      BY <2>1, <3>1 DEF AuthAfter
    <3>2. CASE \E k \in 1 .. n + 1 : /\ q[k].op = "auth"
                                     /\ s.protected => q[k].arg = "right"
                                     /\ \A j \in k + 1 .. n + 1 : q[j].op # "auth"
      <4>1. PICK k \in 1 .. n + 1 : /\ q[k].op = "auth"
                                    /\ s.protected => q[k].arg = "right"
                                    /\ \A j \in k + 1 .. n + 1 : q[j].op # "auth"
        BY <3>2
      <4>2. k \in 1 .. n
        BY <1>2, <4>1
      <4> QED
        BY <2>2, <4>1, <4>2 DEF AuthAfter
    <3> QED
      BY <3>1, <3>2 DEF AuthAfter
  <2>5. AuthAfter(s, q, n) => AuthAfter(s, q, n + 1)
    BY <2>1, <2>2, <2>3 DEF AuthAfter
  <2> QED
    BY <1>2, <2>4, <2>5
<1> QED
  BY <1>1, <1>2

\* Only the first n requests count.
LEMMA AuthPrefix ==
  ASSUME NEW s, NEW p, NEW q, NEW n \in Nat, \A k \in 1 .. n : p[k] = q[k]
  PROVE  AuthAfter(s, p, n) <=> AuthAfter(s, q, n)
BY DEF AuthAfter

\* After two sequences of requests, the second is what a server sees that is as
\* the first leaves it.
LEMMA AuthConcat ==
  ASSUME NEW s, s.auth \in BOOLEAN, NEW t, t.auth \in BOOLEAN, t.protected = s.protected,
         NEW q, NEW r, NEW m \in Nat, NEW n \in Nat,
         \A k \in 1 .. n : q[m + k] = r[k],
         t.auth <=> AuthAfter(s, q, m)
  PROVE  AuthAfter(s, q, m + n) <=> AuthAfter(t, r, n)
<1> DEFINE G == {k \in 0 .. n : AuthAfter(s, q, m + k) <=> AuthAfter(t, r, k)}
<1>1. 0 \in G
  BY AuthZero
<1>2. ASSUME NEW k \in 0 .. n - 1, k \in G PROVE k + 1 \in G
  <2>1. PICK i \in Nat : i = m + k
    OBVIOUS
  <2>2. k \in Nat /\ q[i + 1] = r[k + 1]
    <3>1. k + 1 \in 1 .. n /\ m + (k + 1) = i + 1 /\ k \in Nat
      BY <2>1
    <3> QED
      BY <3>1
  <2>3. AuthAfter(s, q, i + 1) <=> IF q[i + 1].op = "auth"
                                   THEN s.protected => q[i + 1].arg = "right"
                                   ELSE AuthAfter(s, q, i)
    BY AuthStep
  <2>4. AuthAfter(t, r, k + 1) <=> IF r[k + 1].op = "auth"
                                   THEN t.protected => r[k + 1].arg = "right"
                                   ELSE AuthAfter(t, r, k)
    BY <2>2, AuthStep
  <2>5. m + (k + 1) = i + 1 /\ k + 1 \in 0 .. n
    BY <2>1
  <2>6. AuthAfter(s, q, i) <=> AuthAfter(t, r, k)
    BY <1>2, <2>1
  <2>7. AuthAfter(s, q, i + 1) <=> AuthAfter(t, r, k + 1)
    BY <2>2, <2>3, <2>4, <2>6
  <2> QED
    BY <2>5, <2>7
<1>3. 0 .. n \subseteq G
  <2> HIDE DEF G
  <2> QED
    BY <1>1, <1>2, Induction
<1> QED
  BY <1>3

\* Requests that all give the right password, the first one included.
LEMMA AuthRight ==
  ASSUME NEW s, NEW q, NEW n \in Nat, s.auth \in BOOLEAN, q[1].op = "auth",
         \A k \in 1 .. n + 1 : q[k].op = "auth" => q[k].arg = "right"
  PROVE  AuthAfter(s, q, n + 1)
<1> DEFINE G == {k \in 0 .. n : AuthAfter(s, q, k + 1)}
<1>1. 0 \in G
  <2>1. 1 \in 1 .. n + 1 /\ \A j \in 1 + 1 .. 1 : FALSE
    OBVIOUS
  <2>2. AuthAfter(s, q, 1)
    BY <2>1 DEF AuthAfter
  <2> QED
    BY <2>2
<1>2. ASSUME NEW k \in 0 .. n - 1, k \in G PROVE k + 1 \in G
  <2>1. PICK i \in Nat : i = k + 1
    OBVIOUS
  <2>2. AuthAfter(s, q, i + 1) <=> IF q[i + 1].op = "auth"
                                   THEN s.protected => q[i + 1].arg = "right"
                                   ELSE AuthAfter(s, q, i)
    BY AuthStep
  <2>3. i + 1 \in 1 .. n + 1 /\ i \in 0 .. n
    BY <2>1
  <2>4. AuthAfter(s, q, i)
    BY <1>2, <2>1
  <2>5. AuthAfter(s, q, i + 1)
    BY <2>2, <2>3, <2>4
  <2> QED
    BY <2>1, <2>3, <2>5
<1>3. 0 .. n \subseteq G
  <2> HIDE DEF G
  <2> QED
    BY <1>1, <1>2, Induction
<1> QED
  BY <1>3

\* Selects that all agree.
LEMMA DbAgreed ==
  ASSUME NEW d, NEW e, NEW q, NEW n \in Nat,
         \A k \in 1 .. n : q[k].op = "select" => q[k].arg = e,
         d = e \/ \E k \in 1 .. n : Valid(q[k])
  PROVE  DbAfter(d, q, n) = e
<1> DEFINE S == {k \in 1 .. n : q[k].op = "select" /\ q[k].arg < Databases}
<1>1. S # {} => Max(S) \in S
  <2>1. S \subseteq 1 .. n
    OBVIOUS
  <2> HIDE DEF S
  <2> QED
    BY <2>1, MaxOf
<1>2. CASE S = {}
  BY <1>2 DEF DbAfter, Valid
<1>3. CASE S # {}
  BY <1>1, <1>3 DEF DbAfter
<1> QED
  BY <1>2, <1>3

(***************************************************************************)
(* Types.                                                                  *)
(***************************************************************************)
\* A database is a natural number.
LEMMA DbNat ==
  ASSUME NEW d \in Nat, NEW q, NEW n \in Nat, \A k \in 1 .. n : q[k].op = "select" => q[k].arg \in Nat
  PROVE  DbAfter(d, q, n) \in Nat
<1> DEFINE S == {k \in 1 .. n : q[k].op = "select" /\ q[k].arg < Databases}
<1>1. S # {} => Max(S) \in S
  <2>1. S \subseteq 1 .. n
    OBVIOUS
  <2> HIDE DEF S
  <2> QED
    BY <2>1, MaxOf
<1> QED
  BY <1>1 DEF DbAfter

\* The constants, as the types use them.
LEMMA Constants == Indexes \subseteq Nat /\ "" \notin Passwords /\ Databases \in Nat
BY SessionAssumption

\* The index kept is a natural number.
LEMMA IndexType == m_database_index \in Indexes \cup {0} => m_database_index \in Nat
<1>1. Indexes \subseteq Nat
  BY Constants
<1> QED
  BY <1>1

\* What a request is made of.
LEMMA RequestType ==
  ASSUME NEW r \in Requests
  PROVE  /\ r.id \in Nat
         /\ r.op \in Ops
         /\ r.op = "select" => r.arg \in Nat
BY SessionAssumption DEF Requests, Typed

\* What the application calls is a typed call and a typed request.
LEMMA MakeRequest ==
  ASSUME NEW op \in Ops, NEW arg, NEW id \in Nat,
         op = "auth" => arg \in Passwords,
         op = "select" => arg \in Indexes,
         op \notin {"auth", "select"} => arg = 0
  PROVE  /\ Request(op, arg, id) \in Requests
         /\ [op |-> op, arg |-> arg] \in CallRecords
<1>1. arg \in Passwords \cup Nat
  <2>1. Indexes \subseteq Nat
    BY Constants
  <2>2. CASE op = "select"
    BY <2>1, <2>2
  <2>3. CASE op = "auth"
    BY <2>3
  <2>4. CASE op \notin {"auth", "select"}
    BY <2>4
  <2> QED
    BY <2>2, <2>3, <2>4
<1> QED
  BY <1>1 DEF CallRecords, Requests, Request, Typed

\* The index of a SELECT on its way is a natural number.
LEMMA TypedSelect ==
  ASSUME NEW q \in Seq(Requests)
  PROVE  \A k \in 1 .. Len(q) : q[k].op = "select" => q[k].arg \in Nat
<1>1. TAKE k \in 1 .. Len(q)
<1>2. q[k] \in Requests
  OBVIOUS
<1> QED
  BY <1>2, RequestType

\* Whatever the request, the server keeps its type.
LEMMA ServeType ==
  ASSUME NEW s \in Servers, NEW r \in Requests
  PROVE  Serve(s, r) \in Servers
<1> DEFINE fresh == [k \in DOMAIN s.queued |-> Execution(s.queued[k], DbAfter(s.db, s.queued, k - 1), r.id)]
<1>0. s.queued \in Seq(Requests) /\ s.log \in Seq(Entries) /\ s.db \in Nat
  BY DEF Servers
<1>1. \A k \in 1 .. Len(s.queued) : DbAfter(s.db, s.queued, k - 1) \in Nat
  <2>1. TAKE k \in 1 .. Len(s.queued)
  <2>2. k - 1 \in Nat /\ \A j \in 1 .. k - 1 : s.queued[j].op = "select" => s.queued[j].arg \in Nat
    BY <1>0, TypedSelect
  <2> QED
    BY <1>0, <2>2, DbNat
<1>2. fresh \in Seq(Entries)
  <2>1. \A k \in 1 .. Len(s.queued) : fresh[k] \in Entries
    <3>1. TAKE k \in 1 .. Len(s.queued)
    <3>2. s.queued[k] \in Requests /\ DbAfter(s.db, s.queued, k - 1) \in Nat
      BY <1>0, <1>1
    <3> QED
      BY <1>0, <3>2 DEF Requests, Entries, Execution
  <2>2. fresh = [k \in 1 .. Len(s.queued) |-> Execution(s.queued[k], DbAfter(s.db, s.queued, k - 1), r.id)]
    BY <1>0
  <2>3. Len(s.queued) \in Nat
    BY <1>0
  <2> HIDE DEF fresh
  <2>4. fresh \in [1 .. Len(s.queued) -> Entries]
    BY <2>1, <2>2
  <2> QED
    BY <2>3, <2>4, IsASeq
<1>3. Append(s.queued, r) \in Seq(Requests) /\ <<>> \in Seq(Requests)
  BY <1>0
<1>4. s.log \o fresh \in Seq(Entries)
  <2> HIDE DEF fresh
  <2> QED
    BY <1>0, <1>2
<1>5. Append(s.log, Execution(r, s.db, NoCall)) \in Seq(Entries)
  BY <1>0 DEF Requests, Entries, Execution, NoCall
<1>6. ASSUME NEW q \in Seq(Requests) PROVE Apply(s, q) \in Servers
  <2>1. DbAfter(s.db, q, Len(q)) \in Nat
    BY <1>0, TypedSelect, DbNat
  <2>2. AuthAfter(s, q, Len(q)) \in BOOLEAN
    BY DEF AuthAfter
  <2> QED
    BY <2>1, <2>2 DEF Apply, Servers
<1>7. Apply(s, s.queued) \in Servers /\ Apply(s, s.queued).log = s.log
  BY <1>0, <1>6 DEF Apply, Servers
<1>8. Apply(s, <<r>>) \in Servers
  <2>1. <<r>> \in Seq(Requests)
    OBVIOUS
  <2> QED
    BY <1>6, <2>1
<1>9. r.id \in Nat
  BY DEF Requests
<1>10. [Apply(s, s.queued) EXCEPT !.multi = FALSE, !.queued = <<>>, !.log = @ \o fresh] \in Servers
  <2> DEFINE a == Apply(s, s.queued)
             l == a.log \o fresh
  <2>1. a \in Servers /\ l \in Seq(Entries)
    BY <1>4, <1>7
  <2>2. [a EXCEPT !.multi = FALSE, !.queued = <<>>, !.log = l] \in Servers
    <3> HIDE DEF a, l
    <3> QED
      BY <1>3, <2>1 DEF Servers
  <2> QED
    BY <2>2
<1>11. [s EXCEPT !.refused = @ \cup {r.id}] \in Servers /\ [s EXCEPT !.multi = TRUE] \in Servers
  BY <1>9 DEF Servers
<1>12. [s EXCEPT !.queued = Append(@, r)] \in Servers
  BY <1>3 DEF Servers
<1>13. [s EXCEPT !.log = Append(@, Execution(r, s.db, NoCall))] \in Servers
  BY <1>5 DEF Servers
<1> HIDE DEF fresh
<1>14. CASE r.op = "exec" /\ ~(~s.auth /\ r.op # "auth")
  BY <1>10, <1>14 DEF Serve, fresh
<1>15. CASE r.op # "exec" \/ (~s.auth /\ r.op # "auth")
  BY <1>8, <1>11, <1>12, <1>13, <1>15 DEF Serve
<1> QED
  BY <1>14, <1>15

\* The parts of a concatenation.
LEMMA Concat3 ==
  ASSUME NEW S, NEW a \in Seq(S), NEW b \in Seq(S), NEW c \in Seq(S)
  PROVE  /\ a \o b \o c \in Seq(S)
         /\ Len(a \o b \o c) = Len(a) + Len(b) + Len(c)
         /\ \A i \in 1 .. Len(a) : (a \o b \o c)[i] = a[i]
         /\ \A i \in 1 .. Len(b) : (a \o b \o c)[Len(a) + i] = b[i]
         /\ \A i \in 1 .. Len(c) : (a \o b \o c)[Len(a) + Len(b) + i] = c[i]
OBVIOUS

\* The parts of a concatenation.
LEMMA Concat2 ==
  ASSUME NEW S, NEW a \in Seq(S), NEW b \in Seq(S)
  PROVE  /\ a \o b \in Seq(S)
         /\ Len(a \o b) = Len(a) + Len(b)
         /\ \A i \in 1 .. Len(a) : (a \o b)[i] = a[i]
         /\ \A i \in 1 .. Len(b) : (a \o b)[Len(a) + i] = b[i]
         /\ <<>> \o b = b
OBVIOUS

\* What reconnect() sends is requests.
LEMMA RestoredType ==
  ASSUME TypeInv
  PROVE  /\ re_auth \in Seq(Requests) /\ re_select \in Seq(Requests)
         /\ restored \in Seq(Requests)
         /\ resend_failed_commands \in Seq(Requests)
<1>1. re_auth \in Seq(Requests)
  <2>0. m_password \in Passwords \cup {""}
    BY DEF TypeInv
  <2>1. m_password # "" => Request("auth", m_password, NoCall) \in Requests
    <3>1. "auth" \in Ops /\ NoCall \in Nat
      BY DEF Ops, NoCall
    <3>2. m_password # "" => m_password \in Passwords
      BY <2>0
    <3> QED
      BY <3>1, <3>2, MakeRequest
  <2>2. <<>> \in Seq(Requests)
    OBVIOUS
  <2> QED
    <3>1. CASE m_password = ""
      BY <2>2, <3>1 DEF re_auth
    <3>2. CASE m_password # ""
      <4>1. Request("auth", m_password, NoCall) \in Requests
        BY <2>1, <3>2
      <4>2. re_auth = <<Request("auth", m_password, NoCall)>>
        BY <3>2 DEF re_auth
      <4> HIDE DEF re_auth
      <4> QED
        BY <4>1, <4>2
    <3> QED
      BY <3>1, <3>2
<1>2. re_select \in Seq(Requests)
  <2>0. m_database_index \in Nat
    BY IndexType DEF TypeInv
  <2>1. m_database_index > 0 => Request("select", m_database_index, NoCall) \in Requests
    <3>1. "select" \in Ops /\ NoCall \in Nat
      BY DEF Ops, NoCall
    <3>2. m_database_index > 0 => m_database_index \in Indexes
      <4>1. m_database_index \in Indexes \cup {0}
        BY DEF TypeInv
      <4> QED
        BY <4>1
    <3> QED
      BY <3>1, <3>2, MakeRequest
  <2>2. <<>> \in Seq(Requests)
    OBVIOUS
  <2> QED
    BY <2>0, <2>1, <2>2 DEF re_select
<1>3. restored \in Seq(Requests)
  BY <1>1, <1>2 DEF restored
<1>4. resend_failed_commands \in Seq(Requests)
  <2>1. m_commands \in Seq(Requests)
    BY DEF TypeInv
  <2> QED
    BY <1>3, <2>1 DEF resend_failed_commands
<1> QED
  BY <1>1, <1>2, <1>3, <1>4

\* A call appends a call and a request.
LEMMA CallType ==
  ASSUME TypeInv, NEW op \in Ops, NEW arg, Call(op, arg),
         op = "auth" => arg \in Passwords,
         op = "select" => arg \in Indexes,
         op \notin {"auth", "select"} => arg = 0
  PROVE  /\ calls' \in Seq(CallRecords)
         /\ m_commands' \in Seq(Requests)
         /\ m_buffer' \in Seq(Requests)
<1>1. Len(calls) + 1 \in Nat
  <2>1. calls \in Seq(CallRecords)
    BY DEF TypeInv
  <2> QED
    BY <2>1
<1>2. [op |-> op, arg |-> arg] \in CallRecords
  BY MakeRequest, <1>1
<1>3. Request(op, arg, Len(calls) + 1) \in Requests
  BY <1>1, MakeRequest
<1>4. calls \in Seq(CallRecords) /\ m_commands \in Seq(Requests) /\ m_buffer \in Seq(Requests)
  BY DEF TypeInv
<1> QED
  BY <1>2, <1>3, <1>4 DEF Call, unprotected_send

\* Every step keeps the types.
LEMMA TypeStep ==
  ASSUME TypeInv, [Next]_vars
  PROVE  TypeInv'
<1>1. ASSUME NEW p \in Passwords, auth(p) PROVE TypeInv'
  BY <1>1, CallType DEF auth, Call, TypeInv, Ops
<1>2. ASSUME NEW i \in Indexes, select(i) PROVE TypeInv'
  BY <1>2, CallType DEF select, Call, TypeInv, Ops
<1>3. ASSUME NEW op \in {"data", "multi", "exec"}, send(op) PROVE TypeInv'
  BY <1>3, CallType DEF send, Call, TypeInv, Ops
<1>4. ASSUME clear_callbacks, TypeInv
      PROVE  failed' \in SUBSET Nat /\ m_commands' \in Seq(Requests)
  <2>1. \A r \in ToSet(m_commands) : r.id \in Nat
    <3>1. m_commands \in Seq(Requests)
      BY DEF TypeInv
    <3>2. ToSet(m_commands) \subseteq Requests
      BY <3>1 DEF ToSet
    <3> QED
      BY <3>2, RequestType
  <2>2. <<>> \in Seq(Requests)
    OBVIOUS
  <2> QED
    BY <1>4, <2>1, <2>2 DEF clear_callbacks, TypeInv
<1>5. CASE Commit
  <2>0. wire \in Seq(Requests) /\ m_buffer \in Seq(Requests)
    BY DEF TypeInv
  <2>1. m_buffer' \in Seq(Requests) /\ wire' \in Seq(Requests)
    <3>1. <<>> \in Seq(Requests) /\ wire \o m_buffer \in Seq(Requests)
      BY <2>0
    <3> QED
      BY <1>5, <2>0, <3>1 DEF Commit
  <2> QED
    BY <1>4, <1>5, <2>1 DEF Commit, TypeInv
<1>6. CASE Receive
  <2>1. m_commands \in Seq(Requests) /\ answers \in Nat
    BY DEF TypeInv
  <2>2. m_commands' \in Seq(Requests)
    <3>1. <<>> \in Seq(Requests) /\ (m_commands # <<>> => Tail(m_commands) \in Seq(Requests))
      BY <2>1
    <3> QED
      BY <1>6, <3>1 DEF Receive
  <2>3. answers' \in Nat
    BY <1>6, <2>1 DEF Receive
  <2> QED
    BY <1>6, <2>2, <2>3 DEF Receive, TypeInv
<1>7. CASE Execute
  <2>0. wire \in Seq(Requests) /\ wire # <<>>
    BY <1>7 DEF TypeInv, Execute
  <2>1. Head(wire) \in Requests /\ Tail(wire) \in Seq(Requests)
    BY <2>0
  <2>2. server \in Servers
    BY DEF TypeInv
  <2>3. server' \in Servers
    BY <1>7, <2>1, <2>2, ServeType DEF Execute
  <2>4. answers' \in Nat
    <3>1. answers \in Nat
      BY DEF TypeInv
    <3> QED
      BY <1>7, <3>1 DEF Execute
  <2> QED
    BY <1>7, <2>1, <2>3, <2>4 DEF Execute, TypeInv, clientVars
<1>8. CASE Drop
  <2>1. <<>> \in Seq(Requests)
    OBVIOUS
  <2>2. drops' \in Nat
    <3>1. drops \in Nat
      BY DEF TypeInv
    <3> QED
      BY <1>8, <3>1 DEF Drop
  <2>3. UNCHANGED <<calls, failed, m_commands, m_buffer, m_password, m_database_index, server>>
        /\ wire' = <<>> /\ answers' = 0 /\ conn' = "lost"
    BY <1>8 DEF Drop, clientVars
  <2> QED
    BY <2>1, <2>2, <2>3 DEF TypeInv
<1>12. CASE DropBuffers
  <2>1. <<>> \in Seq(Requests)
    OBVIOUS
  <2> QED
    BY <1>12, <2>1 DEF DropBuffers, TypeInv
<1>9. CASE Reconnect
  <2>1. NewConnection(server) \in Servers
    <3>1. <<>> \in Seq(Requests)
      OBVIOUS
    <3> QED
      BY <3>1 DEF NewConnection, Servers, TypeInv
  <2>2. <<>> \in Seq(Requests)
    OBVIOUS
  <2>5. m_buffer \in Seq(Requests)
    BY DEF TypeInv
  <2>3. m_commands' \in Seq(Requests)
    BY <1>9, RestoredType DEF Reconnect
  <2>4. wire' \in Seq(Requests)
    <3>1. restored \in Seq(Requests) /\ resend_failed_commands \in Seq(Requests)
      BY RestoredType
    <3> QED
      BY <1>9, <2>5, <3>1, Concat3 DEF Reconnect
  <2> QED
    BY <1>9, <2>1, <2>2, <2>3, <2>4 DEF Reconnect, TypeInv
<1>10. CASE GiveUp
  BY <1>4, <1>10 DEF GiveUp, TypeInv
<1>11. CASE UNCHANGED vars
  <2>1. /\ UNCHANGED <<calls, failed, m_commands, m_buffer>>
        /\ UNCHANGED <<m_password, m_database_index, conn, wire>>
        /\ UNCHANGED <<answers, server, drops>>
    BY <1>11 DEF vars, clientVars
  <2> QED
    BY <2>1 DEF TypeInv
<1> QED
  BY <1>1, <1>2, <1>3, <1>5, <1>6, <1>7, <1>8, <1>9, <1>10, <1>11, <1>12 DEF Next

\* The types hold initially.
LEMMA TypeInit == Init => TypeInv
<1> SUFFICES ASSUME Init PROVE TypeInv
  OBVIOUS
<1>1. <<>> \in Seq(Requests) /\ <<>> \in Seq(Entries) /\ <<>> \in Seq(CallRecords)
  OBVIOUS
<1>2. server \in Servers
  <2>1. PICK p \in Protected :
          server = [protected |-> p, auth |-> ~p, db |-> 0, multi |-> FALSE,
                    queued |-> <<>>, log |-> <<>>, refused |-> {}]
    BY DEF Init
  <2>2. p \in BOOLEAN
    BY SessionAssumption
  <2> QED
    BY <1>1, <2>1, <2>2 DEF Servers
<1> QED
  BY <1>1, <1>2 DEF Init, TypeInv

(***************************************************************************)
(* What is on its way.                                                     *)
(***************************************************************************)
\* What one execution does: p requests leave the front of Line, the first g of
\* which are executed, at the EXEC of call x or on their own.
Effect(p, g, x) ==
  /\ Suffix(Line, p, Line')
  /\ g \in 0 .. p
  /\ server'.protected = server.protected
  /\ server'.auth <=> AuthAfter(server, Line, p)
  /\ (\A i \in 1 .. p : Line[i].op = "select" => AuthAfter(server, Line, i - 1))
       => server'.db = DbAfter(server.db, Line, p)
  /\ Len(server'.log) = Len(server.log) + g
  /\ \A k \in 1 .. Len(server.log) : server'.log[k] = server.log[k]
  /\ \A k \in 1 .. g :
       server'.log[Len(server.log) + k] = Execution(Line[k], DbAfter(server.db, Line, k - 1), x)
  /\ \/ x = NoCall
     \/ /\ server.multi
        /\ g = Len(server.queued)
        /\ p = g + 1
        /\ Line[p].op = "exec"
        /\ x = Line[p].id
  /\ server'.multi => IF server.multi THEN p = 0 ELSE p = 1 /\ Line[1].op = "multi"
  /\ \/ server'.refused = server.refused
     \/ /\ p = 1
        /\ ~AuthAfter(server, Line, 0)
        /\ Line[1].op # "auth"
        /\ server'.refused = server.refused \cup {Line[1].id}

\* Line is requests.
LEMMA LineType == TypeInv => Line \in Seq(Requests)
BY Concat3 DEF TypeInv, Line, Servers

\* To queue the front of the wire does not change their concatenation.
LEMMA Queueing ==
  ASSUME NEW S, NEW a \in Seq(S), NEW b \in Seq(S), b # <<>>
  PROVE  Append(a, Head(b)) \o Tail(b) = a \o b
OBVIOUS

\* Every step preserves Connection, where nothing is called in the window.
LEMMA ConnectionStep ==
  ASSUME TypeInv, Quiet, Connection, [Next]_vars
  PROVE  Connection'
<1>0. server \in Servers
  BY DEF TypeInv
<1>1. ASSUME NEW op, NEW arg, Call(op, arg) PROVE Connection'
  BY <1>1 DEF Call, Connection
<1>2. ASSUME NEW p \in Passwords, auth(p) PROVE Connection'
  BY <1>1, <1>2 DEF auth
<1>3. ASSUME NEW i \in Indexes, select(i) PROVE Connection'
  BY <1>1, <1>3 DEF select
<1>4. ASSUME NEW op \in {"data", "multi", "exec"}, send(op) PROVE Connection'
  BY <1>1, <1>4 DEF send
<1>5. CASE Commit
  BY <1>5 DEF Commit, Connection
<1>6. CASE Receive
  <2>1. answers \in Nat
    BY DEF TypeInv
  <2> QED
    BY <1>6, <2>1 DEF Receive, Connection
<1>7. CASE Execute
  <2>1. conn' = "up"
    BY <1>7 DEF Execute, Connection
  <2>2. server' = Serve(server, Head(wire))
    BY <1>7 DEF Execute
  <2>3. (server'.multi => server'.auth) /\ (~server'.multi => server'.queued = <<>>)
    BY <1>0, <2>2 DEF Serve, Apply, Servers, Connection
  <2> QED
    BY <2>1, <2>3 DEF Connection
<1>8. CASE Drop
  BY <1>8 DEF Drop, Connection
<1>12. CASE DropBuffers
  BY <1>12 DEF DropBuffers, Connection
<1>9. CASE Reconnect
  BY <1>0, <1>9 DEF Reconnect, NewConnection, Connection, Servers
<1>10. CASE GiveUp
  BY <1>10 DEF GiveUp, Connection
<1>11. CASE UNCHANGED vars
  BY <1>11 DEF vars, clientVars, Connection
<1> QED
  BY <1>2, <1>3, <1>4, <1>5, <1>6, <1>7, <1>8, <1>9, <1>10, <1>11, <1>12 DEF Next

\* Every execution has an effect of that form: a request refused, queued,
\* executed on its own, or a whole transaction with its EXEC.
LEMMA ServeEffect ==
  ASSUME TypeInv, Connection, Execute, server.multi => Head(wire).op # "multi"
  PROVE  \E p, g \in 0 .. Len(Line), x \in Nat : Effect(p, g, x)
<1> DEFINE a == server.queued
           b == wire
           c == m_buffer
           h == Head(wire)
<1>1. /\ server \in Servers /\ a \in Seq(Requests) /\ b \in Seq(Requests) /\ c \in Seq(Requests)
      /\ server.log \in Seq(Entries) /\ b # <<>> /\ Len(b) \in Nat \ {0}
      /\ h \in Requests /\ h.id \in Nat /\ h = b[1] /\ Tail(b) \in Seq(Requests)
  <2>1. server \in Servers /\ wire \in Seq(Requests) /\ m_buffer \in Seq(Requests)
    BY DEF TypeInv
  <2>2. wire # <<>>
    BY DEF Execute
  <2>3. h \in Requests /\ Tail(wire) \in Seq(Requests)
    BY <2>1, <2>2
  <2>4. server.queued \in Seq(Requests) /\ server.log \in Seq(Entries)
    BY <2>1 DEF Servers
  <2>5. h.id \in Nat
    BY <2>3, RequestType
  <2>6. h = wire[1] /\ Len(wire) \in Nat \ {0}
    BY <2>1, <2>2
  <2> QED
    BY <2>1, <2>2, <2>3, <2>4, <2>5, <2>6
<1>2. Len(b) \in Nat /\ Len(b) >= 1 /\ Len(c) \in Nat
  BY <1>1
<1>3. /\ Line \in Seq(Requests)
      /\ Len(Line) = Len(a) + Len(b) + Len(c)
      /\ \A i \in 1 .. Len(a) : Line[i] = a[i]
      /\ \A i \in 1 .. Len(b) : Line[Len(a) + i] = b[i]
      /\ \A i \in 1 .. Len(c) : Line[Len(a) + Len(b) + i] = c[i]
  BY <1>1, Concat3 DEF Line
<1>4. PICK n \in Nat : n = Len(a)
  BY <1>1
<1>5. /\ Line \in Seq(Requests)
      /\ Len(Line) = n + Len(b) + Len(c)
      /\ \A i \in 1 .. n : Line[i] = a[i]
      /\ \A i \in 1 .. Len(b) : Line[n + i] = b[i]
      /\ \A i \in 1 .. Len(c) : Line[n + Len(b) + i] = c[i]
  <2>1. PICK a0 \in Seq(Requests), b0 \in Seq(Requests), c0 \in Seq(Requests) : a0 = a /\ b0 = b /\ c0 = c
    BY <1>1
  <2>2. /\ Len(Line) = Len(a0) + Len(b0) + Len(c0)
        /\ \A i \in 1 .. Len(a0) : Line[i] = a0[i]
        /\ \A i \in 1 .. Len(b0) : Line[Len(a0) + i] = b0[i]
        /\ \A i \in 1 .. Len(c0) : Line[Len(a0) + Len(b0) + i] = c0[i]
    BY <1>3, <2>1, Zenon
  <2>3. /\ Len(Line) = n + Len(b0) + Len(c0)
        /\ \A i \in 1 .. n : Line[i] = a0[i]
        /\ \A i \in 1 .. Len(b0) : Line[n + i] = b0[i]
        /\ \A i \in 1 .. Len(c0) : Line[n + Len(b0) + i] = c0[i]
    BY <1>4, <2>1, <2>2
  <2> QED
    BY <1>3, <2>1, <2>3, Zenon
<1>6. n \in Nat /\ n = Len(a) /\ Len(Line) = n + Len(b) + Len(c)
  BY <1>5, <1>4
<1>7. server' = Serve(server, h) /\ wire' = Tail(wire) /\ m_buffer' = m_buffer
  BY DEF Execute, clientVars
<1>8. server.auth \in BOOLEAN /\ server.multi \in BOOLEAN
  BY <1>1 DEF Servers
<1>9. AuthAfter(server, Line, 0) <=> server.auth
  BY <1>8, AuthZero
<1>10. DbAfter(server.db, Line, 0) = server.db
  BY DbZero
<1>11. CASE server.multi /\ h.op # "exec"
  <2>1. server.auth /\ h.op # "multi"
    BY <1>11 DEF Connection
  <2>2. server' = [server EXCEPT !.queued = Append(@, h)]
    BY <1>7, <1>11, <2>1 DEF Serve
  <2>3. /\ server'.queued = Append(a, h) /\ server'.log = server.log /\ server'.auth = server.auth
        /\ server'.db = server.db /\ server'.refused = server.refused
        /\ server'.protected = server.protected
        /\ server'.multi = server.multi
    BY <1>1, <2>2 DEF Servers
  <2>4. Line' = Line
    <3>1. Append(a, Head(b)) \o Tail(b) = a \o b
      BY <1>1, Queueing
    <3>2. Line' = (Append(a, h) \o Tail(b)) \o c
      BY <1>7, <2>3 DEF Line
    <3> QED
      BY <3>1, <3>2 DEF Line
  <2>5. Suffix(Line, 0, Line)
    BY <1>5 DEF Suffix
  <2>6. Effect(0, 0, NoCall)
    <3>1. 0 \in 0 .. 0 /\ \A k \in 1 .. 0 : FALSE
      OBVIOUS
    <3>2. Len(server.log) \in Nat
      BY <1>1
    <3> QED
      BY <1>9, <1>10, <1>11, <2>3, <2>4, <2>5, <3>1, <3>2 DEF Effect, NoCall
  <2>7. 0 \in 0 .. Len(Line) /\ NoCall \in Nat
    BY <1>5 DEF NoCall
  <2> QED
    BY <2>6, <2>7
<1>12. CASE server.multi /\ h.op = "exec"
  <2> DEFINE fresh == [k \in DOMAIN a |-> Execution(a[k], DbAfter(server.db, a, k - 1), h.id)]
  <2>1. server.auth
    BY <1>12 DEF Connection
  <2>2. server' = [Apply(server, a) EXCEPT !.multi = FALSE, !.queued = <<>>, !.log = @ \o fresh]
    BY <1>7, <1>12, <2>1 DEF Serve
  <2>3. /\ server'.queued = <<>>
        /\ ~server'.multi
        /\ server'.auth = AuthAfter(server, a, n)
        /\ server'.db = DbAfter(server.db, a, n)
        /\ server'.log = server.log \o fresh
        /\ server'.refused = server.refused
        /\ server'.protected = server.protected
    <3> HIDE DEF fresh
    <3> QED
      BY <1>1, <1>6, <2>2 DEF Servers, Apply
  <2>4. Line[n + 1] = h
    <3>1. 1 \in 1 .. Len(b)
      BY <1>2
    <3> QED
      BY <1>1, <1>5, <3>1
  <2>5. Suffix(Line, n + 1, Line')
    <3>1. Line' = Tail(b) \o c
      <4>1. Line' = (<<>> \o Tail(b)) \o c
        BY <1>7, <2>3 DEF Line
      <4> QED
        BY <1>1, <4>1, Concat2
    <3>2. Len(Line') = Len(Line) - (n + 1) /\ n + 1 \in 0 .. Len(Line)
      <4>1. Len(Tail(b)) = Len(b) - 1
        BY <1>1
      <4>2. Len(Line') = Len(Tail(b)) + Len(c)
        BY <1>1, <3>1, Concat2
      <4>3. Len(b) \in Nat /\ Len(b) >= 1 /\ Len(c) \in Nat /\ Len(Line) = n + Len(b) + Len(c)
        BY <1>2, <1>6
      <4> HIDE DEF a, b, c
      <4> QED
        BY <4>1, <4>2, <4>3
    <3>3. ASSUME NEW i \in 1 .. Len(Line') PROVE Line'[i] = Line[(n + 1) + i]
      <4>1. CASE i < Len(b)
        <5>1. Line'[i] = b[i + 1]
          BY <1>1, <3>1, <4>1
        <5>2. i + 1 \in 1 .. Len(b) /\ n + (i + 1) = (n + 1) + i
          BY <1>2, <4>1
        <5>3. Line[n + (i + 1)] = b[i + 1]
          BY <1>5, <5>2
        <5> QED
          BY <5>1, <5>2, <5>3
      <4>2. CASE i >= Len(b)
        <5>1. PICK k \in Nat : i = (Len(b) - 1) + k
          <6>1. i - (Len(b) - 1) \in Nat /\ i = (Len(b) - 1) + (i - (Len(b) - 1))
            BY <1>2, <4>2
          <6> QED
            BY <6>1
        <5>2. k \in 1 .. Len(c)
          BY <1>1, <1>5, <2>4, <3>2, <4>2, <5>1
        <5>3. Line'[i] = c[k]
          BY <1>1, <3>1, <5>1, <5>2
        <5>4. n + Len(b) + k = (n + 1) + i
          BY <1>2, <5>1
        <5>5. Line[n + Len(b) + k] = c[k]
          BY <1>5, <5>2
        <5> QED
          BY <5>3, <5>4, <5>5
      <4> QED
        BY <1>1, <4>1, <4>2
    <3> QED
      BY <3>2, <3>3 DEF Suffix
  <2>6. server'.auth <=> AuthAfter(server, Line, n + 1)
    <3>1. AuthAfter(server, Line, n) <=> AuthAfter(server, a, n)
      BY <1>5, AuthPrefix
    <3>2. AuthAfter(server, Line, n + 1) <=> AuthAfter(server, Line, n)
      BY <1>8, <1>12, <2>4, AuthStep
    <3> QED
      BY <2>3, <3>1, <3>2
  <2>7. server'.db = DbAfter(server.db, Line, n + 1)
    <3>1. DbAfter(server.db, Line, n) = DbAfter(server.db, a, n)
      BY <1>5, DbPrefix
    <3>2. DbAfter(server.db, Line, n + 1) = DbAfter(server.db, Line, n)
      BY <1>12, <2>4, DbStep DEF Valid
    <3> QED
      BY <2>3, <3>1, <3>2
  <2>8. /\ Len(server'.log) = Len(server.log) + n
        /\ \A k \in 1 .. Len(server.log) : server'.log[k] = server.log[k]
        /\ \A k \in 1 .. n : server'.log[Len(server.log) + k] = fresh[k]
    <3>1. fresh \in Seq(Entries) /\ Len(fresh) = n
      <4>1. fresh = [k \in 1 .. n |-> fresh[k]]
        BY <1>1, <1>6
      <4>2. \A k \in 1 .. n : fresh[k] \in Entries
        <5>1. TAKE k \in 1 .. n
        <5>2. k - 1 \in Nat /\ a[k] \in Requests /\ server.db \in Nat
          <6>1. k - 1 \in Nat /\ k \in 1 .. Len(a)
            BY <1>6
          <6>2. a[k] \in Requests
            BY <1>1, <6>1
          <6> QED
            BY <1>1, <6>1, <6>2 DEF Servers
        <5>3. \A j \in 1 .. k - 1 : a[j].op = "select" => a[j].arg \in Nat
          BY <1>1, <1>6, TypedSelect
        <5>4. DbAfter(server.db, a, k - 1) \in Nat
          BY <5>2, <5>3, DbNat
        <5>5. Execution(a[k], DbAfter(server.db, a, k - 1), h.id) \in Entries
          BY <1>1, <5>2, <5>4, RequestType DEF Entries, Execution
        <5>6. k \in DOMAIN a
          BY <1>1, <1>6
        <5> QED
          BY <5>5, <5>6
      <4> HIDE DEF fresh
      <4>3. fresh \in [1 .. n -> Entries]
        BY <4>1, <4>2
      <4> QED
        BY <2>4, <4>3, IsASeq
    <3>2. server.log \in Seq(Entries)
      BY <1>1
    <3> HIDE DEF fresh
    <3>3. /\ Len(server.log \o fresh) = Len(server.log) + Len(fresh)
          /\ \A k \in 1 .. Len(server.log) : (server.log \o fresh)[k] = server.log[k]
          /\ \A k \in 1 .. Len(fresh) : (server.log \o fresh)[Len(server.log) + k] = fresh[k]
      <4>1. ASSUME NEW l \in Seq(Entries), NEW f \in Seq(Entries)
            PROVE  /\ Len(l \o f) = Len(l) + Len(f)
                   /\ \A k \in 1 .. Len(l) : (l \o f)[k] = l[k]
                   /\ \A k \in 1 .. Len(f) : (l \o f)[Len(l) + k] = f[k]
        BY Concat2
      <4> QED
        BY <3>1, <3>2, <4>1, Zenon
    <3>4. server'.log = server.log \o fresh
      BY <2>3
    <3> QED
      BY <3>1, <3>3, <3>4
  <2>9. \A k \in 1 .. n : fresh[k] = Execution(Line[k], DbAfter(server.db, Line, k - 1), h.id)
    <3>1. TAKE k \in 1 .. n
    <3>2. k - 1 \in Nat /\ \A j \in 1 .. k - 1 : Line[j] = a[j]
      BY <1>5
    <3>3. DbAfter(server.db, Line, k - 1) = DbAfter(server.db, a, k - 1)
      BY <3>2, DbPrefix
    <3>4. Line[k] = a[k] /\ k \in DOMAIN a
      BY <1>1, <1>5, <1>6
    <3> QED
      BY <3>3, <3>4
  <2> HIDE DEF fresh
  <2>11. Effect(n + 1, n, h.id)
    <3>1. n \in 0 .. n + 1
      BY <2>4
    <3> QED
      BY <1>12, <2>3, <2>4, <2>5, <2>6, <2>7, <2>8, <2>9, <1>6, <3>1 DEF Effect
  <2>12. n + 1 \in 0 .. Len(Line) /\ n \in 0 .. Len(Line)
    BY <2>4, <2>5, <1>5 DEF Suffix
  <2> QED
    BY <1>1, <2>11, <2>12
<1>13. CASE ~server.multi
  <2>1. a = <<>> /\ n = 0
    <3>1. a = <<>>
      BY <1>13 DEF Connection
    <3> QED
      BY <1>6, <3>1
  <2>2. Line[1] = h
    <3>1. 1 \in 1 .. Len(b) /\ n + 1 = 1
      BY <1>2, <2>1
    <3> QED
      BY <1>1, <1>5, <3>1
  <2>3. /\ DbAfter(server.db, Line, 1) = IF Valid(h) THEN h.arg ELSE server.db
        /\ AuthAfter(server, Line, 1)
             <=> IF h.op = "auth" THEN server.protected => h.arg = "right" ELSE server.auth
    <3>1. 0 \in Nat /\ 0 + 1 = 1
      OBVIOUS
    <3>2. DbAfter(server.db, Line, 0 + 1)
            = IF Valid(Line[0 + 1]) THEN Line[0 + 1].arg ELSE DbAfter(server.db, Line, 0)
      BY <3>1, DbStep
    <3>3. AuthAfter(server, Line, 0 + 1)
            <=> IF Line[0 + 1].op = "auth" THEN server.protected => Line[0 + 1].arg = "right"
                                         ELSE AuthAfter(server, Line, 0)
      BY <1>8, <3>1, AuthStep
    <3> QED
      BY <1>9, <1>10, <2>2, <3>1, <3>2, <3>3
  <2>4. ASSUME NEW q, q = <<>> \/ q = <<h>>
        PROVE  /\ Apply(server, q).auth <=> AuthAfter(server, Line, Len(q))
               /\ Apply(server, q).db = DbAfter(server.db, Line, Len(q))
               /\ Apply(server, q).log = server.log
               /\ Apply(server, q).multi = server.multi
               /\ Apply(server, q).queued = server.queued
               /\ Apply(server, q).refused = server.refused
               /\ Apply(server, q).protected = server.protected
    <3>1. Len(q) \in Nat /\ \A k \in 1 .. Len(q) : Line[k] = q[k]
      BY <2>2, <2>4
    <3>2. AuthAfter(server, Line, Len(q)) <=> AuthAfter(server, q, Len(q))
      BY <3>1, AuthPrefix
    <3>3. DbAfter(server.db, Line, Len(q)) = DbAfter(server.db, q, Len(q))
      BY <3>1, DbPrefix
    <3> QED
      BY <1>1, <3>2, <3>3 DEF Apply, Servers
  <2>5. Suffix(Line, 1, Line')
    <3>0. server'.queued = <<>>
      BY <1>1, <1>7, <1>13, <2>1 DEF Serve, Apply, Servers
    <3>1. Line' = Tail(b) \o c
      <4>1. Line' = (<<>> \o Tail(b)) \o c
        BY <1>7, <3>0 DEF Line
      <4> QED
        BY <1>1, <4>1, Concat2
    <3>2. Len(Line') = Len(Line) - 1 /\ 1 \in 0 .. Len(Line)
      BY <1>1, <1>5, <2>1, <3>1
    <3>3. ASSUME NEW i \in 1 .. Len(Line') PROVE Line'[i] = Line[1 + i]
      <4>1. CASE i < Len(b)
        <5>1. Line'[i] = b[i + 1]
          BY <1>1, <3>1, <4>1
        <5>2. i + 1 \in 1 .. Len(b) /\ n + (i + 1) = 1 + i
          BY <1>1, <2>1, <4>1
        <5>3. Line[n + (i + 1)] = b[i + 1]
          BY <1>5, <5>2
        <5> QED
          BY <5>1, <5>2, <5>3
      <4>2. CASE i >= Len(b)
        <5>1. PICK k \in Nat : i = (Len(b) - 1) + k
          <6>1. i - (Len(b) - 1) \in Nat /\ i = (Len(b) - 1) + (i - (Len(b) - 1))
            BY <1>2, <4>2
          <6> QED
            BY <6>1
        <5>2. k \in 1 .. Len(c)
          BY <1>1, <1>5, <2>1, <3>2, <4>2, <5>1
        <5>3. Line'[i] = c[k]
          BY <1>1, <3>1, <5>1, <5>2
        <5>4. n + Len(b) + k = 1 + i
          BY <1>1, <2>1, <5>1
        <5>5. Line[n + Len(b) + k] = c[k]
          BY <1>5, <5>2
        <5> QED
          BY <5>3, <5>4, <5>5
      <4> QED
        BY <1>1, <4>1, <4>2
    <3> QED
      BY <3>2, <3>3 DEF Suffix
  <2>6. /\ 1 \in 0 .. Len(Line) /\ 0 \in 0 .. Len(Line) /\ 0 \in 0 .. 1 /\ 1 \in 0 .. 1 /\ NoCall \in Nat
        /\ Len(server.log) \in Nat
    BY <1>1, <2>5 DEF Suffix, NoCall
  <2>7. CASE ~server.auth /\ h.op # "auth"
    <3>1. server' = [server EXCEPT !.refused = @ \cup {h.id}]
      BY <1>7, <2>7 DEF Serve
    <3>2. /\ server'.log = server.log /\ server'.auth = server.auth
          /\ server'.db = server.db
          /\ server'.protected = server.protected
          /\ server'.refused = server.refused \cup {Line[1].id}
          /\ ~server'.multi
      BY <1>1, <1>13, <2>2, <3>1 DEF Servers
    <3>3. Line[1].op = "select" => ~AuthAfter(server, Line, 1 - 1)
      BY <1>9, <2>7
    <3>4. (\A i \in 1 .. 1 : Line[i].op = "select" => AuthAfter(server, Line, i - 1)) => h.op # "select"
      BY <2>2, <3>3
    <3>5. Effect(1, 0, NoCall)
      BY <1>9, <2>2, <2>3, <2>5, <2>6, <2>7, <3>2, <3>4 DEF Effect, Valid
    <3> QED
      BY <2>6, <3>5
  <2>8. CASE ~(~server.auth /\ h.op # "auth") /\ h.op = "multi"
    <3>1. server' = [server EXCEPT !.multi = TRUE]
      BY <1>7, <2>8 DEF Serve
    <3>2. /\ server'.log = server.log /\ server'.auth = server.auth
          /\ server'.db = server.db
          /\ server'.protected = server.protected /\ server'.refused = server.refused
      BY <1>1, <3>1 DEF Servers
    <3>3. Effect(1, 0, NoCall)
      BY <2>2, <2>3, <2>5, <2>6, <2>8, <3>2 DEF Effect, Valid
    <3> QED
      BY <2>6, <3>3
  <2>9. CASE ~(~server.auth /\ h.op # "auth") /\ h.op = "exec"
    <3> DEFINE fresh == [k \in DOMAIN a |-> Execution(a[k], DbAfter(server.db, a, k - 1), h.id)]
    <3>1. server' = [Apply(server, a) EXCEPT !.multi = FALSE, !.queued = <<>>, !.log = @ \o fresh]
      BY <1>7, <2>9 DEF Serve
    <3>2. fresh = <<>>
      BY <2>1
    <3> HIDE DEF fresh
    <3>3. Apply(server, a) \in Servers
      <4>1. Apply(server, a).log = server.log
        BY <2>1, <2>4
      <4>2. DbAfter(server.db, a, Len(a)) = server.db
        BY <2>1, DbZero
      <4>3. AuthAfter(server, a, Len(a)) \in BOOLEAN
        BY DEF AuthAfter
      <4> QED
        BY <1>1, <4>2, <4>3 DEF Apply, Servers
    <3>4. /\ ~server'.multi
          /\ server'.log = server.log /\ (server'.auth <=> server.auth) /\ server'.db = server.db
          /\ server'.protected = server.protected /\ server'.refused = server.refused
      <4>1. /\ server'.log = Apply(server, a).log \o <<>>
            /\ server'.auth = Apply(server, a).auth
            /\ server'.db = Apply(server, a).db
            /\ server'.protected = Apply(server, a).protected
            /\ server'.refused = Apply(server, a).refused
            /\ ~server'.multi
        BY <3>1, <3>2, <3>3 DEF Servers
      <4>2. server.log \o <<>> = server.log
        BY <1>1
      <4> QED
        BY <1>9, <1>10, <2>1, <2>4, <4>1, <4>2
    <3>5. Effect(1, 0, NoCall)
      BY <2>3, <2>5, <2>6, <2>9, <3>4 DEF Effect, Valid
    <3> QED
      BY <2>6, <3>5
  <2>10. CASE ~(~server.auth /\ h.op # "auth") /\ h.op = "data"
    <3>1. server' = [server EXCEPT !.log = Append(@, Execution(h, server.db, NoCall))]
      BY <1>7, <1>13, <2>10 DEF Serve
    <3>2. /\ ~server'.multi
          /\ server'.log = Append(server.log, Execution(h, server.db, NoCall))
          /\ server'.auth = server.auth /\ server'.db = server.db
          /\ server'.protected = server.protected /\ server'.refused = server.refused
      BY <1>1, <1>13, <3>1 DEF Servers
    <3>3. /\ Len(server'.log) = Len(server.log) + 1
          /\ \A k \in 1 .. Len(server.log) : server'.log[k] = server.log[k]
          /\ server'.log[Len(server.log) + 1] = Execution(h, server.db, NoCall)
      BY <1>1, <3>2
    <3>4. \A k \in 1 .. 1 : server'.log[Len(server.log) + k]
                            = Execution(Line[k], DbAfter(server.db, Line, k - 1), NoCall)
      BY <1>10, <2>2, <3>3
    <3>5. Effect(1, 1, NoCall)
      BY <2>3, <2>5, <2>6, <2>10, <3>2, <3>3, <3>4 DEF Effect, Valid
    <3> QED
      BY <2>6, <3>5
  <2>11. CASE ~(~server.auth /\ h.op # "auth") /\ h.op \notin {"data", "multi", "exec"}
    <3>1. server' = Apply(server, <<h>>)
      BY <1>7, <1>13, <2>11 DEF Serve
    <3>2. /\ ~server'.multi
          /\ server'.log = server.log /\ (server'.auth <=> AuthAfter(server, Line, 1)) /\ server'.db = DbAfter(server.db, Line, 1)
          /\ server'.protected = server.protected /\ server'.refused = server.refused
      <4>1. Len(<<h>>) = 1
        OBVIOUS
      <4> QED
        BY <1>13, <2>4, <3>1, <4>1
    <3>3. Effect(1, 0, NoCall)
      BY <2>5, <2>6, <3>2 DEF Effect
    <3> QED
      BY <2>6, <3>3
  <2> QED
    BY <2>7, <2>8, <2>9, <2>10, <2>11
<1> QED
  BY <1>8, <1>11, <1>12, <1>13

\* Where the parts of Line are.
LEMMA LineParts ==
  ASSUME TypeInv
  PROVE  /\ Line \in Seq(Requests)
         /\ server.queued \in Seq(Requests)
         /\ Len(Line) = Len(server.queued) + Len(wire) + Len(m_buffer)
         /\ Len(server.queued) \in Nat /\ Len(wire) \in Nat /\ Len(m_buffer) \in Nat
         /\ \A i \in 1 .. Len(server.queued) : Line[i] = server.queued[i]
         /\ wire # <<>> => Line[Len(server.queued) + 1] = Head(wire)
<1>1. server.queued \in Seq(Requests) /\ wire \in Seq(Requests) /\ m_buffer \in Seq(Requests)
  BY DEF TypeInv, Servers
<1>2. PICK a \in Seq(Requests) : a = server.queued
  BY <1>1
<1>3. /\ Line \in Seq(Requests)
      /\ Len(Line) = Len(a) + Len(wire) + Len(m_buffer)
      /\ \A i \in 1 .. Len(a) : Line[i] = a[i]
      /\ \A i \in 1 .. Len(wire) : Line[Len(a) + i] = wire[i]
  BY <1>1, <1>2, Concat3, SMTT(30) DEF Line
<1>4. Len(a) \in Nat /\ Len(wire) \in Nat /\ Len(m_buffer) \in Nat
  BY <1>1, <1>2
<1>5. wire # <<>> => 1 \in 1 .. Len(wire) /\ Head(wire) = wire[1]
  BY <1>1
<1> QED
  BY <1>1, <1>2, <1>3, <1>4, <1>5

\* A call appends its request to Line.
LEMMA CallLine ==
  ASSUME TypeInv, NEW op \in Ops, NEW arg, Call(op, arg),
         Request(op, arg, Len(calls) + 1) \in Requests
  PROVE  Line' = Append(Line, Request(op, arg, Len(calls) + 1))
<1> DEFINE r == Request(op, arg, Len(calls) + 1)
<1>1. /\ server.queued \in Seq(Requests) /\ wire \in Seq(Requests)
      /\ m_buffer \in Seq(Requests)
  BY DEF TypeInv, Servers
<1>2. Line' = server.queued \o wire \o Append(m_buffer, r)
  BY DEF Call, unprotected_send, Line
<1>3. ASSUME NEW a \in Seq(Requests), NEW b \in Seq(Requests), NEW c \in Seq(Requests), NEW e \in Requests
      PROVE  a \o b \o Append(c, e) = Append(a \o b \o c, e)
  OBVIOUS
<1> HIDE DEF r
<1>4. r \in Requests
  BY DEF r
<1>5. server.queued \o wire \o Append(m_buffer, r) = Append(server.queued \o wire \o m_buffer, r)
  BY <1>1, <1>3, <1>4, Zenon
<1> QED
  BY <1>2, <1>5 DEF Line, r

\* A commit moves requests within Line.
LEMMA CommitLine ==
  ASSUME TypeInv, Commit, conn = "up"
  PROVE  Line' = Line
<1>1. /\ server.queued \in Seq(Requests) /\ wire \in Seq(Requests)
      /\ m_buffer \in Seq(Requests)
  BY DEF TypeInv, Servers
<1>2. Line' = server.queued \o (wire \o m_buffer) \o <<>>
  BY DEF Commit, Line
<1>3. ASSUME NEW a \in Seq(Requests), NEW b \in Seq(Requests), NEW c \in Seq(Requests)
      PROVE  a \o (b \o c) \o <<>> = a \o b \o c
  OBVIOUS
<1>4. server.queued \o (wire \o m_buffer) \o <<>> = server.queued \o wire \o m_buffer
  BY <1>1, <1>3, Zenon
<1> QED
  BY <1>2, <1>4 DEF Line

\* What reconnect() restores.
LEMMA RestoredParts ==
  ASSUME TypeInv
  PROVE  /\ restored \in Seq(Requests)
         /\ Len(restored) \in Nat
         /\ \A i \in 1 .. Len(restored) :
              /\ restored[i].id = NoCall
              /\ restored[i].op \in {"auth", "select"}
              /\ restored[i].op = "auth" => restored[i].arg = m_password
              /\ restored[i].op = "select" => restored[i].arg = m_database_index /\ m_database_index # 0
         /\ m_password # "" => Len(restored) > 0 /\ restored[1].op = "auth"
         /\ m_database_index # 0 => \E i \in 1 .. Len(restored) : restored[i].op = "select"
         /\ m_password = "" /\ m_database_index = 0 => restored = <<>>
<1>1. restored \in Seq(Requests)
  BY RestoredType
<1>2. m_database_index \in Nat
  BY IndexType DEF TypeInv
<1> DEFINE A == Request("auth", m_password, NoCall)
           B == Request("select", m_database_index, NoCall)
<1>3. re_auth = IF m_password = "" THEN <<>> ELSE <<A>>
  BY DEF re_auth
<1>4. re_select = IF m_database_index = 0 THEN <<>> ELSE <<B>>
  BY <1>2 DEF re_select
<1>5. /\ A.id = NoCall /\ A.op = "auth" /\ A.arg = m_password
      /\ B.id = NoCall /\ B.op = "select" /\ B.arg = m_database_index
  BY DEF Request
<1> HIDE DEF A, B
<1>10. ASSUME NEW S, NEW a \in S, NEW b \in S
       PROVE  /\ <<>> \o <<>> = <<>>
              /\ <<a>> \o <<>> = <<a>>
              /\ <<>> \o <<b>> = <<b>>
              /\ Len(<<a>> \o <<b>>) = 2
              /\ (<<a>> \o <<b>>)[1] = a
              /\ (<<a>> \o <<b>>)[2] = b
  OBVIOUS
<1>11. /\ <<>> \o <<>> = <<>>
       /\ <<A>> \o <<>> = <<A>>
       /\ <<>> \o <<B>> = <<B>>
       /\ Len(<<A>> \o <<B>>) = 2
       /\ (<<A>> \o <<B>>)[1] = A
       /\ (<<A>> \o <<B>>)[2] = B
  <2>1. A \in {A, B} /\ B \in {A, B}
    OBVIOUS
  <2> QED
    BY <1>10, <2>1, Zenon
<1>13. PICK w \in Seq(Requests) : w = restored
  BY <1>1
<1>12. ASSUME NEW i \in 1 .. Len(w),
              w[i] = A \/ (w[i] = B /\ m_database_index # 0)
       PROVE  /\ w[i].id = NoCall
              /\ w[i].op \in {"auth", "select"}
              /\ w[i].op = "auth" => w[i].arg = m_password
              /\ w[i].op = "select" => w[i].arg = m_database_index /\ m_database_index # 0
  BY <1>5, <1>12
<1>6. CASE m_password = "" /\ m_database_index = 0
  <2>1. w = <<>>
    BY <1>13, <1>3, <1>4, <1>6, <1>11 DEF restored
  <2>2. Len(w) = 0
    BY <2>1
  <2>3. 1 .. Len(w) = {}
    BY <2>2
  <2>4. \A i \in 1 .. Len(w) : w[i] = A \/ (w[i] = B /\ m_database_index # 0)
    BY <1>6, <2>2, <2>3, Zenon
  <2>5. m_password # "" => Len(w) > 0 /\ w[1].op = "auth"
    <3>1. m_password # "" => Len(w) > 0
      BY <1>6, <2>2
    <3> QED
      BY <1>5, <1>6, <2>2, <3>1, Zenon
  <2>8. m_database_index # 0 => \E i \in 1 .. Len(w) : w[i].op = "select"
    BY <1>5, <1>6, <2>2, <2>3, Zenon
  <2>6. m_password = "" /\ m_database_index = 0 => w = <<>>
    BY <1>6, <2>1
  <2>7. Len(w) \in Nat
    BY <2>2
  <2> QED
    BY <1>1, <1>13, <1>12, <2>4, <2>5, <2>6, <2>7, <2>8, Zenon
<1>7. CASE m_password = "" /\ m_database_index # 0
  <2>1. w = <<B>>
    BY <1>13, <1>3, <1>4, <1>7, <1>11 DEF restored
  <2>2. Len(w) = 1 /\ w[1] = B
    BY <2>1
  <2>3. 1 .. Len(w) = {1}
    BY <2>2
  <2>4. \A i \in 1 .. Len(w) : w[i] = A \/ (w[i] = B /\ m_database_index # 0)
    BY <1>7, <2>2, <2>3, Zenon
  <2>5. m_password # "" => Len(w) > 0 /\ w[1].op = "auth"
    <3>1. m_password # "" => Len(w) > 0
      BY <1>7, <2>2
    <3> QED
      BY <1>5, <1>7, <2>2, <3>1, Zenon
  <2>8. m_database_index # 0 => \E i \in 1 .. Len(w) : w[i].op = "select"
    BY <1>5, <1>7, <2>2, <2>3, Zenon
  <2>6. m_password = "" /\ m_database_index = 0 => w = <<>>
    BY <1>7, <2>1
  <2>7. Len(w) \in Nat
    BY <2>2
  <2> QED
    BY <1>1, <1>13, <1>12, <2>4, <2>5, <2>6, <2>7, <2>8, Zenon
<1>8. CASE m_password # "" /\ m_database_index = 0
  <2>1. w = <<A>>
    BY <1>13, <1>3, <1>4, <1>8, <1>11 DEF restored
  <2>2. Len(w) = 1 /\ w[1] = A
    BY <2>1
  <2>3. 1 .. Len(w) = {1}
    BY <2>2
  <2>4. \A i \in 1 .. Len(w) : w[i] = A \/ (w[i] = B /\ m_database_index # 0)
    BY <1>8, <2>2, <2>3, Zenon
  <2>5. m_password # "" => Len(w) > 0 /\ w[1].op = "auth"
    <3>1. Len(w) > 0
      BY <2>2
    <3> QED
      BY <1>5, <1>8, <2>2, <3>1, Zenon
  <2>8. m_database_index # 0 => \E i \in 1 .. Len(w) : w[i].op = "select"
    BY <1>5, <1>8, <2>2, <2>3, Zenon
  <2>6. m_password = "" /\ m_database_index = 0 => w = <<>>
    BY <1>8, <2>1
  <2>7. Len(w) \in Nat
    BY <2>2
  <2> QED
    BY <1>1, <1>13, <1>12, <2>4, <2>5, <2>6, <2>7, <2>8, Zenon
<1>9. CASE m_password # "" /\ m_database_index # 0
  <2>1. w = <<A>> \o <<B>>
    BY <1>13, <1>3, <1>4, <1>9 DEF restored
  <2>2. Len(w) = 2 /\ w[1] = A /\ w[2] = B
    BY <1>11, <2>1
  <2>3. 1 .. Len(w) = {1, 2}
    BY <2>2
  <2>4. \A i \in 1 .. Len(w) : w[i] = A \/ (w[i] = B /\ m_database_index # 0)
    BY <1>9, <2>2, <2>3, Zenon
  <2>5. m_password # "" => Len(w) > 0 /\ w[1].op = "auth"
    <3>1. Len(w) > 0
      BY <2>2
    <3> QED
      BY <1>5, <1>9, <2>2, <3>1, Zenon
  <2>8. m_database_index # 0 => \E i \in 1 .. Len(w) : w[i].op = "select"
    BY <1>5, <1>9, <2>2, <2>3, Zenon
  <2>6. m_password = "" /\ m_database_index = 0 => w = <<>>
    BY <1>9, <2>1
  <2>7. Len(w) \in Nat
    BY <2>2
  <2> QED
    BY <1>1, <1>13, <1>12, <2>4, <2>5, <2>6, <2>7, <2>8, Zenon
<1> QED
  BY <1>6, <1>7, <1>8, <1>9

\* After reconnect(), Line is what it restores, the pending commands, and what
\* it restores again: re_auth() and re_select() have joined the queue.
LEMMA ReconnectLine ==
  ASSUME TypeInv, Connection, Reconnect
  PROVE  /\ Len(Line') = Len(restored) + Len(m_commands) + Len(restored)
         /\ \A i \in 1 .. Len(restored) : Line'[i] = restored[i]
         /\ \A i \in 1 .. Len(m_commands) : Line'[Len(restored) + i] = m_commands[i]
         /\ \A i \in 1 .. Len(restored) :
              Line'[Len(restored) + Len(m_commands) + i] = restored[i]
         /\ Len(m_commands') = Len(m_commands) + Len(restored)
         /\ \A i \in 1 .. Len(m_commands) : m_commands'[i] = m_commands[i]
         /\ \A i \in 1 .. Len(restored) : m_commands'[Len(m_commands) + i] = restored[i]
<1>1. restored \in Seq(Requests) /\ m_commands \in Seq(Requests)
  BY RestoredType DEF TypeInv
<1>2. server'.queued = <<>>
  BY DEF Reconnect, NewConnection, TypeInv, Servers
<1>3. Line' = <<>> \o (<<>> \o restored \o (m_commands \o restored)) \o <<>>
  BY <1>2 DEF Connection, Reconnect, resend_failed_commands, Line
<1>4. ASSUME NEW a \in Seq(Requests), NEW b \in Seq(Requests)
      PROVE  <<>> \o (<<>> \o a \o (b \o a)) \o <<>> = a \o b \o a
  OBVIOUS
<1>5. Line' = restored \o m_commands \o restored
  BY <1>1, <1>3, <1>4, Zenon
<1>6. m_commands' = m_commands \o restored
  BY DEF Reconnect, resend_failed_commands
<1>7. PICK s \in Seq(Requests) : s = restored
  BY <1>1
<1> QED
  BY <1>1, <1>5, <1>6, <1>7, Concat2, Concat3

(***************************************************************************)
(* The order of requests.                                                  *)
(***************************************************************************)
\* No request is missing of none.
LEMMA SentEmpty == ASSUME NEW c PROVE Sent(c, <<>>)
BY DEF Sent

\* The request of a new call keeps the order.
LEMMA SentAppend ==
  ASSUME NEW c \in Seq(CallRecords), NEW q \in Seq(Requests), Sent(c, q),
         NEW e \in CallRecords, NEW r \in Requests, r.id = Len(c) + 1, r.op = e.op
  PROVE  Sent(Append(c, e), Append(q, r))
<1> DEFINE d == Append(c, e)
           s == Append(q, r)
<1>1. /\ Len(d) = Len(c) + 1 /\ Len(s) = Len(q) + 1 /\ Len(c) \in Nat /\ Len(q) \in Nat
      /\ \A n \in 1 .. Len(c) : d[n] = c[n]
      /\ d[Len(c) + 1] = e
      /\ \A i \in 1 .. Len(q) : s[i] = q[i]
      /\ s[Len(q) + 1] = r
  OBVIOUS
<1>2. \A i \in 1 .. Len(q) : q[i].id \in Nat
  BY RequestType
<1> HIDE DEF d, s
<1>3. ASSUME NEW i \in 1 .. Len(s)
      PROVE  /\ s[i].id <= Len(d)
             /\ s[i].id # NoCall => d[s[i].id].op = s[i].op
             /\ s[i].id = NoCall => s[i].op \in {"auth", "select"}
  <2>1. CASE i = Len(q) + 1
    BY <1>1, <2>1 DEF NoCall
  <2>2. CASE i \in 1 .. Len(q)
    <3>1. q[i].id # NoCall => q[i].id \in 1 .. Len(c)
      BY <1>1, <1>2, <2>2 DEF Sent, NoCall
    <3>2. s[i] = q[i] /\ Len(d) = Len(c) + 1 /\ Len(c) \in Nat
      BY <1>1, <2>2
    <3>3. /\ q[i].id <= Len(c)
          /\ q[i].id # NoCall => c[q[i].id].op = q[i].op
          /\ q[i].id = NoCall => q[i].op \in {"auth", "select"}
      BY <2>2 DEF Sent
    <3>4. q[i].id # NoCall => d[q[i].id] = c[q[i].id]
      BY <1>1, <3>1
    <3>5. q[i].id \in Nat
      BY <1>2, <2>2
    <3> QED
      BY <3>2, <3>3, <3>4, <3>5
  <2> QED
    BY <1>1, <2>1, <2>2
<1>4. ASSUME NEW i \in 1 .. Len(s), NEW j \in 1 .. Len(s),
             i < j, s[i].id # NoCall, s[j].id # NoCall
      PROVE  s[i].id < s[j].id
  <2>1. i \in 1 .. Len(q)
    BY <1>1, <1>4
  <2>2. CASE j = Len(q) + 1
    BY <1>1, <1>2, <2>1, <2>2 DEF Sent
  <2>3. CASE j \in 1 .. Len(q)
    BY <1>1, <1>4, <2>1, <2>3 DEF Sent
  <2> QED
    BY <1>1, <2>2, <2>3
<1>5. ASSUME NEW i \in 1 .. Len(s), NEW n \in 1 .. Len(d), s[i].id # NoCall, s[i].id < n
      PROVE  \E j \in 1 .. Len(s) : s[j].id = n
  <2>1. CASE n = Len(c) + 1
    BY <1>1, <2>1
  <2>2. CASE n \in 1 .. Len(c)
    <3>1. i \in 1 .. Len(q)
      BY <1>1, <1>5, <2>2
    <3>2. PICK j \in 1 .. Len(q) : q[j].id = n
      BY <1>1, <1>5, <2>2, <3>1 DEF Sent
    <3> QED
      BY <1>1, <3>2
  <2> QED
    BY <1>1, <2>1, <2>2
<1>6. Sent(d, s)
  BY <1>3, <1>4, <1>5 DEF Sent
<1> QED
  BY <1>6 DEF d, s

\* So does dropping requests from the front.
LEMMA SentSuffix ==
  ASSUME NEW c, NEW q \in Seq(Requests), Sent(c, q), NEW p, NEW r \in Seq(Requests), Suffix(q, p, r)
  PROVE  Sent(c, r)
<1>1. /\ p \in Nat /\ Len(q) \in Nat /\ Len(r) \in Nat /\ Len(q) = p + Len(r)
      /\ \A i \in 1 .. Len(r) : p + i \in 1 .. Len(q) /\ r[i] = q[p + i]
  BY DEF Suffix
<1>2. ASSUME NEW i \in 1 .. Len(r), NEW j \in 1 .. Len(r),
             i < j, r[i].id # NoCall, r[j].id # NoCall
      PROVE  r[i].id < r[j].id
  <2>1. PICK u \in 1 .. Len(q) : u = p + i /\ r[i] = q[u]
    BY <1>1
  <2>2. PICK v \in 1 .. Len(q) : v = p + j /\ r[j] = q[v]
    BY <1>1
  <2>3. u < v
    BY <1>1, <1>2, <2>1, <2>2
  <2> QED
    BY <1>2, <2>1, <2>2, <2>3 DEF Sent
<1>3. ASSUME NEW i \in 1 .. Len(r), NEW n \in 1 .. Len(c), r[i].id # NoCall, r[i].id < n
      PROVE  \E j \in 1 .. Len(r) : r[j].id = n
  <2>1. PICK k \in 1 .. Len(q) : k = p + i
    BY <1>1
  <2>2. r[i] = q[k]
    BY <1>1, <2>1
  <2>3. q[k].id # NoCall /\ q[k].id < n
    BY <1>3, <2>2
  <2>4. PICK j \in 1 .. Len(q) : q[j].id = n
    BY <2>3 DEF Sent
  <2>5. k < j
    <3>1. q[k].id < q[j].id /\ q[k].id # NoCall /\ q[j].id # NoCall
      BY <1>1, <1>3, <2>1, <2>4 DEF NoCall
    <3>2. q[k].id \in Nat /\ q[j].id \in Nat
      BY RequestType
    <3>3. j < k => q[j].id < q[k].id
      BY <3>1 DEF Sent
    <3> QED
      BY <3>1, <3>2, <3>3
  <2>6. PICK i2 \in Nat : j = p + i2
    <3>1. j - p \in Nat /\ j = p + (j - p)
      BY <1>1, <2>1, <2>5
    <3> QED
      BY <3>1
  <2>7. i2 \in 1 .. Len(r)
    BY <1>1, <2>1, <2>5, <2>6
  <2>8. r[i2].id = n
    BY <1>1, <2>4, <2>6, <2>7
  <2> QED
    BY <2>7, <2>8
<1>4. ASSUME NEW i \in 1 .. Len(r)
      PROVE  /\ r[i].id <= Len(c)
             /\ r[i].id # NoCall => c[r[i].id].op = r[i].op
             /\ r[i].id = NoCall => r[i].op \in {"auth", "select"}
  BY <1>1 DEF Sent
<1> QED
  BY <1>2, <1>3, <1>4 DEF Sent

\* Requests without a call may stand before and after.
LEMMA SentAround ==
  ASSUME NEW c, Len(c) \in Nat, NEW q \in Seq(Requests), Sent(c, q), NEW s, NEW k \in Nat,
         Len(s) \in Nat, Len(s) >= k + Len(q),
         \A i \in 1 .. Len(q) : s[k + i] = q[i],
         \A i \in 1 .. Len(s) : i <= k \/ i > k + Len(q) =>
           s[i].id = NoCall /\ s[i].op \in {"auth", "select"}
  PROVE  Sent(c, s)
<1>1. Len(q) \in Nat /\ \A i \in 1 .. Len(q) : q[i].id \in Nat /\ k + i \in 1 .. Len(s)
  BY RequestType
<1>2. ASSUME NEW i \in 1 .. Len(s), s[i].id # NoCall \/ s[i].op \notin {"auth", "select"}
      PROVE  \E j \in 1 .. Len(q) : i = k + j /\ s[i] = q[j]
  <2>1. i > k /\ i <= k + Len(q)
    BY <1>2
  <2>2. i - k \in 1 .. Len(q) /\ i = k + (i - k)
    BY <1>1, <2>1
  <2> QED
    BY <2>2
<1>3. ASSUME NEW i \in 1 .. Len(s)
      PROVE  /\ s[i].id <= Len(c)
             /\ s[i].id # NoCall => c[s[i].id].op = s[i].op
             /\ s[i].id = NoCall => s[i].op \in {"auth", "select"}
  <2>1. CASE s[i].id # NoCall \/ s[i].op \notin {"auth", "select"}
    <3>1. PICK j \in 1 .. Len(q) : i = k + j /\ s[i] = q[j]
      BY <1>2, <2>1
    <3> QED
      BY <3>1 DEF Sent
  <2>2. CASE ~(s[i].id # NoCall \/ s[i].op \notin {"auth", "select"})
    BY <2>2 DEF NoCall
  <2> QED
    BY <2>1, <2>2
<1>4. ASSUME NEW i \in 1 .. Len(s), NEW j \in 1 .. Len(s),
             i < j, s[i].id # NoCall, s[j].id # NoCall
      PROVE  s[i].id < s[j].id
  <2>1. PICK u \in 1 .. Len(q) : i = k + u /\ s[i] = q[u]
    BY <1>2, <1>4
  <2>2. PICK v \in 1 .. Len(q) : j = k + v /\ s[j] = q[v]
    BY <1>2, <1>4
  <2>3. u < v
    BY <1>4, <2>1, <2>2
  <2> QED
    BY <1>4, <2>1, <2>2, <2>3 DEF Sent
<1>5. ASSUME NEW i \in 1 .. Len(s), NEW n \in 1 .. Len(c), s[i].id # NoCall, s[i].id < n
      PROVE  \E j \in 1 .. Len(s) : s[j].id = n
  <2>1. PICK u \in 1 .. Len(q) : i = k + u /\ s[i] = q[u]
    BY <1>2, <1>5
  <2>2. q[u].id # NoCall /\ q[u].id < n
    BY <1>5, <2>1
  <2>3. PICK v \in 1 .. Len(q) : q[v].id = n
    BY <2>2 DEF Sent
  <2>4. k + v \in 1 .. Len(s) /\ s[k + v].id = n
    BY <1>1, <2>3
  <2> QED
    BY <2>4
<1> QED
  BY <1>3, <1>4, <1>5 DEF Sent

(***************************************************************************)
(* Transactions.                                                           *)
(***************************************************************************)
\* A call of the application, with what it appends.
LEMMA CallParts ==
  ASSUME TypeInv, NEW op \in Ops, NEW arg, Call(op, arg),
         op = "auth" => arg \in Passwords,
         op = "select" => arg \in Indexes,
         op \notin {"auth", "select"} => arg = 0
  PROVE  /\ [op |-> op, arg |-> arg] \in CallRecords
         /\ Request(op, arg, Len(calls) + 1) \in Requests
         /\ calls' = Append(calls, [op |-> op, arg |-> arg])
         /\ m_commands' = Append(m_commands, Request(op, arg, Len(calls) + 1))
         /\ Line' = Append(Line, Request(op, arg, Len(calls) + 1))
         /\ conn' = conn /\ server' = server
<1>1. Len(calls) + 1 \in Nat
  <2>1. calls \in Seq(CallRecords)
    BY DEF TypeInv
  <2> QED
    BY <2>1
<1>2. [op |-> op, arg |-> arg] \in CallRecords /\ Request(op, arg, Len(calls) + 1) \in Requests
  BY <1>1, MakeRequest
<1>3. Line' = Append(Line, Request(op, arg, Len(calls) + 1))
  BY <1>2, CallLine
<1> QED
  BY <1>2, <1>3 DEF Call, unprotected_send

\* Every step of the application, seen as a call.
LEMMA Calling ==
  ASSUME \/ \E p \in Passwords : auth(p)
         \/ \E i \in Indexes : select(i)
         \/ \E op \in {"data", "multi", "exec"} : send(op)
  PROVE  \E op \in Ops, arg \in Passwords \cup Indexes \cup {0} :
           /\ Call(op, arg)
           /\ op = "auth" => arg \in Passwords
           /\ op = "select" => arg \in Indexes
           /\ op \notin {"auth", "select"} => arg = 0
           /\ op = "multi" => ~InTransaction
<1>1. ASSUME NEW p \in Passwords, auth(p)
      PROVE  Call("auth", p) /\ "auth" \in Ops /\ p \in Passwords \cup Indexes \cup {0}
  BY <1>1 DEF auth, Ops
<1>2. ASSUME NEW i \in Indexes, select(i)
      PROVE  Call("select", i) /\ "select" \in Ops /\ i \in Passwords \cup Indexes \cup {0}
  BY <1>2 DEF select, Ops
<1>3. ASSUME NEW op \in {"data", "multi", "exec"}, send(op)
      PROVE  Call(op, 0) /\ op \in Ops /\ 0 \in Passwords \cup Indexes \cup {0} /\ op \notin {"auth", "select"}
             /\ (op = "multi" => ~InTransaction)
  BY <1>3 DEF send, Ops
<1>4. CASE \E p \in Passwords : auth(p)
  <2>1. PICK p \in Passwords : auth(p)
    BY <1>4
  <2> QED
    BY <1>1, <2>1
<1>5. CASE \E i \in Indexes : select(i)
  <2>1. PICK i \in Indexes : select(i)
    BY <1>5
  <2> QED
    BY <1>2, <2>1
<1>6. CASE \E op \in {"data", "multi", "exec"} : send(op)
  <2>1. PICK op \in {"data", "multi", "exec"} : send(op)
    BY <1>6
  <2>2. Call(op, 0) /\ op \in Ops /\ 0 \in Passwords \cup Indexes \cup {0} /\ op \notin {"auth", "select"}
             /\ (op = "multi" => ~InTransaction)
    BY <1>3, <2>1
  <2> QED
    BY <2>2, Zenon
<1> QED
  BY <1>4, <1>5, <1>6

\* The steps of the application.
Calls ==
  \/ \E p \in Passwords : auth(p)
  \/ \E i \in Indexes : select(i)
  \/ \E op \in {"data", "multi", "exec"} : send(op)

\* After a call there is a last one of its kind.
LEMMA LastExists ==
  ASSUME NEW op, NEW n \in Nat, NEW k \in 1 .. n, calls[k].op = op
  PROVE  \E j \in LastCall(op, n) : k <= j
<1> DEFINE S == {j \in 1 .. n : calls[j].op = op}
<1>1. S \subseteq 1 .. n /\ k \in S
  OBVIOUS
<1>2. Max(S) \in S /\ \A j \in S : j <= Max(S)
  <2> HIDE DEF S
  <2> QED
    BY <1>1, MaxOf
<1>3. Max(S) \in LastCall(op, n)
  <2>1. ASSUME NEW j \in Max(S) + 1 .. n PROVE calls[j].op # op
    BY <1>1, <1>2, <2>1
  <2> QED
    BY <1>2, <2>1 DEF LastCall
<1> QED
  BY <1>1, <1>2, <1>3

\* multi() is not called within a transaction.
LEMMA AlternateStep ==
  ASSUME TypeInv, Alternate(calls), NEW e \in CallRecords, e.op = "multi" => ~InTransaction
  PROVE  Alternate(Append(calls, e))
<1> DEFINE d == Append(calls, e)
<1>0. calls \in Seq(CallRecords)
  BY DEF TypeInv
<1>1. /\ Len(d) = Len(calls) + 1 /\ Len(calls) \in Nat
      /\ \A n \in 1 .. Len(calls) : d[n] = calls[n]
      /\ d[Len(calls) + 1] = e
  BY <1>0
<1> HIDE DEF d
<1>2. ASSUME NEW a \in 1 .. Len(d), NEW b \in 1 .. Len(d), a < b, d[a].op = "multi", d[b].op = "multi"
      PROVE  \E x \in a .. b : d[x].op = "exec"
  <2>1. a \in 1 .. Len(calls)
    BY <1>1, <1>2
  <2>2. CASE b \in 1 .. Len(calls)
    <3>1. PICK x \in a .. b : calls[x].op = "exec"
      BY <1>1, <1>2, <2>1, <2>2 DEF Alternate
    <3> QED
      BY <1>1, <2>2, <3>1
  <2>3. CASE b = Len(calls) + 1
    <3>1. ~InTransaction
      BY <1>1, <1>2, <2>3
    <3>2. PICK k \in LastCall("multi", Len(calls)) : a <= k
      BY <1>1, <1>2, <2>1, LastExists
    <3>3. PICK x \in LastCall("exec", Len(calls)) : ~(x < k)
      BY <3>1, <3>2 DEF InTransaction
    <3>4. k \in 1 .. Len(calls) /\ x \in 1 .. Len(calls) /\ calls[x].op = "exec"
      BY <3>2, <3>3 DEF LastCall
    <3>5. x \in a .. b /\ d[x].op = "exec"
      BY <1>1, <2>3, <3>2, <3>3, <3>4
    <3> QED
      BY <3>5
  <2> QED
    BY <1>1, <2>2, <2>3
<1>3. Alternate(d)
  BY <1>2 DEF Alternate
<1> QED
  BY <1>3 DEF d

\* The server never sees a MULTI in a transaction.
LEMMA NoNested ==
  ASSUME TypeInv, Connection, Order, Transaction, Execute, server.multi
  PROVE  Head(wire).op # "multi"
<1>1. SUFFICES ASSUME Head(wire).op = "multi" PROVE FALSE
  OBVIOUS
<1>2. conn = "up" /\ wire # <<>>
  BY DEF Execute, Connection
<1>3. Sent(calls, Line) /\ Alternate(calls)
  BY <1>2 DEF Order
<1>4. PICK m \in 1 .. Len(calls) : OpenAt(calls, Line, m)
  BY <1>2 DEF Transaction
<1>5. PICK n \in Nat : n = Len(server.queued)
  BY LineParts
<1>6. /\ Line \in Seq(Requests)
      /\ Line[n + 1] = Head(wire)
      /\ n + 1 \in 1 .. Len(Line)
      /\ \A i \in 1 .. n : Line[i] = server.queued[i]
  <2>1. Len(wire) # 0
    <3>1. wire \in Seq(Requests)
      BY DEF TypeInv
    <3> QED
      BY <1>2, <3>1
  <2> QED
    BY <1>2, <1>5, <2>1, LineParts
<1>7. Line[n + 1].id # NoCall /\ Line[n + 1].id \in 1 .. Len(calls) /\ calls[Line[n + 1].id].op = "multi"
  <2>1. Line[n + 1] \in Requests
    BY <1>6
  <2>2. Line[n + 1].id \in Nat
    BY <2>1, RequestType
  <2> QED
    BY <1>1, <1>3, <1>6, <2>2 DEF Sent, NoCall
<1>8. m < Line[n + 1].id /\ calls[m].op = "multi"
  BY <1>4, <1>6, <1>7 DEF OpenAt
<1>9. PICK x \in m .. Line[n + 1].id : calls[x].op = "exec"
  BY <1>3, <1>7, <1>8 DEF Alternate
<1>10. x \in m + 1 .. Len(calls) /\ x < Line[n + 1].id
  BY <1>7, <1>8, <1>9
<1>11. PICK i \in 1 .. Len(Line) : Line[i].id = x
  BY <1>4, <1>10 DEF OpenAt
<1>12. i < n + 1
  <2>1. n + 1 < i => Line[n + 1].id < Line[i].id
    BY <1>3, <1>6, <1>7, <1>10, <1>11 DEF Sent, NoCall
  <2> QED
    BY <1>6, <1>7, <1>10, <1>11, <2>1
<1>13. Line[i].op = "exec"
  BY <1>3, <1>9, <1>10, <1>11 DEF Sent, NoCall
<1>14. i \in 1 .. n
  BY <1>12
<1> QED
  BY <1>5, <1>6, <1>13, <1>14 DEF Transaction

\* Every step preserves Order.
LEMMA OrderStep ==
  ASSUME TypeInv, TypeInv', Connection, Order, Transaction, [Next]_vars
  PROVE  Order'
<1>1. /\ calls \in Seq(CallRecords) /\ m_commands \in Seq(Requests) /\ Line \in Seq(Requests)
      /\ Line' \in Seq(Requests) /\ Len(calls) \in Nat
  <2>1. calls \in Seq(CallRecords) /\ m_commands \in Seq(Requests)
    BY DEF TypeInv
  <2>2. Line \in Seq(Requests) /\ Line' \in Seq(Requests)
    <3>1. Line' \in Seq(Requests)
      BY Concat3 DEF TypeInv, Line, Servers
    <3> QED
      BY <3>1, LineType
  <2> QED
    BY <2>1, <2>2
<1>2. CASE Calls
  <2>1. PICK op \in Ops, arg \in Passwords \cup Indexes \cup {0} :
           /\ Call(op, arg)
           /\ op = "auth" => arg \in Passwords
           /\ op = "select" => arg \in Indexes
           /\ op \notin {"auth", "select"} => arg = 0
           /\ op = "multi" => ~InTransaction
    BY <1>2, Calling DEF Calls
  <2> DEFINE e == [op |-> op, arg |-> arg]
             r == Request(op, arg, Len(calls) + 1)
  <2>2. /\ e \in CallRecords /\ r \in Requests /\ calls' = Append(calls, e)
        /\ m_commands' = Append(m_commands, r) /\ Line' = Append(Line, r)
        /\ conn' = conn /\ server' = server
    BY <2>1, CallParts
  <2>3. r.id = Len(calls) + 1 /\ r.op = e.op /\ (e.op = "multi" => ~InTransaction)
    BY <2>1 DEF Request
  <2> HIDE DEF e, r
  <2>4. Alternate(calls')
    BY <2>2, <2>3, AlternateStep DEF Order
  <2>5. Sent(calls', m_commands')
    BY <1>1, <2>2, <2>3, SentAppend DEF Order
  <2>6. conn' = "up" => Sent(calls', Line')
    BY <1>1, <2>2, <2>3, SentAppend DEF Order
  <2> QED
    BY <2>4, <2>5, <2>6 DEF Order
<1>3. CASE Commit
  <2>1. conn' = "up" => Line' = Line
    BY <1>3, CommitLine DEF Commit
  <2>2. m_commands' = m_commands \/ m_commands' = <<>>
    BY <1>3 DEF Commit, clear_callbacks
  <2>3. calls' = calls /\ conn' = conn
    BY <1>3 DEF Commit
  <2> QED
    BY <2>1, <2>2, <2>3, SentEmpty DEF Order
<1>4. CASE Receive
  <2>1. Sent(calls, m_commands')
    <3>1. CASE m_commands = <<>>
      BY <1>4, <3>1, SentEmpty DEF Receive
    <3>2. CASE m_commands # <<>>
      <4>1. m_commands' = Tail(m_commands) /\ Tail(m_commands) \in Seq(Requests)
        BY <1>1, <1>4, <3>2 DEF Receive
      <4>2. Suffix(m_commands, 1, Tail(m_commands))
        BY <1>1, <3>2 DEF Suffix
      <4> QED
        BY <1>1, <4>1, <4>2, SentSuffix DEF Order
    <3> QED
      BY <3>1, <3>2
  <2>2. calls' = calls /\ conn' = conn /\ Line' = Line
    BY <1>4 DEF Receive, Line
  <2> QED
    BY <2>1, <2>2 DEF Order
<1>5. CASE Execute
  <2>1. server.multi => Head(wire).op # "multi"
    BY <1>5, NoNested
  <2>2. PICK p, g \in 0 .. Len(Line), x \in Nat : Effect(p, g, x)
    BY <1>5, <2>1, ServeEffect
  <2>3. Suffix(Line, p, Line')
    BY <2>2 DEF Effect
  <2>4. calls' = calls /\ m_commands' = m_commands /\ conn' = conn
    BY <1>5 DEF Execute, clientVars
  <2>5. conn' = "up" => Sent(calls', Line')
    BY <1>1, <2>3, <2>4, SentSuffix DEF Order
  <2> QED
    BY <2>4, <2>5 DEF Order
<1>6. CASE Drop \/ DropBuffers
  BY <1>6 DEF Drop, DropBuffers, clientVars, Order
<1>7. CASE Reconnect
  <2>1. calls' = calls
    BY <1>7 DEF Reconnect
  <2>2. PICK k \in Nat : k = Len(restored)
    BY RestoredParts
  <2>3. /\ \A i \in 1 .. k : restored[i].id = NoCall /\ restored[i].op \in {"auth", "select"}
    BY <2>2, RestoredParts
  <2>4. PICK n \in Nat : n = Len(m_commands)
    BY <1>1
  <2>5. /\ Len(Line') = k + n + k
        /\ \A i \in 1 .. k : Line'[i] = restored[i]
        /\ \A i \in 1 .. n : Line'[k + i] = m_commands[i]
        /\ \A i \in 1 .. k : Line'[k + n + i] = restored[i]
        /\ Len(m_commands') = n + k
        /\ \A i \in 1 .. n : m_commands'[i] = m_commands[i]
        /\ \A i \in 1 .. k : m_commands'[n + i] = restored[i]
    BY <1>7, <2>2, <2>4, ReconnectLine
  <2>6. ASSUME NEW i \in 1 .. Len(Line'), i <= k \/ i > k + n
        PROVE  Line'[i].id = NoCall /\ Line'[i].op \in {"auth", "select"}
    <3>1. CASE i <= k
      <4>1. i \in 1 .. k
        BY <3>1
      <4>2. Line'[i] = restored[i]
        BY <2>5, <4>1
      <4> QED
        BY <2>3, <4>1, <4>2
    <3>2. CASE i > k + n
      <4>1. i - (k + n) \in 1 .. k /\ k + n + (i - (k + n)) = i
        BY <2>5, <3>2
      <4>2. Line'[i] = restored[i - (k + n)]
        BY <2>5, <4>1
      <4> QED
        BY <2>3, <4>1, <4>2
    <3> QED
      BY <2>6, <3>1, <3>2
  <2>7. Sent(calls, Line')
    <3>1. Len(Line') \in Nat /\ Len(Line') >= k + Len(m_commands)
      BY <2>4, <2>5
    <3>2. \A i \in 1 .. Len(m_commands) : Line'[k + i] = m_commands[i]
      BY <2>4, <2>5
    <3>3. \A i \in 1 .. Len(Line') : i <= k \/ i > k + Len(m_commands)
             => Line'[i].id = NoCall /\ Line'[i].op \in {"auth", "select"}
      BY <2>4, <2>6
    <3>4. Sent(calls, m_commands)
      BY DEF Order
    <3> QED
      BY <1>1, <3>1, <3>2, <3>3, <3>4, SentAround
  <2>8. Sent(calls, m_commands')
    <3>1. Len(m_commands') \in Nat /\ Len(m_commands') >= 0 + Len(m_commands)
      BY <2>4, <2>5
    <3>2. \A i \in 1 .. Len(m_commands) : m_commands'[0 + i] = m_commands[i]
      BY <2>4, <2>5
    <3>3. ASSUME NEW i \in 1 .. Len(m_commands'), i <= 0 \/ i > 0 + Len(m_commands)
          PROVE  m_commands'[i].id = NoCall /\ m_commands'[i].op \in {"auth", "select"}
      <4>1. i - n \in 1 .. k /\ n + (i - n) = i
        BY <2>4, <2>5, <3>3
      <4>2. m_commands'[i] = restored[i - n]
        BY <2>5, <4>1
      <4> QED
        BY <2>3, <4>1, <4>2
    <3>4. Sent(calls, m_commands)
      BY DEF Order
    <3> QED
      BY <1>1, <3>1, <3>2, <3>3, <3>4, SentAround
  <2> QED
    BY <2>1, <2>7, <2>8 DEF Order
<1>8. CASE GiveUp
  BY <1>8, SentEmpty DEF GiveUp, clear_callbacks, Order
<1>9. CASE UNCHANGED vars
  BY <1>9 DEF vars, clientVars, Order, Line
<1> QED
  BY <1>2, <1>3, <1>4, <1>5, <1>6, <1>7, <1>8, <1>9 DEF Next, Calls

\* Every step preserves Transaction.
LEMMA TransactionStep ==
  ASSUME TypeInv, TypeInv', Connection, Order, Transaction, [Next]_vars
  PROVE  Transaction'
<1>1. /\ calls \in Seq(CallRecords) /\ Line \in Seq(Requests) /\ Line' \in Seq(Requests)
      /\ Len(calls) \in Nat /\ server \in Servers /\ server.queued \in Seq(Requests)
  <2>1. calls \in Seq(CallRecords) /\ server \in Servers
    BY DEF TypeInv
  <2>2. Line \in Seq(Requests)
    BY LineType
  <2>3. Line' \in Seq(Requests)
    BY Concat3 DEF TypeInv, Line, Servers
  <2>4. server.queued \in Seq(Requests)
    BY <2>1 DEF Servers
  <2> QED
    BY <2>1, <2>2, <2>3, <2>4
<1>2. CASE Calls
  <2>1. PICK op \in Ops, arg \in Passwords \cup Indexes \cup {0} :
           /\ Call(op, arg)
           /\ op = "auth" => arg \in Passwords
           /\ op = "select" => arg \in Indexes
           /\ op \notin {"auth", "select"} => arg = 0
           /\ op = "multi" => ~InTransaction
    BY <1>2, Calling DEF Calls
  <2> DEFINE e == [op |-> op, arg |-> arg]
             r == Request(op, arg, Len(calls) + 1)
  <2>2. /\ e \in CallRecords /\ r \in Requests /\ calls' = Append(calls, e)
        /\ Line' = Append(Line, r) /\ conn' = conn /\ server' = server
    BY <2>1, CallParts
  <2>3. r.id = Len(calls) + 1
    BY DEF Request
  <2> HIDE DEF e, r
  <2>4. /\ Len(calls') = Len(calls) + 1
        /\ \A n \in 1 .. Len(calls) : calls'[n] = calls[n]
        /\ Len(Line') = Len(Line) + 1 /\ Len(Line) \in Nat
        /\ \A i \in 1 .. Len(Line) : Line'[i] = Line[i]
        /\ Line'[Len(Line) + 1] = r
    BY <1>1, <2>2
  <2>5. ASSUME NEW m \in 1 .. Len(calls), OpenAt(calls, Line, m)
        PROVE  OpenAt(calls', Line', m)
    <3>1. \A i \in 1 .. Len(Line') : Line'[i].id # NoCall => m < Line'[i].id
      <4>1. ASSUME NEW i \in 1 .. Len(Line'), Line'[i].id # NoCall
            PROVE  m < Line'[i].id
        <5>1. CASE i = Len(Line) + 1
          BY <1>1, <2>3, <2>4, <5>1
        <5>2. CASE i \in 1 .. Len(Line)
          BY <2>4, <2>5, <4>1, <5>2 DEF OpenAt
        <5>3. i = Len(Line) + 1 \/ i \in 1 .. Len(Line)
          BY <2>4
        <5> QED
          BY <5>1, <5>2, <5>3
      <4> QED
        BY <4>1
    <3>2. ASSUME NEW n \in m + 1 .. Len(calls')
          PROVE  \E i \in 1 .. Len(Line') : Line'[i].id = n
      <4>1. CASE n = Len(calls) + 1
        <5>1. Len(Line) + 1 \in 1 .. Len(Line')
          BY <2>4
        <5>2. Line'[Len(Line) + 1].id = n
          BY <2>3, <2>4, <4>1
        <5> QED
          BY <5>1, <5>2
      <4>2. CASE n \in m + 1 .. Len(calls)
        <5>1. PICK i \in 1 .. Len(Line) : Line[i].id = n
          BY <2>5, <4>2 DEF OpenAt
        <5>2. i \in 1 .. Len(Line') /\ Line'[i] = Line[i]
          BY <2>4
        <5> QED
          BY <5>1, <5>2
      <4>3. n = Len(calls) + 1 \/ n \in m + 1 .. Len(calls)
        <5>1. Len(calls) \in Nat /\ Len(calls') = Len(calls) + 1
          BY <1>1, <2>4
        <5> QED
          BY <5>1
      <4> QED
        BY <4>1, <4>2, <4>3
    <3> QED
      BY <2>4, <2>5, <3>1, <3>2 DEF OpenAt
  <2> QED
    BY <1>1, <2>2, <2>4, <2>5 DEF Transaction
<1>3. ASSUME conn' = "up" => conn = "up" /\ Line' = Line, UNCHANGED <<calls, server>>
      PROVE  Transaction'
  BY <1>3 DEF Transaction
<1>4. CASE Commit
  <2>1. conn' = "up" => conn = "up" /\ Line' = Line
    BY <1>4, CommitLine DEF Commit
  <2> QED
    BY <1>3, <1>4, <2>1 DEF Commit
<1>5. CASE Receive
  BY <1>3, <1>5 DEF Receive, Line
<1>6. CASE Execute
  <2>1. server.multi => Head(wire).op # "multi"
    BY <1>6, NoNested
  <2>2. PICK p, g \in 0 .. Len(Line), x \in Nat : Effect(p, g, x)
    BY <1>6, <2>1, ServeEffect
  <2>3. /\ calls' = calls /\ conn' = conn /\ conn = "up"
        /\ server' = Serve(server, Head(wire)) /\ wire # <<>>
    BY <1>6 DEF Execute, clientVars, Connection
  <2>4. \A i \in 1 .. Len(server'.queued) : server'.queued[i].op \notin {"multi", "exec"}
    <3>1. \/ server'.queued = server.queued
          \/ server'.queued = <<>>
          \/ server'.queued = Append(server.queued, Head(wire)) /\ Head(wire).op \notin {"multi", "exec"}
      BY <1>1, <2>1, <2>3 DEF Serve, Apply, Servers
    <3>2. CASE server'.queued = server.queued
      BY <3>2 DEF Transaction
    <3>3. CASE server'.queued = <<>>
      BY <3>3
    <3>4. CASE server'.queued = Append(server.queued, Head(wire)) /\ Head(wire).op \notin {"multi", "exec"}
      <4>1. Head(wire) \in Requests
        <5>1. wire \in Seq(Requests)
          BY DEF TypeInv
        <5> QED
          BY <2>3, <5>1
      <4>2. /\ Len(server'.queued) = Len(server.queued) + 1
            /\ \A i \in 1 .. Len(server.queued) : server'.queued[i] = server.queued[i]
            /\ server'.queued[Len(server.queued) + 1] = Head(wire)
            /\ Len(server.queued) \in Nat
        <5>1. ASSUME NEW q \in Seq(Requests), NEW h \in Requests
              PROVE  /\ Len(Append(q, h)) = Len(q) + 1
                     /\ \A i \in 1 .. Len(q) : Append(q, h)[i] = q[i]
                     /\ Append(q, h)[Len(q) + 1] = h
                     /\ Len(q) \in Nat
          OBVIOUS
        <5>2. /\ Len(Append(server.queued, Head(wire))) = Len(server.queued) + 1
              /\ \A i \in 1 .. Len(server.queued) : Append(server.queued, Head(wire))[i] = server.queued[i]
              /\ Append(server.queued, Head(wire))[Len(server.queued) + 1] = Head(wire)
              /\ Len(server.queued) \in Nat
          BY <1>1, <4>1, <5>1, Zenon
        <5> QED
          BY <3>4, <5>2, Zenon
      <4> QED
        BY <3>4, <4>2 DEF Transaction
    <3> QED
      BY <3>1, <3>2, <3>3, <3>4
  <2>5. ASSUME server'.multi PROVE \E m \in 1 .. Len(calls) : OpenAt(calls, Line', m)
    <3>1. CASE server.multi
      <4>1. p = 0 /\ Suffix(Line, p, Line')
        BY <2>2, <2>5, <3>1 DEF Effect
      <4>2. PICK m \in 1 .. Len(calls) : OpenAt(calls, Line, m)
        BY <2>3, <3>1 DEF Transaction
      <4>3. Len(Line') = Len(Line) /\ \A i \in 1 .. Len(Line) : Line'[i] = Line[i]
        BY <1>1, <4>1 DEF Suffix
      <4>4. OpenAt(calls, Line', m)
        BY <4>2, <4>3 DEF OpenAt
      <4> QED
        BY <4>4
    <3>2. CASE ~server.multi
      <4>1. p = 1 /\ Suffix(Line, p, Line') /\ Line[1].op = "multi"
        BY <2>2, <2>5, <3>2 DEF Effect
      <4>2. Sent(calls, Line)
        BY <2>3 DEF Order
      <4>3. /\ 1 \in 1 .. Len(Line) /\ Len(Line) \in Nat /\ Len(Line') = Len(Line) - 1
            /\ \A i \in 1 .. Len(Line') : Line'[i] = Line[1 + i]
        BY <1>1, <4>1 DEF Suffix
      <4>4. PICK m \in Nat : m = Line[1].id
        BY <1>1, <4>3, RequestType
      <4>5. m # NoCall /\ m \in 1 .. Len(calls) /\ calls[m].op = "multi"
        BY <4>1, <4>2, <4>3, <4>4 DEF Sent, NoCall
      <4>6. ASSUME NEW i \in 1 .. Len(Line'), Line'[i].id # NoCall PROVE m < Line'[i].id
        <5>1. PICK u \in 1 .. Len(Line) : u = 1 + i
          BY <4>3
        <5>2. 1 < u /\ Line[u] = Line'[i]
          BY <4>3, <5>1
        <5>3. Line[1].id < Line[u].id
          BY <4>2, <4>3, <4>4, <4>5, <4>6, <5>2 DEF Sent
        <5> QED
          BY <4>4, <5>2, <5>3
      <4>7. ASSUME NEW n \in m + 1 .. Len(calls)
            PROVE  \E i \in 1 .. Len(Line') : Line'[i].id = n
        <5>1. n \in 1 .. Len(calls) /\ m < n
          BY <4>5, <4>7
        <5>2. PICK j \in 1 .. Len(Line) : Line[j].id = n
          BY <4>2, <4>3, <4>4, <4>5, <5>1 DEF Sent
        <5>3. j # 1
          BY <4>4, <5>1, <5>2
        <5>4. j - 1 \in 1 .. Len(Line') /\ 1 + (j - 1) = j
          BY <4>3, <5>3
        <5> QED
          BY <4>3, <5>2, <5>4
      <4>8. OpenAt(calls, Line', m)
        BY <4>5, <4>6, <4>7 DEF OpenAt
      <4> QED
        BY <4>5, <4>8
    <3> QED
      BY <3>1, <3>2
  <2> QED
    BY <2>3, <2>4, <2>5 DEF Transaction
<1>7. CASE Drop \/ DropBuffers
  BY <1>3, <1>7 DEF Drop, DropBuffers, clientVars
<1>8. CASE Reconnect
  <2>1. server'.queued = <<>> /\ ~server'.multi
    BY <1>1, <1>8 DEF Reconnect, NewConnection, Servers
  <2> QED
    BY <2>1 DEF Transaction
<1>9. CASE GiveUp
  BY <1>3, <1>9 DEF GiveUp
<1>10. CASE UNCHANGED vars
  BY <1>3, <1>10 DEF vars, clientVars, Line
<1> QED
  BY <1>2, <1>4, <1>5, <1>6, <1>7, <1>8, <1>9, <1>10 DEF Next, Calls

\* What earlier calls decide, later ones leave as it is.
LEMMA LastCallSame ==
  ASSUME NEW n \in Nat, \A k \in 1 .. n : calls'[k] = calls[k], NEW op
  PROVE  LastCall(op, n)' = LastCall(op, n)
BY DEF LastCall

\* The transaction of an EXEC is fixed when exec() is called.
LEMMA TransactionSame ==
  ASSUME NEW x \in Nat, \A k \in 1 .. x : calls'[k] = calls[k]
  PROVE  TransactionOf(x)' = TransactionOf(x)
<1>1. LastCall("multi", x)' = LastCall("multi", x)
  BY LastCallSame
<1> QED
  BY <1>1 DEF TransactionOf

\* What an EXEC finds queued is the transaction it ends.
LEMMA QueuedIsTransaction ==
  ASSUME TypeInv, Order, Transaction, conn = "up", server.multi,
         NEW g \in Nat, g = Len(server.queued), g + 1 \in 1 .. Len(Line), Line[g + 1].op = "exec"
  PROVE  /\ Line[g + 1].id \in 1 .. Len(calls)
         /\ {Line[k].id : k \in {i \in 1 .. g : Line[i].op = "data"}} = TransactionOf(Line[g + 1].id)
<1>1. /\ Line \in Seq(Requests)
      /\ \A i \in 1 .. g : Line[i] = server.queued[i]
      /\ Len(Line) \in Nat
  BY LineParts
<1>2. Sent(calls, Line)
  BY DEF Order
<1>3. PICK m \in 1 .. Len(calls) : OpenAt(calls, Line, m)
  BY DEF Transaction
<1>4. PICK x \in Nat : x = Line[g + 1].id
  BY <1>1, RequestType
<1>5. x # NoCall /\ x \in 1 .. Len(calls) /\ calls[x].op = "exec" /\ m < x /\ calls[m].op = "multi"
  <2>1. m < Line[g + 1].id \/ Line[g + 1].id = NoCall
    BY <1>3 DEF OpenAt
  <2>2. calls[m].op = "multi"
    BY <1>3 DEF OpenAt
  <2>3. /\ x <= Len(calls)
        /\ x # NoCall => calls[x].op = "exec"
        /\ x # NoCall
    BY <1>2, <1>4 DEF Sent
  <2> QED
    BY <1>4, <2>1, <2>2, <2>3 DEF NoCall
<1>6. ASSUME NEW k \in 1 .. Len(calls), m < k, k < x
      PROVE  \E i \in 1 .. g : /\ Line[i].id = k
                               /\ calls[k].op = Line[i].op
                               /\ Line[i].op \notin {"multi", "exec"}
  <2>1. k \in m + 1 .. Len(calls)
    BY <1>6
  <2>2. PICK i \in 1 .. Len(Line) : Line[i].id = k
    BY <1>3, <2>1 DEF OpenAt
  <2>3. i < g + 1
    <3>1. PICK w \in 1 .. Len(Line) : w = g + 1
      OBVIOUS
    <3>2. Line[w].id # NoCall /\ Line[i].id # NoCall
      BY <1>4, <1>5, <2>2, <3>1 DEF NoCall
    <3>3. w < i => Line[w].id < Line[i].id
      BY <1>2, <2>2, <3>2 DEF Sent
    <3>4. Line[w].id = x /\ w # i
      BY <1>4, <1>6, <2>2, <3>1
    <3> QED
      BY <1>6, <2>2, <3>1, <3>3, <3>4
  <2>4. i \in 1 .. g
    BY <2>3
  <2>5. Line[i].op \notin {"multi", "exec"}
    BY <1>1, <2>4 DEF Transaction
  <2>6. Line[i].id # NoCall
    BY <2>2 DEF NoCall
  <2>7. calls[Line[i].id].op = Line[i].op
    BY <1>2, <2>2, <2>6 DEF Sent
  <2> QED
    BY <2>2, <2>4, <2>5, <2>7
<1>7. ASSUME NEW j \in LastCall("multi", x) PROVE j = m
  <2>1. j \in 1 .. x /\ calls[j].op = "multi" /\ \A k \in j + 1 .. x : calls[k].op # "multi"
    BY DEF LastCall
  <2>2. ~(j < m)
    BY <1>5, <2>1
  <2>3. ~(m < j)
    <3>1. SUFFICES ASSUME m < j PROVE FALSE
      OBVIOUS
    <3>2. j # x
      BY <1>5, <2>1
    <3>3. j \in 1 .. Len(calls) /\ j < x
      BY <1>5, <2>1, <3>2
    <3> QED
      BY <1>6, <2>1, <3>1, <3>3
  <2> QED
    BY <2>1, <2>2, <2>3
<1>8. m \in LastCall("multi", x)
  <2>1. ASSUME NEW k \in m + 1 .. x PROVE calls[k].op # "multi"
    <3>1. k = x \/ (k \in 1 .. Len(calls) /\ m < k /\ k < x)
      BY <1>5
    <3> QED
      BY <1>5, <1>6, <3>1
  <2>2. m \in 1 .. x
    BY <1>5
  <2> QED
    BY <1>5, <2>1, <2>2 DEF LastCall
<1>9. TransactionOf(x) = {k \in 1 .. x : calls[k].op = "data" /\ m < k}
  BY <1>7, <1>8 DEF TransactionOf
<1>10. ASSUME NEW i \in 1 .. g, Line[i].op = "data"
       PROVE  Line[i].id \in TransactionOf(x)
  <2>1. i \in 1 .. Len(Line) /\ i < g + 1
    BY <1>1
  <2>2. Line[i].id # NoCall
    BY <1>2, <1>10, <2>1 DEF Sent
  <2>3. m < Line[i].id /\ Line[i].id < x /\ calls[Line[i].id].op = "data"
    BY <1>2, <1>3, <1>4, <1>5, <1>10, <2>1, <2>2 DEF Sent, OpenAt
  <2>4. Line[i].id \in Nat
    BY <1>1, <2>1, RequestType
  <2>5. Line[i].id \in 1 .. x
    BY <2>3, <2>4
  <2> QED
    BY <1>9, <2>3, <2>5
<1>11. ASSUME NEW k \in TransactionOf(x)
       PROVE  \E i \in 1 .. g : Line[i].op = "data" /\ Line[i].id = k
  <2>1. k \in 1 .. x /\ calls[k].op = "data" /\ m < k
    BY <1>9
  <2>2. k # x
    BY <1>5, <2>1
  <2>3. k \in 1 .. Len(calls) /\ k < x
    BY <1>5, <2>1, <2>2
  <2> QED
    BY <1>6, <2>1, <2>3, SMTT(30)
<1>12. {Line[k].id : k \in {i \in 1 .. g : Line[i].op = "data"}} = TransactionOf(x)
  BY <1>10, <1>11
<1> QED
  BY <1>4, <1>5, <1>12

\* A step that executes nothing preserves Log.
LEMMA LogSame ==
  ASSUME TypeInv, Log, server'.log = server.log, Len(calls) <= Len(calls'), Len(calls') \in Nat,
         \A k \in 1 .. Len(calls) : calls'[k] = calls[k]
  PROVE  Log'
<1>0. Len(calls) \in Nat
  <2>1. calls \in Seq(CallRecords)
    BY DEF TypeInv
  <2> QED
    BY <2>1
<1>1. ASSUME NEW k \in 1 .. Len(server'.log)
      PROVE  server'.log[k].id <= Len(calls') /\ server'.log[k].exec <= Len(calls')
  <2>1. server.log[k] \in Entries
    <3>1. server.log \in Seq(Entries)
      BY DEF TypeInv, Servers
    <3> QED
      BY <3>1
  <2>2. server.log[k].id \in Nat /\ server.log[k].exec \in Nat
    BY <2>1 DEF Entries
  <2>3. server.log[k].id <= Len(calls) /\ server.log[k].exec <= Len(calls)
    BY DEF Log
  <2> QED
    BY <1>0, <2>2, <2>3
<1>2. ASSUME NEW x \in 1 .. Len(calls') PROVE Whole(server.log, x)'
  <2>1. CASE x \in 1 .. Len(calls)
    <3>1. x \in Nat /\ \A k \in 1 .. x : calls'[k] = calls[k]
      BY <2>1
    <3>2. TransactionOf(x)' = TransactionOf(x)
      BY <3>1, TransactionSame
    <3> QED
      BY <2>1, <3>2 DEF Log, Whole, ExecutedBy
  <2>2. CASE x > Len(calls)
    <3>1. \A k \in 1 .. Len(server.log) : server.log[k].exec # x
      <4>1. TAKE k \in 1 .. Len(server.log)
      <4>2. server.log[k].exec <= Len(calls) /\ server.log[k] \in Entries
        <5>1. server.log \in Seq(Entries)
          BY DEF TypeInv, Servers
        <5> QED
          BY <5>1 DEF Log
      <4>3. server.log[k].exec \in Nat
        BY <4>2 DEF Entries
      <4> QED
        BY <1>0, <2>2, <4>2, <4>3
    <3>2. ExecutedBy(server'.log, x) = {}
      BY <3>1 DEF ExecutedBy
    <3> QED
      BY <3>2 DEF Whole
  <2> QED
    BY <1>0, <2>1, <2>2
<1> QED
  BY <1>1, <1>2 DEF Log

\* Every step preserves Log: an EXEC adds the executions of its transaction, and
\* what it may have executed on an earlier connection was that too.
LEMMA LogStep ==
  ASSUME TypeInv, TypeInv', Connection, Order, Transaction, Log, [Next]_vars
  PROVE  Log'
<1>1. /\ calls \in Seq(CallRecords) /\ calls' \in Seq(CallRecords) /\ server \in Servers
      /\ Len(calls) \in Nat /\ Len(calls') \in Nat
      /\ server.log \in Seq(Entries) /\ server'.log \in Seq(Entries)
  <2>1. calls \in Seq(CallRecords) /\ calls' \in Seq(CallRecords) /\ server \in Servers /\ server' \in Servers
    BY DEF TypeInv
  <2>2. Len(calls) \in Nat /\ Len(calls') \in Nat
    BY <2>1
  <2> QED
    BY <2>1, <2>2 DEF Servers
<1>2. ASSUME server'.log = server.log, calls' = calls PROVE Log'
  BY <1>1, <1>2, LogSame
<1>3. CASE Calls
  <2>1. PICK op \in Ops, arg \in Passwords \cup Indexes \cup {0} :
           /\ Call(op, arg)
           /\ op = "auth" => arg \in Passwords
           /\ op = "select" => arg \in Indexes
           /\ op \notin {"auth", "select"} => arg = 0
           /\ op = "multi" => ~InTransaction
    BY <1>3, Calling DEF Calls
  <2>2. calls' = Append(calls, [op |-> op, arg |-> arg]) /\ server' = server
    BY <2>1 DEF Call
  <2>3. Len(calls) <= Len(calls') /\ \A k \in 1 .. Len(calls) : calls'[k] = calls[k]
    BY <1>1, <2>2
  <2> QED
    BY <1>1, <2>2, <2>3, LogSame
<1>4. CASE Execute
  <2>1. server.multi => Head(wire).op # "multi"
    BY <1>4, NoNested
  <2>2. PICK p, g \in 0 .. Len(Line), x \in Nat : Effect(p, g, x)
    BY <1>4, <2>1, ServeEffect
  <2>3. calls' = calls /\ conn = "up"
    BY <1>4 DEF Execute, clientVars, Connection
  <2>4. Line \in Seq(Requests) /\ Sent(calls, Line) /\ Len(Line) \in Nat
    <3>1. Line \in Seq(Requests)
      BY LineType
    <3> QED
      BY <2>3, <3>1 DEF Order
  <2>5. PICK l \in Nat : l = Len(server.log)
    BY <1>1
  <2>6. /\ g \in 0 .. p /\ p \in 0 .. Len(Line)
        /\ Len(server'.log) = l + g
        /\ \A k \in 1 .. l : server'.log[k] = server.log[k]
        /\ \A k \in 1 .. g : server'.log[l + k] = Execution(Line[k], DbAfter(server.db, Line, k - 1), x)
        /\ \/ x = NoCall
           \/ server.multi /\ g = Len(server.queued) /\ p = g + 1 /\ Line[p].op = "exec" /\ x = Line[p].id
    BY <2>2, <2>5 DEF Effect
  <2>7. x # NoCall => /\ x \in 1 .. Len(calls)
                      /\ {Line[k].id : k \in {i \in 1 .. g : Line[i].op = "data"}} = TransactionOf(x)
    <3>1. SUFFICES ASSUME x # NoCall
                   PROVE  /\ x \in 1 .. Len(calls)
                          /\ {Line[k].id : k \in {i \in 1 .. g : Line[i].op = "data"}} = TransactionOf(x)
      OBVIOUS
    <3>2. /\ server.multi /\ g = Len(server.queued) /\ g + 1 \in 1 .. Len(Line) /\ g \in Nat
          /\ Line[g + 1].op = "exec" /\ x = Line[g + 1].id
      BY <2>4, <2>6, <3>1
    <3> QED
      BY <2>3, <3>2, QueuedIsTransaction
  <2>8. ASSUME NEW k \in 1 .. g
        PROVE  /\ server'.log[l + k].id = Line[k].id
               /\ server'.log[l + k].op = Line[k].op
               /\ server'.log[l + k].exec = x
    <3>1. server'.log[l + k] = Execution(Line[k], DbAfter(server.db, Line, k - 1), x)
      BY <2>6
    <3>2. ASSUME NEW e, e = Execution(Line[k], DbAfter(server.db, Line, k - 1), x)
          PROVE  e.id = Line[k].id /\ e.op = Line[k].op /\ e.exec = x
      BY <3>2 DEF Execution
    <3> QED
      BY <3>1, <3>2, Zenon
  <2>9. ASSUME NEW k \in 1 .. Len(server'.log)
        PROVE  k \in 1 .. l \/ \E i \in 1 .. g : k = l + i
    <3>1. CASE k <= l
      BY <3>1
    <3>2. CASE k > l
      <4>1. k - l \in 1 .. g /\ k = l + (k - l)
        BY <2>6, <3>2
      <4> QED
        BY <4>1
    <3> QED
      BY <3>1, <3>2
  <2>10. ASSUME NEW k \in 1 .. Len(server'.log)
         PROVE  server'.log[k].id <= Len(calls') /\ server'.log[k].exec <= Len(calls')
    <3>1. CASE k \in 1 .. l
      BY <2>3, <2>5, <2>6, <3>1 DEF Log
    <3>2. CASE \E i \in 1 .. g : k = l + i
      <4>1. PICK i \in 1 .. g : k = l + i
        BY <3>2
      <4>2. i \in 1 .. Len(Line)
        BY <2>4, <2>6
      <4>3. Line[i].id <= Len(calls)
        BY <2>4, <4>2 DEF Sent
      <4>4. x <= Len(calls)
        BY <1>1, <2>7 DEF NoCall
      <4>5. server'.log[k].id = Line[i].id /\ server'.log[k].exec = x
        BY <2>8, <4>1
      <4> QED
        BY <2>3, <4>3, <4>4, <4>5
    <3> QED
      BY <2>9, <3>1, <3>2
  <2>11. ASSUME NEW y \in 1 .. Len(calls), ExecutedBy(server'.log, y) # {}
         PROVE  {server'.log[k].id : k \in ExecutedBy(server'.log, y)} = TransactionOf(y)
    <3> DEFINE old == ExecutedBy(server.log, y)
               new == {i \in 1 .. g : Line[i].op = "data"}
    <3>1. ASSUME NEW k \in old
          PROVE  k \in ExecutedBy(server'.log, y) /\ server'.log[k].id = server.log[k].id
      <4>1. k \in 1 .. Len(server.log) /\ server.log[k].op = "data" /\ server.log[k].exec = y
        BY DEF ExecutedBy
      <4>2. server'.log[k] = server.log[k] /\ k \in 1 .. Len(server'.log)
        BY <2>5, <2>6, <4>1
      <4> QED
        BY <4>1, <4>2 DEF ExecutedBy
    <3>2. ASSUME NEW k \in ExecutedBy(server'.log, y)
          PROVE  \/ k \in old /\ server'.log[k].id = server.log[k].id
                 \/ x = y /\ \E i \in new : k = l + i /\ server'.log[k].id = Line[i].id
      <4>1. /\ k \in 1 .. Len(server'.log) /\ server'.log[k].op = "data"
            /\ server'.log[k].exec = y
        BY DEF ExecutedBy
      <4>2. CASE k \in 1 .. l
        BY <2>5, <2>6, <4>1, <4>2 DEF ExecutedBy
      <4>3. CASE \E i \in 1 .. g : k = l + i
        <5>1. PICK i \in 1 .. g : k = l + i
          BY <4>3
        <5> QED
          BY <2>8, <4>1, <5>1
      <4> QED
        BY <2>9, <4>1, <4>2, <4>3
    <3>3. ASSUME x = y, NEW i \in new
          PROVE  l + i \in ExecutedBy(server'.log, y) /\ server'.log[l + i].id = Line[i].id
      <4>1. i \in 1 .. g /\ l + i \in 1 .. Len(server'.log)
        BY <2>6
      <4> QED
        BY <2>8, <3>3, <4>1 DEF ExecutedBy
    <3>4. old # {} => {server.log[k].id : k \in old} = TransactionOf(y)
      BY DEF Log, Whole
    <3>5. x = y => {Line[k].id : k \in new} = TransactionOf(y)
      BY <2>7 DEF NoCall
    <3> HIDE DEF old, new
    <3>6. CASE x = y
      BY <3>1, <3>2, <3>3, <3>4, <3>5, <3>6
    <3>7. CASE x # y
      BY <2>11, <3>1, <3>2, <3>4, <3>7
    <3> QED
      BY <3>6, <3>7
  <2>12. ASSUME NEW y \in 1 .. Len(calls) PROVE Whole(server.log, y)'
    <3>1. TransactionOf(y)' = TransactionOf(y)
      BY <2>3, TransactionSame
    <3> QED
      BY <2>11, <3>1 DEF Whole
  <2> QED
    BY <2>3, <2>10, <2>12 DEF Log
<1>5. CASE Reconnect
  <2>1. server'.log = server.log
    BY <1>1, <1>5 DEF Reconnect, NewConnection, Servers
  <2> QED
    BY <1>2, <1>5, <2>1 DEF Reconnect
<1>6. CASE Commit
  BY <1>2, <1>6 DEF Commit
<1>7. CASE Receive
  BY <1>2, <1>7 DEF Receive
<1>8. CASE Drop \/ DropBuffers
  BY <1>2, <1>8 DEF Drop, DropBuffers, clientVars
<1>9. CASE GiveUp
  BY <1>2, <1>9 DEF GiveUp
<1>10. CASE UNCHANGED vars
  BY <1>2, <1>10 DEF vars, clientVars
<1> QED
  BY <1>3, <1>4, <1>5, <1>6, <1>7, <1>8, <1>9, <1>10 DEF Next, Calls

\* The invariant holds initially.
LEMMA TransactionInit == Init => TransactionInv
<1> SUFFICES ASSUME Init PROVE TransactionInv
  OBVIOUS
<1>1. TypeInv
  BY TypeInit
<1>2. PICK p \in Protected :
        server = [protected |-> p, auth |-> ~p, db |-> 0, multi |-> FALSE,
                  queued |-> <<>>, log |-> <<>>, refused |-> {}]
  BY DEF Init
<1>3. server.queued = <<>> /\ server.log = <<>> /\ ~server.multi
  BY <1>2
<1>4. Line = <<>> /\ conn = "up" /\ calls = <<>> /\ m_commands = <<>>
  <2>1. <<>> \o <<>> \o <<>> = <<>>
    OBVIOUS
  <2> QED
    BY <1>3, <2>1 DEF Init, Line
<1>5. Connection
  BY <1>3, <1>4 DEF Connection
<1>6. Order
  BY <1>4, SentEmpty DEF Order, Alternate
<1>7. Transaction
  BY <1>3 DEF Transaction
<1>8. Log
  BY <1>3, <1>4 DEF Log
<1> QED
  BY <1>1, <1>5, <1>6, <1>7, <1>8 DEF TransactionInv

\* Every step preserves the invariant.
LEMMA TransactionInvStep ==
  ASSUME Quiet, TransactionInv, [Next]_vars
  PROVE  TransactionInv'
<1>1. TypeInv'
  BY TypeStep DEF TransactionInv
<1>2. Connection'
  BY ConnectionStep DEF TransactionInv
<1>3. Order'
  BY <1>1, OrderStep DEF TransactionInv
<1>4. Transaction'
  BY <1>1, TransactionStep DEF TransactionInv
<1>5. Log'
  BY <1>1, LogStep DEF TransactionInv
<1> QED
  BY <1>1, <1>2, <1>3, <1>4, <1>5 DEF TransactionInv

\* What the server has open or has executed of a transaction is what the
\* application called since its MULTI, over any number of lost connections, if
\* it calls nothing between redis_connection.cpp:190 and client.cpp:317 (Quiet).
THEOREM TransactionInvariance == Quiet /\ Spec => []TransactionInv
<1>1. CASE Quiet
  <2>1. TransactionInv /\ [Next]_vars => TransactionInv'
    BY <1>1, TransactionInvStep
  <2> QED
    BY <2>1, TransactionInit, PTL DEF Spec
<1>2. CASE ~Quiet
  BY <1>2
<1> QED
  BY <1>1, <1>2

\* The invariant is stronger than ExecWhole.
LEMMA TransactionWhole == TransactionInv => ExecWhole
<1> SUFFICES ASSUME TransactionInv, NEW k \in Executions, server.log[k].exec # NoCall
             PROVE  {server.log[j].id : j \in {i \in Executions : server.log[i].exec = server.log[k].exec}}
                      = TransactionOf(server.log[k].exec)
  BY DEF ExecWhole
<1>1. server.log \in Seq(Entries)
  BY DEF TransactionInv, TypeInv, Servers
<1>2. k \in 1 .. Len(server.log) /\ server.log[k] \in Entries
  BY <1>1 DEF Executions
<1>3. PICK x \in Nat : x = server.log[k].exec
  BY <1>2 DEF Entries
<1>4. x \in 1 .. Len(calls)
  <2>1. x <= Len(calls)
    BY <1>2, <1>3 DEF TransactionInv, Log
  <2>2. Len(calls) \in Nat
    <3>1. calls \in Seq(CallRecords)
      BY DEF TransactionInv, TypeInv
    <3> QED
      BY <3>1
  <2> QED
    BY <1>3, <2>1, <2>2 DEF NoCall
<1>5. {i \in Executions : server.log[i].exec = x} = ExecutedBy(server.log, x)
  BY <1>1 DEF Executions, ExecutedBy
<1>6. k \in ExecutedBy(server.log, x)
  BY <1>3, <1>5
<1>7. Whole(server.log, x)
  BY <1>4 DEF TransactionInv, Log
<1> QED
  BY <1>3, <1>5, <1>6, <1>7 DEF Whole

\* An EXEC executes the transaction it ends and all of it (Quiet: a MULTI sent
\* in the window would be written before the commands sent again).
THEOREM WholeTransactions == Quiet /\ Spec => []ExecWhole
BY TransactionInvariance, TransactionWhole, PTL

\* A step that neither calls, executes nor reconnects leaves Line as it is, and
\* at most forgets commands.
Still == Commit \/ Receive \/ Drop \/ DropBuffers \/ GiveUp \/ UNCHANGED vars

\* Such a step only does that.
LEMMA StillStep ==
  ASSUME TypeInv, Connection, Still
  PROVE  /\ UNCHANGED <<calls, m_password, m_database_index, server>>
         /\ conn' = "up" => conn = "up" /\ Line' = Line
         /\ Within(m_commands', m_commands)
<1>1. m_commands \in Seq(Requests)
  BY DEF TypeInv
<1>2. UNCHANGED <<calls, m_password, m_database_index, server>>
  BY DEF Still, Commit, Receive, Drop, DropBuffers, GiveUp, vars, clientVars
<1>3. ASSUME conn' = "up" PROVE conn = "up" /\ Line' = Line
  <2>1. CASE Commit
    BY <1>3, <2>1, CommitLine DEF Commit
  <2>2. CASE Receive \/ Drop \/ DropBuffers \/ GiveUp \/ UNCHANGED vars
    BY <1>3, <2>2 DEF Receive, Drop, DropBuffers, GiveUp, vars, clientVars, Line
  <2> QED
    BY <2>1, <2>2 DEF Still
<1>4. \/ m_commands' = m_commands
      \/ m_commands' = <<>>
      \/ m_commands # <<>> /\ m_commands' = Tail(m_commands)
  BY DEF Still, Commit, Receive, Drop, DropBuffers, GiveUp, clear_callbacks, vars, clientVars
<1>5. ASSUME m_commands # <<>> PROVE Within(Tail(m_commands), m_commands)
  <2>1. \A i \in 1 .. Len(Tail(m_commands)) :
          i + 1 \in 1 .. Len(m_commands) /\ Tail(m_commands)[i] = m_commands[i + 1]
    BY <1>1, <1>5
  <2> QED
    BY <2>1 DEF Within
<1>6. Within(m_commands, m_commands) /\ Within(<<>>, m_commands)
  BY DEF Within
<1> QED
  BY <1>2, <1>3, <1>4, <1>5, <1>6

(***************************************************************************)
(* Passwords.                                                              *)
(***************************************************************************)
\* A call gives the right password or leaves whether it was given.
LEMMA GivenStep ==
  ASSUME NEW c \in Seq(CallRecords), NEW e \in CallRecords, NEW d, d = Append(c, e)
  PROVE  /\ Len(d) = Len(c) + 1 /\ Len(c) \in Nat
         /\ \A n \in 0 .. Len(c) : Given(d, n) <=> Given(c, n)
         /\ Given(d, Len(d)) <=> Given(c, Len(c)) \/ (e.op = "auth" /\ e.arg = "right")
<1>1. /\ Len(d) = Len(c) + 1 /\ Len(c) \in Nat
      /\ \A n \in 1 .. Len(c) : d[n] = c[n]
      /\ d[Len(c) + 1] = e
  OBVIOUS
<1>2. ASSUME NEW n \in 0 .. Len(c) PROVE Given(d, n) <=> Given(c, n)
  <2>1. \A k \in 1 .. n : k \in 1 .. Len(c) /\ d[k] = c[k]
    BY <1>1
  <2> QED
    BY <2>1 DEF Given
<1>3. PICK n \in Nat : n = Len(c)
  BY <1>1
<1>4. 1 .. n + 1 = 1 .. n \cup {n + 1}
  OBVIOUS
<1>5. Given(d, n + 1) <=> Given(c, n) \/ (e.op = "auth" /\ e.arg = "right")
  BY <1>1, <1>3, <1>4 DEF Given
<1> QED
  BY <1>1, <1>2, <1>3, <1>5

\* What holds of the requests to come holds after the first of them.
LEMMA LineAuthSuffix ==
  ASSUME NEW s, s.auth \in BOOLEAN, NEW t, t.auth \in BOOLEAN, t.protected = s.protected,
         NEW q \in Seq(Requests), NEW r \in Seq(Requests), NEW p, Suffix(q, p, r),
         LineAuth(s, q), t.auth <=> AuthAfter(s, q, p)
  PROVE  LineAuth(t, r)
<1>1. /\ p \in Nat /\ Len(q) \in Nat /\ Len(r) \in Nat /\ Len(q) = p + Len(r)
      /\ \A i \in 1 .. Len(r) : p + i \in 1 .. Len(q) /\ r[i] = q[p + i]
  BY DEF Suffix
<1>2. ASSUME NEW n \in Nat, n <= Len(r)
      PROVE  AuthAfter(s, q, p + n) <=> AuthAfter(t, r, n)
  <2>1. \A k \in 1 .. n : q[p + k] = r[k]
    BY <1>1, <1>2
  <2> QED
    <3>1. p \in Nat
      BY <1>1
    <3> QED
      BY <2>1, <3>1, AuthConcat
<1>3. ASSUME NEW i \in 1 .. Len(r), r[i].op = "select" \/ (r[i].op # "auth" /\ Given(calls, r[i].id))
      PROVE  AuthAfter(t, r, i - 1)
  <2>1. PICK j \in 1 .. Len(q) : j = p + i /\ q[j] = r[i]
    BY <1>1
  <2>2. AuthAfter(s, q, j - 1)
    BY <1>3, <2>1 DEF LineAuth
  <2>3. i - 1 \in Nat /\ i - 1 <= Len(r) /\ j - 1 = p + (i - 1)
    BY <1>1, <2>1
  <2>4. AuthAfter(s, q, p + (i - 1)) <=> AuthAfter(t, r, i - 1)
    BY <1>2, <2>3
  <2> QED
    BY <2>2, <2>3, <2>4
<1>4. ASSUME Trusted PROVE AuthAfter(t, r, Len(r))
  <2>1. AuthAfter(s, q, Len(q))
    BY <1>4 DEF LineAuth
  <2>2. AuthAfter(s, q, p + Len(r)) <=> AuthAfter(t, r, Len(r))
    BY <1>1, <1>2
  <2> QED
    BY <1>1, <2>1, <2>2
<1> QED
  BY <1>3, <1>4 DEF LineAuth

\* A call that an orderly application may make.
LEMMA AuthCall ==
  ASSUME TypeInv, Order, RestAuth, conn = "up" => LineAuth(server, Line),
         NEW op \in Ops, NEW arg, Call(op, arg),
         op = "auth" => arg \in Passwords,
         op = "select" => arg \in Indexes,
         op \notin {"auth", "select"} => arg = 0,
         op = "auth" => m_password' = arg /\ m_commands = <<>> /\ server.protected /\ m_password # "right",
         op # "auth" => m_password' = m_password,
         op = "select" => Trusted,
         m_database_index' # 0 => Trusted'
  PROVE  RestAuth' /\ (conn' = "up" => LineAuth(server, Line)')
<1> DEFINE e == [op |-> op, arg |-> arg]
           r == Request(op, arg, Len(calls) + 1)
<1>1. /\ e \in CallRecords /\ r \in Requests /\ calls' = Append(calls, e)
      /\ m_commands' = Append(m_commands, r)
      /\ Line' = Append(Line, r) /\ conn' = conn /\ server' = server
  BY CallParts
<1>2. r.id = Len(calls) + 1 /\ r.op = op /\ r.arg = arg /\ e.op = op /\ e.arg = arg
  BY DEF Request
<1> HIDE DEF e, r
<1>3. calls \in Seq(CallRecords) /\ m_commands \in Seq(Requests) /\ server \in Servers
  BY DEF TypeInv
<1>4. /\ Len(calls') = Len(calls) + 1 /\ Len(calls) \in Nat
      /\ \A n \in 0 .. Len(calls) : Given(calls', n) <=> Given(calls, n)
      /\ Given(calls', Len(calls')) <=> Given(calls, Len(calls)) \/ (e.op = "auth" /\ e.arg = "right")
  BY <1>1, <1>3, GivenStep
<1>5. op # "auth" => (Trusted' <=> Trusted)
  BY <1>1 DEF Trusted
<1>6. Given(calls', Len(calls')) => m_password' = "right"
  BY <1>2, <1>4 DEF RestAuth
<1>7. ASSUME NEW i \in 1 .. Len(m_commands')
      PROVE  /\ m_commands'[i].op = "auth" => m_commands'[i].arg = m_password'
             /\ m_commands'[i].op = "select" => Trusted'
  <2>1. (i \in 1 .. Len(m_commands) /\ m_commands'[i] = m_commands[i]) \/ m_commands'[i] = r
    BY <1>1, <1>3
  <2>2. CASE m_commands'[i] = r
    BY <1>2, <1>5, <2>2
  <2>3. CASE i \in 1 .. Len(m_commands) /\ m_commands'[i] = m_commands[i]
    <3>1. op # "auth"
      BY <2>3
    <3> QED
      BY <1>5, <2>3, <3>1 DEF RestAuth
  <2> QED
    BY <2>1, <2>2, <2>3
<1>8. \A n \in server'.refused : n <= Len(calls') /\ (n # NoCall => ~Given(calls', n))
  <2>1. TAKE n \in server'.refused
  <2>2. n \in Nat /\ n <= Len(calls) /\ (n # NoCall => ~Given(calls, n))
    BY <1>1, <1>3 DEF RestAuth, Servers
  <2>3. n \in 0 .. Len(calls)
    BY <2>2
  <2> QED
    BY <1>4, <2>2, <2>3
<1>9. RestAuth'
  BY <1>6, <1>7, <1>8 DEF RestAuth
<1>10. ASSUME conn' = "up" PROVE LineAuth(server, Line)'
  <2>1. conn = "up" /\ LineAuth(server, Line) /\ Sent(calls, Line) /\ Line \in Seq(Requests)
    BY <1>1, <1>10, LineType DEF Order
  <2>2. PICK n \in Nat : n = Len(Line)
    BY <2>1
  <2>3. /\ Len(Line') = n + 1 /\ Line'[n + 1] = r
        /\ \A i \in 1 .. n : Line'[i] = Line[i]
    BY <1>1, <2>1, <2>2
  <2>4. ASSUME NEW k \in Nat, k <= n
        PROVE  AuthAfter(server, Line', k) <=> AuthAfter(server, Line, k)
    <3>1. \A i \in 1 .. k : Line'[i] = Line[i]
      BY <2>3, <2>4
    <3> QED
      BY <3>1, AuthPrefix
  <2>5. server.auth \in BOOLEAN
    BY <1>3 DEF Servers
  <2>6. AuthAfter(server, Line', n + 1) <=> IF op = "auth" THEN server.protected => arg = "right"
                                            ELSE AuthAfter(server, Line, n)
    <3>1. AuthAfter(server, Line', n + 1)
            <=> IF Line'[n + 1].op = "auth" THEN server.protected => Line'[n + 1].arg = "right"
                ELSE AuthAfter(server, Line', n)
      <4>1. PICK s : s = server /\ s.auth \in BOOLEAN
        BY <2>5
      <4>2. ASSUME NEW w
            PROVE  AuthAfter(s, w, n + 1)
                     <=> IF w[n + 1].op = "auth" THEN s.protected => w[n + 1].arg = "right"
                         ELSE AuthAfter(s, w, n)
        BY <4>1, AuthStep, Zenon
      <4> QED
        BY <4>1, <4>2, Zenon
    <3> QED
      BY <1>2, <2>3, <2>4, <3>1
  <2>7. Trusted => AuthAfter(server, Line, n)
    BY <2>1, <2>2 DEF LineAuth
  <2>8. Trusted' => AuthAfter(server, Line', n + 1)
    <3>1. CASE op = "auth"
      BY <1>1, <2>6, <3>1 DEF Trusted
    <3>2. CASE op # "auth"
      BY <1>5, <2>6, <2>7, <3>2
    <3> QED
      BY <3>1, <3>2
  <2>9. ASSUME NEW i \in 1 .. Len(Line'),
               Line'[i].op = "select" \/ (Line'[i].op # "auth" /\ Given(calls', Line'[i].id))
        PROVE  AuthAfter(server, Line', i - 1)
    <3>1. CASE i = n + 1
      <4>1. Line'[i] = r /\ i - 1 = n
        BY <2>3, <3>1
      <4>2. CASE op = "select"
        BY <2>4, <2>7, <4>1, <4>2
      <4>3. CASE op # "select"
        <5>1. op # "auth" /\ Given(calls', Len(calls'))
          BY <1>2, <1>4, <2>9, <4>1, <4>3
        <5>2. Given(calls, Len(calls))
          BY <1>2, <1>4, <5>1
        <5>3. Trusted
          BY <5>2 DEF RestAuth, Trusted
        <5> QED
          BY <2>4, <2>7, <4>1, <5>3
      <4> QED
        BY <4>2, <4>3
    <3>2. CASE i \in 1 .. n
      <4>1. Line'[i] = Line[i] /\ i - 1 \in Nat /\ i - 1 <= n
        BY <2>3, <3>2
      <4>2. Line[i].id \in 0 .. Len(calls)
        <5>1. Line[i].id \in Nat /\ Line[i].id <= Len(calls)
          BY <2>1, <2>2, <3>2, RequestType DEF Sent
        <5> QED
          BY <1>4, <5>1
      <4>3. Line[i].op = "select" \/ (Line[i].op # "auth" /\ Given(calls, Line[i].id))
        BY <1>4, <2>9, <4>1, <4>2
      <4>4. AuthAfter(server, Line, i - 1)
        BY <2>1, <2>2, <3>2, <4>3 DEF LineAuth
      <4> QED
        BY <2>4, <4>1, <4>4
    <3> QED
      BY <2>3, <3>1, <3>2
  <2>10. Trusted' => AuthAfter(server, Line', Len(Line'))
    BY <2>3, <2>8
  <2> QED
    BY <1>1, <2>9, <2>10 DEF LineAuth
<1> QED
  BY <1>9, <1>10

\* Without a password to give, every connection is authenticated.
LEMMA AuthOpen ==
  ASSUME NEW s, NEW q, NEW n \in Nat, s.auth \in BOOLEAN, s.auth = TRUE, ~s.protected
  PROVE  AuthAfter(s, q, n)
<1> DEFINE G == {k \in 0 .. n : AuthAfter(s, q, k)}
<1>1. 0 \in G
  <2>1. AuthAfter(s, q, 0) <=> s.auth
    BY AuthZero
  <2> QED
    BY <2>1
<1>2. ASSUME NEW k \in 0 .. n - 1, k \in G PROVE k + 1 \in G
  <2>1. k \in Nat /\ k + 1 \in 0 .. n
    OBVIOUS
  <2>2. AuthAfter(s, q, k + 1) <=> IF q[k + 1].op = "auth"
                                   THEN s.protected => q[k + 1].arg = "right"
                                   ELSE AuthAfter(s, q, k)
    BY <2>1, AuthStep
  <2> QED
    BY <1>2, <2>1, <2>2
<1>3. 0 .. n \subseteq G
  <2> HIDE DEF G
  <2> QED
    BY <1>1, <1>2, Induction
<1> QED
  BY <1>3

\* An execution preserves what the server knows of the password.
LEMMA AuthExecute ==
  ASSUME TypeInv, TypeInv', Connection, Order, RestAuth, LineAuth(server, Line), Execute,
         NEW p \in 0 .. Len(Line), NEW g, NEW x, Effect(p, g, x)
  PROVE  RestAuth' /\ LineAuth(server, Line)'
<1>1. /\ server \in Servers /\ server' \in Servers /\ Line \in Seq(Requests) /\ Line' \in Seq(Requests)
      /\ server.auth \in BOOLEAN /\ server'.auth \in BOOLEAN
  <2>1. server \in Servers /\ server' \in Servers
    BY DEF TypeInv
  <2>2. Line \in Seq(Requests) /\ Line' \in Seq(Requests)
    BY Concat3 DEF TypeInv, Line, Servers
  <2>3. server.auth \in BOOLEAN /\ server'.auth \in BOOLEAN
    BY <2>1 DEF Servers
  <2> QED
    BY <2>1, <2>2, <2>3
<1>2. /\ calls' = calls /\ m_commands' = m_commands /\ m_password' = m_password
      /\ m_database_index' = m_database_index /\ conn = "up"
  BY DEF Execute, clientVars, Connection
<1>3. /\ Suffix(Line, p, Line') /\ server'.protected = server.protected
      /\ server'.auth <=> AuthAfter(server, Line, p)
      /\ \/ server'.refused = server.refused
         \/ /\ p = 1
            /\ ~AuthAfter(server, Line, 0)
            /\ Line[1].op # "auth"
            /\ server'.refused = server.refused \cup {Line[1].id}
  BY DEF Effect
<1>4. LineAuth(server', Line')
  <2>1. ASSUME NEW t, t.auth \in BOOLEAN, t.protected = server.protected, NEW r \in Seq(Requests),
               Suffix(Line, p, r), t.auth <=> AuthAfter(server, Line, p)
        PROVE  LineAuth(t, r)
    BY <1>1, <2>1, LineAuthSuffix
  <2> QED
    BY <1>1, <1>3, <2>1
<1>5. Trusted' <=> Trusted
  BY <1>2, <1>3 DEF Trusted
<1>6. LineAuth(server, Line)'
  BY <1>2, <1>4, <1>5 DEF LineAuth
<1>7. ASSUME NEW n \in server'.refused
      PROVE  n <= Len(calls) /\ (n # NoCall => ~Given(calls, n))
  <2>1. CASE n \in server.refused
    BY <2>1 DEF RestAuth
  <2>2. CASE n \notin server.refused
    <3>1. p = 1 /\ ~AuthAfter(server, Line, 0) /\ Line[1].op # "auth" /\ n = Line[1].id
      BY <1>3, <1>7, <2>2
    <3>2. 1 \in 1 .. Len(Line)
      BY <1>1, <3>1
    <3>3. Sent(calls, Line)
      BY <1>2 DEF Order
    <3>4. 1 - 1 = 0
      OBVIOUS
    <3>5. ~Given(calls, n)
      BY <3>1, <3>2, <3>4 DEF LineAuth
    <3> QED
      BY <3>1, <3>2, <3>3, <3>5 DEF Sent
  <2> QED
    BY <2>1, <2>2
<1>8. RestAuth'
  BY <1>2, <1>5, <1>7 DEF RestAuth
<1> QED
  BY <1>6, <1>8

\* reconnect() does: re_auth() is written before anything else.
LEMMA AuthReconnect ==
  ASSUME TypeInv, TypeInv', Connection, Order, Order', RestAuth, Reconnect
  PROVE  RestAuth' /\ LineAuth(server, Line)'
<1>1. /\ server \in Servers /\ Line' \in Seq(Requests) /\ m_commands \in Seq(Requests)
      /\ m_commands' \in Seq(Requests)
  <2>1. Line' \in Seq(Requests)
    BY Concat3 DEF TypeInv, Line, Servers
  <2> QED
    BY <2>1 DEF TypeInv
<1>2. /\ calls' = calls /\ m_password' = m_password
      /\ m_database_index' = m_database_index
      /\ server' = NewConnection(server)
  BY DEF Reconnect
<1>3. /\ server'.protected = server.protected /\ server'.auth = ~server.protected
      /\ server'.refused = server.refused /\ server'.auth \in BOOLEAN
  BY <1>1, <1>2 DEF NewConnection, Servers
<1>4. Trusted' <=> Trusted
  BY <1>2, <1>3 DEF Trusted
<1>5. PICK w \in Seq(Requests), k \in Nat : w = restored /\ k = Len(w)
  BY RestoredParts
<1>6. /\ \A i \in 1 .. k : /\ w[i].id = NoCall
                           /\ w[i].op \in {"auth", "select"}
                           /\ w[i].op = "auth" => w[i].arg = m_password
                           /\ w[i].op = "select" => w[i].arg = m_database_index /\ m_database_index # 0
      /\ m_password # "" => k > 0 /\ w[1].op = "auth"
  BY <1>5, RestoredParts
<1>7. PICK n \in Nat : n = Len(m_commands)
  BY <1>1
<1>8. /\ Len(Line') = k + n + k
      /\ \A i \in 1 .. k : Line'[i] = w[i]
      /\ \A i \in 1 .. n : Line'[k + i] = m_commands[i]
      /\ \A i \in 1 .. k : Line'[k + n + i] = w[i]
      /\ Len(m_commands') = n + k
      /\ \A i \in 1 .. n : m_commands'[i] = m_commands[i]
      /\ \A i \in 1 .. k : m_commands'[n + i] = w[i]
  BY <1>5, <1>7, ReconnectLine
<1> DEFINE Allowed(r) == /\ r.op = "auth" => r.arg = m_password
                         /\ r.op = "select" => Trusted
<1>9. \A i \in 1 .. k : Allowed(w[i])
  BY <1>6 DEF RestAuth
<1>10. \A i \in 1 .. n : Allowed(m_commands[i])
  BY <1>7 DEF RestAuth
<1> HIDE DEF Allowed
<1>11. \A i \in 1 .. Len(Line') : Allowed(Line'[i])
  <2>1. TAKE i \in 1 .. Len(Line')
  <2>2. CASE i <= k
    BY <1>8, <1>9, <2>2
  <2>3. CASE i > k /\ i <= k + n
    <3>1. i - k \in 1 .. n /\ k + (i - k) = i
      BY <2>3
    <3>2. Line'[i] = m_commands[i - k]
      BY <1>8, <3>1
    <3> QED
      BY <1>10, <3>1, <3>2
  <2>4. CASE i > k + n
    <3>1. i - (k + n) \in 1 .. k /\ k + n + (i - (k + n)) = i
      BY <1>8, <2>4
    <3>2. Line'[i] = w[i - (k + n)]
      BY <1>8, <3>1
    <3> QED
      BY <1>9, <3>1, <3>2
  <2> QED
    BY <2>2, <2>3, <2>4
<1>12. \A i \in 1 .. Len(m_commands') : Allowed(m_commands'[i])
  <2>1. TAKE i \in 1 .. Len(m_commands')
  <2>2. CASE i <= n
    BY <1>8, <1>10, <2>2
  <2>3. CASE i > n
    <3>1. i - n \in 1 .. k /\ n + (i - n) = i
      BY <1>8, <2>3
    <3>2. m_commands'[i] = w[i - n]
      BY <1>8, <3>1
    <3> QED
      BY <1>9, <3>1, <3>2
  <2> QED
    BY <2>2, <2>3
<1>13. RestAuth'
  <2>1. \A i \in 1 .. Len(m_commands') : /\ m_commands'[i].op = "auth" => m_commands'[i].arg = m_password'
                                         /\ m_commands'[i].op = "select" => Trusted'
    BY <1>2, <1>4, <1>12 DEF Allowed
  <2> QED
    BY <1>2, <1>3, <1>4, <2>1 DEF RestAuth
<1>20. PICK t \in Servers, v \in Seq(Requests) : t = server' /\ v = Line'
  <2>1. server' \in Servers
    BY DEF TypeInv
  <2> QED
    BY <1>1, <2>1
<1>14. ASSUME ~server.protected, NEW m \in Nat PROVE AuthAfter(t, v, m)
  <2>1. t.auth = TRUE /\ ~t.protected
    BY <1>3, <1>20, <1>14
  <2>2. t.auth \in BOOLEAN
    BY DEF Servers
  <2> QED
    BY <2>1, <2>2, AuthOpen
<1>15. ASSUME server.protected, m_password = "right", NEW m \in Nat, m + 1 <= Len(v)
       PROVE  AuthAfter(t, v, m + 1)
  <2>1. k > 0 /\ w[1].op = "auth"
    <3>1. m_password # ""
      BY <1>15
    <3> QED
      BY <1>6, <3>1
  <2>2. v[1].op = "auth"
    <3>1. 1 \in 1 .. k
      BY <2>1
    <3> QED
      BY <1>8, <1>20, <2>1, <3>1
  <2>3. \A i \in 1 .. m + 1 : v[i].op = "auth" => v[i].arg = "right"
    <3>1. TAKE i \in 1 .. m + 1
    <3>2. i \in 1 .. Len(v)
      BY <1>8, <1>20, <1>15
    <3> QED
      BY <1>11, <1>20, <1>15, <3>2 DEF Allowed
  <2>4. t.auth \in BOOLEAN
    BY DEF Servers
  <2> QED
    BY <2>2, <2>3, <2>4, AuthRight
<1>16. ASSUME NEW i \in 1 .. Len(Line'), Trusted, Line'[i].op # "auth"
       PROVE  AuthAfter(server', Line', i - 1)
  <2>1. CASE ~server.protected
    <3>1. i - 1 \in Nat
      OBVIOUS
    <3> QED
      BY <1>14, <1>20, <2>1, <3>1
  <2>2. CASE server.protected
    <3>1. m_password = "right" /\ m_password # ""
      BY <1>16, <2>2 DEF Trusted
    <3>2. 1 \in 1 .. k
      BY <1>6, <3>1
    <3>3. i # 1
      BY <1>6, <1>8, <1>16, <3>1, <3>2
    <3>4. i - 2 \in Nat /\ (i - 2) + 1 = i - 1 /\ (i - 2) + 1 <= Len(Line')
      BY <1>8, <3>3
    <3> QED
      BY <1>15, <1>20, <2>2, <3>1, <3>4
  <2> QED
    BY <2>1, <2>2
<1>17. ASSUME NEW i \in 1 .. Len(Line'),
              Line'[i].op = "select" \/ (Line'[i].op # "auth" /\ Given(calls', Line'[i].id))
       PROVE  AuthAfter(server', Line', i - 1)
  <2>1. CASE Line'[i].op = "select"
    BY <1>11, <1>16, <2>1 DEF Allowed
  <2>2. CASE Line'[i].op # "auth" /\ Given(calls', Line'[i].id)
    <3>1. Sent(calls', Line')
      <4>1. conn' = "up"
        BY DEF Reconnect
      <4> QED
        BY <4>1 DEF Order
    <3>2. Line'[i].id \in Nat /\ Line'[i].id <= Len(calls)
      <4>1. Line'[i] \in Requests
        BY <1>1
      <4> QED
        BY <1>2, <3>1, <4>1, RequestType DEF Sent
    <3>3. Given(calls, Len(calls))
      <4>1. Len(calls) \in Nat
        <5>1. calls \in Seq(CallRecords)
          BY DEF TypeInv
        <5> QED
          BY <5>1
      <4> QED
        BY <1>2, <2>2, <3>2, <4>1 DEF Given
    <3>4. Trusted
      BY <3>3 DEF RestAuth, Trusted
    <3> QED
      BY <1>16, <2>2, <3>4
  <2> QED
    BY <1>17, <2>1, <2>2
<1>18. ASSUME Trusted PROVE AuthAfter(server', Line', Len(Line'))
  <2>1. CASE ~server.protected
    <3>1. Len(Line') \in Nat
      BY <1>8
    <3> QED
      BY <1>14, <1>20, <2>1, <3>1
  <2>2. CASE server.protected
    <3>1. m_password = "right" /\ m_password # ""
      BY <1>18, <2>2 DEF Trusted
    <3>2. Len(Line') - 1 \in Nat /\ (Len(Line') - 1) + 1 = Len(Line')
      BY <1>6, <1>8, <3>1
    <3> QED
      BY <1>15, <1>20, <2>2, <3>1, <3>2, SMTT(30)
  <2> QED
    BY <2>1, <2>2
<1>19. LineAuth(server, Line)'
  BY <1>4, <1>17, <1>18 DEF LineAuth
<1> QED
  BY <1>13, <1>19

\* A step that forgets commands, and no more, does too.
LEMMA AuthSame ==
  ASSUME RestAuth, conn = "up" => LineAuth(server, Line),
         UNCHANGED <<calls, m_password, m_database_index, server>>,
         conn' = "up" => conn = "up" /\ Line' = Line,
         Within(m_commands', m_commands)
  PROVE  RestAuth' /\ (conn' = "up" => LineAuth(server, Line)')
<1>1. Trusted' <=> Trusted
  BY DEF Trusted
<1>2. RestAuth'
  BY <1>1 DEF RestAuth, Within
<1>3. ASSUME conn' = "up" PROVE LineAuth(server, Line)'
  BY <1>1, <1>3 DEF LineAuth
<1> QED
  BY <1>2, <1>3

\* Every step preserves AuthInv.
LEMMA AuthInvStep ==
  ASSUME TransactionInv, TransactionInv', AuthInv, [Next]_vars
  PROVE  AuthInv'
<1> SUFFICES ASSUME Orderly PROVE RestAuth' /\ (conn' = "up" => LineAuth(server, Line)')
  BY DEF AuthInv
<1>1. /\ TypeInv /\ TypeInv' /\ Connection /\ Order /\ Order' /\ Transaction
      /\ RestAuth /\ (conn = "up" => LineAuth(server, Line))
  BY DEF TransactionInv, AuthInv
<1>3. ASSUME NEW p \in Passwords, auth(p)
      PROVE  RestAuth' /\ (conn' = "up" => LineAuth(server, Line)')
  <2>1. /\ Call("auth", p) /\ m_password' = p /\ m_commands = <<>> /\ server.protected
        /\ m_password # "right" /\ m_database_index' = m_database_index
    BY <1>3 DEF auth, MayChangeSession
  <2>2. m_database_index' # 0 => Trusted'
    BY <1>1, <2>1 DEF RestAuth, Trusted
  <2>3. "auth" \in Ops
    BY DEF Ops
  <2> QED
    BY <1>1, <2>1, <2>2, <2>3, AuthCall
<1>4. ASSUME NEW n \in Indexes, select(n)
      PROVE  RestAuth' /\ (conn' = "up" => LineAuth(server, Line)')
  <2>1. Call("select", n) /\ m_password' = m_password /\ Trusted
    BY <1>4 DEF select, Trusted
  <2>2. Trusted'
    BY <2>1 DEF Call, Trusted
  <2>3. "select" \in Ops
    BY DEF Ops
  <2> QED
    BY <1>1, <2>1, <2>2, <2>3, AuthCall
<1>5. ASSUME NEW op \in {"data", "multi", "exec"}, send(op)
      PROVE  RestAuth' /\ (conn' = "up" => LineAuth(server, Line)')
  <2>1. Call(op, 0) /\ m_password' = m_password /\ m_database_index' = m_database_index
    BY <1>5 DEF send
  <2>2. m_database_index' # 0 => Trusted'
    BY <1>1, <2>1 DEF RestAuth, Trusted, Call
  <2>3. op \in Ops /\ op \notin {"auth", "select"}
    BY DEF Ops
  <2> QED
    BY <1>1, <2>1, <2>2, <2>3, AuthCall
<1>6. CASE Still
  BY <1>1, <1>6, StillStep, AuthSame
<1>7. CASE Execute
  <2>1. server.multi => Head(wire).op # "multi"
    BY <1>1, <1>7, NoNested
  <2>2. PICK p, g \in 0 .. Len(Line), x \in Nat : Effect(p, g, x)
    BY <1>1, <1>7, <2>1, ServeEffect
  <2>3. LineAuth(server, Line)
    BY <1>1, <1>7 DEF Execute, Connection
  <2> QED
    BY <1>1, <1>7, <2>2, <2>3, AuthExecute
<1>8. CASE Reconnect
  BY <1>1, <1>8, AuthReconnect
<1> QED
  BY <1>3, <1>4, <1>5, <1>6, <1>7, <1>8 DEF Next, Still

\* Initially nothing is on its way.
LEMMA InitialLine ==
  ASSUME Init
  PROVE  /\ Line = <<>> /\ server.queued = <<>> /\ server.log = <<>> /\ server.refused = {} /\ server.db = 0
         /\ ~server.multi /\ server.protected \in BOOLEAN
         /\ server.auth = ~server.protected
<1>1. PICK p \in Protected :
        server = [protected |-> p, auth |-> ~p, db |-> 0, multi |-> FALSE,
                  queued |-> <<>>, log |-> <<>>, refused |-> {}]
  BY DEF Init
<1>2. p \in BOOLEAN
  BY SessionAssumption
<1>3. <<>> \o <<>> \o <<>> = <<>>
  OBVIOUS
<1> QED
  BY <1>1, <1>2, <1>3 DEF Init, Line

\* AuthInv holds initially.
LEMMA AuthInit == Init => AuthInv
<1> SUFFICES ASSUME Init PROVE RestAuth /\ LineAuth(server, Line)
  BY DEF AuthInv
<1>1. calls = <<>> /\ m_commands = <<>> /\ m_password = "" /\ m_database_index = 0
  BY DEF Init
<1>2. RestAuth
  <2>1. Len(calls) = 0 /\ Len(m_commands) = 0 /\ server.refused = {}
    BY <1>1, InitialLine
  <2>2. ~Given(calls, 0)
    BY DEF Given
  <2>3. ~Given(calls, Len(calls))
    BY <2>1, <2>2
  <2>4. \A i \in 1 .. Len(m_commands) : FALSE
    BY <2>1
  <2> QED
    BY <1>1, <2>1, <2>3, <2>4, Zenon DEF RestAuth
<1>3. Trusted => server.auth = TRUE
  BY <1>1, InitialLine DEF Trusted
<1>4. Len(Line) = 0
  BY InitialLine
<1>5. Trusted => AuthAfter(server, Line, 0)
  <2>1. server.auth \in BOOLEAN
    BY InitialLine
  <2> QED
    BY <1>3, <2>1, AuthZero
<1>6. LineAuth(server, Line)
  BY <1>4, <1>5 DEF LineAuth
<1> QED
  BY <1>2, <1>6

\* An orderly application is authenticated wherever it has to be.
THEOREM AuthInvariance == Quiet /\ Spec => []AuthInv
<1>1. Init => AuthInv
  BY AuthInit
<1>2. TransactionInv /\ TransactionInv' /\ AuthInv /\ [Next]_vars => AuthInv'
  BY AuthInvStep
<1> QED
  BY <1>1, <1>2, TransactionInvariance, PTL DEF Spec

\* AuthInv is stronger than Authenticated.
LEMMA AuthWhole ==
  ASSUME Orderly, TypeInv, AuthInv
  PROVE  Authenticated
<1> SUFFICES ASSUME NEW n \in server.refused \ {NoCall}, NEW k \in LastCall("auth", n), calls[k].arg = "right"
             PROVE  FALSE
  BY DEF Authenticated
<1>1. ~Given(calls, n)
  BY DEF AuthInv, RestAuth
<1>2. k \in 1 .. n /\ calls[k].op = "auth"
  BY DEF LastCall
<1> QED
  BY <1>1, <1>2 DEF Given

\* Authenticated, for an orderly application: once the right password is given
\* no command is refused for want of it, over any number of lost connections
\* (Quiet: a command sent in the window would be written before AUTH).
THEOREM NoRefusal == Orderly /\ Quiet /\ Spec => []Authenticated
<1>1. TypeInv /\ Orderly /\ AuthInv => Authenticated
  BY AuthWhole
<1>2. TransactionInv => TypeInv
  BY DEF TransactionInv
<1>3. CASE Orderly
  <2>1. TypeInv /\ AuthInv => Authenticated
    BY <1>1, <1>3
  <2> QED
    BY <1>2, <2>1, AuthInvariance, TransactionInvariance, PTL
<1>4. CASE ~Orderly
  BY <1>4
<1> QED
  BY <1>3, <1>4

(***************************************************************************)
(* Databases.                                                              *)
(***************************************************************************)
\* A call is a valid select(), or leaves the database selected.
LEMMA DbCalls ==
  ASSUME NEW c \in Seq(CallRecords), NEW e \in CallRecords, NEW d, d = Append(c, e)
  PROVE  /\ Len(d) = Len(c) + 1 /\ Len(c) \in Nat
         /\ \A n \in 0 .. Len(c) : DbAfter(0, d, n) = DbAfter(0, c, n)
         /\ DbAfter(0, d, Len(d)) = IF Valid(e) THEN e.arg ELSE DbAfter(0, c, Len(c))
<1>1. /\ Len(d) = Len(c) + 1 /\ Len(c) \in Nat
      /\ \A n \in 1 .. Len(c) : d[n] = c[n]
      /\ d[Len(c) + 1] = e
  OBVIOUS
<1>2. \A n \in 0 .. Len(c) : DbAfter(0, d, n) = DbAfter(0, c, n)
  <2>1. TAKE n \in 0 .. Len(c)
  <2>2. n \in Nat /\ \A k \in 1 .. n : d[k] = c[k]
    BY <1>1
  <2> QED
    BY <2>2, DbPrefix
<1>3. DbAfter(0, d, Len(c) + 1) = IF Valid(d[Len(c) + 1]) THEN d[Len(c) + 1].arg ELSE DbAfter(0, d, Len(c))
  BY <1>1, DbStep
<1>4. Len(c) \in 0 .. Len(c)
  BY <1>1
<1> QED
  BY <1>1, <1>2, <1>3, <1>4

\* A call preserves the database invariant.  select() waits for all replies, for
\* the pending commands would be sent again to the new database.
LEMMA DbCall ==
  ASSUME TypeInv, Order, Log, RestDb, conn = "up" => LineDb(server, Line), DbAssumption,
         NEW op \in Ops, NEW arg, Call(op, arg),
         op = "auth" => arg \in Passwords,
         op = "select" => arg \in Indexes,
         op \notin {"auth", "select"} => arg = 0,
         op = "select" => m_database_index' = arg /\ m_commands = <<>>,
         op # "select" => m_database_index' = m_database_index
  PROVE  RestDb' /\ (conn' = "up" => LineDb(server, Line)')
<1> DEFINE e == [op |-> op, arg |-> arg]
           r == Request(op, arg, Len(calls) + 1)
<1>1. /\ e \in CallRecords /\ r \in Requests /\ calls' = Append(calls, e)
      /\ m_commands' = Append(m_commands, r)
      /\ Line' = Append(Line, r) /\ conn' = conn /\ server' = server
  BY CallParts
<1>2. r.id = Len(calls) + 1 /\ r.op = op /\ r.arg = arg /\ e.op = op /\ e.arg = arg
  BY DEF Request
<1> HIDE DEF e, r
<1>3. calls \in Seq(CallRecords) /\ m_commands \in Seq(Requests) /\ server \in Servers
  BY DEF TypeInv
<1>4. /\ Len(calls') = Len(calls) + 1 /\ Len(calls) \in Nat
      /\ \A n \in 0 .. Len(calls) : DbAfter(0, calls', n) = DbAfter(0, calls, n)
      /\ DbAfter(0, calls', Len(calls')) = IF Valid(e) THEN e.arg ELSE DbAfter(0, calls, Len(calls))
  BY <1>1, <1>3, DbCalls
<1>5. (op = "select" <=> Valid(e)) /\ (op = "select" <=> Valid(r))
  <2>1. op = "select" => arg < Databases
    <3>1. Databases \in Nat
      BY Constants
    <3>2. op = "select" => arg \in 0 .. Databases - 1
      BY DEF DbAssumption
    <3> QED
      BY <3>1, <3>2
  <2> QED
    BY <1>2, <2>1 DEF Valid
<1>6. m_database_index' = DbAfter(0, calls', Len(calls'))
  BY <1>2, <1>4, <1>5 DEF RestDb
<1>7. ASSUME NEW i \in 1 .. Len(m_commands')
      PROVE  /\ m_commands'[i].op = "select" => m_commands'[i].arg = m_database_index'
             /\ m_commands'[i].op = "data" => DbAfter(0, calls', m_commands'[i].id) = m_database_index'
  <2>1. (i \in 1 .. Len(m_commands) /\ m_commands'[i] = m_commands[i]) \/ m_commands'[i] = r
    BY <1>1, <1>3
  <2>2. CASE m_commands'[i] = r
    BY <1>2, <1>4, <1>6, <2>2
  <2>3. CASE i \in 1 .. Len(m_commands) /\ m_commands'[i] = m_commands[i]
    <3>1. op # "select"
      BY <2>3
    <3>2. m_commands[i].id \in 0 .. Len(calls)
      <4>1. m_commands[i].id \in Nat
        BY <1>3, <2>3, RequestType
      <4> QED
        BY <1>4, <2>3, <4>1 DEF Order, Sent
    <3> QED
      BY <1>4, <2>3, <3>1, <3>2 DEF RestDb
  <2> QED
    BY <2>1, <2>2, <2>3
<1>8. ASSUME NEW k \in 1 .. Len(server.log), server.log[k].op = "data"
      PROVE  server.log[k].db = DbAfter(0, calls', server.log[k].id)
  <2>1. server.log[k] \in Entries
    <3>1. server.log \in Seq(Entries)
      BY <1>3 DEF Servers
    <3> QED
      BY <3>1
  <2>2. server.log[k].id \in Nat /\ server.log[k].id <= Len(calls)
    BY <2>1 DEF Entries, Log
  <2>3. server.log[k].id \in 0 .. Len(calls)
    BY <1>4, <2>2
  <2> QED
    BY <1>4, <1>8, <2>3 DEF RestDb
<1>9. RestDb'
  BY <1>1, <1>6, <1>7, <1>8 DEF RestDb
<1>10. ASSUME conn' = "up" PROVE LineDb(server, Line)'
  <2>1. conn = "up" /\ LineDb(server, Line) /\ Sent(calls, Line) /\ Line \in Seq(Requests)
    BY <1>1, <1>10, LineType DEF Order
  <2>2. PICK n \in Nat : n = Len(Line)
    BY <2>1
  <2>3. PICK w \in Seq(Requests) : w = Line'
    <3>1. Append(Line, r) \in Seq(Requests)
      BY <1>1, <2>1
    <3> QED
      BY <1>1, <3>1
  <2>4. /\ Len(w) = n + 1 /\ w[n + 1] = r
        /\ \A i \in 1 .. n : w[i] = Line[i]
    BY <1>1, <2>1, <2>2, <2>3
  <2>5. ASSUME NEW k \in Nat, k <= n
        PROVE  DbAfter(server.db, w, k) = DbAfter(server.db, Line, k)
    <3>1. \A i \in 1 .. k : w[i] = Line[i]
      BY <2>4, <2>5
    <3> QED
      BY <3>1, DbPrefix
  <2>6. DbAfter(server.db, w, n + 1) = IF Valid(r) THEN r.arg ELSE DbAfter(server.db, Line, n)
    <3>1. DbAfter(server.db, w, n + 1) = IF Valid(w[n + 1]) THEN w[n + 1].arg ELSE DbAfter(server.db, w, n)
      BY DbStep
    <3> QED
      BY <2>4, <2>5, <3>1
  <2>7. DbAfter(server.db, Line, n) = DbAfter(0, calls, Len(calls))
    BY <2>1, <2>2 DEF LineDb
  <2>8. DbAfter(server.db, w, Len(w)) = DbAfter(0, calls', Len(calls'))
    BY <1>2, <1>4, <1>5, <2>4, <2>6, <2>7
  <2>9. ASSUME NEW i \in 1 .. Len(w), w[i].op = "data"
        PROVE  DbAfter(server.db, w, i - 1) = DbAfter(0, calls', w[i].id)
    <3>1. CASE i = n + 1
      <4>1. w[i] = r /\ i - 1 = n /\ op # "select"
        BY <1>2, <2>4, <2>9, <3>1
      <4>2. DbAfter(server.db, w, i - 1) = DbAfter(0, calls, Len(calls))
        BY <2>5, <2>7, <4>1
      <4>3. DbAfter(0, calls', Len(calls')) = DbAfter(0, calls, Len(calls))
        BY <1>4, <1>5, <4>1
      <4> QED
        BY <1>2, <1>4, <4>1, <4>2, <4>3
    <3>2. CASE i \in 1 .. n
      <4>1. w[i] = Line[i] /\ i - 1 \in Nat /\ i - 1 <= n
        BY <2>4, <3>2
      <4>2. Line[i].id \in 0 .. Len(calls)
        <5>1. Line[i].id \in Nat /\ Line[i].id <= Len(calls)
          BY <2>1, <2>2, <3>2, RequestType DEF Sent
        <5> QED
          BY <1>4, <5>1
      <4>3. DbAfter(server.db, Line, i - 1) = DbAfter(0, calls, Line[i].id)
        BY <2>1, <2>2, <2>9, <3>2, <4>1 DEF LineDb
      <4> QED
        BY <1>4, <2>5, <4>1, <4>2, <4>3
    <3> QED
      BY <2>4, <3>1, <3>2
  <2> QED
    BY <1>1, <2>3, <2>8, <2>9 DEF LineDb
<1> QED
  BY <1>9, <1>10

\* An execution preserves it: no SELECT is refused for want of a password.
LEMMA DbExecute ==
  ASSUME TypeInv, TypeInv', Connection, Order, Log, RestDb,
         LineAuth(server, Line), LineDb(server, Line), Execute,
         NEW p \in 0 .. Len(Line), NEW g, NEW x, Effect(p, g, x)
  PROVE  RestDb' /\ LineDb(server, Line)'
<1>1. /\ server \in Servers /\ server' \in Servers /\ Line \in Seq(Requests) /\ Line' \in Seq(Requests)
  <2>1. server \in Servers /\ server' \in Servers
    BY DEF TypeInv
  <2>2. Line \in Seq(Requests) /\ Line' \in Seq(Requests)
    BY Concat3 DEF TypeInv, Line, Servers
  <2> QED
    BY <2>1, <2>2
<1>2. calls' = calls /\ m_commands' = m_commands /\ m_database_index' = m_database_index
  BY DEF Execute, clientVars
<1>3. PICK r \in Seq(Requests) : r = Line'
  BY <1>1
<1>4. /\ p \in Nat /\ Len(Line) \in Nat /\ Len(r) \in Nat /\ Len(Line) = p + Len(r)
      /\ \A i \in 1 .. Len(r) : p + i \in 1 .. Len(Line) /\ r[i] = Line[p + i]
  BY <1>1, <1>3 DEF Effect, Suffix
<1>5. server'.db = DbAfter(server.db, Line, p)
  <2>1. \A i \in 1 .. p : Line[i].op = "select" => AuthAfter(server, Line, i - 1)
    BY <1>4 DEF LineAuth
  <2> QED
    BY <2>1 DEF Effect
<1>6. PICK d : d = server'.db
  OBVIOUS
<1>7. ASSUME NEW n \in Nat, n <= Len(r)
      PROVE  DbAfter(server.db, Line, p + n) = DbAfter(d, r, n)
  <2>1. \A k \in 1 .. n : Line[p + k] = r[k]
    BY <1>4, <1>7
  <2>2. p \in Nat /\ \A k \in 1 .. p : Line[k] = Line[k]
    BY <1>4
  <2>3. DbAfter(server.db, Line, p + n) = DbAfter(DbAfter(server.db, Line, p), r, n)
    BY <2>1, <2>2, DbConcat
  <2> QED
    BY <1>5, <1>6, <2>3
<1>8. ASSUME NEW i \in 1 .. Len(r), r[i].op = "data"
      PROVE  DbAfter(d, r, i - 1) = DbAfter(0, calls, r[i].id)
  <2>1. PICK j \in 1 .. Len(Line) : j = p + i /\ Line[j] = r[i]
    BY <1>4
  <2>2. DbAfter(server.db, Line, j - 1) = DbAfter(0, calls, Line[j].id)
    BY <1>8, <2>1 DEF LineDb
  <2>3. i - 1 \in Nat /\ i - 1 <= Len(r) /\ j - 1 = p + (i - 1)
    BY <1>4, <2>1
  <2>4. DbAfter(server.db, Line, p + (i - 1)) = DbAfter(d, r, i - 1)
    BY <1>7, <2>3
  <2> QED
    BY <2>1, <2>2, <2>3, <2>4
<1>9. DbAfter(d, r, Len(r)) = DbAfter(0, calls, Len(calls))
  <2>1. DbAfter(server.db, Line, p + Len(r)) = DbAfter(d, r, Len(r))
    BY <1>4, <1>7
  <2>2. DbAfter(server.db, Line, Len(Line)) = DbAfter(0, calls, Len(calls))
    BY DEF LineDb
  <2> QED
    BY <1>4, <2>1, <2>2
<1>10. LineDb(server, Line)'
  BY <1>2, <1>3, <1>6, <1>8, <1>9 DEF LineDb
<1>11. PICK l \in Nat : l = Len(server.log)
  <2>1. server.log \in Seq(Entries)
    BY <1>1 DEF Servers
  <2> QED
    BY <2>1
<1>12. /\ g \in 0 .. p
       /\ Len(server'.log) = l + g
       /\ \A k \in 1 .. l : server'.log[k] = server.log[k]
       /\ \A k \in 1 .. g : server'.log[l + k] = Execution(Line[k], DbAfter(server.db, Line, k - 1), x)
  BY <1>11 DEF Effect
<1>13. ASSUME NEW k \in 1 .. Len(server'.log), server'.log[k].op = "data"
       PROVE  server'.log[k].db = DbAfter(0, calls, server'.log[k].id)
  <2>1. CASE k <= l
    <3>1. k \in 1 .. Len(server.log)
      BY <1>11, <1>12, <1>13, <2>1
    <3>2. server'.log[k] = server.log[k]
      BY <1>11, <1>12, <3>1
    <3>3. PICK z : z = server.log[k]
      OBVIOUS
    <3>4. z.op = "data" => z.db = DbAfter(0, calls, z.id)
      BY <3>1, <3>3 DEF RestDb
    <3>5. server'.log[k] = z
      BY <3>2, <3>3
    <3> QED
      BY <1>13, <3>4, <3>5
  <2>2. CASE k > l
    <3>1. PICK i \in 1 .. g : k = l + i
      <4>1. k - l \in 1 .. g /\ k = l + (k - l)
        BY <1>12, <2>2
      <4> QED
        BY <4>1
    <3>2. server'.log[k] = Execution(Line[i], DbAfter(server.db, Line, i - 1), x)
      BY <1>12, <3>1
    <3>3. ASSUME NEW z, z = Execution(Line[i], DbAfter(server.db, Line, i - 1), x)
          PROVE  z.id = Line[i].id /\ z.op = Line[i].op /\ z.db = DbAfter(server.db, Line, i - 1)
      BY <3>3 DEF Execution
    <3>4. /\ server'.log[k].id = Line[i].id
          /\ server'.log[k].op = Line[i].op
          /\ server'.log[k].db = DbAfter(server.db, Line, i - 1)
      BY <3>2, <3>3, Zenon
    <3>5. i \in 1 .. Len(Line)
      BY <1>4, <1>12
    <3>6. DbAfter(server.db, Line, i - 1) = DbAfter(0, calls, Line[i].id)
      BY <1>13, <3>4, <3>5 DEF LineDb
    <3>7. PICK h : h = Line[i].id
      OBVIOUS
    <3>8. server'.log[k].db = DbAfter(0, calls, h) /\ server'.log[k].id = h
      BY <3>4, <3>6, <3>7
    <3> QED
      BY <3>8, Zenon
  <2> QED
    BY <1>12, <2>1, <2>2
<1>14. RestDb'
  BY <1>2, <1>13 DEF RestDb
<1> QED
  BY <1>10, <1>14

\* reconnect() does: what it restores selects the database of the pending
\* commands before any of them.
LEMMA DbReconnect ==
  ASSUME TypeInv, TypeInv', Connection, RestDb, Reconnect, DbAssumption
  PROVE  RestDb' /\ LineDb(server, Line)'
<1>1. /\ server \in Servers /\ Line' \in Seq(Requests) /\ m_commands \in Seq(Requests)
      /\ m_commands' \in Seq(Requests) /\ m_database_index \in Indexes \cup {0}
  <2>1. Line' \in Seq(Requests)
    BY Concat3 DEF TypeInv, Line, Servers
  <2> QED
    BY <2>1 DEF TypeInv
<1>2. /\ calls' = calls /\ m_database_index' = m_database_index
      /\ server' = NewConnection(server)
  BY DEF Reconnect
<1>3. server'.log = server.log /\ server'.db = 0
  BY <1>1, <1>2 DEF NewConnection, Servers
<1>4. PICK w \in Seq(Requests), k \in Nat : w = restored /\ k = Len(w)
  BY RestoredParts
<1>5. /\ \A i \in 1 .. k : /\ w[i].op \in {"auth", "select"}
                           /\ w[i].op = "select" => w[i].arg = m_database_index
      /\ m_database_index # 0 => \E i \in 1 .. k : w[i].op = "select"
  BY <1>4, RestoredParts
<1>6. PICK n \in Nat : n = Len(m_commands)
  BY <1>1
<1>7. PICK v \in Seq(Requests), u \in Seq(Requests) : v = Line' /\ u = m_commands'
  BY <1>1
<1>8. /\ Len(v) = k + n + k
      /\ \A i \in 1 .. k : v[i] = w[i]
      /\ \A i \in 1 .. n : v[k + i] = m_commands[i]
      /\ \A i \in 1 .. k : v[k + n + i] = w[i]
      /\ Len(u) = n + k
      /\ \A i \in 1 .. n : u[i] = m_commands[i]
      /\ \A i \in 1 .. k : u[n + i] = w[i]
  BY <1>4, <1>6, <1>7, ReconnectLine
<1> DEFINE Kept(r) == /\ r.op = "select" => r.arg = m_database_index
                      /\ r.op = "data" => DbAfter(0, calls, r.id) = m_database_index
<1>9. \A i \in 1 .. k : Kept(w[i])
  BY <1>5
<1>10. \A i \in 1 .. n : Kept(m_commands[i])
  BY <1>6 DEF RestDb
<1> HIDE DEF Kept
<1>11. \A i \in 1 .. Len(v) : Kept(v[i])
  <2>1. TAKE i \in 1 .. Len(v)
  <2>2. CASE i <= k
    BY <1>8, <1>9, <2>2
  <2>3. CASE i > k /\ i <= k + n
    <3>1. i - k \in 1 .. n /\ k + (i - k) = i
      BY <2>3
    <3>2. v[i] = m_commands[i - k]
      BY <1>8, <3>1
    <3> QED
      BY <1>10, <3>1, <3>2
  <2>4. CASE i > k + n
    <3>1. i - (k + n) \in 1 .. k /\ k + n + (i - (k + n)) = i
      BY <1>8, <2>4
    <3>2. v[i] = w[i - (k + n)]
      BY <1>8, <3>1
    <3> QED
      BY <1>9, <3>1, <3>2
  <2> QED
    BY <2>2, <2>3, <2>4
<1>12. \A i \in 1 .. Len(u) : Kept(u[i])
  <2>1. TAKE i \in 1 .. Len(u)
  <2>2. CASE i <= n
    BY <1>8, <1>10, <2>2
  <2>3. CASE i > n
    <3>1. i - n \in 1 .. k /\ n + (i - n) = i
      BY <1>8, <2>3
    <3>2. u[i] = w[i - n]
      BY <1>8, <3>1
    <3> QED
      BY <1>9, <3>1, <3>2
  <2> QED
    BY <2>2, <2>3
<1>13. RestDb'
  <2>1. \A i \in 1 .. Len(m_commands') :
          /\ m_commands'[i].op = "select" => m_commands'[i].arg = m_database_index'
          /\ m_commands'[i].op = "data" => DbAfter(0, calls', m_commands'[i].id) = m_database_index'
    BY <1>2, <1>7, <1>12 DEF Kept
  <2> QED
    BY <1>2, <1>3, <2>1 DEF RestDb
<1>14. ASSUME m_database_index # 0 PROVE \E i \in 1 .. k : Valid(v[i])
  <2>1. m_database_index < Databases
    <3>1. m_database_index \in 0 .. Databases - 1 /\ Databases \in Nat
      BY <1>1, <1>14, Constants DEF DbAssumption
    <3> QED
      BY <3>1
  <2>2. PICK i \in 1 .. k : w[i].op = "select" /\ w[i].arg = m_database_index
    BY <1>5, <1>14
  <2> QED
    BY <1>8, <2>1, <2>2 DEF Valid
<1>15. ASSUME NEW m \in Nat, k <= m, m <= Len(v)
       PROVE  DbAfter(0, v, m) = m_database_index
  <2>1. \A i \in 1 .. m : v[i].op = "select" => v[i].arg = m_database_index
    <3>1. \A i \in 1 .. m : i \in 1 .. Len(v)
      BY <1>8, <1>15
    <3> QED
      BY <1>11, <3>1 DEF Kept
  <2>2. 0 = m_database_index \/ \E i \in 1 .. m : Valid(v[i])
    <3>1. \A i \in 1 .. k : i \in 1 .. m
      BY <1>15
    <3> QED
      BY <1>14, <3>1
  <2> QED
    BY <2>1, <2>2, DbAgreed
<1>16. ASSUME NEW i \in 1 .. Len(v), v[i].op = "data"
       PROVE  DbAfter(0, v, i - 1) = DbAfter(0, calls, v[i].id)
  <2>1. i > k
    <3>1. ASSUME i <= k PROVE FALSE
      <4>1. i \in 1 .. k
        BY <3>1
      <4>2. v[i].op \in {"auth", "select"}
        BY <1>5, <1>8, <4>1
      <4> QED
        BY <1>16, <4>2
    <3> QED
      BY <3>1
  <2>2. i - 1 \in Nat /\ k <= i - 1 /\ i - 1 <= Len(v)
    BY <1>8, <2>1
  <2>3. DbAfter(0, calls, v[i].id) = m_database_index
    BY <1>11, <1>16 DEF Kept
  <2> QED
    BY <1>15, <2>2, <2>3
<1>17. DbAfter(0, v, Len(v)) = DbAfter(0, calls, Len(calls))
  <2>1. Len(v) \in Nat /\ k <= Len(v)
    BY <1>8
  <2> QED
    BY <1>15, <2>1 DEF RestDb
<1>18. LineDb(server, Line)'
  BY <1>2, <1>3, <1>7, <1>16, <1>17 DEF LineDb
<1> QED
  BY <1>13, <1>18

\* A step that forgets commands, and no more, does too.
LEMMA DbSame ==
  ASSUME RestDb, conn = "up" => LineDb(server, Line),
         UNCHANGED <<calls, m_database_index, server>>,
         conn' = "up" => conn = "up" /\ Line' = Line,
         Within(m_commands', m_commands)
  PROVE  RestDb' /\ (conn' = "up" => LineDb(server, Line)')
<1>1. ASSUME NEW i \in 1 .. Len(m_commands')
      PROVE  /\ m_commands'[i].op = "select" => m_commands'[i].arg = m_database_index
             /\ m_commands'[i].op = "data" => DbAfter(0, calls, m_commands'[i].id) = m_database_index
  <2>1. PICK j \in 1 .. Len(m_commands) : m_commands'[i] = m_commands[j]
    BY DEF Within
  <2>2. PICK z : z = m_commands[j]
    OBVIOUS
  <2>3. /\ z.op = "select" => z.arg = m_database_index
        /\ z.op = "data" => DbAfter(0, calls, z.id) = m_database_index
    BY <2>2 DEF RestDb
  <2>4. m_commands'[i] = z
    BY <2>1, <2>2
  <2> QED
    BY <2>3, <2>4
<1>2. RestDb'
  BY <1>1 DEF RestDb
<1>3. ASSUME conn' = "up" PROVE LineDb(server, Line)'
  BY <1>3 DEF LineDb
<1> QED
  BY <1>2, <1>3

\* Every step preserves DatabaseInv.
LEMMA DbInvStep ==
  ASSUME TransactionInv, TransactionInv', AuthInv, DatabaseInv, [Next]_vars
  PROVE  DatabaseInv'
<1> SUFFICES ASSUME DbAssumption
             PROVE  RestDb' /\ (conn' = "up" => LineDb(server, Line)')
  BY DEF DatabaseInv
<1>1. /\ TypeInv /\ TypeInv' /\ Connection /\ Order /\ Transaction /\ Log
      /\ RestDb /\ (conn = "up" => LineDb(server, Line))
      /\ (conn = "up" => LineAuth(server, Line))
  BY DEF TransactionInv, DatabaseInv, AuthInv, DbAssumption
<1>3. ASSUME NEW p \in Passwords, auth(p)
      PROVE  RestDb' /\ (conn' = "up" => LineDb(server, Line)')
  <2>1. Call("auth", p) /\ m_database_index' = m_database_index
    BY <1>3 DEF auth
  <2>2. "auth" \in Ops
    BY DEF Ops
  <2> QED
    BY <1>1, <2>1, <2>2, DbCall
<1>4. ASSUME NEW n \in Indexes, select(n)
      PROVE  RestDb' /\ (conn' = "up" => LineDb(server, Line)')
  <2>1. Call("select", n) /\ m_database_index' = n /\ m_commands = <<>>
    BY <1>4 DEF select, MayChangeSession, DbAssumption
  <2>2. "select" \in Ops
    BY DEF Ops
  <2> QED
    BY <1>1, <2>1, <2>2, DbCall
<1>5. ASSUME NEW op \in {"data", "multi", "exec"}, send(op)
      PROVE  RestDb' /\ (conn' = "up" => LineDb(server, Line)')
  <2>1. Call(op, 0) /\ m_database_index' = m_database_index
    BY <1>5 DEF send
  <2>2. op \in Ops /\ op \notin {"auth", "select"}
    BY DEF Ops
  <2> QED
    BY <1>1, <2>1, <2>2, DbCall
<1>6. CASE Still
  BY <1>1, <1>6, StillStep, DbSame
<1>7. CASE Execute
  <2>1. server.multi => Head(wire).op # "multi"
    BY <1>1, <1>7, NoNested
  <2>2. PICK p, g \in 0 .. Len(Line), x \in Nat : Effect(p, g, x)
    BY <1>1, <1>7, <2>1, ServeEffect
  <2>3. conn = "up" /\ conn' = "up"
    BY <1>1, <1>7 DEF Execute, Connection
  <2> QED
    BY <1>1, <1>7, <2>2, <2>3, DbExecute
<1>8. CASE Reconnect
  BY <1>1, <1>8, DbReconnect
<1> QED
  BY <1>3, <1>4, <1>5, <1>6, <1>7, <1>8 DEF Next, Still

\* DatabaseInv holds initially.
LEMMA DbInit == Init => DatabaseInv
<1> SUFFICES ASSUME Init PROVE RestDb /\ LineDb(server, Line)
  BY DEF DatabaseInv
<1>1. calls = <<>> /\ m_commands = <<>> /\ m_database_index = 0
  BY DEF Init
<1>2. Len(calls) = 0 /\ Len(m_commands) = 0 /\ Len(server.log) = 0 /\ Len(Line) = 0 /\ server.db = 0
  BY <1>1, InitialLine
<1>3. DbAfter(0, calls, 0) = 0 /\ DbAfter(0, Line, 0) = 0
  BY DbZero
<1>4. RestDb
  <2>1. \A i \in 1 .. Len(m_commands) : FALSE
    BY <1>2
  <2>2. \A i \in 1 .. Len(server.log) : FALSE
    BY <1>2
  <2>3. m_database_index = DbAfter(0, calls, Len(calls))
    BY <1>1, <1>2, <1>3
  <2> QED
    BY <2>1, <2>2, <2>3, Zenon DEF RestDb
<1>5. LineDb(server, Line)
  <2>1. \A i \in 1 .. Len(Line) : FALSE
    BY <1>2
  <2>2. DbAfter(server.db, Line, Len(Line)) = DbAfter(0, calls, Len(calls))
    BY <1>2, <1>3
  <2> QED
    BY <2>1, <2>2, Zenon DEF LineDb
<1> QED
  BY <1>4, <1>5

\* Every command pending, on its way or executed has the database of its call.
THEOREM DatabaseInvariance == Quiet /\ Spec => []DatabaseInv
<1>1. Init => DatabaseInv
  BY DbInit
<1>2. TransactionInv /\ TransactionInv' /\ AuthInv /\ DatabaseInv /\ [Next]_vars => DatabaseInv'
  BY DbInvStep
<1> QED
  BY <1>1, <1>2, TransactionInvariance, AuthInvariance, PTL DEF Spec

\* DatabaseInv is stronger than RightDatabase.
LEMMA DbWhole ==
  ASSUME DbAssumption, TypeInv, DatabaseInv
  PROVE  RightDatabase
<1>1. DOMAIN server.log = 1 .. Len(server.log)
  <2>1. server.log \in Seq(Entries)
    BY DEF TypeInv, Servers
  <2> QED
    BY <2>1
<1> QED
  BY <1>1 DEF DatabaseInv, RestDb, RightDatabase, Executions

\* RightDatabase, for an orderly application that selects databases that exist
\* (Quiet: a command sent in the window would be written before SELECT).
THEOREM DatabaseRestored == DbAssumption /\ Quiet /\ Spec => []RightDatabase
<1>1. TypeInv /\ DbAssumption /\ DatabaseInv => RightDatabase
  BY DbWhole
<1>2. TransactionInv => TypeInv
  BY DEF TransactionInv
<1>3. CASE DbAssumption
  <2>1. TypeInv /\ DatabaseInv => RightDatabase
    BY <1>1, <1>3
  <2> QED
    BY <1>2, <2>1, DatabaseInvariance, TransactionInvariance, PTL
<1>4. CASE ~DbAssumption
  BY <1>4
<1> QED
  BY <1>3, <1>4

(***************************************************************************)
(* Commands sent again.                                                    *)
(***************************************************************************)
\* A new call has its request among those left.
LEMMA OrderAppend ==
  ASSUME NEW c \in Seq(CallRecords), NEW e \in CallRecords, NEW log,
         NEW q \in Seq(Requests), NEW r \in Requests, r.id = Len(c) + 1,
         InOrder(c, log, q)
  PROVE  InOrder(Append(c, e), log, Append(q, r))
<1>1. /\ Len(Append(c, e)) = Len(c) + 1 /\ Len(c) \in Nat
      /\ Len(Append(q, r)) = Len(q) + 1 /\ Len(q) \in Nat
      /\ \A i \in 1 .. Len(q) : Append(q, r)[i] = q[i]
      /\ Append(q, r)[Len(q) + 1] = r
  OBVIOUS
<1>2. ASSUME NEW m \in 1 .. Len(c) + 1, NEW n \in 1 .. Len(c) + 1, m < n,
             \A i \in 1 .. Len(q) + 1 : Append(q, r)[i].id # m /\ Append(q, r)[i].id # n
      PROVE  \A j \in LastOf(log, m), k \in LastOf(log, n) : j < k
  <2>1. m # Len(c) + 1 /\ n # Len(c) + 1
    <3>1. Len(q) + 1 \in 1 .. Len(q) + 1
      BY <1>1
    <3> QED
      BY <1>1, <1>2, <3>1
  <2>2. m \in 1 .. Len(c) /\ n \in 1 .. Len(c)
    BY <1>1, <2>1
  <2>3. \A i \in 1 .. Len(q) : q[i].id # m /\ q[i].id # n
    <3>1. TAKE i \in 1 .. Len(q)
    <3>2. i \in 1 .. Len(q) + 1
      BY <1>1
    <3> QED
      BY <1>1, <1>2, <3>2
  <2> QED
    BY <1>2, <2>2, <2>3 DEF InOrder
<1> QED
  BY <1>1, <1>2 DEF InOrder

\* The more requests are left, the less is claimed.
LEMMA OrderWeaker ==
  ASSUME NEW c, NEW log, NEW q, NEW r, InOrder(c, log, q), Within(q, r)
  PROVE  InOrder(c, log, r)
<1>1. ASSUME NEW m \in 1 .. Len(c), NEW n \in 1 .. Len(c), m < n,
             \A i \in 1 .. Len(r) : r[i].id # m /\ r[i].id # n
      PROVE  \A j \in LastOf(log, m), k \in LastOf(log, n) : j < k
  <2>1. \A i \in 1 .. Len(q) : q[i].id # m /\ q[i].id # n
    BY <1>1 DEF Within
  <2> QED
    BY <1>1, <2>1 DEF InOrder
<1> QED
  BY <1>1 DEF InOrder

\* An execution becomes the last of its call.
LEMMA LastAppend ==
  ASSUME NEW log \in Seq(Entries), NEW e \in Entries, NEW n
  PROVE  LastOf(Append(log, e), n) = IF n = e.id THEN {Len(log) + 1} ELSE LastOf(log, n)
<1> DEFINE l == Append(log, e)
<1>1. /\ Len(l) = Len(log) + 1 /\ Len(log) \in Nat
      /\ \A i \in 1 .. Len(log) : l[i] = log[i]
      /\ l[Len(log) + 1] = e
  OBVIOUS
<1> HIDE DEF l
<1>2. CASE n = e.id
  <2>1. Len(log) + 1 \in LastOf(l, n)
    BY <1>1, <1>2 DEF LastOf
  <2>2. ASSUME NEW k \in LastOf(l, n) PROVE k = Len(log) + 1
    <3>1. k \in 1 .. Len(log) + 1 /\ \A j \in k + 1 .. Len(log) + 1 : l[j].id # n
      BY <1>1, <2>2 DEF LastOf
    <3>2. Len(log) + 1 \notin k + 1 .. Len(log) + 1
      BY <1>1, <1>2, <3>1
    <3> QED
      BY <1>1, <3>1, <3>2
  <2> QED
    BY <1>2, <2>1, <2>2 DEF l
<1>3. CASE n # e.id
  <2>1. ASSUME NEW k \in LastOf(l, n) PROVE k \in LastOf(log, n)
    <3>1. k \in 1 .. Len(log) + 1 /\ l[k].id = n /\ \A j \in k + 1 .. Len(log) + 1 : l[j].id # n
      BY <1>1, <2>1 DEF LastOf
    <3>2. k \in 1 .. Len(log) /\ log[k].id = n
      BY <1>1, <1>3, <3>1
    <3>3. \A j \in k + 1 .. Len(log) : log[j].id # n
      <4>1. TAKE j \in k + 1 .. Len(log)
      <4>2. j \in k + 1 .. Len(log) + 1 /\ j \in 1 .. Len(log)
        BY <1>1, <3>2
      <4> QED
        BY <1>1, <3>1, <4>2
    <3> QED
      BY <3>2, <3>3 DEF LastOf
  <2>2. ASSUME NEW k \in LastOf(log, n) PROVE k \in LastOf(l, n)
    <3>1. k \in 1 .. Len(log) /\ log[k].id = n /\ \A j \in k + 1 .. Len(log) : log[j].id # n
      BY <2>2 DEF LastOf
    <3>2. k \in 1 .. Len(l) /\ l[k].id = n
      BY <1>1, <3>1
    <3>3. \A j \in k + 1 .. Len(l) : l[j].id # n
      <4>1. TAKE j \in k + 1 .. Len(l)
      <4>2. j = Len(log) + 1 \/ (j \in k + 1 .. Len(log) /\ j \in 1 .. Len(log))
        BY <1>1, <3>1
      <4> QED
        BY <1>1, <1>3, <3>1, <4>2
    <3> QED
      BY <3>2, <3>3 DEF LastOf
  <2> QED
    BY <1>3, <2>1, <2>2 DEF l
<1> QED
  BY <1>2, <1>3

\* The front request is executed: what was called before it has no request left
\* or is executed earlier, and what was called after it is still to come.
LEMMA OrderExecute ==
  ASSUME NEW c \in Seq(CallRecords), NEW log \in Seq(Entries), NEW e \in Entries,
         NEW q \in Seq(Requests), NEW r \in Seq(Requests), Suffix(q, 1, r),
         Sent(c, q), OnlyData(q), e.id = q[1].id, InOrder(c, log, q)
  PROVE  InOrder(c, Append(log, e), r)
<1>1. /\ Len(q) \in Nat /\ Len(r) \in Nat /\ Len(q) = Len(r) + 1 /\ Len(log) \in Nat
      /\ \A i \in 1 .. Len(r) : r[i] = q[1 + i]
  BY DEF Suffix
<1>2. 1 \in 1 .. Len(q) /\ e.id # NoCall
  BY <1>1 DEF Sent, OnlyData
<1>3. ASSUME NEW m \in 1 .. Len(c), NEW n \in 1 .. Len(c), m < n,
             \A i \in 1 .. Len(r) : r[i].id # m /\ r[i].id # n,
             NEW j \in LastOf(Append(log, e), m), NEW k \in LastOf(Append(log, e), n)
      PROVE  j < k
  <2>1. CASE m = e.id
    <3>1. PICK i \in 1 .. Len(q) : q[i].id = n
      BY <1>2, <1>3, <2>1 DEF Sent
    <3>2. i # 1
      BY <1>3, <2>1, <3>1
    <3>3. i - 1 \in 1 .. Len(r) /\ 1 + (i - 1) = i
      BY <1>1, <3>2
    <3> QED
      BY <1>1, <1>3, <3>1, <3>3
  <2>2. CASE n = e.id
    <3>1. k = Len(log) + 1
      BY <1>3, <2>2, LastAppend
    <3>2. j \in LastOf(log, m)
      <4>1. m # e.id
        BY <1>3, <2>2
      <4> QED
        BY <4>1, LastAppend
    <3>3. j \in 1 .. Len(log)
      BY <3>2 DEF LastOf
    <3> QED
      BY <1>1, <3>1, <3>3
  <2>3. CASE m # e.id /\ n # e.id
    <3>1. j \in LastOf(log, m) /\ k \in LastOf(log, n)
      BY <2>3, LastAppend
    <3>2. \A i \in 1 .. Len(q) : q[i].id # m /\ q[i].id # n
      <4>1. TAKE i \in 1 .. Len(q)
      <4>2. CASE i = 1
        BY <2>3, <4>2
      <4>3. CASE i # 1
        <5>1. i - 1 \in 1 .. Len(r) /\ 1 + (i - 1) = i
          BY <1>1, <4>3
        <5>2. r[i - 1] = q[i]
          BY <1>1, <5>1
        <5> QED
          BY <1>3, <5>1, <5>2
      <4> QED
        BY <4>2, <4>3
    <3> QED
      BY <1>3, <3>1, <3>2 DEF InOrder
  <2> QED
    BY <2>1, <2>2, <2>3
<1> QED
  BY <1>3 DEF InOrder

\* What is on its way waits for a reply too.
LEMMA PlainLine ==
  ASSUME TypeInv, Plain, conn = "up"
  PROVE  OnlyData(Line) /\ Within(Line, m_commands)
<1>1. m_commands \in Seq(Requests) /\ answers \in Nat
  BY DEF TypeInv
<1>2. Line \in Seq(Requests)
  BY LineType
<1>3. Suffix(m_commands, answers, Line)
  BY DEF Plain
<1>4. \A i \in 1 .. Len(Line) : answers + i \in 1 .. Len(m_commands) /\ Line[i] = m_commands[answers + i]
  BY <1>1, <1>2, <1>3 DEF Suffix
<1> QED
  BY <1>4 DEF Plain, OnlyData, Within

\* A call preserves Replayed.
LEMMA ReplayCall ==
  ASSUME TypeInv, Replayed, NEW op \in {"data", "multi", "exec"}, Call(op, 0),
         UNCHANGED <<m_password, m_database_index>>, OnlyData(calls')
  PROVE  Replayed'
<1> DEFINE e == [op |-> op, arg |-> 0]
           r == Request(op, 0, Len(calls) + 1)
<1>1. /\ e \in CallRecords /\ r \in Requests /\ calls' = Append(calls, e)
      /\ m_commands' = Append(m_commands, r)
      /\ Line' = Append(Line, r) /\ conn' = conn /\ server' = server
  <2>1. op \in Ops /\ op \notin {"auth", "select"}
    BY DEF Ops
  <2> QED
    BY <2>1, CallParts
<1>2. r.id = Len(calls) + 1 /\ r.op = op /\ e.op = op
  BY DEF Request
<1> HIDE DEF e, r
<1>3. calls \in Seq(CallRecords) /\ m_commands \in Seq(Requests) /\ Line \in Seq(Requests) /\ answers \in Nat
  BY LineType DEF TypeInv
<1>4. answers' = answers /\ failed' = failed
  BY DEF Call
<1>5. op = "data"
  <2>1. Len(calls') \in 1 .. Len(calls') /\ calls'[Len(calls')] = e
    BY <1>1, <1>3
  <2> QED
    BY <1>2, <2>1 DEF OnlyData
<1>6. OnlyData(m_commands')
  <2>1. ASSUME NEW i \in 1 .. Len(m_commands') PROVE m_commands'[i].op = "data"
    <3>1. (i \in 1 .. Len(m_commands) /\ m_commands'[i] = m_commands[i]) \/ m_commands'[i] = r
      BY <1>1, <1>3
    <3> QED
      BY <1>2, <1>5, <3>1 DEF Replayed, Plain, OnlyData
  <2> QED
    BY <2>1 DEF OnlyData
<1>7. ASSUME conn' = "up" PROVE Suffix(m_commands', answers', Line')
  <2>1. Suffix(m_commands, answers, Line)
    BY <1>1, <1>7 DEF Replayed, Plain
  <2>2. ASSUME NEW a \in Seq(Requests), NEW b \in Seq(Requests), NEW p \in Nat, NEW x \in Requests,
               Suffix(a, p, b)
        PROVE  Suffix(Append(a, x), p, Append(b, x))
    <3>1. /\ Len(a) \in Nat /\ Len(b) \in Nat /\ Len(a) = p + Len(b)
          /\ \A i \in 1 .. Len(b) : b[i] = a[p + i]
      BY <2>2 DEF Suffix
    <3>2. ASSUME NEW i \in 1 .. Len(b) + 1 PROVE Append(b, x)[i] = Append(a, x)[p + i]
      <4>1. CASE i = Len(b) + 1
        BY <3>1, <4>1
      <4>2. CASE i \in 1 .. Len(b)
        <5>1. PICK k \in 1 .. Len(a) : k = p + i
          BY <3>1, <4>2
        <5> QED
          BY <3>1, <4>2, <5>1
      <4> QED
        BY <3>1, <4>1, <4>2
    <3>3. Len(Append(a, x)) = Len(a) + 1 /\ Len(Append(b, x)) = Len(b) + 1
      OBVIOUS
    <3>4. p \in 0 .. Len(a) + 1 /\ Len(b) + 1 = Len(a) + 1 - p
      BY <3>1
    <3>5. /\ p \in 0 .. Len(Append(a, x))
          /\ Len(Append(b, x)) = Len(Append(a, x)) - p
          /\ \A i \in 1 .. Len(Append(b, x)) : Append(b, x)[i] = Append(a, x)[p + i]
      <4> DEFINE u == Append(a, x)
                 v == Append(b, x)
      <4>1. /\ Len(u) = Len(a) + 1 /\ Len(v) = Len(b) + 1
            /\ \A i \in 1 .. Len(b) + 1 : v[i] = u[p + i]
        BY <3>2, <3>3
      <4> HIDE DEF u, v
      <4>2. p \in 0 .. Len(u) /\ Len(v) = Len(u) - p
        BY <3>4, <4>1
      <4>3. \A i \in 1 .. Len(v) : v[i] = u[p + i]
        BY <4>1
      <4> QED
        BY <4>2, <4>3 DEF u, v
    <3> QED
      BY <3>5, Zenon DEF Suffix
  <2>3. Suffix(Append(m_commands, r), answers, Append(Line, r))
    BY <1>1, <1>3, <2>1, <2>2
  <2> QED
    BY <1>1, <1>4, <2>3
<1>8. Plain'
  BY <1>1, <1>6, <1>7 DEF Replayed, Plain
<1>9. ASSUME failed' = {} PROVE InOrder(calls, server.log, Pending)'
  <2>1. InOrder(calls, server.log, Pending)
    BY <1>4, <1>9 DEF Replayed
  <2>2. Pending' = Append(Pending, r) /\ Pending \in Seq(Requests)
    BY <1>1, <1>3 DEF Pending
  <2>3. PICK q \in Seq(Requests) : q = Pending
    BY <2>2
  <2>4. PICK log : log = server.log
    OBVIOUS
  <2>5. InOrder(Append(calls, e), log, Append(q, r))
    BY <1>1, <1>2, <1>3, <2>1, <2>3, <2>4, OrderAppend
  <2> QED
    BY <1>1, <2>2, <2>3, <2>4, <2>5
<1> QED
  BY <1>8, <1>9 DEF Replayed

\* A step that executes nothing, and forgets no request without a failure, does.
LEMMA ReplaySame ==
  ASSUME Replayed, UNCHANGED <<calls, m_password, m_database_index, server>>,
         Within(m_commands', m_commands),
         conn' = "up" => Suffix(m_commands', answers', Line'),
         failed' = {} => failed = {} /\ Within(Pending, Pending')
  PROVE  Replayed'
<1>1. Plain'
  <2>1. OnlyData(m_commands')
    BY DEF Replayed, Plain, OnlyData, Within
  <2> QED
    BY <2>1 DEF Replayed, Plain
<1>2. ASSUME failed' = {} PROVE InOrder(calls, server.log, Pending)'
  <2>1. PICK q, log : q = Pending' /\ log = server.log
    <3>1. \E log : log = server.log
      OBVIOUS
    <3> QED
      BY <3>1
  <2>2. InOrder(calls, log, q)
    <3>1. Within(Pending, q)
      BY <1>2, <2>1
    <3>2. InOrder(calls, log, Pending)
      BY <1>2, <2>1 DEF Replayed
    <3> QED
      BY <3>1, <3>2, OrderWeaker
  <2> QED
    BY <2>1, <2>2
<1> QED
  BY <1>1, <1>2 DEF Replayed

\* clear_callbacks() fails no callback only if there is none.
LEMMA NoneFailed ==
  ASSUME TypeInv, clear_callbacks, failed' = {}
  PROVE  failed = {} /\ m_commands = <<>> /\ m_commands' = <<>>
<1>1. failed = {} /\ {r.id : r \in ToSet(m_commands)} = {}
  BY DEF clear_callbacks
<1>2. m_commands \in Seq(Requests)
  BY DEF TypeInv
<1>3. ASSUME m_commands # <<>> PROVE FALSE
  <2>1. m_commands[1] \in ToSet(m_commands)
    BY <1>2, <1>3 DEF ToSet
  <2> QED
    BY <1>1, <2>1
<1> QED
  BY <1>1, <1>3 DEF clear_callbacks

\* An execution preserves Replayed.
LEMMA ReplayExecute ==
  ASSUME TypeInv, TypeInv', Connection, Order, Replayed, Execute
  PROVE  Replayed'
<1> DEFINE h == Head(wire)
<1>1. /\ server \in Servers /\ wire \in Seq(Requests) /\ m_buffer \in Seq(Requests)
      /\ calls \in Seq(CallRecords) /\ answers \in Nat /\ m_commands \in Seq(Requests)
      /\ Line \in Seq(Requests) /\ wire # <<>>
  BY LineType DEF TypeInv, Execute
<1>2. /\ conn = "up" /\ conn' = "up" /\ server.queued = <<>> /\ ~server.multi
  BY <1>1 DEF Connection, Execute, Replayed, Plain
<1>3. /\ server' = Serve(server, h) /\ wire' = Tail(wire) /\ m_buffer' = m_buffer
      /\ calls' = calls /\ failed' = failed /\ answers' = answers + 1
      /\ m_password' = m_password /\ m_database_index' = m_database_index
      /\ m_commands' = m_commands
  BY DEF Execute, clientVars
<1>4. ASSUME NEW b \in Seq(Requests), NEW c \in Seq(Requests), b # <<>>
      PROVE  /\ Suffix(<<>> \o b \o c, 1, <<>> \o Tail(b) \o c)
             /\ (<<>> \o b \o c)[1] = Head(b)
             /\ Len(<<>> \o b \o c) > 0
  <2>1. /\ <<>> \o b = b /\ <<>> \o Tail(b) = Tail(b) /\ Tail(b) \in Seq(Requests)
        /\ Len(b) \in Nat \ {0} /\ Len(c) \in Nat /\ Len(Tail(b)) = Len(b) - 1 /\ Head(b) = b[1]
    BY <1>4
  <2>2. /\ Len(b \o c) = Len(b) + Len(c)
        /\ Len(Tail(b) \o c) = Len(Tail(b)) + Len(c)
    BY <2>1
  <2>3. \A i \in 1 .. Len(Tail(b) \o c) : (Tail(b) \o c)[i] = (b \o c)[1 + i]
    BY <2>1
  <2>4. (b \o c)[1] = Head(b)
    BY <2>1
  <2> QED
    BY <2>1, <2>2, <2>3, <2>4 DEF Suffix
<1>5. server'.queued = <<>> => Suffix(Line, 1, Line')
  <2>1. Suffix(<<>> \o wire \o m_buffer, 1, <<>> \o Tail(wire) \o m_buffer)
    BY <1>1, <1>4
  <2> QED
    BY <1>2, <1>3, <2>1 DEF Line
<1>6. Line[1] = h /\ 1 \in 1 .. Len(Line)
  <2>1. (<<>> \o wire \o m_buffer)[1] = h /\ Len(<<>> \o wire \o m_buffer) > 0
    BY <1>1, <1>4
  <2>2. Line[1] = h /\ Len(Line) > 0
    BY <1>2, <2>1 DEF Line
  <2> QED
    BY <1>1, <2>2
<1>7. h.op = "data" /\ h \in Requests /\ OnlyData(Line)
  <2>1. OnlyData(Line)
    BY <1>2, PlainLine DEF Replayed
  <2> QED
    BY <1>1, <1>6, <2>1 DEF OnlyData
<1>8. Suffix(Line, 1, Line') => Suffix(m_commands', answers', Line')
  <2>1. Suffix(m_commands, answers, Line)
    BY <1>2 DEF Replayed, Plain
  <2>2. ASSUME NEW q \in Seq(Requests), NEW r \in Seq(Requests), NEW s, NEW p \in Nat,
               Suffix(q, p, r), Suffix(r, 1, s)
        PROVE  Suffix(q, p + 1, s)
    <3>1. /\ Len(q) \in Nat /\ Len(r) \in Nat /\ Len(q) = p + Len(r) /\ Len(r) = 1 + Len(s) /\ Len(s) \in Nat
          /\ \A i \in 1 .. Len(r) : r[i] = q[p + i]
          /\ \A i \in 1 .. Len(s) : s[i] = r[1 + i]
      BY <2>2 DEF Suffix
    <3>2. ASSUME NEW i \in 1 .. Len(s) PROVE s[i] = q[(p + 1) + i]
      <4>1. PICK k \in 1 .. Len(r) : k = 1 + i
        BY <3>1
      <4>2. p + k = (p + 1) + i
        BY <4>1
      <4> QED
        BY <3>1, <4>1, <4>2
    <3> QED
      BY <3>1, <3>2 DEF Suffix
  <2>3. PICK s : s = Line'
    OBVIOUS
  <2>4. Suffix(Line, 1, s) => Suffix(m_commands, answers + 1, s)
    BY <1>1, <2>1, <2>2
  <2> QED
    BY <1>3, <2>3, <2>4
<1>9. CASE server.protected
  <2>1. ~server.auth /\ server.log = <<>>
    BY <1>9 DEF Replayed, Plain
  <2>2. server' = [server EXCEPT !.refused = @ \cup {h.id}]
    BY <1>3, <1>7, <2>1 DEF Serve
  <2>3. /\ server'.queued = <<>> /\ server'.log = <<>> /\ ~server'.multi
        /\ server'.auth = server.auth /\ server'.protected = server.protected
    BY <1>1, <1>2, <2>1, <2>2 DEF Servers
  <2>4. Plain'
    BY <1>3, <1>5, <1>8, <2>3 DEF Replayed, Plain
  <2>5. \A n : LastOf(<<>>, n) = {}
    BY DEF LastOf
  <2>6. \A c, q : InOrder(c, <<>>, q)
    BY <2>5 DEF InOrder
  <2>7. InOrder(calls, server.log, Pending)'
    BY <2>3, <2>6
  <2> QED
    BY <2>4, <2>7 DEF Replayed
<1>10. CASE ~server.protected
  <2> DEFINE e == Execution(h, server.db, NoCall)
  <2>1. server.auth = TRUE
    BY <1>10 DEF Replayed, Plain
  <2>2. server' = [server EXCEPT !.log = Append(@, e)]
    BY <1>2, <1>3, <1>7, <2>1 DEF Serve
  <2>3. /\ server'.queued = <<>> /\ server'.log = Append(server.log, e) /\ ~server'.multi
        /\ server'.auth = server.auth /\ server'.protected = server.protected
    <3> HIDE DEF e
    <3> QED
      BY <1>1, <1>2, <2>2 DEF Servers
  <2>4. Plain'
    BY <1>3, <1>5, <1>8, <1>10, <2>3 DEF Replayed, Plain
  <2>5. e \in Entries /\ e.id = h.id /\ server.log \in Seq(Entries)
    <3>1. h.id \in Nat /\ h.op \in Ops
      BY <1>7, RequestType
    <3>2. server.db \in Nat /\ server.log \in Seq(Entries)
      BY <1>1 DEF Servers
    <3> QED
      BY <3>1, <3>2 DEF Entries, Execution, NoCall
  <2> HIDE DEF e
  <2>6. ASSUME failed' = {} PROVE InOrder(calls, server.log, Pending)'
    <3>1. InOrder(calls, server.log, Line)
      BY <1>2, <1>3, <2>6 DEF Replayed, Pending
    <3>2. Line' \in Seq(Requests)
      BY LineType, Concat3 DEF TypeInv, Line, Servers
    <3>3. PICK r \in Seq(Requests) : r = Line'
      BY <3>2
    <3>4. Sent(calls, Line) /\ e.id = Line[1].id /\ Suffix(Line, 1, r)
      BY <1>2, <1>5, <1>6, <2>3, <2>5, <3>3 DEF Order
    <3>5. InOrder(calls, Append(server.log, e), r)
      BY <1>1, <1>7, <2>5, <3>1, <3>4, OrderExecute
    <3>6. Pending' = r
      BY <1>2, <3>3 DEF Pending
    <3> QED
      BY <1>3, <2>3, <3>5, <3>6
  <2> QED
    BY <2>4, <2>6 DEF Replayed
<1> QED
  BY <1>9, <1>10

\* reconnect() does: it sends exactly the commands that wait for a reply.
LEMMA ReplayReconnect ==
  ASSUME TypeInv, TypeInv', Connection, Connection', Replayed, Reconnect
  PROVE  Replayed'
<1>1. /\ server \in Servers /\ m_commands \in Seq(Requests) /\ m_commands' \in Seq(Requests)
      /\ Line' \in Seq(Requests)
  <2>1. Line' \in Seq(Requests)
    BY Concat3 DEF TypeInv, Line, Servers
  <2> QED
    BY <2>1 DEF TypeInv
<1>2. /\ calls' = calls /\ failed' = failed /\ m_password' = m_password
      /\ m_database_index' = m_database_index
      /\ server' = NewConnection(server) /\ conn = "cleared" /\ conn' = "up" /\ answers' = answers
      /\ m_commands' = resend_failed_commands
  BY DEF Reconnect
<1>3. answers' = 0
  BY <1>2 DEF Connection
<1>4. restored = <<>>
  BY RestoredParts DEF Replayed, Plain
<1>5. m_commands' = m_commands
  BY <1>1, <1>2, <1>4 DEF resend_failed_commands
<1>6. /\ server'.protected = server.protected /\ server'.auth = ~server.protected
      /\ server'.log = server.log /\ ~server'.multi
  BY <1>1, <1>2 DEF NewConnection, Servers
<1>7. PICK v \in Seq(Requests) : v = Line'
  BY <1>1
<1>8. Len(v) = Len(m_commands) /\ \A i \in 1 .. Len(v) : v[i] = m_commands[i]
  <2>1. PICK k \in Nat : k = Len(restored) /\ k = 0
    BY <1>4
  <2>2. PICK n \in Nat : n = Len(m_commands)
    BY <1>1
  <2>3. Len(v) = k + n + k /\ \A i \in 1 .. n : v[k + i] = m_commands[i]
    BY <1>7, <2>1, <2>2, ReconnectLine
  <2>4. Len(v) = n /\ \A i \in 1 .. n : k + i = i
    BY <2>1, <2>3
  <2> QED
    BY <2>2, <2>3, <2>4
<1>9. Suffix(m_commands, 0, v)
  <2>1. Len(m_commands) \in Nat /\ \A i \in 1 .. Len(v) : 0 + i = i
    BY <1>1
  <2> QED
    BY <1>8, <2>1 DEF Suffix
<1>10. Plain'
  BY <1>2, <1>3, <1>5, <1>6, <1>7, <1>9 DEF Replayed, Plain
<1>11. ASSUME failed' = {} PROVE InOrder(calls, server.log, Pending)'
  <2>1. InOrder(calls, server.log, m_commands)
    BY <1>2, <1>11 DEF Replayed, Pending
  <2>2. PICK log : log = server.log
    OBVIOUS
  <2>3. Within(m_commands, v)
    BY <1>8 DEF Within
  <2>4. InOrder(calls, log, v)
    BY <2>1, <2>2, <2>3, OrderWeaker
  <2> QED
    BY <1>2, <1>6, <1>7, <2>2, <2>4 DEF Pending
<1> QED
  BY <1>10, <1>11 DEF Replayed

\* Every step preserves ReplayInv.
LEMMA ReplayInvStep ==
  ASSUME TransactionInv, TransactionInv', ReplayInv, [Next]_vars
  PROVE  ReplayInv'
<1> SUFFICES ASSUME OnlyData(calls') PROVE Replayed'
  BY DEF ReplayInv
<1>1. TypeInv /\ TypeInv' /\ Connection /\ Connection' /\ Order
  BY DEF TransactionInv
<1>2. /\ calls \in Seq(CallRecords) /\ m_commands \in Seq(Requests) /\ answers \in Nat
      /\ Line \in Seq(Requests)
  BY <1>1, LineType DEF TypeInv
<1>3. ASSUME NEW op, NEW arg, Call(op, arg) PROVE op = "data" /\ OnlyData(calls)
  <2>1. calls' = Append(calls, [op |-> op, arg |-> arg])
    BY <1>3 DEF Call
  <2>2. /\ Len(calls') = Len(calls) + 1 /\ Len(calls) \in Nat
        /\ calls'[Len(calls) + 1] = [op |-> op, arg |-> arg]
        /\ \A i \in 1 .. Len(calls) : calls'[i] = calls[i]
    BY <1>2, <2>1
  <2>3. op = "data"
    <3>1. Len(calls) + 1 \in 1 .. Len(calls')
      BY <2>2
    <3> QED
      BY <2>2, <3>1 DEF OnlyData
  <2>4. OnlyData(calls)
    BY <2>2 DEF OnlyData
  <2> QED
    BY <2>3, <2>4
<1>4. ASSUME NEW p \in Passwords, auth(p) PROVE Replayed'
  <2>1. Call("auth", p)
    BY <1>4 DEF auth
  <2> QED
    BY <1>3, <2>1
<1>5. ASSUME NEW n \in Indexes, select(n) PROVE Replayed'
  <2>1. Call("select", n)
    BY <1>5 DEF select
  <2> QED
    BY <1>3, <2>1
<1>6. ASSUME NEW op \in {"data", "multi", "exec"}, send(op) PROVE Replayed'
  <2>1. Call(op, 0) /\ UNCHANGED <<m_password, m_database_index>>
    BY <1>6 DEF send
  <2>2. Replayed
    BY <1>3, <2>1 DEF ReplayInv
  <2> QED
    BY <1>1, <2>1, <2>2, ReplayCall
<1>7. calls' = calls => Replayed /\ (conn = "up" => Suffix(m_commands, answers, Line))
  BY DEF ReplayInv, Replayed, Plain
<1>8. ASSUME Still
      PROVE  /\ UNCHANGED <<calls, m_password, m_database_index, server>>
             /\ conn' = "up" => conn = "up" /\ Line' = Line
             /\ Within(m_commands', m_commands)
  BY <1>1, <1>8, StillStep
<1>9. \A q : Within(q, q)
  BY DEF Within
<1>10. ASSUME Still, clear_callbacks, conn # "up", conn' # "up" PROVE Replayed'
  <2>1. failed' = {} => failed = {} /\ Within(Pending, Pending')
    BY <1>1, <1>9, <1>10, NoneFailed DEF Pending
  <2> QED
    BY <1>7, <1>8, <1>10, <2>1, ReplaySame
<1>11. ASSUME Still, UNCHANGED <<failed, m_commands, answers, conn>> PROVE Replayed'
  <2>1. Pending' = Pending
    BY <1>8, <1>11 DEF Pending
  <2> QED
    BY <1>7, <1>8, <1>9, <1>11, <2>1, ReplaySame
<1>12. CASE Commit
  BY <1>10, <1>11, <1>12 DEF Still, Commit
<1>13. CASE Receive
  <2>1. /\ UNCHANGED <<calls, failed, m_password, m_database_index, server, conn>>
        /\ Line' = Line /\ answers' = answers - 1 /\ answers > 0 /\ conn = "up"
    BY <1>1, <1>2, <1>13 DEF Receive, Line, Connection
  <2>2. PICK p \in Nat : answers = p + 1
    <3>1. answers - 1 \in Nat /\ answers = (answers - 1) + 1
      BY <1>2, <2>1
    <3> QED
      BY <3>1
  <2>3. Suffix(m_commands, p + 1, Line)
    BY <1>7, <2>1, <2>2
  <2>4. ASSUME NEW q \in Seq(Requests), NEW r \in Seq(Requests), Suffix(q, p + 1, r)
        PROVE  q # <<>> /\ Suffix(Tail(q), p, r)
    <3>1. /\ Len(q) \in Nat /\ Len(r) \in Nat /\ Len(q) = p + 1 + Len(r)
          /\ \A i \in 1 .. Len(r) : r[i] = q[(p + 1) + i]
      BY <2>4 DEF Suffix
    <3>2. /\ q # <<>> /\ Len(Tail(q)) = Len(q) - 1
          /\ \A i \in 1 .. Len(Tail(q)) : Tail(q)[i] = q[i + 1] /\ i + 1 \in 1 .. Len(q)
      BY <3>1
    <3>3. ASSUME NEW i \in 1 .. Len(r) PROVE r[i] = Tail(q)[p + i]
      <4>1. PICK k \in 1 .. Len(Tail(q)) : k = p + i
        BY <3>1, <3>2
      <4>2. k + 1 = (p + 1) + i
        BY <4>1
      <4> QED
        BY <3>1, <3>2, <4>1, <4>2
    <3>4. p \in 0 .. Len(Tail(q)) /\ Len(r) = Len(Tail(q)) - p
      BY <3>1, <3>2
    <3>5. Suffix(Tail(q), p, r)
      BY <3>3, <3>4 DEF Suffix
    <3> QED
      BY <3>2, <3>5
  <2>5. m_commands # <<>> /\ Suffix(Tail(m_commands), p, Line)
    BY <1>2, <2>3, <2>4
  <2>6. m_commands' = Tail(m_commands) /\ answers' = p
    BY <1>13, <2>1, <2>2, <2>5 DEF Receive
  <2>7. Pending' = Pending
    BY <2>1 DEF Pending
  <2>8. Within(m_commands', m_commands)
    BY <1>8, <1>13 DEF Still
  <2> QED
    BY <1>7, <1>9, <2>1, <2>5, <2>6, <2>7, <2>8, ReplaySame
<1>14. CASE Execute
  <2>1. Replayed
    BY <1>7, <1>14 DEF Execute, clientVars
  <2> QED
    BY <1>1, <1>14, <2>1, ReplayExecute
<1>19. CASE DropBuffers
  <2>1. /\ UNCHANGED <<failed, m_commands>>
        /\ conn # "up" /\ conn' # "up"
    BY <1>19 DEF DropBuffers
  <2>2. Pending' = Pending
    BY <2>1 DEF Pending
  <2> QED
    BY <1>7, <1>8, <1>9, <1>19, <2>1, <2>2, ReplaySame DEF Still
<1>15. CASE Drop
  <2>1. /\ UNCHANGED <<failed, m_commands>>
        /\ conn = "up" /\ conn' = "lost"
    BY <1>15 DEF Drop, clientVars
  <2>2. Within(Line, m_commands)
    BY <1>1, <1>7, <1>8, <1>15, <2>1, PlainLine DEF Replayed, Still
  <2>3. Pending = Line /\ Pending' = m_commands
    BY <2>1 DEF Pending
  <2> QED
    BY <1>7, <1>8, <1>15, <2>1, <2>2, <2>3, ReplaySame DEF Still
<1>16. CASE Reconnect
  <2>1. Replayed
    BY <1>7, <1>16 DEF Reconnect
  <2> QED
    BY <1>1, <1>16, <2>1, ReplayReconnect
<1>17. CASE GiveUp
  BY <1>10, <1>17 DEF Still, GiveUp
<1>18. CASE UNCHANGED vars
  BY <1>11, <1>18 DEF Still, vars, clientVars
<1> QED
  BY <1>4, <1>5, <1>6, <1>12, <1>13, <1>14, <1>15, <1>16, <1>17, <1>18, <1>19 DEF Next

\* ReplayInv holds initially.
LEMMA ReplayInit == Init => ReplayInv
<1> SUFFICES ASSUME Init PROVE Replayed
  BY DEF ReplayInv
<1>1. /\ calls = <<>> /\ m_commands = <<>> /\ answers = 0 /\ m_password = ""
      /\ m_database_index = 0
  BY DEF Init
<1>2. /\ Line = <<>> /\ server.log = <<>> /\ ~server.multi
      /\ server.auth = ~server.protected
  BY InitialLine
<1>3. OnlyData(<<>>)
  BY DEF OnlyData
<1>4. Suffix(<<>>, 0, <<>>)
  BY DEF Suffix
<1>5. Plain
  BY <1>1, <1>2, <1>3, <1>4 DEF Plain
<1>6. InOrder(<<>>, server.log, Pending)
  BY DEF InOrder
<1> QED
  BY <1>1, <1>5, <1>6 DEF Replayed

\* Without sessions to restore, what is sent again is sent in order.
THEOREM ReplayInvariance == Quiet /\ Spec => []ReplayInv
<1>1. Init => ReplayInv
  BY ReplayInit
<1>2. TransactionInv /\ TransactionInv' /\ ReplayInv /\ [Next]_vars => ReplayInv'
  BY ReplayInvStep
<1> QED
  BY <1>1, <1>2, TransactionInvariance, PTL DEF Spec

\* ReplayInv is stronger than Settled.
LEMMA ReplaySettled ==
  ASSUME TypeInv, ReplayInv
  PROVE  Settled
<1>1. calls \in Seq(CallRecords) /\ server.log \in Seq(Entries) /\ Line \in Seq(Requests) /\ answers \in Nat
  BY LineType DEF TypeInv, Servers
<1>2. DOMAIN calls = 1 .. Len(calls) /\ DOMAIN server.log = 1 .. Len(server.log)
  BY <1>1
<1>3. SUFFICES ASSUME conn = "up", m_commands = <<>>, failed = {},
                      \A n \in DOMAIN calls : calls[n].op = "data"
               PROVE  \A m, n \in DOMAIN calls : m < n => \A j \in LastRun(m), k \in LastRun(n) : j < k
  BY DEF Settled
<1>4. Replayed
  BY <1>2, <1>3 DEF ReplayInv, OnlyData
<1>5. InOrder(calls, server.log, Line)
  BY <1>3, <1>4 DEF Replayed, Pending
<1>6. Len(Line) = 0
  <2>1. Suffix(<<>>, answers, Line)
    BY <1>3, <1>4 DEF Replayed, Plain
  <2>2. Len(<<>>) = 0 /\ Len(Line) \in Nat
    BY <1>1
  <2> QED
    BY <1>1, <2>1, <2>2 DEF Suffix
<1>7. \A n : LastRun(n) = LastOf(server.log, n)
  BY <1>2 DEF LastRun, LastOf
<1> QED
  BY <1>2, <1>5, <1>6, <1>7 DEF InOrder

\* Settled, for every application: the commands that reconnect() sends again
\* (client.cpp:291) may run twice, but end in the order of their calls (Quiet: a
\* command sent in the window would be written before earlier ones).
THEOREM SettledInOrder == Quiet /\ Spec => []Settled
<1>1. TypeInv /\ ReplayInv => Settled
  BY ReplaySettled
<1>2. TransactionInv => TypeInv
  BY DEF TransactionInv
<1> QED
  BY <1>1, <1>2, ReplayInvariance, TransactionInvariance, PTL
=============================================================================
