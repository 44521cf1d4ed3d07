------------------------- MODULE SubscriptionProofs -------------------------
(***************************************************************************)
(* Theorems about what the subscriber and the server know, and about the   *)
(* order of messages, for any application threads, names and operations,   *)
(* any number of lost connections, refusals and messages, and one worker,  *)
(* w: the io_service of tacopie has one unless the application asks for    *)
(* more. Two workers can leave a subscription behind (see                  *)
(* resubscription_lost.cfg).                                               *)
(*                                                                         *)
(* That the server ends up with the maps rests on what it will know once   *)
(* it has read what is still buffered. Each subscribe and unsubscribe      *)
(* changes the map and that knowledge alike; what a loss takes away,       *)
(* re_subscribe asks for again, with the maps locked, from the maps        *)
(* themselves. Synced says how far the two may differ at each label of the *)
(* worker.                                                                 *)
(*                                                                         *)
(* That messages arrive in order rests on their being in one line: the     *)
(* reply the worker holds, those that are parsed and those that are not.   *)
(* Ordered says that the messages in this line are in order, that each is  *)
(* later than those its callback has already got, and no later than the    *)
(* last one published.                                                     *)
(***************************************************************************)
EXTENDS SubscriberProofs, FiniteSetTheorems, SequenceTheorems

\* The commands that the subscriber writes.
Commands ==
  {AuthCommand} \cup
  {Command(v, k, x) : v \in {"SUBSCRIBE", "UNSUBSCRIBE"}, k \in Kinds, x \in Names}

\* What the server may know of the connection.
ServerStates == [authenticated : BOOLEAN, subs : [Kinds -> SUBSET Names]]

\* The state of a server that has read all of cs.
Read(s, cs) == After(s, cs, Len(cs))

\* Reading commands leaves the server in one of its states.
LEMMA AfterType ==
  ASSUME NEW s \in ServerStates, NEW cs, NEW n
  PROVE  After(s, cs, n) \in ServerStates
<1>1. Passed(s, cs, n) \in BOOLEAN
  BY DEF Passed, ServerStates
<1> QED
  BY <1>1 DEF After, ServerStates

\* Commands read in two parts.
LEMMA ReadConcat ==
  ASSUME NEW s \in ServerStates, NEW C, NEW b \in Seq(C), NEW d \in Seq(C)
  PROVE  Read(s, b \o d) = Read(Read(s, b), d)
<1> DEFINE t == Read(s, b)
           e == b \o d
           m == Len(b)
           n == Len(d)
<1>1. /\ m \in Nat /\ n \in Nat /\ Len(e) = m + n
      /\ \A i \in 1 .. m : e[i] = b[i]
      /\ \A i \in 1 .. n : e[m + i] = d[i]
  OBVIOUS
<1>2. t \in ServerStates /\ t.authenticated = Passed(s, b, m)
  BY AfterType DEF Read, After
<1>3. \A k \in Kinds, x \in Names : x \in t.subs[k] <=>
        \/ x \in s.subs[k] /\ Kept(s, b, 0, m, k, x)
        \/ \E i \in 1 .. m : /\ Obeyed(s, b, i, Command("SUBSCRIBE", k, x))
                             /\ Kept(s, b, i, m, k, x)
  BY DEF Read, After
<1> HIDE DEF t, e, m, n
<1>4. \A i \in 0 .. m : Passed(s, e, i) <=> Passed(s, b, i)
  <2>1. ASSUME NEW i \in 0 .. m, NEW j \in 1 .. i PROVE e[j] = b[j]
    BY <1>1
  <2> QED
    BY <2>1 DEF Passed
<1>5. \A i \in 0 .. n : Passed(s, e, m + i) <=> Passed(t, d, i)
  <2> SUFFICES ASSUME NEW i \in 0 .. n PROVE Passed(s, e, m + i) <=> Passed(t, d, i)
    OBVIOUS
  <2>1. (\E j \in 1 .. m + i : e[j].name = "AUTH")
          <=> \/ \E j \in 1 .. m : b[j].name = "AUTH"
              \/ \E j \in 1 .. i : d[j].name = "AUTH"
    <3>1. ASSUME NEW j \in 1 .. m + i, e[j].name = "AUTH", ~(j <= m)
          PROVE  \E l \in 1 .. i : d[l].name = "AUTH"
      <4>1. j - m \in 1 .. i /\ e[m + (j - m)] = e[j]
        BY <1>1, <3>1
      <4> QED
        BY <4>1, <1>1, <3>1
    <3>2. ASSUME NEW j \in 1 .. i, d[j].name = "AUTH"
          PROVE  m + j \in 1 .. m + i /\ e[m + j].name = "AUTH"
      BY <1>1, <3>2
    <3>3. ASSUME NEW j \in 1 .. m, b[j].name = "AUTH"
          PROVE  j \in 1 .. m + i /\ e[j].name = "AUTH"
      BY <1>1, <3>3
    <3>4. ASSUME NEW j \in 1 .. m + i, e[j].name = "AUTH", j <= m
          PROVE  \E l \in 1 .. m : b[l].name = "AUTH"
      BY <1>1, <3>4
    <3> QED
      BY <3>1, <3>2, <3>3, <3>4
  <2> QED
    BY <1>2, <2>1 DEF Passed
<1>6. \A i \in 1 .. m : \A c : Obeyed(s, e, i, c) <=> Obeyed(s, b, i, c)
  BY <1>1, <1>4 DEF Obeyed
<1>7. \A i \in 1 .. n : \A c : Obeyed(s, e, m + i, c) <=> Obeyed(t, d, i, c)
  BY <1>1, <1>5 DEF Obeyed
<1>8. \A i \in 0 .. n : \A k, x : Kept(s, e, m + i, m + n, k, x) <=> Kept(t, d, i, n, k, x)
  <2> SUFFICES ASSUME NEW i \in 0 .. n, NEW k, NEW x
               PROVE  Kept(s, e, m + i, m + n, k, x) <=> Kept(t, d, i, n, k, x)
    OBVIOUS
  <2>1. ASSUME NEW j \in m + i + 1 .. m + n
        PROVE  j - m \in i + 1 .. n /\ j - m \in 1 .. n /\ m + (j - m) = j
    BY <1>1
  <2>2. ASSUME NEW j \in i + 1 .. n PROVE m + j \in m + i + 1 .. m + n /\ j \in 1 .. n
    BY <1>1
  <2> QED
    BY <1>7, <2>1, <2>2 DEF Kept
<1>9. \A i \in 0 .. m : \A k, x : Kept(s, e, i, m + n, k, x) <=>
                              Kept(s, b, i, m, k, x) /\ Kept(t, d, 0, n, k, x)
  <2> SUFFICES ASSUME NEW i \in 0 .. m, NEW k, NEW x
               PROVE  Kept(s, e, i, m + n, k, x) <=>
                      Kept(s, b, i, m, k, x) /\ Kept(t, d, 0, n, k, x)
    OBVIOUS
  <2>1. Kept(s, e, m, m + n, k, x) <=> Kept(t, d, 0, n, k, x)
    BY <1>1, <1>8
  <2>2. Kept(s, e, i, m, k, x) <=> Kept(s, b, i, m, k, x)
    BY <1>1, <1>6 DEF Kept
  <2>3. Kept(s, e, i, m + n, k, x) <=> Kept(s, e, i, m, k, x) /\ Kept(s, e, m, m + n, k, x)
    BY <1>1 DEF Kept
  <2> QED
    BY <2>1, <2>2, <2>3
<1>10. Passed(s, e, m + n) = Passed(t, d, n)
  <2>1. Passed(s, e, m + n) \in BOOLEAN /\ Passed(t, d, n) \in BOOLEAN
    BY <1>2 DEF Passed, ServerStates
  <2> QED
    BY <1>1, <1>5, <2>1
<1>11. ASSUME NEW k \in Kinds, NEW x \in Names
       PROVE  (\/ x \in s.subs[k] /\ Kept(s, e, 0, m + n, k, x)
               \/ \E i \in 1 .. m + n : /\ Obeyed(s, e, i, Command("SUBSCRIBE", k, x))
                                        /\ Kept(s, e, i, m + n, k, x))
              <=>
              (\/ x \in t.subs[k] /\ Kept(t, d, 0, n, k, x)
               \/ \E i \in 1 .. n : /\ Obeyed(t, d, i, Command("SUBSCRIBE", k, x))
                                    /\ Kept(t, d, i, n, k, x))
  <2> DEFINE c == Command("SUBSCRIBE", k, x)
  <2> HIDE DEF c
  <2>1. (\E i \in 1 .. m + n : Obeyed(s, e, i, c) /\ Kept(s, e, i, m + n, k, x))
          <=> \/ \E i \in 1 .. m : Obeyed(s, e, i, c) /\ Kept(s, e, i, m + n, k, x)
              \/ \E i \in 1 .. n : Obeyed(s, e, m + i, c) /\ Kept(s, e, m + i, m + n, k, x)
    <3>1. ASSUME NEW i \in 1 .. m + n, ~(i <= m)
          PROVE  i - m \in 1 .. n /\ m + (i - m) = i
      BY <1>1, <3>1
    <3>2. ASSUME NEW i \in 1 .. m + n, i <= m PROVE i \in 1 .. m
      BY <1>1, <3>2
    <3>3. /\ \A i \in 1 .. n : m + i \in 1 .. m + n
          /\ \A i \in 1 .. m : i \in 1 .. m + n
      BY <1>1
    <3> QED
      BY <3>1, <3>2, <3>3
  <2>2. \A i \in 1 .. m : Obeyed(s, e, i, c) /\ Kept(s, e, i, m + n, k, x) <=>
          Obeyed(s, b, i, c) /\ Kept(s, b, i, m, k, x) /\ Kept(t, d, 0, n, k, x)
    BY <1>1, <1>6, <1>9
  <2>3. \A i \in 1 .. n : Obeyed(s, e, m + i, c) /\ Kept(s, e, m + i, m + n, k, x) <=>
          Obeyed(t, d, i, c) /\ Kept(t, d, i, n, k, x)
    BY <1>1, <1>7, <1>8
  <2>4. Kept(s, e, 0, m + n, k, x) <=> Kept(s, b, 0, m, k, x) /\ Kept(t, d, 0, n, k, x)
    BY <1>1, <1>9
  <2>5. x \in t.subs[k] <=> \/ x \in s.subs[k] /\ Kept(s, b, 0, m, k, x)
                            \/ \E i \in 1 .. m : Obeyed(s, b, i, c) /\ Kept(s, b, i, m, k, x)
    BY <1>3 DEF c
  <2>6. (\E i \in 1 .. m : Obeyed(s, e, i, c) /\ Kept(s, e, i, m + n, k, x)) <=>
        (\E i \in 1 .. m : Obeyed(s, b, i, c) /\ Kept(s, b, i, m, k, x)) /\ Kept(t, d, 0, n, k, x)
    BY <2>2
  <2>7. (\E i \in 1 .. n : Obeyed(s, e, m + i, c) /\ Kept(s, e, m + i, m + n, k, x)) <=>
        (\E i \in 1 .. n : Obeyed(t, d, i, c) /\ Kept(t, d, i, n, k, x))
    BY <2>3
  <2>8. (\/ x \in s.subs[k] /\ Kept(s, e, 0, m + n, k, x)
         \/ \E i \in 1 .. m + n : Obeyed(s, e, i, c) /\ Kept(s, e, i, m + n, k, x))
        <=>
        (\/ x \in t.subs[k] /\ Kept(t, d, 0, n, k, x)
         \/ \E i \in 1 .. n : Obeyed(t, d, i, c) /\ Kept(t, d, i, n, k, x))
    BY <2>1, <2>4, <2>5, <2>6, <2>7
  <2> QED
    BY <2>8 DEF c
<1>12. Len(e) = m + n
  BY <1>1
<1>13. After(s, e, m + n) = After(t, d, n)
  BY <1>10, <1>11 DEF After
<1> QED
  BY <1>12, <1>13 DEF Read, t, e, n
\* Nothing read changes nothing.
LEMMA ReadNone ==
  ASSUME NEW s \in ServerStates
  PROVE  Read(s, <<>>) = s
<1>1. s.authenticated \in BOOLEAN /\ s.subs \in [Kinds -> SUBSET Names]
      /\ s = [authenticated |-> s.authenticated, subs |-> s.subs]
  BY DEF ServerStates
<1>2. Passed(s, <<>>, 0) = s.authenticated
  BY <1>1 DEF Passed
<1>3. \A k, x : Kept(s, <<>>, 0, 0, k, x)
  BY DEF Kept
<1> QED
  BY <1>1, <1>2, <1>3 DEF Read, After

\* One command more.
LEMMA ReadAppend ==
  ASSUME NEW s \in ServerStates, NEW C, NEW b \in Seq(C), NEW c \in C
  PROVE  Read(s, Append(b, c)) = Read(Read(s, b), <<c>>)
<1>1. Append(b, c) = b \o <<c>> /\ <<c>> \in Seq(C)
  OBVIOUS
<1> QED
  BY <1>1, ReadConcat

\* One command.
LEMMA ReadAuth ==
  ASSUME NEW s \in ServerStates
  PROVE  Read(s, <<AuthCommand>>) = [authenticated |-> TRUE, subs |-> s.subs]
<1> DEFINE cs == <<AuthCommand>>
<1>1. Len(cs) = 1 /\ cs[1] = AuthCommand /\ AuthCommand.name = "AUTH"
  BY DEF AuthCommand, Command
<1>2. \A v, k, x : v # "AUTH" => Command(v, k, x) # AuthCommand
  BY DEF AuthCommand, Command
<1> HIDE DEF cs
<1>3. Passed(s, cs, 1) = TRUE
  BY <1>1 DEF Passed
<1>4. \A k, x : Kept(s, cs, 0, 1, k, x)
  BY <1>1, <1>2 DEF Kept, Obeyed
<1>5. \A i \in 1 .. 1 : \A k, x : ~Obeyed(s, cs, i, Command("SUBSCRIBE", k, x))
  BY <1>1, <1>2 DEF Obeyed
<1>6. After(s, cs, 1) = [authenticated |-> TRUE, subs |-> s.subs]
  BY <1>3, <1>4, <1>5 DEF After, ServerStates
<1> QED
  BY <1>1, <1>6 DEF Read, cs

LEMMA ReadSubscribes ==
  ASSUME NEW s \in ServerStates, s.authenticated, NEW C, NEW d \in Seq(C),
         \A i \in 1 .. Len(d) : d[i].name = "SUBSCRIBE"
  PROVE  /\ Read(s, d).authenticated
         /\ \A k \in Kinds : Read(s, d).subs[k] =
              s.subs[k] \cup {x \in Names : \E i \in 1 .. Len(d) :
                                              d[i] = Command("SUBSCRIBE", k, x)}
<1>1. \A i : Passed(s, d, i) = TRUE
  BY DEF Passed
<1>2. \A k, x : Command("UNSUBSCRIBE", k, x).name = "UNSUBSCRIBE"
  BY DEF Command
<1>3. ASSUME NEW i \in 0 .. Len(d), NEW k, NEW x PROVE Kept(s, d, i, Len(d), k, x)
  BY <1>2 DEF Kept, Obeyed
<1>4. \A k, x : \A i \in 1 .. Len(d) :
        Obeyed(s, d, i, Command("SUBSCRIBE", k, x)) <=> d[i] = Command("SUBSCRIBE", k, x)
  BY <1>1 DEF Obeyed
<1>5. Len(d) \in Nat
  OBVIOUS
<1> QED
  BY <1>1, <1>3, <1>4, <1>5 DEF Read, After, ServerStates

LEMMA ReadUnsubscribe ==
  ASSUME NEW s \in ServerStates, s.authenticated, NEW k \in Kinds, NEW x \in Names
  PROVE  LET t == Read(s, <<Command("UNSUBSCRIBE", k, x)>>) IN
         /\ t.authenticated
         /\ \A l \in Kinds : t.subs[l] = {y \in s.subs[l] : ~(l = k /\ y = x)}
<1> DEFINE cs == <<Command("UNSUBSCRIBE", k, x)>>
<1>1. Len(cs) = 1 /\ cs[1] = Command("UNSUBSCRIBE", k, x)
  OBVIOUS
<1> HIDE DEF cs
<1>2. \A i : Passed(s, cs, i) = TRUE
  BY DEF Passed
<1>3. \A i \in 1 .. 1 : \A l, y : ~Obeyed(s, cs, i, Command("SUBSCRIBE", l, y))
  BY <1>1 DEF Obeyed, Command
<1>4. \A l, y : Kept(s, cs, 0, 1, l, y) <=> ~(l = k /\ y = x)
  BY <1>1, <1>2 DEF Kept, Obeyed, Command
<1>5. After(s, cs, 1) = [authenticated |-> TRUE,
                         subs |-> [l \in Kinds |-> {y \in s.subs[l] : ~(l = k /\ y = x)}]]
  BY <1>2, <1>3, <1>4 DEF After, ServerStates
<1> QED
  BY <1>1, <1>5 DEF Read, cs

\* What comes before the password is refused.
LEMMA ReadRefused ==
  ASSUME NEW s \in ServerStates, ~s.authenticated, NEW c, c.name # "AUTH"
  PROVE  Read(s, <<c>>) = s
<1> DEFINE cs == <<c>>
<1>1. Len(cs) = 1 /\ cs[1] = c
  OBVIOUS
<1> HIDE DEF cs
<1>2. Passed(s, cs, 1) = FALSE
  BY <1>1 DEF Passed
<1>3. \A i \in 1 .. 1 : \A d : ~Obeyed(s, cs, i, d)
  BY <1>2 DEF Obeyed
<1>4. \A k, x : Kept(s, cs, 0, 1, k, x)
  BY <1>3 DEF Kept
<1>5. s = [authenticated |-> FALSE, subs |-> s.subs] /\ s.subs \in [Kinds -> SUBSET Names]
  BY DEF ServerStates
<1> QED
  BY <1>1, <1>2, <1>3, <1>4, <1>5 DEF Read, After, cs

\* Nothing is subscribed but what was and what is asked for.
LEMMA ReadFinite ==
  ASSUME NEW s \in ServerStates, NEW C, NEW cs \in Seq(C), NEW n \in 0 .. Len(cs),
         NEW k \in Kinds, IsFiniteSet(s.subs[k])
  PROVE  IsFiniteSet(After(s, cs, n).subs[k])
<1> DEFINE f == [i \in 1 .. n |-> cs[i].arg]
           T == {f[i] : i \in 1 .. n}
<1>1. IsFiniteSet(1 .. n)
  BY FS_Interval
<1>2. f \in Surjection(1 .. n, T)
  BY DEF Surjection
<1> HIDE DEF T
<1>3. IsFiniteSet(T)
  BY <1>1, <1>2, FS_Surjection
<1>4. ASSUME NEW i \in 1 .. n, NEW x, Obeyed(s, cs, i, Command("SUBSCRIBE", k, x))
      PROVE  x \in T
  BY <1>4 DEF T, Obeyed, Command
<1>5. After(s, cs, n).subs[k] \subseteq s.subs[k] \cup T
  BY <1>4 DEF After
<1>6. IsFiniteSet(s.subs[k] \cup T)
  BY <1>3, FS_Union
<1> QED
  BY <1>5, <1>6, FS_Subset

\* SetToSeq lists each element of a finite set once.
LEMMA Listed ==
  ASSUME NEW S, IsFiniteSet(S)
  PROVE  /\ SetToSeq(S) \in Seq(S)
         /\ \A x \in S : \E i \in 1 .. Len(SetToSeq(S)) : SetToSeq(S)[i] = x
         /\ \A i, j \in 1 .. Len(SetToSeq(S)) : SetToSeq(S)[i] = SetToSeq(S)[j] => i = j
<1> DEFINE n == Cardinality(S)
           q == SetToSeq(S)
<1>1. n \in Nat /\ ExistsBijection(1 .. n, S)
  BY FS_CardinalityType
<1>2. \E f \in [1 .. n -> S] : IsInjective(f)
  BY <1>1 DEF ExistsBijection, Bijection, Injection
<1>3. q \in [1 .. n -> S] /\ IsInjective(q)
  BY <1>2 DEF SetToSeq
<1> HIDE DEF q
<1>4. q \in Seq(S) /\ Len(q) = n
  BY <1>1, <1>3
<1>5. IsFiniteSet(1 .. n) /\ Cardinality(1 .. n) = n
  BY <1>1, FS_Interval
<1>6. q \in Injection(1 .. n, S)
  BY <1>3 DEF Injection
<1>7. q \in Surjection(1 .. n, S)
  BY <1>5, <1>6, FS_Injection
<1> QED
  BY <1>3, <1>4, <1>7 DEF q, Surjection, IsInjective
(***************************************************************************)
(* What the maps, the buffer and the server hold.                          *)
(***************************************************************************)
\* Their types.
Data ==
  /\ server \in ServerStates
  /\ NeedsAuth \/ server.authenticated
  /\ m_buffer \in Seq(Commands)
  /\ m_subscribed \in [Kinds -> SUBSET Names]
  /\ \A k \in Kinds : IsFiniteSet(server.subs[k]) /\ IsFiniteSet(m_subscribed[k])

\* What the server will know once it has read what is buffered.
Final == Read(server, m_buffer)

\* A new connection is one the server knows nothing of.
LEMMA NewConnectionState ==
  /\ NewConnection \in ServerStates
  /\ NewConnection.authenticated = ~NeedsAuth
  /\ \A k \in Kinds : NewConnection.subs[k] = {} /\ IsFiniteSet(NewConnection.subs[k])
BY FS_EmptySet, SubscriberAssumption DEF NewConnection, ServerStates

\* re_subscribe asks for what is in the maps, and for nothing else.
LEMMA ResubscriptionsList ==
  ASSUME Data, NEW k \in Kinds
  PROVE  LET r == Resubscriptions(k) IN
         /\ r \in Seq(Commands)
         /\ \A i \in 1 .. Len(r) : r[i].name = "SUBSCRIBE"
         /\ \A l \in Kinds, x \in Names :
              (\E i \in 1 .. Len(r) : r[i] = Command("SUBSCRIBE", l, x))
                <=> l = k /\ x \in m_subscribed[k]
<1> DEFINE S == m_subscribed[k]
           f == [x \in S |-> Command("SUBSCRIBE", k, x)]
           T == {Command("SUBSCRIBE", k, x) : x \in S}
<1>1. f \in Surjection(S, T)
  BY DEF Surjection
<1>2. IsFiniteSet(S) /\ S \subseteq Names
  BY DEF Data
<1> HIDE DEF f
<1>3. IsFiniteSet(T)
  BY <1>1, <1>2, FS_Surjection
<1>4. T \subseteq Commands
  BY <1>2 DEF Commands
<1>5. \A c \in T : c.name = "SUBSCRIBE"
  BY DEF Command
<1>6. \A l \in Kinds, x \in Names : Command("SUBSCRIBE", l, x) \in T <=> l = k /\ x \in S
  BY <1>2 DEF Command
<1> HIDE DEF T, S
<1> DEFINE q == SetToSeq(T)
<1>7. /\ q \in Seq(T)
      /\ \A c \in T : \E i \in 1 .. Len(q) : q[i] = c
  BY <1>3, Listed
<1> HIDE DEF q
<1>8. q \in Seq(Commands) /\ \A i \in 1 .. Len(q) : q[i] \in T
  BY <1>4, <1>7
<1>9. \A c : (\E i \in 1 .. Len(q) : q[i] = c) <=> c \in T
  BY <1>7, <1>8
<1>10. Resubscriptions(k) = q
  BY DEF q, T, S, Resubscriptions
<1> QED
  BY <1>5, <1>6, <1>8, <1>9, <1>10 DEF S

\* The server ends up in one of its states.
LEMMA FinalType ==
  ASSUME Data
  PROVE  /\ Final \in ServerStates
         /\ server.authenticated => Final.authenticated
         /\ \A k \in Kinds : IsFiniteSet(Final.subs[k])
<1>1. Len(m_buffer) \in 0 .. Len(m_buffer)
  BY DEF Data
<1>2. server.authenticated => Final.authenticated
  BY DEF Final, Read, After, Passed
<1> QED
  BY <1>1, <1>2, AfterType, ReadFinite DEF Data, Final, Read

\* Writing the buffer tells the server what it would have known in the end.
LEMMA WriteFinal ==
  ASSUME Data, WriteCommands
  PROVE  server' = Final /\ Final' = Final
<1>1. server' = Final /\ m_buffer' = <<>>
  BY DEF WriteCommands, Final, Read
<1>2. Read(Final, <<>>) = Final
  BY FinalType, ReadNone
<1>3. Final' = Read(server', m_buffer')
  BY DEF Final
<1> QED
  BY <1>1, <1>2, <1>3

\* Writing the buffer keeps the types.
LEMMA DataWrite ==
  ASSUME Data, UNCHANGED m_subscribed, WriteCommands \/ (WriteFails /\ UNCHANGED server)
  PROVE  Data'
<1>1. CASE WriteCommands
  <2>1. server' = Final /\ m_buffer' = <<>>
    BY <1>1, WriteFinal DEF WriteCommands
  <2>2. /\ server' \in ServerStates /\ (NeedsAuth \/ server'.authenticated)
        /\ \A k \in Kinds : IsFiniteSet(server'.subs[k])
    BY <2>1, FinalType DEF Data
  <2> QED
    BY <2>1, <2>2 DEF Data
<1>2. CASE WriteFails /\ UNCHANGED server
  BY <1>2 DEF Data, WriteFails
<1> QED
  BY <1>1, <1>2

\* After re_subscribe everything in the maps will be subscribed.
LEMMA Resubscribing ==
  ASSUME Data, UNCHANGED <<server, m_subscribed>>,
         m_buffer' = m_buffer \o Resubscriptions("channel") \o Resubscriptions("pattern")
  PROVE  /\ Data'
         /\ Final.authenticated =>
              /\ Final'.authenticated
              /\ \A k \in Kinds : Final'.subs[k] = Final.subs[k] \cup m_subscribed[k]
<1> DEFINE a == Resubscriptions("channel")
           b == Resubscriptions("pattern")
<1>1. /\ a \in Seq(Commands) /\ b \in Seq(Commands)
      /\ \A i \in 1 .. Len(a) : a[i].name = "SUBSCRIBE"
      /\ \A i \in 1 .. Len(b) : b[i].name = "SUBSCRIBE"
      /\ \A l \in Kinds, x \in Names :
           /\ (\E i \in 1 .. Len(a) : a[i] = Command("SUBSCRIBE", l, x))
                <=> l = "channel" /\ x \in m_subscribed["channel"]
           /\ (\E i \in 1 .. Len(b) : b[i] = Command("SUBSCRIBE", l, x))
                <=> l = "pattern" /\ x \in m_subscribed["pattern"]
  BY ResubscriptionsList DEF Kinds
<1>m. m_buffer' = (m_buffer \o a) \o b
  OBVIOUS
<1> HIDE DEF a, b
<1>s. a \in Seq(Commands) /\ b \in Seq(Commands)
  BY <1>1
<1> DEFINE e == m_buffer \o a
<1>2. m_buffer \in Seq(Commands) /\ e \in Seq(Commands) /\ server \in ServerStates
      /\ m_buffer' = e \o b
  <2>1. m_buffer \in Seq(Commands) /\ server \in ServerStates
    BY DEF Data
  <2>2. e \in Seq(Commands)
    BY <1>s, <2>1
  <2> QED
    BY <1>m, <2>1, <2>2
<1> HIDE DEF e
<1>3. Data'
  <2>1. e \o b \in Seq(Commands)
    BY <1>s, <1>2
  <2>2. UNCHANGED <<server, m_subscribed>> /\ m_buffer' \in Seq(Commands)
    BY <1>2, <2>1
  <2> QED
    BY <2>2 DEF Data
<1> DEFINE f == Read(Final, a)
           g == Read(f, b)
<1>4. Final \in ServerStates /\ f \in ServerStates
  BY FinalType, AfterType DEF Read
<1>5. Read(server, e) = f
  BY <1>s, <1>2, ReadConcat DEF Final, e
<1>6. Final' = g
  <2>1. Final' = Read(server, e \o b)
    BY <1>2 DEF Final
  <2>2. Read(server, e \o b) = Read(Read(server, e), b)
    BY <1>s, <1>2, ReadConcat
  <2> QED
    BY <1>5, <2>1, <2>2
<1> HIDE DEF f, g
<1>7. ASSUME Final.authenticated
      PROVE  /\ Final'.authenticated
             /\ \A k \in Kinds : Final'.subs[k] = Final.subs[k] \cup m_subscribed[k]
  <2>1. /\ f.authenticated
        /\ \A k \in Kinds : f.subs[k] = Final.subs[k] \cup
             {x \in Names : \E i \in 1 .. Len(a) : a[i] = Command("SUBSCRIBE", k, x)}
    BY <1>1, <1>4, <1>7, ReadSubscribes DEF f
  <2>2. /\ g.authenticated
        /\ \A k \in Kinds : g.subs[k] = f.subs[k] \cup
             {x \in Names : \E i \in 1 .. Len(b) : b[i] = Command("SUBSCRIBE", k, x)}
    BY <1>1, <1>4, <2>1, ReadSubscribes DEF g
  <2>3. ASSUME NEW k \in Kinds PROVE g.subs[k] = Final.subs[k] \cup m_subscribed[k]
    <3>1. /\ {x \in Names : \E i \in 1 .. Len(a) : a[i] = Command("SUBSCRIBE", k, x)}
               = {x \in Names : k = "channel" /\ x \in m_subscribed["channel"]}
          /\ {x \in Names : \E i \in 1 .. Len(b) : b[i] = Command("SUBSCRIBE", k, x)}
               = {x \in Names : k = "pattern" /\ x \in m_subscribed["pattern"]}
      BY <1>1
    <3>2. m_subscribed[k] \subseteq Names
      BY DEF Data
    <3> QED
      BY <2>1, <2>2, <3>1, <3>2 DEF Kinds
  <2> QED
    BY <1>6, <2>2, <2>3
<1> QED
  BY <1>3, <1>7

\* Every step keeps the types.
LEMMA DataNext == Data /\ [Next]_vars => Data'
<1> SUFFICES ASSUME Data, [Next]_vars PROVE Data'
  OBVIOUS
<1> USE DEF Data, mapVars, connVars
<1>1. ASSUME NEW u \in Users, NEW k \in Kinds, NEW x \in Names, Subscribe(u, k, x) PROVE Data'
  <2>1. IsFiniteSet(m_subscribed[k] \cup {x})
    BY FS_AddElement
  <2>2. UNCHANGED server /\ m_buffer' \in Seq(Commands)
    BY <1>1 DEF Subscribe, BufferCommand, Commands
  <2> QED
    BY <1>1, <2>1, <2>2 DEF Subscribe
<1>2. ASSUME NEW u \in Users, NEW k \in Kinds, NEW x \in Names, Unsubscribe(u, k, x) PROVE Data'
  <2>1. IsFiniteSet(m_subscribed[k] \ {x})
    BY FS_RemoveElement
  <2>2. UNCHANGED server /\ m_buffer' \in Seq(Commands)
    BY <1>2 DEF Unsubscribe, BufferCommand, Commands
  <2> QED
    BY <1>2, <2>1, <2>2 DEF Unsubscribe
<1>3. ASSUME NEW u \in Users, Auth(u) PROVE Data'
  BY <1>3 DEF Auth, auth, BufferCommand, Commands
<1>4. ASSUME NEW u \in Users, Commit(u) PROVE Data'
  <2>1. UNCHANGED m_subscribed /\ (WriteCommands \/ (WriteFails /\ UNCHANGED server))
    BY <1>4 DEF Commit
  <2> QED
    BY <2>1, DataWrite DEF WriteFails
<1>5. ASSUME NEW u \in Users, CancelReconnect(u) PROVE Data'
  BY <1>5 DEF CancelReconnect
<1>6. ASSUME NEW u \in Users, NEW wait \in BOOLEAN, Disconnect(u, wait) PROVE Data'
  BY <1>6, NewConnectionState DEF Disconnect, TcpDisconnect
<1>7. ASSUME NEW u \in Users, Connect(u) PROVE Data'
  BY <1>7 DEF Connect
<1>8. ASSUME NEW u \in Users, DisconnectRemoved(u) PROVE Data'
  BY <1>8 DEF DisconnectRemoved
<1>9. ASSUME NEW u \in Users, DisconnectBuffers(u) PROVE Data'
  BY <1>9 DEF DisconnectBuffers, ClearBuffers
<1>10. ASSUME NEW u \in Users, ConnectTcp(u) PROVE Data'
  BY <1>10, NewConnectionState DEF ConnectTcp, TcpConnect, AfterConnect
<1>11. ASSUME NEW u \in Users, ConnectRead(u) PROVE Data'
  BY <1>11 DEF ConnectRead, AsyncRead, AfterConnect
<1>12. ASSUME NEW u \in Users, ConnectHandlers(u) PROVE Data'
  BY <1>12 DEF ConnectHandlers, SetHandlers, AfterConnect
<1>13. ASSUME NEW w \in Workers, ReadEvent(w) PROVE Data'
  BY <1>13 DEF ReadEvent, ReadReplies
<1>14. ASSUME NEW w \in Workers, DropEvent(w) PROVE Data'
  BY <1>14, NewConnectionState DEF DropEvent, PeerDrop
<1>15. ASSUME NEW w \in Workers, TakeReply(w) PROVE Data'
  BY <1>15 DEF TakeReply, PopReply
<1>16. ASSUME NEW w \in Workers, EndRead(w) PROVE Data'
  BY <1>16 DEF EndRead, NextRead
<1>17. ASSUME NEW w \in Workers, DispatchAuth(w) PROVE Data'
  BY <1>17 DEF DispatchAuth
<1>18. ASSUME NEW w \in Workers, AuthCall(w) PROVE Data'
  BY <1>18 DEF AuthCall
<1>19. ASSUME NEW w \in Workers, AuthForget(w) PROVE Data'
  BY <1>19 DEF AuthForget
<1>20. ASSUME NEW w \in Workers, DispatchNothing(w) PROVE Data'
  BY <1>20 DEF DispatchNothing
<1>21. ASSUME NEW w \in Workers, NEW t \in Kinds \X Names, Lookup(w, t) PROVE Data'
  BY <1>21 DEF Lookup, Found, NotFound
<1>22. ASSUME NEW w \in Workers, CallbackReturn(w) PROVE Data'
  BY <1>22 DEF CallbackReturn
<1>23. ASSUME NEW w \in Workers, DropBuffers(w) PROVE Data'
  BY <1>23 DEF DropBuffers, ClearBuffers
<1>24. ASSUME NEW w \in Workers, DropCheck(w) PROVE Data'
  BY <1>24 DEF DropCheck
<1>25. ASSUME NEW w \in Workers, DropSet(w) PROVE Data'
  BY <1>25 DEF DropSet
<1>26. ASSUME NEW w \in Workers, NEW k \in Kinds, DropLock(w, k) PROVE Data'
  BY <1>26 DEF DropLock
<1>27. ASSUME NEW w \in Workers, ReconnectStart(w) PROVE Data'
  BY <1>27 DEF ReconnectStart
<1>28. ASSUME NEW w \in Workers, ConnectTcp(w) PROVE Data'
  BY <1>28, NewConnectionState DEF ConnectTcp, TcpConnect, AfterConnect
<1>29. ASSUME NEW w \in Workers, ConnectRead(w) PROVE Data'
  BY <1>29 DEF ConnectRead, AsyncRead, AfterConnect
<1>30. ASSUME NEW w \in Workers, ConnectHandlers(w) PROVE Data'
  BY <1>30 DEF ConnectHandlers, SetHandlers, AfterConnect
<1>31. ASSUME NEW w \in Workers, ReconnectCheck(w) PROVE Data'
  BY <1>31 DEF ReconnectCheck
<1>32. ASSUME NEW w \in Workers, ReAuth(w) PROVE Data'
  BY <1>32 DEF ReAuth, auth, BufferCommand, Commands
<1>33. ASSUME NEW w \in Workers, ReSubscribe(w) PROVE Data'
  BY <1>33, Resubscribing DEF ReSubscribe
<1>34. ASSUME NEW w \in Workers, ReconnectCommit(w) PROVE Data'
  <2>1. UNCHANGED m_subscribed /\ (WriteCommands \/ (WriteFails /\ UNCHANGED server))
    BY <1>34 DEF ReconnectCommit
  <2> QED
    BY <2>1, DataWrite DEF WriteFails
<1>40. ASSUME NEW w \in Workers, ReconnectStop(w) PROVE Data'
  BY <1>40 DEF ReconnectStop
<1>41. ASSUME NEW w \in Workers, GiveUp(w) PROVE Data'
  BY <1>41, FS_EmptySet DEF GiveUp
<1>35. ASSUME NEW w \in Workers, DropEnd(w) PROVE Data'
  BY <1>35 DEF DropEnd
<1>36. ASSUME NEW w \in Workers, DropUnlock(w) PROVE Data'
  BY <1>36 DEF DropUnlock
<1>37. ASSUME NEW w \in Workers, HandlerReturns(w) PROVE Data'
  BY <1>37 DEF HandlerReturns, HandlerReturn
<1>38. ASSUME NEW c \in Names, Publish(c) PROVE Data'
  BY <1>38 DEF Publish
<1>39. CASE UNCHANGED vars
  BY <1>39 DEF vars
<1> QED
  BY <1>1, <1>2, <1>3, <1>4, <1>5, <1>6, <1>7, <1>8, <1>9, <1>10, <1>11, <1>12,
     <1>13, <1>14, <1>15, <1>16, <1>17, <1>18, <1>19, <1>20, <1>21, <1>22,
     <1>23, <1>24, <1>25, <1>26, <1>27, <1>28, <1>29, <1>30, <1>31, <1>32,
     <1>33, <1>34, <1>35, <1>36, <1>37, <1>38, <1>39, <1>40, <1>41
     DEF Next, UserCall, UserStep, ReceiveStep, DropStep
(***************************************************************************)
(* The maps and the server agree.                                          *)
(***************************************************************************)
\* The handler has a new connection, on which it has not yet asked for the
\* subscriptions again.
Restoring == {"aread", "handlers", "rcheck", "rauth", "rsub"}

\* Nothing will be subscribed that the application does not know of, and
\* nothing at all without the password.
Within ==
  /\ \A k \in Kinds : Final.subs[k] \subseteq m_subscribed[k]
  /\ Final.authenticated \/ \A k \in Kinds : Final.subs[k] = {}

\* Unless the application interferes: the worker w knows whether there is a
\* connection; a new connection starts from nothing; between the loss and
\* re_subscribe the server falls short of the maps at most; afterwards what
\* it will know is what they hold.
Synced(w) ==
  /\ NeedsAuth => m_password
  /\ meddled \/
       /\ \A u \in Users : pc[u] \in {"idle", "tcp"}
       /\ pc[w] \in DropWindow \cup {"tcp"} => ~connected
       /\ pc[w] \in {"aread", "handlers", "rauth", "rsub", "rcommit"} => connected
       /\ ~connected => server = NewConnection
       /\ ~connected /\ pc[w] \in {"dcheck", "dset", "lock1", "lock2", "dloop", "tcp", "rcheck"}
            => Within
       /\ connected /\ pc[w] \in Restoring => Within
       /\ pc[w] = "rsub" => Final.authenticated
       /\ connected /\ pc[w] \notin Restoring =>
            Final.authenticated /\ Final.subs = m_subscribed

\* The same after a step.
LEMMA FinalTypeNext == Data' => (Final \in ServerStates)'
<1>1. Data => Final \in ServerStates
  BY FinalType
<1> QED
  BY <1>1, PTL

\* A password that is sent changes nothing of what is subscribed.
LEMMA AuthFinal ==
  ASSUME Data, server' = server, m_buffer' = Append(m_buffer, AuthCommand)
  PROVE  Final' = [authenticated |-> TRUE, subs |-> Final.subs]
<1>1. m_buffer \in Seq(Commands) /\ AuthCommand \in Commands /\ server \in ServerStates
  BY DEF Data, Commands
<1>2. Final' = Read(server, Append(m_buffer, AuthCommand))
  BY DEF Final
<1>3. Read(server, Append(m_buffer, AuthCommand)) = Read(Final, <<AuthCommand>>)
  BY <1>1, ReadAppend DEF Final
<1> QED
  BY <1>2, <1>3, FinalType, ReadAuth

\* A subscription that is sent is added to what will be known.
LEMMA SubscribeFinal ==
  ASSUME Data, server' = server, NEW k \in Kinds, NEW x \in Names,
         m_buffer' = Append(m_buffer, Command("SUBSCRIBE", k, x))
  PROVE  /\ Final \in ServerStates /\ Final' \in ServerStates
         /\ ~Final.authenticated => Final' = Final
         /\ Final.authenticated =>
              /\ Final'.authenticated
              /\ \A l \in Kinds :
                   Final'.subs[l] = Final.subs[l] \cup {y \in Names : l = k /\ y = x}
<1> DEFINE c == Command("SUBSCRIBE", k, x)
<1>1. m_buffer \in Seq(Commands) /\ c \in Commands /\ server \in ServerStates
  BY DEF Data, Commands
<1>2. \A l, y : c = Command("SUBSCRIBE", l, y) <=> l = k /\ y = x
  BY DEF Command
<1>3. c.name = "SUBSCRIBE"
  BY DEF Command
<1>4. Final' = Read(server, Append(m_buffer, c))
  BY DEF Final
<1> HIDE DEF c
<1>5. Final' = Read(Final, <<c>>)
  BY <1>1, <1>4, ReadAppend DEF Final
<1>6. Final \in ServerStates
  BY FinalType
<1>7. Final' \in ServerStates
  BY <1>5, <1>6, AfterType DEF Read
<1>8. ~Final.authenticated => Final' = Final
  BY <1>3, <1>5, <1>6, ReadRefused
<1>9. ASSUME Final.authenticated
      PROVE  /\ Final'.authenticated
             /\ \A l \in Kinds :
                  Final'.subs[l] = Final.subs[l] \cup {y \in Names : l = k /\ y = x}
  <2> DEFINE d == <<c>>
  <2>1. d \in Seq(Commands) /\ Len(d) = 1 /\ d[1] = c
    BY <1>1
  <2> HIDE DEF d
  <2>2. \A i \in 1 .. Len(d) : d[i].name = "SUBSCRIBE"
    BY <1>3, <2>1
  <2>3. /\ Read(Final, d).authenticated
        /\ \A l \in Kinds : Read(Final, d).subs[l] = Final.subs[l] \cup
             {y \in Names : \E i \in 1 .. Len(d) : d[i] = Command("SUBSCRIBE", l, y)}
    BY <1>6, <1>9, <2>1, <2>2, ReadSubscribes
  <2>4. \A l \in Kinds : \A y \in Names :
          (\E i \in 1 .. Len(d) : d[i] = Command("SUBSCRIBE", l, y)) <=> l = k /\ y = x
    BY <1>2, <2>1
  <2>5. Final' = Read(Final, d)
    BY <1>5 DEF d
  <2> QED
    BY <2>3, <2>4, <2>5
<1> QED
  BY <1>6, <1>7, <1>8, <1>9

\* The end of a subscription that is sent is taken from it.
LEMMA UnsubscribeFinal ==
  ASSUME Data, server' = server, NEW k \in Kinds, NEW x \in Names,
         m_buffer' = Append(m_buffer, Command("UNSUBSCRIBE", k, x))
  PROVE  /\ Final \in ServerStates /\ Final' \in ServerStates
         /\ ~Final.authenticated => Final' = Final
         /\ Final.authenticated =>
              /\ Final'.authenticated
              /\ \A l \in Kinds :
                   Final'.subs[l] = {y \in Final.subs[l] : ~(l = k /\ y = x)}
<1> DEFINE c == Command("UNSUBSCRIBE", k, x)
<1>1. m_buffer \in Seq(Commands) /\ c \in Commands /\ server \in ServerStates
  BY DEF Data, Commands
<1>2. c.name = "UNSUBSCRIBE"
  BY DEF Command
<1>3. Final' = Read(server, Append(m_buffer, c))
  BY DEF Final
<1>4. Final \in ServerStates
  BY FinalType
<1>5. Final.authenticated =>
        LET t == Read(Final, <<c>>) IN
        /\ t.authenticated
        /\ \A l \in Kinds : t.subs[l] = {y \in Final.subs[l] : ~(l = k /\ y = x)}
  BY <1>4, ReadUnsubscribe
<1> HIDE DEF c
<1>6. Final' = Read(Final, <<c>>)
  BY <1>1, <1>3, ReadAppend DEF Final
<1>7. Final' \in ServerStates
  BY <1>4, <1>6, AfterType DEF Read
<1>8. ~Final.authenticated => Final' = Final
  BY <1>2, <1>4, <1>6, ReadRefused
<1> QED
  BY <1>4, <1>5, <1>6, <1>7, <1>8

\* No map changes between the lock of the handler and its unlock.
LEMMA NotLocked ==
  ASSUME NEW w, Workers = {w}, TypeOK, MutexOwner, NEW k \in Kinds, mutex[k] = None
  PROVE  pc[w] \notin BothLocked
BY SubscriberAssumption DEF MutexOwner, Holds, Threads

\* subscribe() changes the map and what will be known alike.
LEMMA SubscribeSynced ==
  ASSUME NEW w, Workers = {w}, TypeOK, MutexOwner, Data, Synced(w),
         NEW k \in Kinds, NEW x \in Names, mutex[k] = None, server' = server,
         UNCHANGED <<connected, pc, meddled, m_password>>,
         m_subscribed' = [m_subscribed EXCEPT ![k] = @ \cup {x}],
         m_buffer' = Append(m_buffer, Command("SUBSCRIBE", k, x))
  PROVE  Synced(w)'
<1>1. pc[w] \notin BothLocked
  BY NotLocked
<1>2. /\ \A l \in Kinds : m_subscribed'[l] = m_subscribed[l] \cup {y \in Names : l = k /\ y = x}
      /\ m_subscribed' \in [Kinds -> SUBSET Names] /\ m_subscribed \in [Kinds -> SUBSET Names]
  BY DEF Data
<1>3. Within => Within'
  BY <1>2, SubscribeFinal DEF Within
<1>4. Final.authenticated /\ Final.subs = m_subscribed =>
        Final'.authenticated /\ Final'.subs = m_subscribed'
  <2>1. Final'.subs \in [Kinds -> SUBSET Names]
    BY SubscribeFinal DEF ServerStates
  <2>2. ASSUME Final.authenticated, Final.subs = m_subscribed
        PROVE  Final'.authenticated /\ \A l \in Kinds : Final'.subs[l] = m_subscribed'[l]
    <3>1. Final'.authenticated
      BY <2>2, SubscribeFinal
    <3>2. ASSUME NEW l \in Kinds PROVE Final'.subs[l] = m_subscribed'[l]
      <4> DEFINE T == {y \in Names : l = k /\ y = x}
      <4>1. Final'.subs[l] = Final.subs[l] \cup T
        BY <2>2, SubscribeFinal
      <4>2. m_subscribed'[l] = m_subscribed[l] \cup T
        BY <1>2
      <4> HIDE DEF T
      <4> QED
        BY <2>2, <4>1, <4>2
    <3> QED
      BY <3>1, <3>2
  <2> QED
    BY <1>2, <2>1, <2>2
<1> QED
  BY <1>1, <1>3, <1>4 DEF Synced, BothLocked, Restoring

\* So does unsubscribe().
LEMMA UnsubscribeSynced ==
  ASSUME NEW w, Workers = {w}, TypeOK, MutexOwner, Data, Synced(w),
         NEW k \in Kinds, NEW x \in Names, mutex[k] = None, server' = server,
         UNCHANGED <<connected, pc, meddled, m_password>>,
         m_subscribed' = [m_subscribed EXCEPT ![k] = @ \ {x}],
         IF x \in m_subscribed[k] THEN m_buffer' = Append(m_buffer, Command("UNSUBSCRIBE", k, x))
                                  ELSE m_buffer' = m_buffer
  PROVE  Synced(w)'
<1>1. pc[w] \notin BothLocked
  BY NotLocked
<1>2. /\ \A l \in Kinds : m_subscribed'[l] = {y \in m_subscribed[l] : ~(l = k /\ y = x)}
      /\ m_subscribed' \in [Kinds -> SUBSET Names] /\ m_subscribed \in [Kinds -> SUBSET Names]
  BY DEF Data
<1>3. x \notin m_subscribed[k] => m_subscribed' = m_subscribed /\ Final' = Final
  BY <1>2 DEF Final
<1>4. Within => Within'
  <2>1. CASE x \in m_subscribed[k]
    BY <1>2, <2>1, UnsubscribeFinal DEF Within
  <2> QED
    BY <1>3, <2>1 DEF Within
<1>5. Final.authenticated /\ Final.subs = m_subscribed =>
        Final'.authenticated /\ Final'.subs = m_subscribed'
  <2>1. CASE x \in m_subscribed[k]
    <3>1. Final'.subs \in [Kinds -> SUBSET Names]
      BY <2>1, UnsubscribeFinal DEF ServerStates
    <3>2. ASSUME Final.authenticated, Final.subs = m_subscribed
          PROVE  Final'.authenticated /\ \A l \in Kinds : Final'.subs[l] = m_subscribed'[l]
      <4>1. Final'.authenticated
        BY <2>1, <3>2, UnsubscribeFinal
      <4>2. ASSUME NEW l \in Kinds PROVE Final'.subs[l] = m_subscribed'[l]
        <5>1. Final'.subs[l] = {y \in Final.subs[l] : ~(l = k /\ y = x)}
          BY <2>1, <3>2, UnsubscribeFinal
        <5>2. m_subscribed'[l] = {y \in m_subscribed[l] : ~(l = k /\ y = x)}
          BY <1>2
        <5> QED
          BY <3>2, <5>1, <5>2
      <4> QED
        BY <4>1, <4>2
    <3> QED
      BY <1>2, <3>1, <3>2
  <2> QED
    BY <1>3, <2>1
<1> QED
  BY <1>1, <1>4, <1>5 DEF Synced, BothLocked, Restoring

\* Every step keeps the two as close as the worker's label says.
LEMMA SyncedNext ==
  ASSUME NEW w, Workers = {w}, TypeOK, MutexOwner, Data, Synced(w), [Next]_vars
  PROVE  Synced(w)'
<1>p. /\ pc \in [Threads -> UserLabels \cup WorkerLabels]
      /\ w \in Threads /\ w \notin Users /\ Users \subseteq Threads
      /\ pc[w] \in WorkerLabels /\ w \in Workers
  BY SubscriberAssumption DEF TypeOK, Threads
<1> USE <1>p DEF Synced, Restoring, Within, DropWindow, WorkerLabels, connVars, mapVars, authVars,
             reconVars, localVars, histVars
<1>1. ASSUME NEW u \in Users, NEW k \in Kinds, NEW x \in Names, Subscribe(u, k, x) PROVE Synced(w)'
  <2>1. /\ server' = server
        /\ mutex[k] = None /\ UNCHANGED <<connected, pc, meddled, m_password>>
        /\ m_subscribed' = [m_subscribed EXCEPT ![k] = @ \cup {x}]
        /\ m_buffer' = Append(m_buffer, Command("SUBSCRIBE", k, x))
    BY <1>1 DEF Subscribe, BufferCommand
  <2> QED
    BY <2>1, SubscribeSynced
<1>2. ASSUME NEW u \in Users, NEW k \in Kinds, NEW x \in Names, Unsubscribe(u, k, x) PROVE Synced(w)'
  <2>1. /\ server' = server
        /\ mutex[k] = None /\ UNCHANGED <<connected, pc, meddled, m_password>>
        /\ m_subscribed' = [m_subscribed EXCEPT ![k] = @ \ {x}]
        /\ IF x \in m_subscribed[k] THEN m_buffer' = Append(m_buffer, Command("UNSUBSCRIBE", k, x))
                                    ELSE m_buffer' = m_buffer
    BY <1>2 DEF Unsubscribe, BufferCommand
  <2> QED
    BY <2>1, UnsubscribeSynced
<1>3. ASSUME NEW u \in Users, Auth(u) PROVE Synced(w)'
  <2>1. CASE m_buffer' = Append(m_buffer, AuthCommand)
    <3>1. Final' = [authenticated |-> TRUE, subs |-> Final.subs]
      BY <1>3, <2>1, AuthFinal DEF Auth, auth, BufferCommand
    <3>2. Final'.authenticated /\ Final'.subs = Final.subs
      BY <3>1
    <3> QED
      BY <1>3, <3>2 DEF Auth, auth, BufferCommand, Goto
  <2> QED
    BY <1>3, <2>1 DEF Auth, auth, BufferCommand
<1>4. ASSUME NEW u \in Users, Commit(u) PROVE Synced(w)'
  <2>1. CASE WriteCommands
    <3>1. server' = Final /\ Final' = Final
      BY <2>1, WriteFinal
    <3> QED
      BY <1>4, <2>1, <3>1 DEF Commit, WriteCommands, WriteFails, Goto
  <2>2. CASE WriteFails /\ UNCHANGED server
    <3>1. ~connected => Final' = server
      BY <2>2, ReadNone DEF WriteFails, Final, Data
    <3> QED
      BY <1>4, <2>2, <3>1, NewConnectionState DEF Commit, WriteFails, Goto
  <2> QED
    BY <1>4, <2>1, <2>2 DEF Commit
<1>5. ASSUME NEW u \in Users, CancelReconnect(u) PROVE Synced(w)'
  <2>1. Final' = Final
    BY <1>5 DEF CancelReconnect, Final
  <2> QED
    BY <1>5, <2>1 DEF CancelReconnect, Goto
<1>6. ASSUME NEW u \in Users, NEW wait \in BOOLEAN, Disconnect(u, wait) PROVE Synced(w)'
  BY <1>6 DEF Disconnect, TcpDisconnect, Goto, Begin
<1>7. ASSUME NEW u \in Users, Connect(u) PROVE Synced(w)'
  <2>1. Final' = Final
    BY <1>7 DEF Connect, Final
  <2> QED
    BY <1>7, <2>1 DEF Connect, Goto
<1>8. ASSUME NEW u \in Users, DisconnectRemoved(u) PROVE Synced(w)'
  <2>1. Final' = Final
    BY <1>8 DEF DisconnectRemoved, Final
  <2> QED
    BY <1>8, <2>1 DEF DisconnectRemoved, Goto
<1>9. ASSUME NEW u \in Users, DisconnectBuffers(u) PROVE Synced(w)'
  <2>1. meddled
    BY <1>9 DEF DisconnectBuffers, Goto
  <2>2. meddled' /\ (NeedsAuth => m_password')
    BY <1>9, <2>1 DEF DisconnectBuffers
  <2> QED
    BY <2>2
<1>10. ASSUME NEW u \in Users, ConnectTcp(u) PROVE Synced(w)'
  <2>1. UNCHANGED <<m_password, m_subscribed>>
    BY <1>10 DEF ConnectTcp
  <2>2. CASE TcpConnect /\ meddled' = (meddled \/ u \in Users)
    BY <2>1, <2>2
  <2>3. CASE UNCHANGED <<connVars, server, meddled>> /\ Goto(u, "tcp", "idle")
    <3>1. Final' = Final
      BY <2>3 DEF Final
    <3> QED
      BY <2>1, <2>3, <3>1 DEF Goto
  <2> QED
    BY <1>10, <2>2, <2>3 DEF ConnectTcp, AfterConnect
<1>11. ASSUME NEW u \in Users, ConnectRead(u) PROVE Synced(w)'
  <2>1. Final' = Final
    BY <1>11 DEF ConnectRead, AsyncRead, AfterConnect, Final
  <2> QED
    BY <1>11, <2>1 DEF ConnectRead, AsyncRead, AfterConnect, Goto
<1>12. ASSUME NEW u \in Users, ConnectHandlers(u) PROVE Synced(w)'
  <2>1. Final' = Final
    BY <1>12 DEF ConnectHandlers, SetHandlers, AfterConnect, Final
  <2> QED
    BY <1>12, <2>1 DEF ConnectHandlers, SetHandlers, AfterConnect, Goto
<1>13. ASSUME ReadEvent(w) PROVE Synced(w)'
  <2>1. Final' = Final
    BY <1>13 DEF ReadEvent, ReadReplies, Final
  <2> QED
    BY <1>13, <2>1 DEF ReadEvent, ReadReplies, Goto
<1>14. ASSUME DropEvent(w) PROVE Synced(w)'
  BY <1>14 DEF DropEvent, PeerDrop, Goto, Begin
<1>15. ASSUME TakeReply(w) PROVE Synced(w)'
  <2>1. Final' = Final
    BY <1>15 DEF TakeReply, PopReply, Final
  <2> QED
    BY <1>15, <2>1 DEF TakeReply, PopReply, Goto
<1>16. ASSUME EndRead(w) PROVE Synced(w)'
  <2>1. Final' = Final
    BY <1>16 DEF EndRead, NextRead, Final
  <2> QED
    BY <1>16, <2>1 DEF EndRead, NextRead, Goto
<1>17. ASSUME DispatchAuth(w) PROVE Synced(w)'
  <2>1. Final' = Final
    BY <1>17 DEF DispatchAuth, Final
  <2> QED
    BY <1>17, <2>1 DEF DispatchAuth, Goto
<1>18. ASSUME AuthCall(w) PROVE Synced(w)'
  <2>1. Final' = Final
    BY <1>18 DEF AuthCall, Final
  <2> QED
    BY <1>18, <2>1 DEF AuthCall, Goto
<1>19. ASSUME AuthForget(w) PROVE Synced(w)'
  <2>1. Final' = Final
    BY <1>19 DEF AuthForget, Final
  <2> QED
    BY <1>19, <2>1 DEF AuthForget, Goto
<1>20. ASSUME DispatchNothing(w) PROVE Synced(w)'
  <2>1. Final' = Final
    BY <1>20 DEF DispatchNothing, Final
  <2> QED
    BY <1>20, <2>1 DEF DispatchNothing, Goto
<1>21. ASSUME NEW t \in Kinds \X Names, Lookup(w, t) PROVE Synced(w)'
  <2>1. Final' = Final
    BY <1>21 DEF Lookup, Found, NotFound, Final
  <2> QED
    BY <1>21, <2>1 DEF Lookup, Found, NotFound, Goto
<1>22. ASSUME CallbackReturn(w) PROVE Synced(w)'
  <2>1. Final' = Final
    BY <1>22 DEF CallbackReturn, Final
  <2> QED
    BY <1>22, <2>1 DEF CallbackReturn, Goto
<1>23. ASSUME DropBuffers(w) PROVE Synced(w)'
  <2>1. Final' = server
    BY <1>23, ReadNone DEF DropBuffers, ClearBuffers, Final, Data
  <2> QED
    BY <1>23, <2>1, NewConnectionState DEF DropBuffers, ClearBuffers, Goto
<1>24. ASSUME DropCheck(w) PROVE Synced(w)'
  <2>1. Final' = Final
    BY <1>24 DEF DropCheck, Final
  <2> QED
    BY <1>24, <2>1 DEF DropCheck, Goto
<1>25. ASSUME DropSet(w) PROVE Synced(w)'
  <2>1. Final' = Final
    BY <1>25 DEF DropSet, Final
  <2> QED
    BY <1>25, <2>1 DEF DropSet, Goto
<1>26. ASSUME NEW k \in Kinds, DropLock(w, k) PROVE Synced(w)'
  <2>1. Final' = Final
    BY <1>26 DEF DropLock, Final
  <2> QED
    BY <1>26, <2>1 DEF DropLock, Goto
<1>27. ASSUME ReconnectStart(w) PROVE Synced(w)'
  <2>1. Final' = Final
    BY <1>27 DEF ReconnectStart, Final
  <2> QED
    BY <1>27, <2>1 DEF ReconnectStart, should_reconnect, Goto
<1>28. ASSUME ConnectTcp(w) PROVE Synced(w)'
  <2>1. server' = server => Final' = Final
    BY <1>28 DEF ConnectTcp, TcpConnect, AfterConnect, Final
  <2> QED
    BY <1>28, <2>1 DEF ConnectTcp, TcpConnect, AfterConnect, Goto
<1>29. ASSUME ConnectRead(w) PROVE Synced(w)'
  <2>1. Final' = Final
    BY <1>29 DEF ConnectRead, AsyncRead, AfterConnect, Final
  <2> QED
    BY <1>29, <2>1 DEF ConnectRead, AsyncRead, AfterConnect, Goto
<1>30. ASSUME ConnectHandlers(w) PROVE Synced(w)'
  <2>1. Final' = Final
    BY <1>30 DEF ConnectHandlers, SetHandlers, AfterConnect, Final
  <2> QED
    BY <1>30, <2>1 DEF ConnectHandlers, SetHandlers, AfterConnect, Goto
<1>31. ASSUME ReconnectCheck(w) PROVE Synced(w)'
  <2>1. Final' = Final
    BY <1>31 DEF ReconnectCheck, Final
  <2> QED
    BY <1>31, <2>1 DEF ReconnectCheck, Goto
<1>32. ASSUME ReAuth(w) PROVE Synced(w)'
  <2>1. CASE m_buffer' = Append(m_buffer, AuthCommand)
    <3>1. Final' = [authenticated |-> TRUE, subs |-> Final.subs]
      BY <1>32, <2>1, AuthFinal DEF ReAuth, auth, BufferCommand
    <3>2. Final'.authenticated /\ Final'.subs = Final.subs
      BY <3>1
    <3> QED
      BY <1>32, <3>2 DEF ReAuth, auth, BufferCommand, Goto
  <2>2. CASE ~m_password /\ UNCHANGED connVars
    <3>1. Final' = Final
      BY <1>32, <2>2 DEF ReAuth, Final
    <3>2. Final.authenticated
      BY <2>2, FinalType DEF Data
    <3> QED
      BY <1>32, <2>2, <3>1, <3>2 DEF ReAuth, Goto
  <2> QED
    BY <1>32, <2>1, <2>2 DEF ReAuth, auth, BufferCommand
<1>33. ASSUME ReSubscribe(w) PROVE Synced(w)'
  <2>1. /\ Final.authenticated => Final'.authenticated
        /\ Final.authenticated => \A k \in Kinds : Final'.subs[k] = Final.subs[k] \cup m_subscribed[k]
        /\ Data'
    BY <1>33, Resubscribing DEF ReSubscribe
  <2>2. Final \in ServerStates /\ Final' \in ServerStates
    BY <2>1, FinalType, FinalTypeNext
  <2>3. Final.authenticated /\ Within => Final'.authenticated /\ Final'.subs = m_subscribed
    <3>1. Final'.subs \in [Kinds -> SUBSET Names] /\ m_subscribed \in [Kinds -> SUBSET Names]
      BY <2>2 DEF Data, ServerStates
    <3>2. ASSUME Final.authenticated, Within
          PROVE  Final'.authenticated /\ \A k \in Kinds : Final'.subs[k] = m_subscribed[k]
      BY <2>1, <3>2, ZenonT(30) DEF Within
    <3> QED
      BY <3>1, <3>2
  <2> QED
    BY <1>33, <2>3 DEF ReSubscribe, Goto
<1>34. ASSUME ReconnectCommit(w) PROVE Synced(w)'
  <2>1. CASE WriteCommands
    <3>1. server' = Final /\ Final' = Final
      BY <2>1, WriteFinal
    <3> QED
      BY <1>34, <2>1, <3>1 DEF ReconnectCommit, WriteCommands, WriteFails, Goto
  <2>2. CASE WriteFails /\ UNCHANGED server
    <3>1. ~connected => Final' = server
      BY <2>2, ReadNone DEF WriteFails, Final, Data
    <3> QED
      BY <1>34, <2>2, <3>1, NewConnectionState DEF ReconnectCommit, WriteFails, Goto
  <2> QED
    BY <1>34, <2>1, <2>2 DEF ReconnectCommit
<1>40. ASSUME ReconnectStop(w) PROVE Synced(w)'
  <2>1. Final' = Final
    BY <1>40 DEF ReconnectStop, Final
  <2> QED
    BY <1>40, <2>1 DEF ReconnectStop, Goto
<1>41. ASSUME GiveUp(w) PROVE Synced(w)'
  <2>1. Final' = Final
    BY <1>41 DEF GiveUp, Final
  <2> QED
    BY <1>41, <2>1 DEF GiveUp, Goto
<1>35. ASSUME DropEnd(w) PROVE Synced(w)'
  <2>1. Final' = Final
    BY <1>35 DEF DropEnd, Final
  <2> QED
    BY <1>35, <2>1 DEF DropEnd, Goto
<1>36. ASSUME DropUnlock(w) PROVE Synced(w)'
  <2>1. Final' = Final
    BY <1>36 DEF DropUnlock, Final
  <2> QED
    BY <1>36, <2>1 DEF DropUnlock, Goto
<1>37. ASSUME HandlerReturns(w) PROVE Synced(w)'
  <2>1. Final' = Final
    BY <1>37 DEF HandlerReturns, HandlerReturn, Final
  <2> QED
    BY <1>37, <2>1 DEF HandlerReturns, HandlerReturn, Goto
<1>38. ASSUME NEW c \in Names, Publish(c) PROVE Synced(w)'
  <2>1. Final' = Final
    BY <1>38 DEF Publish, Final
  <2> QED
    BY <1>38, <2>1 DEF Publish, Goto
<1>39. CASE UNCHANGED vars
  <2>1. Final' = Final
    BY <1>39 DEF vars, Final
  <2> QED
    BY <1>39, <2>1 DEF vars
<1> HIDE DEF Synced
<1> QED
  BY <1>1, <1>2, <1>3, <1>4, <1>5, <1>6, <1>7, <1>8, <1>9, <1>10, <1>11, <1>12,
     <1>13, <1>14, <1>15, <1>16, <1>17, <1>18, <1>19, <1>20, <1>21, <1>22,
     <1>23, <1>24, <1>25, <1>26, <1>27, <1>28, <1>29, <1>30, <1>31, <1>32,
     <1>33, <1>34, <1>35, <1>36, <1>37, <1>38, <1>39, <1>40, <1>41
     DEF Next, UserCall, UserStep, ReceiveStep, DropStep
\* The invariants hold at the start, and so always.
LEMMA DataInit == Init => Data
<1> SUFFICES ASSUME Init PROVE Data
  OBVIOUS
<1>1. server = [authenticated |-> TRUE, subs |-> [k \in Kinds |-> {}]]
  BY DEF Init, NewConnection
<1>2. m_buffer = <<>> /\ m_subscribed = [k \in Kinds |-> {}]
  BY DEF Init, ConnInit
<1> QED
  BY <1>1, <1>2, FS_EmptySet DEF Data, ServerStates

\* Nothing is subscribed at first.
LEMMA SyncedInit ==
  ASSUME NEW w, Workers = {w}, Init
  PROVE  Synced(w)
<1>1. Final = server
  BY DataInit, ReadNone DEF Init, ConnInit, Final, Data
<1>2. /\ server.authenticated /\ server.subs = m_subscribed /\ connected
      /\ (NeedsAuth => m_password) /\ \A t \in Threads : pc[t] = "idle"
  BY DEF Init, ConnInit, NewConnection
<1> QED
  BY <1>1, <1>2 DEF Synced, Threads, DropWindow, Restoring

LEMMA DataInvariant == Spec => []Data
BY DataInit, DataNext, PTL DEF Spec

LEMMA SyncedInvariant ==
  ASSUME NEW w, Workers = {w}
  PROVE  Spec => [](Data /\ Synced(w))
<1>1. Init => Synced(w)
  BY SyncedInit
<1>2. SubscriberInv /\ Data /\ Synced(w) /\ [Next]_vars => Synced(w)'
  BY SyncedNext DEF SubscriberInv
<1> QED
  BY <1>1, <1>2, SubscriberInvariant, DataInvariant, PTL DEF Spec

\* However often the connection is lost, and although subscriptions change
\* meanwhile, what the server pushes for is what the application is subscribed
\* to as soon as everything is committed.
THEOREM SubscriptionsInSync ==
  ASSUME NEW w, Workers = {w}
  PROVE  Spec => []InSync
<1>1. ASSUME Data, Synced(w), AtRest, connected, m_buffer = <<>>, ~meddled
      PROVE  server.subs = m_subscribed
  <2>1. Final = server
    BY <1>1, ReadNone DEF Final, Data
  <2>2. pc[w] \notin Restoring
    BY <1>1 DEF AtRest, BothLocked, Restoring
  <2> QED
    BY <1>1, <2>1, <2>2 DEF Synced
<1>2. Data /\ Synced(w) => InSync
  BY <1>1 DEF InSync
<1> QED
  BY <1>2, SyncedInvariant, PTL

(***************************************************************************)
(* The auth callback.                                                      *)
(***************************************************************************)
\* Only the worker resets the auth callback, when it has called it.
LEMMA AuthNext ==
  ASSUME NEW w, Workers = {w}, TypeOK, AuthDefined, [Next]_vars
  PROVE  AuthDefined'
<1>p. /\ pc \in [Threads -> UserLabels \cup WorkerLabels]
      /\ w \in Threads /\ w \notin Users /\ Users \subseteq Threads
  BY SubscriberAssumption DEF TypeOK, Threads
<1> USE <1>p, SubscriberAssumption DEF AuthDefined, connVars, mapVars, authVars, reconVars, localVars, histVars
<1>1. ASSUME NEW u \in Users, NEW k \in Kinds, NEW x \in Names, Subscribe(u, k, x) PROVE AuthDefined'
  BY <1>1 DEF Subscribe, BufferCommand
<1>2. ASSUME NEW u \in Users, NEW k \in Kinds, NEW x \in Names, Unsubscribe(u, k, x) PROVE AuthDefined'
  BY <1>2 DEF Unsubscribe, BufferCommand
<1>3. ASSUME NEW u \in Users, Auth(u) PROVE AuthDefined'
  BY <1>3 DEF Auth, auth, BufferCommand
<1>4. ASSUME NEW u \in Users, Commit(u) PROVE AuthDefined'
  BY <1>4 DEF Commit, WriteCommands, WriteFails
<1>5. ASSUME NEW u \in Users, CancelReconnect(u) PROVE AuthDefined'
  BY <1>5 DEF CancelReconnect
<1>6. ASSUME NEW u \in Users, NEW wait \in BOOLEAN, Disconnect(u, wait) PROVE AuthDefined'
  BY <1>6 DEF Disconnect, TcpDisconnect, Goto
<1>7. ASSUME NEW u \in Users, Connect(u) PROVE AuthDefined'
  BY <1>7 DEF Connect, Goto
<1>8. ASSUME NEW u \in Users, DisconnectRemoved(u) PROVE AuthDefined'
  BY <1>8 DEF DisconnectRemoved, Goto
<1>9. ASSUME NEW u \in Users, DisconnectBuffers(u) PROVE AuthDefined'
  BY <1>9 DEF DisconnectBuffers, ClearBuffers, Goto
<1>10. ASSUME NEW u \in Users, ConnectTcp(u) PROVE AuthDefined'
  BY <1>10 DEF ConnectTcp, TcpConnect, AfterConnect, Goto
<1>11. ASSUME NEW u \in Users, ConnectRead(u) PROVE AuthDefined'
  BY <1>11 DEF ConnectRead, AsyncRead, AfterConnect, Goto
<1>12. ASSUME NEW u \in Users, ConnectHandlers(u) PROVE AuthDefined'
  BY <1>12 DEF ConnectHandlers, SetHandlers, AfterConnect, Goto
<1>13. ASSUME ReadEvent(w) PROVE AuthDefined'
  BY <1>13 DEF ReadEvent, ReadReplies, Goto
<1>14. ASSUME DropEvent(w) PROVE AuthDefined'
  BY <1>14 DEF DropEvent, PeerDrop, Goto
<1>15. ASSUME TakeReply(w) PROVE AuthDefined'
  BY <1>15 DEF TakeReply, PopReply, Goto
<1>16. ASSUME EndRead(w) PROVE AuthDefined'
  BY <1>16 DEF EndRead, NextRead, Goto
<1>17. ASSUME DispatchAuth(w) PROVE AuthDefined'
  BY <1>17 DEF DispatchAuth, Goto
<1>18. ASSUME AuthCall(w) PROVE AuthDefined'
  BY <1>18 DEF AuthCall, Goto
<1>19. ASSUME AuthForget(w) PROVE AuthDefined'
  BY <1>19 DEF AuthForget, Goto
<1>20. ASSUME DispatchNothing(w) PROVE AuthDefined'
  BY <1>20 DEF DispatchNothing, Goto
<1>21. ASSUME NEW t \in Kinds \X Names, Lookup(w, t) PROVE AuthDefined'
  BY <1>21 DEF Lookup, Found, NotFound, Goto
<1>22. ASSUME CallbackReturn(w) PROVE AuthDefined'
  BY <1>22 DEF CallbackReturn, Goto
<1>23. ASSUME DropBuffers(w) PROVE AuthDefined'
  BY <1>23 DEF DropBuffers, ClearBuffers, Goto
<1>24. ASSUME DropCheck(w) PROVE AuthDefined'
  BY <1>24 DEF DropCheck, Goto
<1>25. ASSUME DropSet(w) PROVE AuthDefined'
  BY <1>25 DEF DropSet, Goto
<1>26. ASSUME NEW k \in Kinds, DropLock(w, k) PROVE AuthDefined'
  BY <1>26 DEF DropLock, Goto
<1>27. ASSUME ReconnectStart(w) PROVE AuthDefined'
  BY <1>27 DEF ReconnectStart, Goto
<1>28. ASSUME ConnectTcp(w) PROVE AuthDefined'
  BY <1>28 DEF ConnectTcp, TcpConnect, AfterConnect, Goto
<1>29. ASSUME ConnectRead(w) PROVE AuthDefined'
  BY <1>29 DEF ConnectRead, AsyncRead, AfterConnect, Goto
<1>30. ASSUME ConnectHandlers(w) PROVE AuthDefined'
  BY <1>30 DEF ConnectHandlers, SetHandlers, AfterConnect, Goto
<1>31. ASSUME ReconnectCheck(w) PROVE AuthDefined'
  BY <1>31 DEF ReconnectCheck, Goto
<1>32. ASSUME ReAuth(w) PROVE AuthDefined'
  BY <1>32 DEF ReAuth, auth, BufferCommand, Goto
<1>33. ASSUME ReSubscribe(w) PROVE AuthDefined'
  BY <1>33 DEF ReSubscribe, Goto
<1>34. ASSUME ReconnectCommit(w) PROVE AuthDefined'
  BY <1>34 DEF ReconnectCommit, WriteCommands, WriteFails, Goto
<1>40. ASSUME ReconnectStop(w) PROVE AuthDefined'
  BY <1>40 DEF ReconnectStop, Goto
<1>41. ASSUME GiveUp(w) PROVE AuthDefined'
  BY <1>41 DEF GiveUp, Goto
<1>35. ASSUME DropEnd(w) PROVE AuthDefined'
  BY <1>35 DEF DropEnd, Goto
<1>36. ASSUME DropUnlock(w) PROVE AuthDefined'
  BY <1>36 DEF DropUnlock, Goto
<1>37. ASSUME HandlerReturns(w) PROVE AuthDefined'
  BY <1>37 DEF HandlerReturns, HandlerReturn, Goto
<1>38. ASSUME NEW c \in Names, Publish(c) PROVE AuthDefined'
  BY <1>38 DEF Publish
<1>39. CASE UNCHANGED vars
  BY <1>39 DEF vars
<1> HIDE DEF AuthDefined
<1> QED
  BY <1>1, <1>2, <1>3, <1>4, <1>5, <1>6, <1>7, <1>8, <1>9, <1>10, <1>11, <1>12,
     <1>13, <1>14, <1>15, <1>16, <1>17, <1>18, <1>19, <1>20, <1>21, <1>22,
     <1>23, <1>24, <1>25, <1>26, <1>27, <1>28, <1>29, <1>30, <1>31, <1>32,
     <1>33, <1>34, <1>35, <1>36, <1>37, <1>38, <1>39, <1>40, <1>41
     DEF Next, UserCall, UserStep, ReceiveStep, DropStep

\* The auth callback, which is reset without a mutex after it has been called,
\* is not null when the worker is about to call it: there is only one worker
\* to reset it.
THEOREM AuthCallbackDefined ==
  ASSUME NEW w, Workers = {w}
  PROVE  Spec => []AuthDefined
<1>1. Init => AuthDefined
  BY DEF Init, AuthDefined, Threads
<1>2. SubscriberInv /\ AuthDefined /\ [Next]_vars => AuthDefined'
  BY AuthNext DEF SubscriberInv
<1> QED
  BY <1>1, <1>2, SubscriberInvariant, PTL DEF Spec
(***************************************************************************)
(* The order of messages.                                                  *)
(***************************************************************************)
\* Message number m, published on channel c, as it is pushed for subscription t.
Message(t, c, m) ==
  array_reply(IF t[1] = "channel"
              THEN <<Bulk("message"), Bulk(t[2]), Bulk(m)>>
              ELSE <<Bulk("pmessage"), Bulk(t[2]), Bulk(c), Bulk(m)>>)

\* The messages for subscription t.
Messages(t) == {Message(t, c, m) : c \in Names, m \in Nat}

\* What else the server answers.
Titles == {Title[k] : k \in Kinds} \cup {"un" \o Title[k] : k \in Kinds}

\* What a subscription and its end are answered.
Acknowledgements ==
  {array_reply(<<Bulk(v), Bulk(x), integer_reply(n)>>) :
     v \in Titles, x \in Names, n \in Nat}

\* Replies that are no message.
Notices ==
  {Noauth, string_reply("OK", "simple_string"), string_reply("no password", "error")}
  \cup Acknowledgements

\* Every reply on its way to a subscriber.
Replies == Notices \cup UNION {Messages(t) : t \in Kinds \X Names}

\* The number of the message in a reply.
Number(r) == as_string(as_array(r)[Len(as_array(r))])

\* A message says which subscription it is for.
LEMMA MessageFacts ==
  ASSUME NEW t \in Kinds \X Names, NEW r \in Messages(t)
  PROVE  /\ is_array(r) /\ IsMessage(as_array(r))
         /\ Target(as_array(r)) = t
         /\ Number(r) \in Nat
<1>1. PICK c \in Names, m \in Nat : r = Message(t, c, m)
  BY DEF Messages
<1>2. CASE t[1] = "channel"
  <2> DEFINE rows == <<Bulk("message"), Bulk(t[2]), Bulk(m)>>
  <2>1. is_array(r) /\ as_array(r) = rows
    BY <1>1, <1>2 DEF Message, array_reply, is_array, as_array
  <2>2. Len(rows) = 3 /\ rows[1] = Bulk("message") /\ rows[2] = Bulk(t[2]) /\ rows[3] = Bulk(m)
    OBVIOUS
  <2>3. \A s : is_string(Bulk(s)) /\ ~is_integer(Bulk(s)) /\ as_string(Bulk(s)) = s
    BY DEF Bulk, string_reply, is_string, is_integer, as_string
  <2> HIDE DEF rows
  <2>4. Strings(rows, 3) /\ ~is_integer(rows[3])
    BY <2>2, <2>3 DEF Strings
  <2>5. Target(rows) = <<"channel", t[2]>>
    BY <2>2, <2>3, <2>4 DEF Target
  <2> QED
    BY <1>2, <2>1, <2>2, <2>3, <2>5 DEF Number, IsMessage
<1>3. CASE t[1] # "channel"
  <2> DEFINE rows == <<Bulk("pmessage"), Bulk(t[2]), Bulk(c), Bulk(m)>>
  <2>1. is_array(r) /\ as_array(r) = rows
    BY <1>1, <1>3 DEF Message, array_reply, is_array, as_array
  <2>2. Len(rows) = 4 /\ rows[1] = Bulk("pmessage") /\ rows[2] = Bulk(t[2])
        /\ rows[3] = Bulk(c) /\ rows[4] = Bulk(m)
    OBVIOUS
  <2>3. \A s : is_string(Bulk(s)) /\ as_string(Bulk(s)) = s
    BY DEF Bulk, string_reply, is_string, as_string
  <2> HIDE DEF rows
  <2>4. Strings(rows, 4)
    BY <2>2, <2>3 DEF Strings
  <2>5. Target(rows) = <<"pattern", t[2]>>
    BY <2>2, <2>3, <2>4 DEF Target
  <2> QED
    BY <1>3, <2>1, <2>2, <2>3, <2>5 DEF Number, IsMessage, Kinds
<1> QED
  BY <1>2, <1>3

\* What is not a message is not given to a callback as one.
LEMMA NoticeFacts ==
  ASSUME NEW r \in Notices
  PROVE  is_array(r) => ~IsMessage(as_array(r))
<1>1. CASE r \in {Noauth, string_reply("OK", "simple_string"), string_reply("no password", "error")}
  <2>1. \A s, u : string_reply(s, u).type = u
    BY DEF string_reply
  <2>2. r.type \in {"simple_string", "error"}
    BY <1>1, <2>1 DEF Noauth
  <2> QED
    BY <2>2 DEF is_array
<1>2. ASSUME NEW v, NEW x, NEW n, r = array_reply(<<Bulk(v), Bulk(x), integer_reply(n)>>)
      PROVE  ~IsMessage(as_array(r))
  <2> DEFINE rows == <<Bulk(v), Bulk(x), integer_reply(n)>>
  <2>1. as_array(r) = rows /\ Len(rows) = 3 /\ rows[3] = integer_reply(n)
    BY <1>2 DEF array_reply, as_array
  <2>2. ~is_string(integer_reply(n))
    BY DEF integer_reply, is_string
  <2> QED
    BY <2>1, <2>2 DEF IsMessage
<1>3. CASE r \in Acknowledgements
  <2>1. \E v \in Titles, x \in Names, n \in Nat :
          r = array_reply(<<Bulk(v), Bulk(x), integer_reply(n)>>)
    BY <1>3 DEF Acknowledgements
  <2> QED
    BY <1>2, <2>1
<1> QED
  BY <1>1, <1>3 DEF Notices

\* What a command is answered is no message.
LEMMA AnswerNotice ==
  ASSUME NEW c \in Commands, NEW s \in ServerStates,
         \A k \in Kinds : IsFiniteSet(s.subs[k])
  PROVE  Answer(c, s) \in Notices
<1>1. Subs(s) \in Nat
  BY FS_CardinalityType DEF Subs, Kinds
<1>2. CASE c.name = "AUTH"
  <2>1. Answer(c, s) = string_reply(IF NeedsAuth THEN "OK" ELSE "no password",
                                    IF NeedsAuth THEN "simple_string" ELSE "error")
    BY <1>2 DEF Answer
  <2>2. CASE NeedsAuth
    BY <2>1, <2>2 DEF Notices
  <2>3. CASE ~NeedsAuth
    BY <2>1, <2>3 DEF Notices
  <2> QED
    BY <2>2, <2>3
<1>3. CASE c.name # "AUTH" /\ ~s.authenticated
  <2>1. Answer(c, s) = Noauth
    BY <1>3 DEF Answer
  <2> QED
    BY <2>1 DEF Notices
<1>4. CASE c.name # "AUTH" /\ s.authenticated
  <2>1. PICK v \in {"SUBSCRIBE", "UNSUBSCRIBE"}, k \in Kinds, x \in Names : c = Command(v, k, x)
    BY <1>4 DEF Commands, AuthCommand, Command
  <2>2. c.kind = k /\ c.arg = x
    BY <2>1 DEF Command
  <2> DEFINE title == IF c.name = "SUBSCRIBE" THEN Title[k] ELSE "un" \o Title[k]
  <2>3. Answer(c, s) = array_reply(<<Bulk(title), Bulk(x), integer_reply(Subs(s))>>)
    BY <1>4, <2>2 DEF Answer
  <2>4. title \in Titles
    BY DEF Titles
  <2> HIDE DEF title
  <2>5. Answer(c, s) \in Acknowledgements
    BY <1>1, <2>3, <2>4 DEF Acknowledgements
  <2> QED
    BY <2>5 DEF Notices
<1> QED
  BY <1>2, <1>3, <1>4 DEF ServerStates

\* A subscription gets a message at most once.
LEMMA PushFacts ==
  ASSUME Data, NEW c \in Names, NEW m \in Nat
  PROVE  /\ Push(c, m) \in Seq(Replies)
         /\ \A t \in Kinds \X Names : \A i \in 1 .. Len(Push(c, m)) :
              Push(c, m)[i] \in Messages(t) => Number(Push(c, m)[i]) = m
         /\ \A t \in Kinds \X Names : \A i, j \in 1 .. Len(Push(c, m)) :
              Push(c, m)[i] \in Messages(t) /\ Push(c, m)[j] \in Messages(t) => i = j
<1> DEFINE M(t) == Message(t, c, m)
           a == IF c \in server.subs["channel"] THEN <<M(<<"channel", c>>)>> ELSE <<>>
           S == server.subs["pattern"]
           f == [p \in S |-> M(<<"pattern", p>>)]
           T == {M(<<"pattern", p>>) : p \in S}
           b == SetToSeq(T)
<1>1. Push(c, m) = a \o b
  BY DEF Push, Message
<1>2. IsFiniteSet(S) /\ S \subseteq Names
  BY DEF Data, ServerStates, Kinds
<1>3. f \in Surjection(S, T)
  BY DEF Surjection
<1> HIDE DEF M
<1>4. \A t \in Kinds \X Names : M(t) \in Messages(t)
  BY DEF M, Messages
<1>n. \A t \in Kinds \X Names : Number(M(t)) = m
  BY DEF M, Number, Message, array_reply, as_array, Bulk, string_reply, as_string
<1>5. \A t, u \in Kinds \X Names : M(t) \in Messages(u) => t = u
  <2> SUFFICES ASSUME NEW t \in Kinds \X Names, NEW u \in Kinds \X Names, M(t) \in Messages(u)
               PROVE  t = u
    OBVIOUS
  <2>1. Target(as_array(M(t))) = t
    BY <1>4, MessageFacts
  <2>2. Target(as_array(M(t))) = u
    BY MessageFacts
  <2> QED
    BY <2>1, <2>2
<1> HIDE DEF f
<1>6. IsFiniteSet(T)
  BY <1>2, <1>3, FS_Surjection
<1>7. \A r \in T : \E p \in Names : r = M(<<"pattern", p>>)
  BY <1>2
<1>14. \A p \in Names : <<"pattern", p>> \in Kinds \X Names /\ <<"channel", p>> \in Kinds \X Names
  BY DEF Kinds
<1>r. ASSUME NEW t \in Kinds \X Names PROVE M(t) \in Replies
  BY <1>4 DEF Replies
<1>8. T \subseteq Replies
  BY <1>7, <1>14, <1>r
<1> HIDE DEF T
<1>9. /\ b \in Seq(T)
      /\ \A i, j \in 1 .. Len(b) : b[i] = b[j] => i = j
  BY <1>6, Listed
<1> HIDE DEF b
<1>10. a \in Seq(Replies) /\ Len(a) \in 0 .. 1 /\ \A i \in 1 .. Len(a) : a[i] = M(<<"channel", c>>)
  <2>1. M(<<"channel", c>>) \in Replies
    BY <1>14, <1>r
  <2> QED
    BY <2>1
<1> HIDE DEF a
<1>11. b \in Seq(Replies) /\ \A i \in 1 .. Len(b) : b[i] \in T
  BY <1>8, <1>9
<1> DEFINE q == a \o b
<1>12. /\ q \in Seq(Replies)
       /\ \A i \in 1 .. Len(q) : IF i <= Len(a) THEN i \in 1 .. Len(a) /\ q[i] = a[i]
                                              ELSE i - Len(a) \in 1 .. Len(b) /\ q[i] = b[i - Len(a)]
  BY <1>10, <1>11
<1> HIDE DEF q
<1>13. ASSUME NEW i \in 1 .. Len(q)
       PROVE  \/ i = 1 /\ q[i] = M(<<"channel", c>>)
              \/ /\ i - Len(a) \in 1 .. Len(b) /\ q[i] = b[i - Len(a)]
                 /\ \E p \in Names : q[i] = M(<<"pattern", p>>)
  <2>1. CASE i <= Len(a)
    BY <1>10, <1>12, <2>1, SMTT(30)
  <2>2. CASE ~(i <= Len(a))
    <3>1. i - Len(a) \in 1 .. Len(b) /\ q[i] = b[i - Len(a)]
      BY <1>12, <2>2
    <3> QED
      BY <1>7, <1>11, <3>1
  <2> QED
    BY <2>1, <2>2
<1>15. ASSUME NEW t \in Kinds \X Names, NEW i \in 1 .. Len(q), q[i] \in Messages(t)
       PROVE  q[i] = M(t) /\ (IF t[1] = "channel" THEN i = 1
                              ELSE i - Len(a) \in 1 .. Len(b) /\ q[i] = b[i - Len(a)])
  <2>1. CASE i = 1 /\ q[i] = M(<<"channel", c>>)
    <3>1. <<"channel", c>> = t
      BY <1>5, <1>14, <1>15, <2>1
    <3> QED
      BY <2>1, <3>1
  <2>2. CASE /\ i - Len(a) \in 1 .. Len(b) /\ q[i] = b[i - Len(a)]
             /\ \E p \in Names : q[i] = M(<<"pattern", p>>)
    <3>1. PICK p \in Names : q[i] = M(<<"pattern", p>>)
      BY <2>2
    <3>2. <<"pattern", p>> = t
      BY <1>5, <1>14, <1>15, <3>1
    <3> QED
      BY <2>2, <3>1, <3>2
  <2> QED
    BY <1>13, <2>1, <2>2
<1>16. ASSUME NEW t \in Kinds \X Names, NEW i \in 1 .. Len(q), NEW j \in 1 .. Len(q),
              q[i] \in Messages(t), q[j] \in Messages(t)
       PROVE  i = j
  <2>1. CASE t[1] = "channel"
    BY <1>15, <1>16, <2>1
  <2>2. CASE t[1] # "channel"
    <3>1. /\ i - Len(a) \in 1 .. Len(b) /\ q[i] = b[i - Len(a)]
          /\ j - Len(a) \in 1 .. Len(b) /\ q[j] = b[j - Len(a)]
          /\ q[i] = q[j]
      BY <1>15, <1>16, <2>2
    <3>2. i - Len(a) = j - Len(a)
      BY <1>9, <3>1
    <3> QED
      BY <1>10, <3>2
  <2> QED
    BY <2>1, <2>2
<1>17. Push(c, m) = q
  BY <1>1 DEF q
<1> QED
  BY <1>12, <1>15, <1>n, <1>16, <1>17

\* The replies on their way to the callbacks, the one in the hands of the
\* worker first.
Line(w) == (IF pc[w] = "dispatch" THEN <<rep[w]>> ELSE <<>>) \o avail \o wire

\* Subscription t, whose callback has got the messages g, out of n published:
\* the messages for it in the line l are in order, and later than those.
InLine(t, g, l, n) ==
  /\ \A i, j \in 1 .. Len(g) : i < j => g[i] < g[j]
  /\ \A i \in 1 .. Len(g) : g[i] <= n
  /\ \A j \in 1 .. Len(l) : l[j] \in Messages(t) =>
       /\ Number(l[j]) <= n
       /\ \A i \in 1 .. Len(g) : g[i] < Number(l[j])
       /\ \A i \in 1 .. j - 1 : l[i] \in Messages(t) => Number(l[i]) < Number(l[j])

\* The numbers that count what happened.
Counts == [calls : Nat, messages : Nat, drops : Nat, refusals : Nat]

\* The types of the line and of what the callbacks have got.
LineOK(w) ==
  /\ rep \in [Workers -> Replies \cup {null_reply}]
  /\ pc[w] = "dispatch" => rep[w] \in Replies
  /\ avail \in Seq(Replies) /\ wire \in Seq(Replies)
  /\ calls \in Counts
  /\ got \in [Kinds \X Names -> Seq(Nat)]

\* Every subscription gets its messages in order, out of one line.
Ordered(w) ==
  /\ LineOK(w)
  /\ \A t \in Kinds \X Names : InLine(t, got[t], Line(w), calls.messages)

\* The front of the line leaves it, or its end is lost.
LEMMA InLineShorter ==
  ASSUME NEW t \in Kinds \X Names, NEW g \in Seq(Nat), NEW l \in Seq(Replies), NEW n \in Nat,
         InLine(t, g, l, n), NEW k \in Seq(Replies), NEW d \in Nat,
         Len(k) + d <= Len(l), \A i \in 1 .. Len(k) : k[i] = l[i + d]
  PROVE  InLine(t, g, k, n)
<1> SUFFICES ASSUME NEW j \in 1 .. Len(k), k[j] \in Messages(t)
             PROVE  /\ Number(k[j]) <= n
                    /\ \A i \in 1 .. Len(g) : g[i] < Number(k[j])
                    /\ \A i \in 1 .. j - 1 : k[i] \in Messages(t) => Number(k[i]) < Number(k[j])
  BY DEF InLine
<1>1. j + d \in 1 .. Len(l) /\ l[j + d] = k[j]
  OBVIOUS
<1>2. \A i \in 1 .. j - 1 : i + d \in 1 .. (j + d) - 1 /\ l[i + d] = k[i]
  OBVIOUS
<1> QED
  BY <1>1, <1>2 DEF InLine

\* A notice joins the line.
LEMMA InLineNotices ==
  ASSUME NEW t \in Kinds \X Names, NEW g \in Seq(Nat), NEW l \in Seq(Replies), NEW n \in Nat,
         InLine(t, g, l, n), NEW p \in Seq(Notices)
  PROVE  InLine(t, g, l \o p, n)
<1> DEFINE k == l \o p
<1>1. \A j \in 1 .. Len(k) : \/ j \in 1 .. Len(l) /\ k[j] = l[j]
                             \/ k[j] \in Notices
  OBVIOUS
<1> HIDE DEF k
<1>2. \A r \in Notices : r \notin Messages(t)
  BY NoticeFacts, MessageFacts
<1>3. \A j \in 1 .. Len(k) : k[j] \in Messages(t) => j \in 1 .. Len(l) /\ k[j] = l[j]
  BY <1>1, <1>2
<1>4. \A j \in 1 .. Len(l) : \A i \in 1 .. j - 1 : i \in 1 .. Len(l)
  OBVIOUS
<1>5. \A j \in 1 .. Len(l) : \A i \in 1 .. j - 1 : i \in 1 .. Len(k)
  BY DEF k
<1>6. InLine(t, g, k, n)
  BY <1>3, <1>4, <1>5 DEF InLine
<1> QED
  BY <1>6 DEF k

\* A new message joins the line.
LEMMA InLinePush ==
  ASSUME NEW t \in Kinds \X Names, NEW g \in Seq(Nat), NEW l \in Seq(Replies), NEW n \in Nat,
         InLine(t, g, l, n), NEW p \in Seq(Replies),
         \A i \in 1 .. Len(p) : p[i] \in Messages(t) => Number(p[i]) = n + 1,
         \A i, j \in 1 .. Len(p) : p[i] \in Messages(t) /\ p[j] \in Messages(t) => i = j
  PROVE  InLine(t, g, l \o p, n + 1)
<1> DEFINE k == l \o p
<1>1. \A j \in 1 .. Len(k) : \/ j \in 1 .. Len(l) /\ k[j] = l[j]
                             \/ j - Len(l) \in 1 .. Len(p) /\ k[j] = p[j - Len(l)]
  OBVIOUS
<1>2. Len(k) = Len(l) + Len(p) /\ Len(l) \in Nat /\ Len(p) \in Nat /\ Len(g) \in Nat
  OBVIOUS
<1>3. \A i \in 1 .. Len(g) : g[i] \in Nat
  OBVIOUS
<1>4. \A j \in 1 .. Len(l) : l[j] \in Messages(t) => Number(l[j]) \in Nat
  BY MessageFacts
<1> HIDE DEF k
<1>5. ASSUME NEW j \in 1 .. Len(k), k[j] \in Messages(t)
      PROVE  /\ Number(k[j]) <= n + 1
             /\ \A i \in 1 .. Len(g) : g[i] < Number(k[j])
             /\ \A i \in 1 .. j - 1 : k[i] \in Messages(t) => Number(k[i]) < Number(k[j])
  <2>1. CASE j \in 1 .. Len(l) /\ k[j] = l[j]
    <3>1. \A i \in 1 .. j - 1 : i \in 1 .. Len(l) /\ k[i] = l[i]
      BY <1>1, <1>2, <2>1
    <3> QED
      BY <1>4, <1>5, <2>1, <3>1, SMTT(30) DEF InLine
  <2>2. CASE j - Len(l) \in 1 .. Len(p) /\ k[j] = p[j - Len(l)]
    <3>1. Number(k[j]) = n + 1
      BY <1>5, <2>2
    <3>2. \A i \in 1 .. Len(g) : g[i] < n + 1
      BY <1>3 DEF InLine
    <3>3. ASSUME NEW i \in 1 .. j - 1, k[i] \in Messages(t) PROVE Number(k[i]) < n + 1
      <4>1. i \in 1 .. Len(k)
        BY <1>2
      <4>2. CASE i \in 1 .. Len(l) /\ k[i] = l[i]
        BY <1>4, <3>3, <4>2 DEF InLine
      <4>3. CASE i - Len(l) \in 1 .. Len(p) /\ k[i] = p[i - Len(l)]
        <5>1. i - Len(l) = j - Len(l)
          BY <1>5, <2>2, <3>3, <4>3
        <5> QED
          BY <1>2, <5>1
      <4> QED
        BY <1>1, <4>1, <4>2, <4>3
    <3> QED
      BY <3>1, <3>2, <3>3
  <2> QED
    BY <1>1, <2>1, <2>2
<1>6. \A i \in 1 .. Len(g) : g[i] <= n + 1
  BY <1>3 DEF InLine
<1>7. InLine(t, g, k, n + 1)
  BY <1>5, <1>6 DEF InLine
<1> QED
  BY <1>7 DEF k

\* The message at the front of the line is given to its callback.
LEMMA InLineDeliver ==
  ASSUME NEW t \in Kinds \X Names, NEW g \in Seq(Nat), NEW l \in Seq(Replies), NEW n \in Nat,
         InLine(t, g, l, n), l # <<>>, Head(l) \in Messages(t)
  PROVE  /\ Append(g, Number(Head(l))) \in Seq(Nat)
         /\ InLine(t, Append(g, Number(Head(l))), Tail(l), n)
<1> DEFINE m == Number(Head(l))
           h == Append(g, m)
           k == Tail(l)
<1>1. m \in Nat
  BY MessageFacts
<1>2. Len(l) \in Nat \ {0} /\ Head(l) = l[1] /\ 1 \in 1 .. Len(l)
  OBVIOUS
<1>3. k \in Seq(Replies) /\ Len(k) = Len(l) - 1 /\ \A i \in 1 .. Len(k) : k[i] = l[i + 1]
  OBVIOUS
<1>4. m <= n /\ \A i \in 1 .. Len(g) : g[i] < m
  BY <1>2 DEF InLine
<1> HIDE DEF m, k
<1>5. /\ h \in Seq(Nat) /\ Len(h) = Len(g) + 1
      /\ \A i \in 1 .. Len(g) : h[i] = g[i]
      /\ h[Len(g) + 1] = m
  BY <1>1
<1> HIDE DEF h
<1>6. Len(g) \in Nat /\ \A i \in 1 .. Len(g) : g[i] \in Nat
  OBVIOUS
<1>7. \A i \in 1 .. Len(h) : i \in 1 .. Len(g) \/ i = Len(g) + 1
  BY <1>5, <1>6
<1>8. InLine(t, g, k, n)
  <2>1. 1 \in Nat /\ Len(k) + 1 <= Len(l) /\ \A i \in 1 .. Len(k) : k[i] = l[i + 1]
    BY <1>2, <1>3
  <2> QED
    BY <1>3, <2>1, InLineShorter
<1>9. \A i, j \in 1 .. Len(h) : i < j => h[i] < h[j]
  <2> SUFFICES ASSUME NEW i \in 1 .. Len(h), NEW j \in 1 .. Len(h), i < j PROVE h[i] < h[j]
    OBVIOUS
  <2>1. i \in 1 .. Len(g)
    BY <1>5, <1>6, <1>7
  <2>2. CASE j \in 1 .. Len(g)
    BY <1>5, <2>1, <2>2 DEF InLine
  <2>3. CASE j = Len(g) + 1
    BY <1>4, <1>5, <2>1, <2>3
  <2> QED
    BY <1>7, <2>2, <2>3
<1>10. \A i \in 1 .. Len(h) : h[i] <= n
  BY <1>4, <1>5, <1>7 DEF InLine
<1>11. ASSUME NEW j \in 1 .. Len(k), k[j] \in Messages(t)
       PROVE  \A i \in 1 .. Len(h) : h[i] < Number(k[j])
  <2>1. j + 1 \in 1 .. Len(l) /\ l[j + 1] = k[j]
    BY <1>2, <1>3
  <2>2. m < Number(k[j])
    <3>1. 1 \in 1 .. (j + 1) - 1 /\ l[1] \in Messages(t)
      BY <1>2
    <3> QED
      BY <1>2, <1>11, <2>1, <3>1 DEF InLine, m
  <2>3. \A i \in 1 .. Len(g) : g[i] < Number(k[j])
    BY <1>8, <1>11 DEF InLine
  <2> QED
    BY <1>5, <1>7, <2>2, <2>3
<1>12. InLine(t, h, k, n)
  BY <1>8, <1>9, <1>10, <1>11 DEF InLine
<1> QED
  BY <1>5, <1>12 DEF h, m, k

\* What the steps do to the line.
LEMMA LineType ==
  ASSUME NEW w, Workers = {w}, LineOK(w)
  PROVE  Line(w) \in Seq(Replies)
<1>1. CASE pc[w] = "dispatch"
  <2>1. <<rep[w]>> \in Seq(Replies)
    BY <1>1 DEF LineOK
  <2> QED
    BY <1>1, <2>1 DEF LineOK, Line
<1>2. CASE pc[w] # "dispatch"
  BY <1>2 DEF LineOK, Line
<1> QED
  BY <1>1, <1>2

\* The same after a step.
LEMMA LineTypeNext ==
  ASSUME NEW w, Workers = {w}, LineOK(w)'
  PROVE  Line(w)' \in Seq(Replies)
<1>1. CASE pc'[w] = "dispatch"
  <2>1. <<rep'[w]>> \in Seq(Replies)
    BY <1>1 DEF LineOK
  <2> QED
    BY <1>1, <2>1 DEF LineOK, Line
<1>2. CASE pc'[w] # "dispatch"
  BY <1>2 DEF LineOK, Line
<1> QED
  BY <1>1, <1>2

\* Counting calls, losses or refusals leaves the messages' numbers alone.
LEMMA CountKeeps ==
  ASSUME calls \in Counts
  PROVE  /\ \A what \in {"calls", "drops", "refusals"} : Count(what) =>
              calls' \in Counts /\ calls'.messages = calls.messages
         /\ UNCHANGED calls => calls' \in Counts /\ calls'.messages = calls.messages
         /\ Count("messages") => calls' \in Counts /\ calls'.messages = calls.messages + 1
BY DEF Counts, Count

\* Steps that do not touch the line.
LEMMA OrderedKept ==
  ASSUME NEW w, Workers = {w}, Ordered(w), UNCHANGED <<avail, wire, rep, got>>,
         calls' \in Counts, calls'.messages = calls.messages,
         pc'[w] = "dispatch" <=> pc[w] = "dispatch"
  PROVE  Ordered(w)'
<1>1. LineOK(w)'
  BY DEF Ordered, LineOK
<1>2. Line(w)' = Line(w)
  BY DEF Line
<1> QED
  BY <1>1, <1>2 DEF Ordered

\* The line becomes shorter.
LEMMA OrderedShorter ==
  ASSUME NEW w, Workers = {w}, Ordered(w), LineOK(w)', UNCHANGED got,
         calls'.messages = calls.messages,
         NEW d \in Nat, Len(Line(w)') + d <= Len(Line(w)),
         \A i \in 1 .. Len(Line(w)') : Line(w)'[i] = Line(w)[i + d]
  PROVE  Ordered(w)'
<1>1. Line(w) \in Seq(Replies) /\ Line(w)' \in Seq(Replies)
  BY LineType, LineTypeNext DEF Ordered
<1>2. ASSUME NEW t \in Kinds \X Names
      PROVE  InLine(t, got'[t], Line(w)', calls'.messages)
  <2>1. /\ got[t] \in Seq(Nat) /\ calls.messages \in Nat
        /\ InLine(t, got[t], Line(w), calls.messages)
    BY DEF Ordered, LineOK, Counts
  <2>2. InLine(t, got[t], Line(w)', calls.messages)
    BY <1>1, <2>1, InLineShorter
  <2> QED
    BY <2>2
<1> QED
  BY <1>2 DEF Ordered

\* What is not read yet is lost with the connection.
LEMMA OrderedLost ==
  ASSUME NEW w, Workers = {w}, Ordered(w), UNCHANGED <<avail, rep, got>>, wire' = <<>>,
         calls' \in Counts, calls'.messages = calls.messages,
         pc'[w] = "dispatch" <=> pc[w] = "dispatch"
  PROVE  Ordered(w)'
<1>1. LineOK(w)'
  BY DEF Ordered, LineOK
<1> DEFINE h == IF pc[w] = "dispatch" THEN <<rep[w]>> ELSE <<>>
<1>2. h \in Seq(Replies) /\ avail \in Seq(Replies) /\ wire \in Seq(Replies)
  BY DEF Ordered, LineOK
<1>3. Line(w) = (h \o avail) \o wire /\ Line(w)' = (h \o avail) \o <<>>
  BY DEF Line
<1> HIDE DEF h
<1>4. /\ 0 \in Nat /\ Len(Line(w)') + 0 <= Len(Line(w))
      /\ \A i \in 1 .. Len(Line(w)') : Line(w)'[i] = Line(w)[i + 0]
  <2> DEFINE p == h \o avail
  <2>1. p \in Seq(Replies)
    BY <1>2
  <2> HIDE DEF p
  <2>2. p \o <<>> = p
    BY <2>1
  <2>3. Len(p) <= Len(p \o wire) /\ \A i \in 1 .. Len(p) : (p \o wire)[i] = p[i]
    BY <1>2, <2>1
  <2>4. Line(w) = p \o wire /\ Line(w)' = p
    BY <1>3, <2>2 DEF p
  <2> QED
    BY <2>1, <2>3, <2>4
<1> QED
  BY <1>1, <1>4, OrderedShorter

\* The worker is done with the reply it held.
LEMMA OrderedDone ==
  ASSUME NEW w, Workers = {w}, Ordered(w), UNCHANGED <<avail, wire, rep, calls, got>>,
         pc[w] = "dispatch", pc'[w] # "dispatch"
  PROVE  Ordered(w)'
<1>1. LineOK(w)'
  BY DEF Ordered, LineOK
<1>2. rep[w] \in Replies /\ avail \in Seq(Replies) /\ wire \in Seq(Replies)
  BY DEF Ordered, LineOK
<1>3. Line(w) = (<<rep[w]>> \o avail) \o wire /\ Line(w)' = (<<>> \o avail) \o wire
  BY DEF Line
<1>4. /\ 1 \in Nat /\ Len(Line(w)') + 1 <= Len(Line(w))
      /\ \A i \in 1 .. Len(Line(w)') : Line(w)'[i] = Line(w)[i + 1]
  BY <1>2, <1>3, SMTT(30)
<1> QED
  BY <1>1, <1>4, OrderedShorter

\* What is read moves within the line.
LEMMA OrderedRead ==
  ASSUME NEW w, Workers = {w}, TypeOK, Ordered(w), ReadEvent(w)
  PROVE  Ordered(w)'
<1>1. PICK n \in 1 .. Len(wire) : avail' = avail \o SubSeq(wire, 1, n)
                                  /\ wire' = SubSeq(wire, n + 1, Len(wire))
  BY DEF ReadEvent, ReadReplies
<1>2. avail \in Seq(Replies) /\ wire \in Seq(Replies)
  BY DEF Ordered, LineOK
<1>3. pc[w] # "dispatch" /\ pc'[w] # "dispatch" /\ UNCHANGED <<rep, got, calls>>
  BY DEF ReadEvent, Goto, TypeOK, localVars, histVars, Threads
<1>4. avail' \in Seq(Replies) /\ wire' \in Seq(Replies)
  BY <1>1, <1>2
<1>5. Line(w) = <<>> \o avail \o wire /\ Line(w)' = <<>> \o avail' \o wire'
  BY <1>3 DEF Line
<1>6. avail' \o wire' = avail \o wire
  <2> DEFINE a == SubSeq(wire, 1, n)
             b == SubSeq(wire, n + 1, Len(wire))
  <2>1. a \in Seq(Replies) /\ b \in Seq(Replies) /\ avail' = avail \o a /\ wire' = b
    BY <1>1, <1>2
  <2>2. a \o b = wire
    <3>1. a \o b = SubSeq(wire, 1, Len(wire))
      BY <1>2, ConcatAdjacentSubSeq
    <3>2. SubSeq(wire, 1, Len(wire)) = wire
      BY <1>2, SubSeqFull
    <3> QED
      BY <3>1, <3>2
  <2> HIDE DEF a, b
  <2>3. \A x, y, z \in Seq(Replies) : (x \o y) \o z = x \o (y \o z)
    BY ConcatAssociative, SMTT(30)
  <2>4. (avail \o a) \o b = avail \o (a \o b)
    BY <1>2, <2>1, <2>3, Zenon
  <2> QED
    BY <2>1, <2>2, <2>4
<1>7. /\ 0 \in Nat /\ Len(Line(w)') + 0 <= Len(Line(w))
      /\ \A i \in 1 .. Len(Line(w)') : Line(w)'[i] = Line(w)[i + 0]
  <2>1. <<>> \o avail = avail /\ <<>> \o avail' = avail'
    BY <1>2, <1>4, ConcatEmptySeq
  <2>2. Line(w)' = Line(w) /\ Line(w) \in Seq(Replies)
    BY <1>2, <1>5, <1>6, <2>1, SMTT(30)
  <2> QED
    BY <2>2
<1>8. LineOK(w)'
  BY <1>3, <1>4 DEF Ordered, LineOK
<1> QED
  BY <1>3, <1>7, <1>8, OrderedShorter

\* The worker takes the front of the line, or drops it without a callback.
LEMMA OrderedTake ==
  ASSUME NEW w, Workers = {w}, TypeOK, Ordered(w), TakeReply(w)
  PROVE  Ordered(w)'
<1>1. avail \in Seq(Replies) /\ wire \in Seq(Replies) /\ avail # <<>>
  BY DEF Ordered, LineOK, TakeReply, PopReply
<1>2. avail' = Tail(avail) /\ UNCHANGED <<wire, got, calls>> /\ pc[w] = "loop"
  BY DEF TakeReply, PopReply, Goto, histVars
<1>3. Tail(avail) \in Seq(Replies) /\ Head(avail) \in Replies
      /\ Len(avail) = Len(Tail(avail)) + 1 /\ avail[1] = Head(avail)
      /\ \A i \in 1 .. Len(Tail(avail)) : Tail(avail)[i] = avail[i + 1]
  BY <1>1
<1>4. Line(w) = <<>> \o avail \o wire
  BY <1>2 DEF Line
<1> DEFINE a == Tail(avail)
<1> HIDE DEF a
<1>5. a \in Seq(Replies) /\ Len(avail) = Len(a) + 1 /\ \A i \in 1 .. Len(a) : a[i] = avail[i + 1]
  BY <1>3 DEF a
<1>6. CASE hset
  <2>1. rep' = [rep EXCEPT ![w] = Head(avail)] /\ pc'[w] = "dispatch"
    BY <1>6 DEF TakeReply, Goto, TypeOK, Threads
  <2>2. LineOK(w)'
    BY <1>2, <1>3, <2>1 DEF Ordered, LineOK
  <2>3. rep'[w] = avail[1]
    BY <1>3, <2>1 DEF Ordered, LineOK
  <2>4. Line(w)' = <<avail[1]>> \o a \o wire
    BY <1>2, <2>1, <2>3 DEF Line, a
  <2>5. /\ 0 \in Nat /\ Len(Line(w)') + 0 <= Len(Line(w))
        /\ \A i \in 1 .. Len(Line(w)') : Line(w)'[i] = Line(w)[i + 0]
    <3>1. <<avail[1]>> \o a = avail
      <4>1. <<avail[1]>> \in Seq(Replies) /\ Len(<<avail[1]>>) = 1 /\ <<avail[1]>>[1] = avail[1]
        BY <1>1, <1>3
      <4> DEFINE h == <<avail[1]>>
      <4> HIDE DEF h
      <4>2. /\ h \o a \in Seq(Replies)
            /\ Len(h \o a) = Len(h) + Len(a)
            /\ \A i \in 1 .. Len(h) + Len(a) : (h \o a)[i] = IF i <= Len(h) THEN h[i] ELSE a[i - Len(h)]
        BY <1>5, <4>1, ConcatProperties DEF h
      <4>3. Len(h \o a) = Len(avail) /\ \A i \in 1 .. Len(h \o a) : (h \o a)[i] = avail[i]
        BY <1>5, <4>1, <4>2 DEF h
      <4>4. h \o a = avail
        BY <1>1, <4>2, <4>3, SeqEqual
      <4> QED
        BY <4>4 DEF h
    <3>2. <<>> \o avail = avail
      BY <1>1, ConcatEmptySeq
    <3>3. Line(w)' = Line(w)
      BY <1>4, <2>4, <3>1, <3>2
    <3>4. Line(w) \in Seq(Replies)
      BY <1>1, <1>4, <3>2
    <3> QED
      BY <3>3, <3>4
  <2> QED
    BY <1>2, <2>2, <2>5, OrderedShorter
<1>7. CASE ~hset
  <2>1. UNCHANGED rep /\ pc'[w] # "dispatch"
    BY <1>7 DEF TakeReply, Goto, TypeOK, Threads
  <2>2. LineOK(w)'
    BY <1>2, <1>3, <2>1 DEF Ordered, LineOK
  <2>3. Line(w)' = <<>> \o a \o wire
    BY <1>2, <2>1 DEF Line, a
  <2>4. /\ 1 \in Nat /\ Len(Line(w)') + 1 <= Len(Line(w))
        /\ \A i \in 1 .. Len(Line(w)') : Line(w)'[i] = Line(w)[i + 1]
    BY <1>1, <1>4, <1>5, <2>3
  <2> QED
    BY <1>2, <2>2, <2>4, OrderedShorter
<1> QED
  BY <1>6, <1>7

\* What the server sends joins the end of the line.
LEMMA LineGrows ==
  ASSUME NEW w, Workers = {w}, LineOK(w), NEW p \in Seq(Replies), wire' = wire \o p,
         UNCHANGED <<avail, rep>>, pc'[w] = "dispatch" <=> pc[w] = "dispatch"
  PROVE  Line(w)' = Line(w) \o p
<1> DEFINE h == IF pc[w] = "dispatch" THEN <<rep[w]>> ELSE <<>>
           a == h \o avail
<1>1. h \in Seq(Replies) /\ avail \in Seq(Replies) /\ wire \in Seq(Replies)
  BY DEF LineOK
<1>2. Line(w) = a \o wire /\ Line(w)' = a \o (wire \o p)
  BY DEF Line
<1>3. a \in Seq(Replies)
  BY <1>1
<1> HIDE DEF a
<1>4. a \o (wire \o p) = (a \o wire) \o p
  BY <1>1, <1>3
<1> QED
  BY <1>2, <1>4

\* The server answers what is written.
LEMMA OrderedWrite ==
  ASSUME NEW w, Workers = {w}, Data, Ordered(w), WriteCommands,
         UNCHANGED <<avail, rep, got, calls>>,
         pc'[w] = "dispatch" <=> pc[w] = "dispatch"
  PROVE  Ordered(w)'
<1> DEFINE p == [i \in 1 .. Len(m_buffer) |->
                   Answer(m_buffer[i], After(server, m_buffer, i))]
<1>1. wire' = wire \o p
  BY DEF WriteCommands
<1>2. ASSUME NEW i \in 1 .. Len(m_buffer)
      PROVE  Answer(m_buffer[i], After(server, m_buffer, i)) \in Notices
  <2>1. m_buffer \in Seq(Commands) /\ server \in ServerStates /\ i \in 0 .. Len(m_buffer)
    BY DEF Data
  <2>2. m_buffer[i] \in Commands
    BY <2>1
  <2>3. /\ After(server, m_buffer, i) \in ServerStates
        /\ \A k \in Kinds : IsFiniteSet(After(server, m_buffer, i).subs[k])
    BY <2>1, AfterType, ReadFinite DEF Data
  <2> QED
    BY <2>2, <2>3, AnswerNotice
<1>3. Len(m_buffer) \in Nat
  BY DEF Data
<1>4. p \in Seq(Notices)
  BY <1>2, <1>3
<1> HIDE DEF p
<1>5. wire \in Seq(Replies) /\ wire' \in Seq(Replies)
  <2>1. Notices \subseteq Replies
    BY DEF Replies
  <2>2. p \in Seq(Replies)
    BY <1>4, <2>1
  <2>3. wire \in Seq(Replies)
    BY DEF Ordered, LineOK
  <2> QED
    BY <1>1, <2>2, <2>3
<1>6. LineOK(w)'
  BY <1>5 DEF Ordered, LineOK
<1>7. Line(w)' = Line(w) \o p
  <2>1. p \in Seq(Replies)
    BY <1>4 DEF Replies
  <2> QED
    BY <1>1, <2>1, LineGrows DEF Ordered
<1>8. ASSUME NEW t \in Kinds \X Names
      PROVE  InLine(t, got'[t], Line(w)', calls'.messages)
  <2>1. /\ got[t] \in Seq(Nat) /\ calls.messages \in Nat
        /\ InLine(t, got[t], Line(w), calls.messages) /\ Line(w) \in Seq(Replies)
    BY LineType DEF Ordered, LineOK, Counts
  <2> QED
    BY <1>4, <1>7, <2>1, InLineNotices
<1> QED
  BY <1>6, <1>8 DEF Ordered

\* The server pushes a message.
LEMMA OrderedPublish ==
  ASSUME NEW w, Workers = {w}, Data, Ordered(w), NEW c \in Names, Publish(c)
  PROVE  Ordered(w)'
<1> DEFINE n == calls.messages
           p == Push(c, n + 1)
<1>1. /\ wire' = wire \o p /\ UNCHANGED <<avail, rep, got, pc>>
      /\ Count("messages")
  BY DEF Publish, localVars, histVars
<1>2. n \in Nat /\ n + 1 \in Nat /\ calls \in Counts
  BY DEF Ordered, LineOK, Counts
<1> HIDE DEF n
<1>3. /\ p \in Seq(Replies)
      /\ \A t \in Kinds \X Names : \A i \in 1 .. Len(p) :
           p[i] \in Messages(t) => Number(p[i]) = n + 1
      /\ \A t \in Kinds \X Names : \A i, j \in 1 .. Len(p) :
           p[i] \in Messages(t) /\ p[j] \in Messages(t) => i = j
  BY <1>2, PushFacts
<1> HIDE DEF p
<1>4. calls' \in Counts /\ calls'.messages = n + 1
  BY <1>1, <1>2, CountKeeps DEF n
<1>5. wire \in Seq(Replies) /\ wire' \in Seq(Replies)
  <2>1. wire \in Seq(Replies)
    BY DEF Ordered, LineOK
  <2> QED
    BY <1>1, <1>3, <2>1
<1>6. LineOK(w)'
  BY <1>1, <1>4, <1>5 DEF Ordered, LineOK
<1>7. Line(w)' = Line(w) \o p
  BY <1>1, <1>3, LineGrows DEF Ordered
<1>8. ASSUME NEW t \in Kinds \X Names
      PROVE  InLine(t, got'[t], Line(w)', calls'.messages)
  <2>1. /\ got[t] \in Seq(Nat)
        /\ InLine(t, got[t], Line(w), n) /\ Line(w) \in Seq(Replies)
    BY LineType DEF Ordered, LineOK, n
  <2>2. InLine(t, got[t], Line(w) \o p, n + 1)
    BY <1>2, <1>3, <2>1, InLinePush
  <2> QED
    BY <1>1, <1>4, <1>7, <2>2
<1> QED
  BY <1>6, <1>8 DEF Ordered

\* The worker hands a message to its callback.
LEMMA OrderedLookup ==
  ASSUME NEW w, Workers = {w}, TypeOK, Ordered(w), NEW t \in Kinds \X Names, Lookup(w, t)
  PROVE  Ordered(w)'
<1>1. /\ pc[w] = "dispatch" /\ pc'[w] # "dispatch"
      /\ UNCHANGED <<avail, wire, rep, calls>>
      /\ is_array(rep[w]) /\ Target(as_array(rep[w])) = t
  BY DEF Lookup, Found, NotFound, Goto, TypeOK, Threads, connVars
<1>2. CASE UNCHANGED got
  BY <1>1, <1>2, OrderedDone
<1>3. CASE /\ IsMessage(as_array(rep[w]))
           /\ got' = [got EXCEPT ![t] = Append(@, Number(rep[w]))]
  <2>1. PICK u \in Kinds \X Names : rep[w] \in Messages(u)
    BY <1>1, <1>3, NoticeFacts DEF Ordered, LineOK, Replies
  <2>2. u = t
    BY <1>1, <2>1, MessageFacts
  <2>3. rep[w] \in Replies /\ avail \in Seq(Replies) /\ wire \in Seq(Replies)
    BY <1>1 DEF Ordered, LineOK
  <2>4. Line(w) = <<rep[w]>> \o avail \o wire /\ Line(w)' = <<>> \o avail \o wire
    BY <1>1 DEF Line
  <2>5. Line(w) \in Seq(Replies) /\ Line(w) # <<>> /\ Head(Line(w)) = rep[w] /\ Tail(Line(w)) = Line(w)'
    BY <2>3, <2>4
  <2>6. /\ got \in [Kinds \X Names -> Seq(Nat)] /\ calls.messages \in Nat
        /\ \A s \in Kinds \X Names : InLine(s, got[s], Line(w), calls.messages)
    BY DEF Ordered, LineOK, Counts
  <2>7. /\ Append(got[t], Number(rep[w])) \in Seq(Nat)
        /\ InLine(t, Append(got[t], Number(rep[w])), Line(w)', calls.messages)
    BY <2>1, <2>2, <2>5, <2>6, InLineDeliver
  <2>8. LineOK(w)'
    BY <1>1, <1>3, <2>6, <2>7 DEF Ordered, LineOK
  <2>9. ASSUME NEW s \in Kinds \X Names
        PROVE  InLine(s, got'[s], Line(w)', calls'.messages)
    <3>1. CASE s = t
      BY <1>1, <1>3, <2>6, <2>7, <3>1
    <3>2. CASE s # t
      <4>1. got'[s] = got[s]
        BY <1>3, <2>6, <3>2
      <4>2. /\ 1 \in Nat /\ Line(w)' \in Seq(Replies) /\ Len(Line(w)') + 1 <= Len(Line(w))
            /\ \A i \in 1 .. Len(Line(w)') : Line(w)'[i] = Line(w)[i + 1]
        BY <2>5, SMTT(30)
      <4>3. InLine(s, got[s], Line(w)', calls.messages)
        BY <2>5, <2>6, <4>2, InLineShorter
      <4> QED
        BY <1>1, <4>1, <4>3
    <3> QED
      BY <3>1, <3>2
  <2> QED
    BY <2>8, <2>9 DEF Ordered
<1> QED
  BY <1>2, <1>3 DEF Lookup, Found, NotFound, Number

\* Every step keeps the messages in order.
LEMMA OrderedNext ==
  ASSUME NEW w, Workers = {w}, TypeOK, Data, Ordered(w), [Next]_vars
  PROVE  Ordered(w)'
<1>p. /\ pc \in [Threads -> UserLabels \cup WorkerLabels]
      /\ w \in Threads /\ w \notin Users /\ Users \subseteq Threads
  BY SubscriberAssumption DEF TypeOK, Threads
<1>c. calls \in Counts
  BY DEF Ordered, LineOK
<1> USE <1>p, <1>c DEF connVars, mapVars, authVars, reconVars, localVars, histVars
<1>1. ASSUME NEW u \in Users, NEW k \in Kinds, NEW x \in Names, Subscribe(u, k, x) PROVE Ordered(w)'
  <2>1. Count("calls") /\ UNCHANGED <<avail, wire, rep, got>> /\ (pc'[w] = "dispatch" <=> pc[w] = "dispatch")
    BY <1>1 DEF Subscribe, BufferCommand, Begin
  <2> QED
    BY <2>1, CountKeeps, OrderedKept
<1>2. ASSUME NEW u \in Users, NEW k \in Kinds, NEW x \in Names, Unsubscribe(u, k, x) PROVE Ordered(w)'
  <2>1. Count("calls") /\ UNCHANGED <<avail, wire, rep, got>> /\ (pc'[w] = "dispatch" <=> pc[w] = "dispatch")
    BY <1>2 DEF Unsubscribe, BufferCommand, Begin
  <2> QED
    BY <2>1, CountKeeps, OrderedKept
<1>3. ASSUME NEW u \in Users, Auth(u) PROVE Ordered(w)'
  <2>1. Count("calls") /\ UNCHANGED <<avail, wire, rep, got>> /\ (pc'[w] = "dispatch" <=> pc[w] = "dispatch")
    BY <1>3 DEF Auth, auth, BufferCommand, Begin
  <2> QED
    BY <2>1, CountKeeps, OrderedKept
<1>4. ASSUME NEW u \in Users, Commit(u) PROVE Ordered(w)'
  <2>1. UNCHANGED <<avail, rep, got, calls>> /\ (pc'[w] = "dispatch" <=> pc[w] = "dispatch")
    BY <1>4 DEF Commit, WriteCommands, WriteFails, Goto
  <2>2. WriteCommands \/ UNCHANGED wire
    BY <1>4 DEF Commit, WriteFails
  <2> QED
    BY <2>1, <2>2, OrderedKept, OrderedWrite DEF Ordered, LineOK
<1>5. ASSUME NEW u \in Users, CancelReconnect(u) PROVE Ordered(w)'
  <2>1. Count("calls") /\ UNCHANGED <<avail, wire, rep, got>> /\ (pc'[w] = "dispatch" <=> pc[w] = "dispatch")
    BY <1>5 DEF CancelReconnect, Begin
  <2> QED
    BY <2>1, CountKeeps, OrderedKept
<1>6. ASSUME NEW u \in Users, NEW wait \in BOOLEAN, Disconnect(u, wait) PROVE Ordered(w)'
  <2>1. Count("calls") /\ UNCHANGED <<avail, rep, got>> /\ wire' = <<>>
        /\ (pc'[w] = "dispatch" <=> pc[w] = "dispatch")
    BY <1>6 DEF Disconnect, TcpDisconnect, Begin, Goto
  <2> QED
    BY <2>1, CountKeeps, OrderedLost
<1>7. ASSUME NEW u \in Users, Connect(u) PROVE Ordered(w)'
  <2>1. Count("calls") /\ UNCHANGED <<avail, wire, rep, got>> /\ (pc'[w] = "dispatch" <=> pc[w] = "dispatch")
    BY <1>7 DEF Connect, Begin, Goto
  <2> QED
    BY <2>1, CountKeeps, OrderedKept
<1>8. ASSUME NEW u \in Users, DisconnectRemoved(u) PROVE Ordered(w)'
  <2>1. UNCHANGED <<avail, wire, rep, got, calls>> /\ (pc'[w] = "dispatch" <=> pc[w] = "dispatch")
    BY <1>8 DEF DisconnectRemoved, Goto
  <2> QED
    BY <2>1, OrderedKept DEF Ordered, LineOK
<1>9. ASSUME NEW u \in Users, DisconnectBuffers(u) PROVE Ordered(w)'
  <2>1. UNCHANGED <<avail, wire, rep, got, calls>> /\ (pc'[w] = "dispatch" <=> pc[w] = "dispatch")
    BY <1>9 DEF DisconnectBuffers, ClearBuffers, Goto
  <2> QED
    BY <2>1, OrderedKept DEF Ordered, LineOK
<1>10. ASSUME NEW u \in Users, ConnectTcp(u) PROVE Ordered(w)'
  <2>1. UNCHANGED <<avail, rep, got>> /\ (pc'[w] = "dispatch" <=> pc[w] = "dispatch")
    BY <1>10 DEF ConnectTcp, TcpConnect, AfterConnect, Goto
  <2>2. \/ wire' = <<>> /\ UNCHANGED calls
        \/ UNCHANGED <<wire, calls>>
        \/ UNCHANGED wire /\ Count("refusals")
    BY <1>10 DEF ConnectTcp, TcpConnect, AfterConnect
  <2> QED
    BY <2>1, <2>2, CountKeeps, OrderedKept, OrderedLost
<1>11. ASSUME NEW u \in Users, ConnectRead(u) PROVE Ordered(w)'
  <2>1. UNCHANGED <<avail, wire, rep, got, calls>> /\ (pc'[w] = "dispatch" <=> pc[w] = "dispatch")
    BY <1>11 DEF ConnectRead, AsyncRead, AfterConnect, Goto
  <2> QED
    BY <2>1, OrderedKept DEF Ordered, LineOK
<1>12. ASSUME NEW u \in Users, ConnectHandlers(u) PROVE Ordered(w)'
  <2>1. UNCHANGED <<avail, wire, rep, got, calls>> /\ (pc'[w] = "dispatch" <=> pc[w] = "dispatch")
    BY <1>12 DEF ConnectHandlers, SetHandlers, AfterConnect, Goto
  <2> QED
    BY <2>1, OrderedKept DEF Ordered, LineOK
<1>13. ASSUME ReadEvent(w) PROVE Ordered(w)'
  BY <1>13, OrderedRead DEF ReadEvent
<1>14. ASSUME DropEvent(w) PROVE Ordered(w)'
  <2>1. Count("drops") /\ UNCHANGED <<avail, rep, got>> /\ wire' = <<>>
        /\ (pc'[w] = "dispatch" <=> pc[w] = "dispatch")
    BY <1>14 DEF DropEvent, PeerDrop, Begin, Goto
  <2> QED
    BY <2>1, CountKeeps, OrderedLost
<1>15. ASSUME TakeReply(w) PROVE Ordered(w)'
  BY <1>15, OrderedTake
<1>16. ASSUME EndRead(w) PROVE Ordered(w)'
  <2>1. UNCHANGED <<avail, wire, rep, got, calls>> /\ (pc'[w] = "dispatch" <=> pc[w] = "dispatch")
    BY <1>16 DEF EndRead, NextRead, Goto
  <2> QED
    BY <2>1, OrderedKept DEF Ordered, LineOK
<1>17. ASSUME DispatchAuth(w) PROVE Ordered(w)'
  <2>1. UNCHANGED <<avail, wire, rep, calls, got>> /\ pc[w] = "dispatch" /\ pc'[w] # "dispatch"
    BY <1>17 DEF DispatchAuth, Goto
  <2> QED
    BY <2>1, OrderedDone
<1>18. ASSUME AuthCall(w) PROVE Ordered(w)'
  <2>1. UNCHANGED <<avail, wire, rep, got, calls>> /\ (pc'[w] = "dispatch" <=> pc[w] = "dispatch")
    BY <1>18 DEF AuthCall, Goto
  <2> QED
    BY <2>1, OrderedKept DEF Ordered, LineOK
<1>19. ASSUME AuthForget(w) PROVE Ordered(w)'
  <2>1. UNCHANGED <<avail, wire, rep, got, calls>> /\ (pc'[w] = "dispatch" <=> pc[w] = "dispatch")
    BY <1>19 DEF AuthForget, Goto
  <2> QED
    BY <2>1, OrderedKept DEF Ordered, LineOK
<1>20. ASSUME DispatchNothing(w) PROVE Ordered(w)'
  <2>1. UNCHANGED <<avail, wire, rep, calls, got>> /\ pc[w] = "dispatch" /\ pc'[w] # "dispatch"
    BY <1>20 DEF DispatchNothing, Goto
  <2> QED
    BY <2>1, OrderedDone
<1>21. ASSUME NEW t \in Kinds \X Names, Lookup(w, t) PROVE Ordered(w)'
  BY <1>21, OrderedLookup
<1>22. ASSUME CallbackReturn(w) PROVE Ordered(w)'
  <2>1. UNCHANGED <<avail, wire, rep, got, calls>> /\ (pc'[w] = "dispatch" <=> pc[w] = "dispatch")
    BY <1>22 DEF CallbackReturn, Goto
  <2> QED
    BY <2>1, OrderedKept DEF Ordered, LineOK
<1>23. ASSUME DropBuffers(w) PROVE Ordered(w)'
  <2>1. UNCHANGED <<avail, wire, rep, got, calls>> /\ (pc'[w] = "dispatch" <=> pc[w] = "dispatch")
    BY <1>23 DEF DropBuffers, ClearBuffers, Goto
  <2> QED
    BY <2>1, OrderedKept DEF Ordered, LineOK
<1>24. ASSUME DropCheck(w) PROVE Ordered(w)'
  <2>1. UNCHANGED <<avail, wire, rep, got, calls>> /\ (pc'[w] = "dispatch" <=> pc[w] = "dispatch")
    BY <1>24 DEF DropCheck, Goto
  <2> QED
    BY <2>1, OrderedKept DEF Ordered, LineOK
<1>25. ASSUME DropSet(w) PROVE Ordered(w)'
  <2>1. UNCHANGED <<avail, wire, rep, got, calls>> /\ (pc'[w] = "dispatch" <=> pc[w] = "dispatch")
    BY <1>25 DEF DropSet, Goto
  <2> QED
    BY <2>1, OrderedKept DEF Ordered, LineOK
<1>26. ASSUME NEW k \in Kinds, DropLock(w, k) PROVE Ordered(w)'
  <2>1. UNCHANGED <<avail, wire, rep, got, calls>> /\ (pc'[w] = "dispatch" <=> pc[w] = "dispatch")
    BY <1>26 DEF DropLock, Goto
  <2> QED
    BY <2>1, OrderedKept DEF Ordered, LineOK
<1>27. ASSUME ReconnectStart(w) PROVE Ordered(w)'
  <2>1. UNCHANGED <<avail, wire, rep, got, calls>> /\ (pc'[w] = "dispatch" <=> pc[w] = "dispatch")
    BY <1>27 DEF ReconnectStart, Goto
  <2> QED
    BY <2>1, OrderedKept DEF Ordered, LineOK
<1>28. ASSUME ConnectTcp(w) PROVE Ordered(w)'
  <2>1. UNCHANGED <<avail, rep, got>> /\ (pc'[w] = "dispatch" <=> pc[w] = "dispatch")
    BY <1>28 DEF ConnectTcp, TcpConnect, AfterConnect, Goto
  <2>2. \/ wire' = <<>> /\ UNCHANGED calls
        \/ UNCHANGED <<wire, calls>>
        \/ UNCHANGED wire /\ Count("refusals")
    BY <1>28 DEF ConnectTcp, TcpConnect, AfterConnect
  <2> QED
    BY <2>1, <2>2, CountKeeps, OrderedKept, OrderedLost
<1>29. ASSUME ConnectRead(w) PROVE Ordered(w)'
  <2>1. UNCHANGED <<avail, wire, rep, got, calls>> /\ (pc'[w] = "dispatch" <=> pc[w] = "dispatch")
    BY <1>29 DEF ConnectRead, AsyncRead, AfterConnect, Goto
  <2> QED
    BY <2>1, OrderedKept DEF Ordered, LineOK
<1>30. ASSUME ConnectHandlers(w) PROVE Ordered(w)'
  <2>1. UNCHANGED <<avail, wire, rep, got, calls>> /\ (pc'[w] = "dispatch" <=> pc[w] = "dispatch")
    BY <1>30 DEF ConnectHandlers, SetHandlers, AfterConnect, Goto
  <2> QED
    BY <2>1, OrderedKept DEF Ordered, LineOK
<1>31. ASSUME ReconnectCheck(w) PROVE Ordered(w)'
  <2>1. UNCHANGED <<avail, wire, rep, got, calls>> /\ (pc'[w] = "dispatch" <=> pc[w] = "dispatch")
    BY <1>31 DEF ReconnectCheck, Goto
  <2> QED
    BY <2>1, OrderedKept DEF Ordered, LineOK
<1>32. ASSUME ReAuth(w) PROVE Ordered(w)'
  <2>1. UNCHANGED <<avail, wire, rep, got, calls>> /\ (pc'[w] = "dispatch" <=> pc[w] = "dispatch")
    BY <1>32 DEF ReAuth, auth, BufferCommand, Goto
  <2> QED
    BY <2>1, OrderedKept DEF Ordered, LineOK
<1>33. ASSUME ReSubscribe(w) PROVE Ordered(w)'
  <2>1. UNCHANGED <<avail, wire, rep, got, calls>> /\ (pc'[w] = "dispatch" <=> pc[w] = "dispatch")
    BY <1>33 DEF ReSubscribe, Goto
  <2> QED
    BY <2>1, OrderedKept DEF Ordered, LineOK
<1>34. ASSUME ReconnectCommit(w) PROVE Ordered(w)'
  <2>1. UNCHANGED <<avail, rep, got, calls>> /\ (pc'[w] = "dispatch" <=> pc[w] = "dispatch")
    BY <1>34 DEF ReconnectCommit, WriteCommands, WriteFails, Goto
  <2>2. WriteCommands \/ UNCHANGED wire
    BY <1>34 DEF ReconnectCommit, WriteFails
  <2> QED
    BY <2>1, <2>2, OrderedKept, OrderedWrite DEF Ordered, LineOK
<1>40. ASSUME ReconnectStop(w) PROVE Ordered(w)'
  <2>1. UNCHANGED <<avail, wire, rep, got, calls>> /\ (pc'[w] = "dispatch" <=> pc[w] = "dispatch")
    BY <1>40 DEF ReconnectStop, Goto
  <2> QED
    BY <2>1, OrderedKept DEF Ordered, LineOK
<1>41. ASSUME GiveUp(w) PROVE Ordered(w)'
  <2>1. UNCHANGED <<avail, wire, rep, got, calls>> /\ (pc'[w] = "dispatch" <=> pc[w] = "dispatch")
    BY <1>41 DEF GiveUp, Goto
  <2> QED
    BY <2>1, OrderedKept DEF Ordered, LineOK
<1>35. ASSUME DropEnd(w) PROVE Ordered(w)'
  <2>1. UNCHANGED <<avail, wire, rep, got, calls>> /\ (pc'[w] = "dispatch" <=> pc[w] = "dispatch")
    BY <1>35 DEF DropEnd, Goto
  <2> QED
    BY <2>1, OrderedKept DEF Ordered, LineOK
<1>36. ASSUME DropUnlock(w) PROVE Ordered(w)'
  <2>1. UNCHANGED <<avail, wire, rep, got, calls>> /\ (pc'[w] = "dispatch" <=> pc[w] = "dispatch")
    BY <1>36 DEF DropUnlock, Goto
  <2> QED
    BY <2>1, OrderedKept DEF Ordered, LineOK
<1>37. ASSUME HandlerReturns(w) PROVE Ordered(w)'
  <2>1. UNCHANGED <<avail, wire, rep, got, calls>> /\ (pc'[w] = "dispatch" <=> pc[w] = "dispatch")
    BY <1>37 DEF HandlerReturns, HandlerReturn, Goto
  <2> QED
    BY <2>1, OrderedKept DEF Ordered, LineOK
<1>38. ASSUME NEW c \in Names, Publish(c) PROVE Ordered(w)'
  BY <1>38, OrderedPublish
<1>39. CASE UNCHANGED vars
  BY <1>39, OrderedKept DEF vars, Ordered, LineOK
<1> HIDE DEF Ordered
<1> QED
  BY <1>1, <1>2, <1>3, <1>4, <1>5, <1>6, <1>7, <1>8, <1>9, <1>10, <1>11, <1>12,
     <1>13, <1>14, <1>15, <1>16, <1>17, <1>18, <1>19, <1>20, <1>21, <1>22,
     <1>23, <1>24, <1>25, <1>26, <1>27, <1>28, <1>29, <1>30, <1>31, <1>32,
     <1>33, <1>34, <1>35, <1>36, <1>37, <1>38, <1>39, <1>40, <1>41
     DEF Next, UserCall, UserStep, ReceiveStep, DropStep

\* Messages reach a callback in the order they were published, and none twice,
\* across reconnections, subscriptions and unsubscriptions: a single worker
\* takes them off one line, whose end a loss cuts off.
THEOREM MessagesInOrder ==
  ASSUME NEW w, Workers = {w}
  PROVE  Spec => []InOrder
<1>1. Init => Ordered(w)
  <2> SUFFICES ASSUME Init PROVE Ordered(w)
    OBVIOUS
  <2>1. LineOK(w)
    BY DEF Init, ConnInit, LineOK, Counts, Threads
  <2>2. Line(w) = <<>>
    BY DEF Init, ConnInit, Line, Threads
  <2>3. ASSUME NEW t \in Kinds \X Names
        PROVE  InLine(t, got[t], Line(w), calls.messages)
    <3>1. got[t] = <<>>
      BY DEF Init
    <3> QED
      BY <2>2, <3>1 DEF InLine
  <2> QED
    BY <2>1, <2>3 DEF Ordered
<1>2. SubscriberInv /\ Data /\ Ordered(w) /\ [Next]_vars => Ordered(w)'
  BY OrderedNext DEF SubscriberInv
<1>3. Ordered(w) => InOrder
  <2> SUFFICES ASSUME Ordered(w), NEW t \in Kinds \X Names, NEW i \in DOMAIN got[t],
                      NEW j \in DOMAIN got[t], i < j
               PROVE  got[t][i] < got[t][j]
    BY DEF InOrder
  <2>1. got[t] \in Seq(Nat)
    BY DEF Ordered, LineOK
  <2>2. DOMAIN got[t] = 1 .. Len(got[t])
    BY <2>1
  <2>3. InLine(t, got[t], Line(w), calls.messages)
    BY DEF Ordered
  <2> QED
    BY <2>2, <2>3 DEF InLine
<1> QED
  BY <1>1, <1>2, <1>3, SubscriberInvariant, DataInvariant, PTL DEF Spec
=============================================================================
