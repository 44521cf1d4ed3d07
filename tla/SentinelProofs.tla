--------------------------- MODULE SentinelProofs ---------------------------
(***************************************************************************)
(* Theorems about the sentinel and a client that looks its master up: the  *)
(* types of any instance, and for an application of one thread, with any   *)
(* number of workers and faults, what makes the references a lookup hands  *)
(* to its callback safe and the address it fills in the one it asked for.  *)
(*                                                                         *)
(* Both rest on turns: one thread at a time looks up, and nobody closes    *)
(* the sentinel's connection under it (Turns). The callback of a lookup is *)
(* then queued, or in the hands of a worker, only as long as the lookup    *)
(* waits (Scope), which at a failing commit needs that a worker in the     *)
(* receive handler sees an open connection, or one whose closing waits for *)
(* this worker (Reading).                                                  *)
(***************************************************************************)
EXTENDS HighAvailability, SequenceTheorems, FiniteSetTheorems, TLAPS

(***************************************************************************)
(* Types, for any number of threads and any use of the sentinel.           *)
(***************************************************************************)
\* Labels of the code that only a worker runs.
HandlerLabels == {"loop", "rlock", "callback", "rdone", "dropped", "clear", "ret", "hloop"}

Modes == {"auto", "plain", "client"}

\* The workers that run a callback.
Running == {w \in Workers : pc[w] \in {"callback", "rdone"}}

TypeInv ==
  /\ m_callbacks \in Seq(Cmds \cup Threads)
  /\ pc \in [Threads -> Labels]
  /\ \A u \in Users : pc[u] \notin HandlerLabels
  /\ mode \in [Threads -> Modes]
  /\ cur \in [Workers -> Cmds \cup Threads \cup {None}]
  /\ port \in [Threads \cup {None} -> {0, 1}]
  /\ answered \in [Threads -> BOOLEAN]
  /\ connected \in BOOLEAN
  /\ reader \in Workers \cup {None}
  /\ IsFiniteSet(Running)
  /\ running = Cardinality(Running)

\* A queue loses its front.
LEMMA Popped ==
  ASSUME NEW S, NEW s \in Seq(S), s # <<>>
  PROVE  Head(s) \in S /\ Tail(s) \in Seq(S) /\ Head(s) \in Range(s) /\ Range(Tail(s)) \subseteq Range(s)
<1>1. Head(s) = s[1] /\ 1 \in DOMAIN s /\ Head(s) \in S
  OBVIOUS
<1>2. Tail(s) \in Seq(S) /\ \A i \in DOMAIN Tail(s) : i + 1 \in DOMAIN s /\ Tail(s)[i] = s[i + 1]
  BY HeadTailProperties
<1> QED
  BY <1>1, <1>2 DEF Range

\* A queue gets a new end.
LEMMA Appended ==
  ASSUME NEW S, NEW s \in Seq(S), NEW c \in S
  PROVE  Append(s, c) \in Seq(S) /\ Range(Append(s, c)) = Range(s) \cup {c}
<1>1. /\ Append(s, c) \in Seq(S)
      /\ DOMAIN Append(s, c) = 1 .. Len(s) + 1 /\ DOMAIN s = 1 .. Len(s) /\ Len(s) \in Nat
      /\ \A i \in 1 .. Len(s) + 1 : Append(s, c)[i] = IF i <= Len(s) THEN s[i] ELSE c
  OBVIOUS
<1>2. ASSUME NEW x \in Range(Append(s, c)) PROVE x \in Range(s) \cup {c}
  BY <1>1 DEF Range
<1>3. ASSUME NEW x \in Range(s) PROVE x \in Range(Append(s, c))
  <2>1. PICK i \in 1 .. Len(s) : x = s[i]
    BY <1>1 DEF Range
  <2>2. i \in DOMAIN Append(s, c) /\ Append(s, c)[i] = x
    BY <1>1, <2>1
  <2> QED
    BY <2>2 DEF Range
<1>4. c \in Range(Append(s, c))
  <2>1. Len(s) + 1 \in DOMAIN Append(s, c) /\ Append(s, c)[Len(s) + 1] = c
    BY <1>1
  <2> QED
    BY <2>1 DEF Range
<1> QED
  BY <1>1, <1>2, <1>3, <1>4

\* Where connect() goes.
LEMMA Follows ==
  /\ Following["tcp"] = "read" /\ Following["stcp"] = "sread"
  /\ Following["read"] = "handlers" /\ Following["sread"] = "shandlers"
BY DEF Following

\* What the steps leave alone as far as types are concerned.
LEMMA TypeKeep ==
  ASSUME TypeInv, NEW t \in Threads, NEW l \in Labels,
         pc' = [pc EXCEPT ![t] = l],
         pc[t] \in {"callback", "rdone"} <=> l \in {"callback", "rdone"},
         t \in Users => l \notin HandlerLabels,
         m_callbacks' \in Seq(Cmds \cup Threads),
         mode' \in [Threads -> Modes],
         cur' \in [Workers -> Cmds \cup Threads \cup {None}],
         port' \in [Threads \cup {None} -> {0, 1}],
         answered' \in [Threads -> BOOLEAN],
         connected' \in BOOLEAN,
         reader' \in Workers \cup {None},
         running' = running
  PROVE  TypeInv'
<1>1. Running' = Running
  <2>1. \A w \in Workers : pc'[w] \in {"callback", "rdone"} <=> pc[w] \in {"callback", "rdone"}
    BY SentinelAssumption DEF TypeInv, Threads
  <2> QED
    BY <2>1 DEF Running
<1>2. pc' \in [Threads -> Labels]
  BY DEF TypeInv
<1>3. \A u \in Users : pc'[u] \notin HandlerLabels
  BY DEF TypeInv, Threads
<1> HIDE DEF Running
<1> QED
  BY <1>1, <1>2, <1>3 DEF TypeInv

\* Every step keeps the types.
LEMMA TypeNext == TypeInv /\ [Next]_vars => TypeInv'
<1> SUFFICES ASSUME TypeInv, [Next]_vars PROVE TypeInv'
  OBVIOUS
<1> USE SentinelAssumption DEF Threads, sentinelVars, connVars, queueVars, lookupVars,
                               workerVars, histVars, clientVars
<1>1. ASSUME NEW t \in Threads, SyncDone(t), UNCHANGED clientVars PROVE TypeInv'
  <2>a. pc' = [pc EXCEPT ![t] = pc'[t]]
    BY <1>1 DEF SyncDone, AllDone, Goto, TypeInv
  <2>b. /\ pc'[t] \in Labels
        /\ pc[t] \in {"callback", "rdone"} <=> pc'[t] \in {"callback", "rdone"}
        /\ t \in Users => pc'[t] \notin HandlerLabels
    BY <1>1 DEF SyncDone, AllDone, Goto, TypeInv, Labels, Looking, HandlerLabels
  <2>2. /\ m_callbacks' \in Seq(Cmds \cup Threads)
        /\ mode' \in [Threads -> Modes]
        /\ cur' \in [Workers -> Cmds \cup Threads \cup {None}]
        /\ port' \in [Threads \cup {None} -> {0, 1}]
        /\ answered' \in [Threads -> BOOLEAN]
        /\ connected' \in BOOLEAN /\ reader' \in Workers \cup {None}
        /\ running' = running
    BY <1>1 DEF SyncDone, AllDone, Goto, TypeInv, Modes
  <2> QED
    BY <2>a, <2>b, <2>2, TypeKeep
<1>2. ASSUME NEW t \in Threads, ConnectTcp(t), UNCHANGED clientVars PROVE TypeInv'
  <2>a. pc' = [pc EXCEPT ![t] = pc'[t]]
    BY <1>2 DEF ConnectTcp, TcpConnect, Goto, AfterConnect, TypeInv
  <2>b. /\ pc'[t] \in Labels
        /\ pc[t] \in {"callback", "rdone"} <=> pc'[t] \in {"callback", "rdone"}
        /\ t \in Users => pc'[t] \notin HandlerLabels
    BY <1>2, Follows DEF ConnectTcp, TcpConnect, Goto, AfterConnect, TypeInv,
                         Labels, Looking, HandlerLabels
  <2>2. /\ m_callbacks' \in Seq(Cmds \cup Threads)
        /\ mode' \in [Threads -> Modes]
        /\ cur' \in [Workers -> Cmds \cup Threads \cup {None}]
        /\ port' \in [Threads \cup {None} -> {0, 1}]
        /\ answered' \in [Threads -> BOOLEAN]
        /\ connected' \in BOOLEAN /\ reader' \in Workers \cup {None}
        /\ running' = running
    BY <1>2 DEF ConnectTcp, TcpConnect, Goto, AfterConnect, TypeInv, Modes
  <2> QED
    BY <2>a, <2>b, <2>2, TypeKeep
<1>3. ASSUME NEW t \in Threads, ConnectRead(t), UNCHANGED clientVars PROVE TypeInv'
  <2>a. pc' = [pc EXCEPT ![t] = pc'[t]]
    BY <1>3 DEF ConnectRead, AsyncRead, Goto, AfterConnect, TypeInv
  <2>b. /\ pc'[t] \in Labels
        /\ pc[t] \in {"callback", "rdone"} <=> pc'[t] \in {"callback", "rdone"}
        /\ t \in Users => pc'[t] \notin HandlerLabels
    BY <1>3, Follows DEF ConnectRead, AsyncRead, Goto, AfterConnect, TypeInv,
                         Labels, Looking, HandlerLabels
  <2>2. /\ m_callbacks' \in Seq(Cmds \cup Threads)
        /\ mode' \in [Threads -> Modes]
        /\ cur' \in [Workers -> Cmds \cup Threads \cup {None}]
        /\ port' \in [Threads \cup {None} -> {0, 1}]
        /\ answered' \in [Threads -> BOOLEAN]
        /\ connected' \in BOOLEAN /\ reader' \in Workers \cup {None}
        /\ running' = running
    BY <1>3 DEF ConnectRead, AsyncRead, Goto, AfterConnect, TypeInv, Modes
  <2> QED
    BY <2>a, <2>b, <2>2, TypeKeep
<1>4. ASSUME NEW t \in Threads, ConnectHandlers(t), UNCHANGED clientVars PROVE TypeInv'
  <2>a. pc' = [pc EXCEPT ![t] = pc'[t]]
    BY <1>4 DEF ConnectHandlers, SetHandlers, Goto, AfterConnect, TypeInv
  <2>b. /\ pc'[t] \in Labels
        /\ pc[t] \in {"callback", "rdone"} <=> pc'[t] \in {"callback", "rdone"}
        /\ t \in Users => pc'[t] \notin HandlerLabels
    BY <1>4 DEF ConnectHandlers, SetHandlers, Goto, AfterConnect, TypeInv,
                Labels, Looking, HandlerLabels
  <2>2. /\ m_callbacks' \in Seq(Cmds \cup Threads)
        /\ mode' \in [Threads -> Modes]
        /\ cur' \in [Workers -> Cmds \cup Threads \cup {None}]
        /\ port' \in [Threads \cup {None} -> {0, 1}]
        /\ answered' \in [Threads -> BOOLEAN]
        /\ connected' \in BOOLEAN /\ reader' \in Workers \cup {None}
        /\ running' = running
    BY <1>4 DEF ConnectHandlers, SetHandlers, Goto, AfterConnect, TypeInv, Modes
  <2> QED
    BY <2>a, <2>b, <2>2, TypeKeep
<1>5. ASSUME NEW t \in Threads, SentinelCheck(t), UNCHANGED clientVars PROVE TypeInv'
  <2>a. pc' = [pc EXCEPT ![t] = pc'[t]]
    BY <1>5 DEF SentinelCheck, ClearBuffers, Goto, TypeInv
  <2>b. /\ pc'[t] \in Labels
        /\ pc[t] \in {"callback", "rdone"} <=> pc'[t] \in {"callback", "rdone"}
        /\ t \in Users => pc'[t] \notin HandlerLabels
    BY <1>5 DEF SentinelCheck, ClearBuffers, Goto, TypeInv, Labels, Looking,
                HandlerLabels
  <2>2. /\ m_callbacks' \in Seq(Cmds \cup Threads)
        /\ mode' \in [Threads -> Modes]
        /\ cur' \in [Workers -> Cmds \cup Threads \cup {None}]
        /\ port' \in [Threads \cup {None} -> {0, 1}]
        /\ answered' \in [Threads -> BOOLEAN]
        /\ connected' \in BOOLEAN /\ reader' \in Workers \cup {None}
        /\ running' = running
    BY <1>5 DEF SentinelCheck, ClearBuffers, Goto, TypeInv, Modes
  <2> QED
    BY <2>a, <2>b, <2>2, TypeKeep
<1>6. ASSUME NEW t \in Threads, LookupCheck(t), UNCHANGED clientVars PROVE TypeInv'
  <2>a. pc' = [pc EXCEPT ![t] = pc'[t]]
    BY <1>6 DEF LookupCheck, Goto, TypeInv
  <2>b. /\ pc'[t] \in Labels
        /\ pc[t] \in {"callback", "rdone"} <=> pc'[t] \in {"callback", "rdone"}
        /\ t \in Users => pc'[t] \notin HandlerLabels
    BY <1>6 DEF LookupCheck, Goto, TypeInv, Labels, Looking, HandlerLabels
  <2>2. /\ m_callbacks' \in Seq(Cmds \cup Threads)
        /\ mode' \in [Threads -> Modes]
        /\ cur' \in [Workers -> Cmds \cup Threads \cup {None}]
        /\ port' \in [Threads \cup {None} -> {0, 1}]
        /\ answered' \in [Threads -> BOOLEAN]
        /\ connected' \in BOOLEAN /\ reader' \in Workers \cup {None}
        /\ running' = running
    BY <1>6 DEF LookupCheck, Goto, TypeInv, Modes
  <2> QED
    BY <2>a, <2>b, <2>2, TypeKeep
<1>7. ASSUME NEW t \in Threads, LookupAsk(t), UNCHANGED clientVars PROVE TypeInv'
  <2>1. PICK l \in Labels : /\ pc' = [pc EXCEPT ![t] = l]
                            /\ pc[t] \in {"callback", "rdone"} <=> l \in {"callback", "rdone"}
                            /\ t \in Users => l \notin HandlerLabels
    BY <1>7 DEF LookupAsk, send, BufferCommand, Goto, TypeInv, Labels, Looking,
                HandlerLabels
  <2>2. /\ m_callbacks' \in Seq(Cmds \cup Threads)
        /\ mode' \in [Threads -> Modes]
        /\ cur' \in [Workers -> Cmds \cup Threads \cup {None}]
        /\ port' \in [Threads \cup {None} -> {0, 1}]
        /\ answered' \in [Threads -> BOOLEAN]
        /\ connected' \in BOOLEAN /\ reader' \in Workers \cup {None}
        /\ running' = running
    BY <1>7, Appended DEF LookupAsk, send, BufferCommand, Goto, TypeInv, Modes
  <2> QED
    BY <2>1, <2>2, TypeKeep
<1>8. ASSUME NEW t \in Threads, LookupCommit(t), UNCHANGED clientVars PROVE TypeInv'
  <2>a. pc' = [pc EXCEPT ![t] = pc'[t]]
    BY <1>8 DEF LookupCommit, TryCommit, WriteBuffer, WriteFails,
                clear_callbacks, Goto, TypeInv
  <2>b. /\ pc'[t] \in Labels
        /\ pc[t] \in {"callback", "rdone"} <=> pc'[t] \in {"callback", "rdone"}
        /\ t \in Users => pc'[t] \notin HandlerLabels
    BY <1>8 DEF LookupCommit, TryCommit, WriteBuffer, WriteFails,
                clear_callbacks, Goto, TypeInv, Labels, Looking, HandlerLabels
  <2>1. m_callbacks' = m_callbacks \/ m_callbacks' = <<>>
    BY <1>8 DEF LookupCommit, TryCommit, WriteBuffer, WriteFails,
                clear_callbacks, Goto
  <2>2. m_callbacks' \in Seq(Cmds \cup Threads)
    <3>1. <<>> \in Seq(Cmds \cup Threads)
      OBVIOUS
    <3>2. m_callbacks \in Seq(Cmds \cup Threads)
      BY DEF TypeInv
    <3> QED
      BY <2>1, <3>1, <3>2
  <2>3. UNCHANGED <<mode, cur, port, answered, connected, reader, running>>
    BY <1>8 DEF LookupCommit, TryCommit, WriteBuffer, WriteFails,
                clear_callbacks, Goto
  <2> QED
    BY <2>a, <2>b, <2>2, <2>3, TypeKeep DEF TypeInv
<1>9. ASSUME NEW t \in Threads, LookupDisconnect(t), UNCHANGED clientVars PROVE TypeInv'
  <2>a. pc' = [pc EXCEPT ![t] = pc'[t]]
    BY <1>9 DEF LookupDisconnect, TcpDisconnect, Goto, TypeInv
  <2>b. /\ pc'[t] \in Labels
        /\ pc[t] \in {"callback", "rdone"} <=> pc'[t] \in {"callback", "rdone"}
        /\ t \in Users => pc'[t] \notin HandlerLabels
    BY <1>9 DEF LookupDisconnect, TcpDisconnect, Goto, TypeInv, Labels, Looking,
                HandlerLabels
  <2>2. /\ m_callbacks' \in Seq(Cmds \cup Threads)
        /\ mode' \in [Threads -> Modes]
        /\ cur' \in [Workers -> Cmds \cup Threads \cup {None}]
        /\ port' \in [Threads \cup {None} -> {0, 1}]
        /\ answered' \in [Threads -> BOOLEAN]
        /\ connected' \in BOOLEAN /\ reader' \in Workers \cup {None}
        /\ running' = running
    BY <1>9 DEF LookupDisconnect, TcpDisconnect, Goto, TypeInv, Modes
  <2> QED
    BY <2>a, <2>b, <2>2, TypeKeep
<1>10. ASSUME NEW t \in Threads, DisconnectRemoved(t), UNCHANGED clientVars
       PROVE  TypeInv'
  <2>1. PICK l \in Labels : /\ pc' = [pc EXCEPT ![t] = l]
                            /\ pc[t] \in {"callback", "rdone"} <=> l \in {"callback", "rdone"}
                            /\ t \in Users => l \notin HandlerLabels
    BY <1>10 DEF DisconnectRemoved, Removed, Goto, TypeInv, Labels, Looking,
                 HandlerLabels
  <2>2. /\ m_callbacks' \in Seq(Cmds \cup Threads)
        /\ mode' \in [Threads -> Modes]
        /\ cur' \in [Workers -> Cmds \cup Threads \cup {None}]
        /\ port' \in [Threads \cup {None} -> {0, 1}]
        /\ answered' \in [Threads -> BOOLEAN]
        /\ connected' \in BOOLEAN /\ reader' \in Workers \cup {None}
        /\ running' = running
    BY <1>10 DEF DisconnectRemoved, Removed, Goto, TypeInv, Modes
  <2> QED
    BY <2>1, <2>2, TypeKeep
<1>11. ASSUME NEW t \in Threads, DisconnectBuffers(t), UNCHANGED clientVars
       PROVE  TypeInv'
  <2>1. PICK l \in Labels : /\ pc' = [pc EXCEPT ![t] = l]
                            /\ pc[t] \in {"callback", "rdone"} <=> l \in {"callback", "rdone"}
                            /\ t \in Users => l \notin HandlerLabels
    BY <1>11 DEF DisconnectBuffers, ClearBuffers, Goto, TypeInv, Labels,
                 Looking, HandlerLabels
  <2>2. /\ m_callbacks' \in Seq(Cmds \cup Threads)
        /\ mode' \in [Threads -> Modes]
        /\ cur' \in [Workers -> Cmds \cup Threads \cup {None}]
        /\ port' \in [Threads \cup {None} -> {0, 1}]
        /\ answered' \in [Threads -> BOOLEAN]
        /\ connected' \in BOOLEAN /\ reader' \in Workers \cup {None}
        /\ running' = running
    BY <1>11 DEF DisconnectBuffers, ClearBuffers, Goto, TypeInv, Modes
  <2> QED
    BY <2>1, <2>2, TypeKeep
<1>12. ASSUME NEW t \in Threads, LookupReturn(t), UNCHANGED clientVars PROVE TypeInv'
  <2>1. PICK l \in Labels : /\ pc' = [pc EXCEPT ![t] = l]
                            /\ pc[t] \in {"callback", "rdone"} <=> l \in {"callback", "rdone"}
                            /\ t \in Users => l \notin HandlerLabels
    BY <1>12 DEF LookupReturn, Goto, TypeInv, Labels, Looking, HandlerLabels
  <2>2. /\ m_callbacks' \in Seq(Cmds \cup Threads)
        /\ mode' \in [Threads -> Modes]
        /\ cur' \in [Workers -> Cmds \cup Threads \cup {None}]
        /\ port' \in [Threads \cup {None} -> {0, 1}]
        /\ answered' \in [Threads -> BOOLEAN]
        /\ connected' \in BOOLEAN /\ reader' \in Workers \cup {None}
        /\ running' = running
    BY <1>12 DEF LookupReturn, Goto, TypeInv, Modes
  <2> QED
    BY <2>1, <2>2, TypeKeep
<1>13. ASSUME NEW t \in Threads, LookupEnd(t) PROVE TypeInv'
  <2>a. pc' = [pc EXCEPT ![t] = pc'[t]]
    BY <1>13 DEF LookupEnd, Failed, Goto, TypeInv
  <2>b. /\ pc'[t] \in Labels
        /\ pc[t] \in {"callback", "rdone"} <=> pc'[t] \in {"callback", "rdone"}
        /\ t \in Users => pc'[t] \notin HandlerLabels
    BY <1>13 DEF LookupEnd, Failed, Goto, TypeInv, Labels, Looking, HandlerLabels
  <2>2. /\ m_callbacks' \in Seq(Cmds \cup Threads)
        /\ mode' \in [Threads -> Modes]
        /\ cur' \in [Workers -> Cmds \cup Threads \cup {None}]
        /\ port' \in [Threads \cup {None} -> {0, 1}]
        /\ answered' \in [Threads -> BOOLEAN]
        /\ connected' \in BOOLEAN /\ reader' \in Workers \cup {None}
        /\ running' = running
    BY <1>13 DEF LookupEnd, Failed, Goto, TypeInv, Modes
  <2> QED
    BY <2>a, <2>b, <2>2, TypeKeep
<1>14. ASSUME NEW t \in Threads, LookupThrow(t) PROVE TypeInv'
  <2>1. PICK l \in Labels : /\ pc' = [pc EXCEPT ![t] = l]
                            /\ pc[t] \in {"callback", "rdone"} <=> l \in {"callback", "rdone"}
                            /\ t \in Users => l \notin HandlerLabels
    BY <1>14 DEF LookupThrow, Goto, TypeInv, Labels, Looking, HandlerLabels
  <2>2. /\ m_callbacks' \in Seq(Cmds \cup Threads)
        /\ mode' \in [Threads -> Modes]
        /\ cur' \in [Workers -> Cmds \cup Threads \cup {None}]
        /\ port' \in [Threads \cup {None} -> {0, 1}]
        /\ answered' \in [Threads -> BOOLEAN]
        /\ connected' \in BOOLEAN /\ reader' \in Workers \cup {None}
        /\ running' = running
    BY <1>14 DEF LookupThrow, Goto, TypeInv, Modes
  <2> QED
    BY <2>1, <2>2, TypeKeep
<1>15. ASSUME NEW t \in Threads, ConnectMaster(t) PROVE TypeInv'
  <2>a. pc' = [pc EXCEPT ![t] = pc'[t]]
    BY <1>15 DEF ConnectMaster, Failed, Goto, TypeInv
  <2>b. /\ pc'[t] \in Labels
        /\ pc[t] \in {"callback", "rdone"} <=> pc'[t] \in {"callback", "rdone"}
        /\ t \in Users => pc'[t] \notin HandlerLabels
    BY <1>15 DEF ConnectMaster, Failed, Goto, TypeInv, Labels, Looking,
                 HandlerLabels
  <2>2. /\ m_callbacks' \in Seq(Cmds \cup Threads)
        /\ mode' \in [Threads -> Modes]
        /\ cur' \in [Workers -> Cmds \cup Threads \cup {None}]
        /\ port' \in [Threads \cup {None} -> {0, 1}]
        /\ answered' \in [Threads -> BOOLEAN]
        /\ connected' \in BOOLEAN /\ reader' \in Workers \cup {None}
        /\ running' = running
    BY <1>15 DEF ConnectMaster, Failed, Goto, TypeInv, Modes
  <2> QED
    BY <2>a, <2>b, <2>2, TypeKeep
<1>16. ASSUME NEW x \in Users, NEW c \in Cmds, Send(x, c), UNCHANGED clientVars
       PROVE  TypeInv'
  <2>1. UNCHANGED <<pc, mode, cur, port, answered, connected, reader, running>>
    BY <1>16 DEF Send, send, BufferCommand, Alone
  <2>2. m_callbacks' \in Seq(Cmds \cup Threads)
    BY <1>16, Appended DEF Send, send, BufferCommand, Alone, TypeInv
  <2>3. Running' = Running
    BY <2>1 DEF Running
  <2> HIDE DEF Running
  <2> QED
    BY <2>1, <2>2, <2>3 DEF TypeInv
<1>17. ASSUME NEW x \in Users, Commit(x), UNCHANGED clientVars PROVE TypeInv'
  <2>a. pc' = [pc EXCEPT ![x] = pc'[x]]
    BY <1>17 DEF Commit, TryCommit, WriteBuffer, WriteFails, clear_callbacks,
                 Goto, TypeInv
  <2>b. /\ pc'[x] \in Labels
        /\ pc[x] \in {"callback", "rdone"} <=> pc'[x] \in {"callback", "rdone"}
        /\ x \in Users => pc'[x] \notin HandlerLabels
    BY <1>17 DEF Commit, TryCommit, WriteBuffer, WriteFails, clear_callbacks,
                 Goto, TypeInv, Labels, Looking, HandlerLabels
  <2>1. m_callbacks' = m_callbacks \/ m_callbacks' = <<>>
    BY <1>17 DEF Commit, TryCommit, WriteBuffer, WriteFails, clear_callbacks, Goto
  <2>2. m_callbacks' \in Seq(Cmds \cup Threads)
    <3>1. <<>> \in Seq(Cmds \cup Threads)
      OBVIOUS
    <3>2. m_callbacks \in Seq(Cmds \cup Threads)
      BY DEF TypeInv
    <3> QED
      BY <2>1, <3>1, <3>2
  <2>3. UNCHANGED <<mode, cur, port, answered, connected, reader, running>>
    BY <1>17 DEF Commit, TryCommit, WriteBuffer, WriteFails, clear_callbacks, Goto
  <2> QED
    BY <2>a, <2>b, <2>2, <2>3, TypeKeep DEF TypeInv
<1>18. ASSUME NEW x \in Users, SyncCommit(x), UNCHANGED clientVars PROVE TypeInv'
  <2>a. pc' = [pc EXCEPT ![x] = pc'[x]]
    BY <1>18 DEF SyncCommit, TryCommit, WriteBuffer, WriteFails,
                 clear_callbacks, Goto, TypeInv
  <2>b. /\ pc'[x] \in Labels
        /\ pc[x] \in {"callback", "rdone"} <=> pc'[x] \in {"callback", "rdone"}
        /\ x \in Users => pc'[x] \notin HandlerLabels
    BY <1>18 DEF SyncCommit, TryCommit, WriteBuffer, WriteFails,
                 clear_callbacks, Goto, TypeInv, Labels, Looking, HandlerLabels
  <2>1. m_callbacks' = m_callbacks \/ m_callbacks' = <<>>
    BY <1>18 DEF SyncCommit, TryCommit, WriteBuffer, WriteFails,
                 clear_callbacks, Goto
  <2>2. m_callbacks' \in Seq(Cmds \cup Threads)
    <3>1. <<>> \in Seq(Cmds \cup Threads)
      OBVIOUS
    <3>2. m_callbacks \in Seq(Cmds \cup Threads)
      BY DEF TypeInv
    <3> QED
      BY <2>1, <3>1, <3>2
  <2>3. UNCHANGED <<mode, cur, port, answered, connected, reader, running>>
    BY <1>18 DEF SyncCommit, TryCommit, WriteBuffer, WriteFails,
                 clear_callbacks, Goto
  <2> QED
    BY <2>a, <2>b, <2>2, <2>3, TypeKeep DEF TypeInv
<1>19. ASSUME NEW x \in Users, SyncTimeout(x), UNCHANGED clientVars PROVE TypeInv'
  <2>1. PICK l \in Labels : /\ pc' = [pc EXCEPT ![x] = l]
                            /\ pc[x] \in {"callback", "rdone"} <=> l \in {"callback", "rdone"}
                            /\ x \in Users => l \notin HandlerLabels
    BY <1>19 DEF SyncTimeout, Goto, TypeInv, Labels, Looking, HandlerLabels
  <2>2. /\ m_callbacks' \in Seq(Cmds \cup Threads)
        /\ mode' \in [Threads -> Modes]
        /\ cur' \in [Workers -> Cmds \cup Threads \cup {None}]
        /\ port' \in [Threads \cup {None} -> {0, 1}]
        /\ answered' \in [Threads -> BOOLEAN]
        /\ connected' \in BOOLEAN /\ reader' \in Workers \cup {None}
        /\ running' = running
    BY <1>19 DEF SyncTimeout, Goto, TypeInv, Modes
  <2> QED
    BY <2>1, <2>2, TypeKeep
<1>20. ASSUME NEW x \in Users, Connect(x), UNCHANGED clientVars PROVE TypeInv'
  <2>1. PICK l \in Labels : /\ pc' = [pc EXCEPT ![x] = l]
                            /\ pc[x] \in {"callback", "rdone"} <=> l \in {"callback", "rdone"}
                            /\ x \in Users => l \notin HandlerLabels
    BY <1>20 DEF Connect, Goto, Alone, Settled, TypeInv, Labels, Looking,
                 HandlerLabels
  <2>2. /\ m_callbacks' \in Seq(Cmds \cup Threads)
        /\ mode' \in [Threads -> Modes]
        /\ cur' \in [Workers -> Cmds \cup Threads \cup {None}]
        /\ port' \in [Threads \cup {None} -> {0, 1}]
        /\ answered' \in [Threads -> BOOLEAN]
        /\ connected' \in BOOLEAN /\ reader' \in Workers \cup {None}
        /\ running' = running
    BY <1>20 DEF Connect, Goto, Alone, Settled, TypeInv, Modes
  <2> QED
    BY <2>1, <2>2, TypeKeep
<1>21. ASSUME NEW x \in Users, NEW wait \in BOOLEAN, Disconnect(x, wait), UNCHANGED clientVars PROVE TypeInv'
  <2>a. pc' = [pc EXCEPT ![x] = pc'[x]]
    BY <1>21 DEF Disconnect, TcpDisconnect, Goto, Alone, Settled, TypeInv
  <2>b. /\ pc'[x] \in Labels
        /\ pc[x] \in {"callback", "rdone"} <=> pc'[x] \in {"callback", "rdone"}
        /\ x \in Users => pc'[x] \notin HandlerLabels
    BY <1>21 DEF Disconnect, TcpDisconnect, Goto, Alone, Settled, TypeInv,
                 Labels, Looking, HandlerLabels
  <2>2. /\ m_callbacks' \in Seq(Cmds \cup Threads)
        /\ mode' \in [Threads -> Modes]
        /\ cur' \in [Workers -> Cmds \cup Threads \cup {None}]
        /\ port' \in [Threads \cup {None} -> {0, 1}]
        /\ answered' \in [Threads -> BOOLEAN]
        /\ connected' \in BOOLEAN /\ reader' \in Workers \cup {None}
        /\ running' = running
    BY <1>21 DEF Disconnect, TcpDisconnect, Goto, Alone, Settled, TypeInv, Modes
  <2> QED
    BY <2>a, <2>b, <2>2, TypeKeep
<1>22. ASSUME NEW x \in Users, get_master_addr_by_name(x), UNCHANGED clientVars
       PROVE  TypeInv'
  <2>a. pc' = [pc EXCEPT ![x] = pc'[x]]
    BY <1>22 DEF get_master_addr_by_name, Lookup, FirstStep, Goto, Alone,
                 Settled, TypeInv
  <2>b. /\ pc'[x] \in Labels
        /\ pc[x] \in {"callback", "rdone"} <=> pc'[x] \in {"callback", "rdone"}
        /\ x \in Users => pc'[x] \notin HandlerLabels
    BY <1>22 DEF get_master_addr_by_name, Lookup, FirstStep, Goto, Alone,
                 Settled, TypeInv, Labels, Looking, HandlerLabels
  <2>2. /\ m_callbacks' \in Seq(Cmds \cup Threads)
        /\ mode' \in [Threads -> Modes]
        /\ cur' \in [Workers -> Cmds \cup Threads \cup {None}]
        /\ port' \in [Threads \cup {None} -> {0, 1}]
        /\ answered' \in [Threads -> BOOLEAN]
        /\ connected' \in BOOLEAN /\ reader' \in Workers \cup {None}
        /\ running' = running
    BY <1>22 DEF get_master_addr_by_name, Lookup, FirstStep, Goto, Alone,
                 Settled, TypeInv, Modes
  <2> QED
    BY <2>a, <2>b, <2>2, TypeKeep
<1>23. ASSUME NEW x \in Users, ConnectName(x) PROVE TypeInv'
  <2>a. pc' = [pc EXCEPT ![x] = pc'[x]]
    BY <1>23 DEF ConnectName, Lookup, FirstStep, Goto, Alone, Settled, TypeInv
  <2>b. /\ pc'[x] \in Labels
        /\ pc[x] \in {"callback", "rdone"} <=> pc'[x] \in {"callback", "rdone"}
        /\ x \in Users => pc'[x] \notin HandlerLabels
    BY <1>23 DEF ConnectName, Lookup, FirstStep, Goto, Alone, Settled, TypeInv,
                 Labels, Looking, HandlerLabels
  <2>2. /\ m_callbacks' \in Seq(Cmds \cup Threads)
        /\ mode' \in [Threads -> Modes]
        /\ cur' \in [Workers -> Cmds \cup Threads \cup {None}]
        /\ port' \in [Threads \cup {None} -> {0, 1}]
        /\ answered' \in [Threads -> BOOLEAN]
        /\ connected' \in BOOLEAN /\ reader' \in Workers \cup {None}
        /\ running' = running
    BY <1>23 DEF ConnectName, Lookup, FirstStep, Goto, Alone, Settled, TypeInv,
                 Modes
  <2> QED
    BY <2>a, <2>b, <2>2, TypeKeep
<1>24. ASSUME NEW x \in Users, CancelReconnect(x) PROVE TypeInv'
  <2>1. UNCHANGED <<pc, mode, cur, port, answered, connected, reader, running>>
    BY <1>24 DEF CancelReconnect
  <2>2. m_callbacks' \in Seq(Cmds \cup Threads)
    BY <1>24, Appended DEF CancelReconnect, TypeInv
  <2>3. Running' = Running
    BY <2>1 DEF Running
  <2> HIDE DEF Running
  <2> QED
    BY <2>1, <2>2, <2>3 DEF TypeInv
<1>25. ASSUME NEW w \in Workers, ReadEvent(w), UNCHANGED clientVars PROVE TypeInv'
  <2>1. PICK l \in Labels : /\ pc' = [pc EXCEPT ![w] = l]
                            /\ pc[w] \in {"callback", "rdone"} <=> l \in {"callback", "rdone"}
                            /\ w \in Users => l \notin HandlerLabels
    BY <1>25 DEF ReadEvent, ReadReplies, Polled, Goto, TypeInv, Labels, Looking,
                 HandlerLabels
  <2>2. /\ m_callbacks' \in Seq(Cmds \cup Threads)
        /\ mode' \in [Threads -> Modes]
        /\ cur' \in [Workers -> Cmds \cup Threads \cup {None}]
        /\ port' \in [Threads \cup {None} -> {0, 1}]
        /\ answered' \in [Threads -> BOOLEAN]
        /\ connected' \in BOOLEAN /\ reader' \in Workers \cup {None}
        /\ running' = running
    BY <1>25 DEF ReadEvent, ReadReplies, Polled, Goto, TypeInv, Modes
  <2> QED
    BY <2>1, <2>2, TypeKeep
<1>26. ASSUME NEW w \in Workers, TakeReply(w), UNCHANGED clientVars PROVE TypeInv'
  <2>a. pc' = [pc EXCEPT ![w] = pc'[w]]
    BY <1>26 DEF TakeReply, PopReply, Goto, TypeInv
  <2>b. /\ pc'[w] \in Labels
        /\ pc[w] \in {"callback", "rdone"} <=> pc'[w] \in {"callback", "rdone"}
        /\ w \in Users => pc'[w] \notin HandlerLabels
    BY <1>26 DEF TakeReply, PopReply, Goto, TypeInv, Labels, Looking, HandlerLabels
  <2>2. /\ m_callbacks' \in Seq(Cmds \cup Threads)
        /\ mode' \in [Threads -> Modes]
        /\ cur' \in [Workers -> Cmds \cup Threads \cup {None}]
        /\ port' \in [Threads \cup {None} -> {0, 1}]
        /\ answered' \in [Threads -> BOOLEAN]
        /\ connected' \in BOOLEAN /\ reader' \in Workers \cup {None}
        /\ running' = running
    BY <1>26 DEF TakeReply, PopReply, Goto, TypeInv, Modes
  <2> QED
    BY <2>a, <2>b, <2>2, TypeKeep
<1>27. ASSUME NEW w \in Workers, ReceiveLock(w), UNCHANGED clientVars PROVE TypeInv'
  <2>1. Running' = Running \cup {w} /\ w \notin Running
    BY <1>27 DEF ReceiveLock, Goto, Running, TypeInv, Threads
  <2>2. IsFiniteSet(Running') /\ Cardinality(Running') = running + 1
    BY <2>1, FS_AddElement DEF TypeInv
  <2>3. m_callbacks' \in Seq(Cmds \cup Threads)
      /\ cur' \in [Workers -> Cmds \cup Threads \cup {None}]
    <3>1. CASE m_callbacks = <<>>
      BY <1>27, <3>1 DEF ReceiveLock, Goto, TypeInv
    <3>2. CASE m_callbacks # <<>>
      <4>1. Head(m_callbacks) \in Cmds \cup Threads /\ Tail(m_callbacks) \in Seq(Cmds \cup Threads)
        BY <3>2, Popped DEF TypeInv
      <4>2. m_callbacks' = Tail(m_callbacks) /\ cur' = [cur EXCEPT ![w] = Head(m_callbacks)]
        BY <1>27, <3>2 DEF ReceiveLock, Goto
      <4> QED
        BY <4>1, <4>2 DEF TypeInv
    <3> QED
      BY <3>1, <3>2
  <2>4. UNCHANGED <<mode, port, answered, connected, reader>> /\ running' = running + 1
    BY <1>27 DEF ReceiveLock, Goto
  <2>5. pc' \in [Threads -> Labels] /\ \A u \in Users : pc'[u] \notin HandlerLabels
    BY <1>27 DEF ReceiveLock, Goto, TypeInv, Threads, Labels
  <2> HIDE DEF Running
  <2> QED
    BY <2>2, <2>3, <2>4, <2>5 DEF TypeInv
<1>28. ASSUME NEW w \in Workers, ReceiveCall(w), UNCHANGED clientVars PROVE TypeInv'
  <2>a. pc' = [pc EXCEPT ![w] = pc'[w]]
    BY <1>28 DEF ReceiveCall, LookupCallback, Out, Goto, TypeInv
  <2>b. /\ pc'[w] \in Labels
        /\ pc[w] \in {"callback", "rdone"} <=> pc'[w] \in {"callback", "rdone"}
        /\ w \in Users => pc'[w] \notin HandlerLabels
    BY <1>28 DEF ReceiveCall, LookupCallback, Out, Goto, TypeInv, Labels,
                 Looking, HandlerLabels
  <2>2. /\ m_callbacks' \in Seq(Cmds \cup Threads)
        /\ mode' \in [Threads -> Modes]
        /\ cur' \in [Workers -> Cmds \cup Threads \cup {None}]
        /\ port' \in [Threads \cup {None} -> {0, 1}]
        /\ answered' \in [Threads -> BOOLEAN]
        /\ connected' \in BOOLEAN /\ reader' \in Workers \cup {None}
        /\ running' = running
    BY <1>28 DEF ReceiveCall, LookupCallback, Out, Goto, TypeInv, Modes
  <2> QED
    BY <2>a, <2>b, <2>2, TypeKeep
<1>29. ASSUME NEW w \in Workers, ReceiveDone(w), UNCHANGED clientVars PROVE TypeInv'
  <2>1. Running' = Running \ {w} /\ w \in Running
    BY <1>29 DEF ReceiveDone, Goto, Running, TypeInv, Threads
  <2>2. IsFiniteSet(Running') /\ Cardinality(Running') = running - 1
    BY <2>1, FS_RemoveElement DEF TypeInv
  <2>3. m_callbacks' \in Seq(Cmds \cup Threads)
      /\ cur' \in [Workers -> Cmds \cup Threads \cup {None}]
    BY <1>29 DEF ReceiveDone, Goto, TypeInv
  <2>4. UNCHANGED <<mode, port, answered, connected, reader>> /\ running' = running - 1
    BY <1>29 DEF ReceiveDone, Goto
  <2>5. pc' \in [Threads -> Labels] /\ \A u \in Users : pc'[u] \notin HandlerLabels
    BY <1>29 DEF ReceiveDone, Goto, TypeInv, Threads, Labels
  <2> HIDE DEF Running
  <2> QED
    BY <2>2, <2>3, <2>4, <2>5 DEF TypeInv
<1>30. ASSUME NEW w \in Workers, EndRead(w), UNCHANGED clientVars PROVE TypeInv'
  <2>1. PICK l \in Labels : /\ pc' = [pc EXCEPT ![w] = l]
                            /\ pc[w] \in {"callback", "rdone"} <=> l \in {"callback", "rdone"}
                            /\ w \in Users => l \notin HandlerLabels
    BY <1>30 DEF EndRead, NextRead, ReleaseFd, Goto, TypeInv, Labels, Looking,
                 HandlerLabels
  <2>2. /\ m_callbacks' \in Seq(Cmds \cup Threads)
        /\ mode' \in [Threads -> Modes]
        /\ cur' \in [Workers -> Cmds \cup Threads \cup {None}]
        /\ port' \in [Threads \cup {None} -> {0, 1}]
        /\ answered' \in [Threads -> BOOLEAN]
        /\ connected' \in BOOLEAN /\ reader' \in Workers \cup {None}
        /\ running' = running
    BY <1>30 DEF EndRead, NextRead, ReleaseFd, Goto, TypeInv, Modes
  <2> QED
    BY <2>1, <2>2, TypeKeep
<1>31. ASSUME NEW w \in Workers, DropBuffers(w), UNCHANGED clientVars PROVE TypeInv'
  <2>1. PICK l \in Labels : /\ pc' = [pc EXCEPT ![w] = l]
                            /\ pc[w] \in {"callback", "rdone"} <=> l \in {"callback", "rdone"}
                            /\ w \in Users => l \notin HandlerLabels
    BY <1>31 DEF DropBuffers, ClearBuffers, Goto, TypeInv, Labels, Looking,
                 HandlerLabels
  <2>2. /\ m_callbacks' \in Seq(Cmds \cup Threads)
        /\ mode' \in [Threads -> Modes]
        /\ cur' \in [Workers -> Cmds \cup Threads \cup {None}]
        /\ port' \in [Threads \cup {None} -> {0, 1}]
        /\ answered' \in [Threads -> BOOLEAN]
        /\ connected' \in BOOLEAN /\ reader' \in Workers \cup {None}
        /\ running' = running
    BY <1>31 DEF DropBuffers, ClearBuffers, Goto, TypeInv, Modes
  <2> QED
    BY <2>1, <2>2, TypeKeep
<1>32. ASSUME NEW w \in Workers, DropClear(w), UNCHANGED clientVars PROVE TypeInv'
  <2>1. PICK l \in Labels : /\ pc' = [pc EXCEPT ![w] = l]
                            /\ pc[w] \in {"callback", "rdone"} <=> l \in {"callback", "rdone"}
                            /\ w \in Users => l \notin HandlerLabels
    BY <1>32 DEF DropClear, clear_callbacks, Goto, TypeInv, Labels, Looking,
                 HandlerLabels
  <2>2. /\ m_callbacks' \in Seq(Cmds \cup Threads)
        /\ mode' \in [Threads -> Modes]
        /\ cur' \in [Workers -> Cmds \cup Threads \cup {None}]
        /\ port' \in [Threads \cup {None} -> {0, 1}]
        /\ answered' \in [Threads -> BOOLEAN]
        /\ connected' \in BOOLEAN /\ reader' \in Workers \cup {None}
        /\ running' = running
    BY <1>32 DEF DropClear, clear_callbacks, Goto, TypeInv, Modes
  <2> QED
    BY <2>1, <2>2, TypeKeep
<1>33. ASSUME NEW w \in Workers, HandlerReturns(w), UNCHANGED clientVars PROVE TypeInv'
  <2>1. PICK l \in Labels : /\ pc' = [pc EXCEPT ![w] = l]
                            /\ pc[w] \in {"callback", "rdone"} <=> l \in {"callback", "rdone"}
                            /\ w \in Users => l \notin HandlerLabels
    BY <1>33 DEF HandlerReturns, HandlerReturn, ReleaseFd, Goto, TypeInv,
                 Labels, Looking, HandlerLabels
  <2>2. /\ m_callbacks' \in Seq(Cmds \cup Threads)
        /\ mode' \in [Threads -> Modes]
        /\ cur' \in [Workers -> Cmds \cup Threads \cup {None}]
        /\ port' \in [Threads \cup {None} -> {0, 1}]
        /\ answered' \in [Threads -> BOOLEAN]
        /\ connected' \in BOOLEAN /\ reader' \in Workers \cup {None}
        /\ running' = running
    BY <1>33 DEF HandlerReturns, HandlerReturn, ReleaseFd, Goto, TypeInv, Modes
  <2> QED
    BY <2>1, <2>2, TypeKeep
<1>34. ASSUME NEW w \in Workers, DropEvent(w), UNCHANGED clientVars PROVE TypeInv'
  <2>1. PICK l \in Labels : /\ pc' = [pc EXCEPT ![w] = l]
                            /\ pc[w] \in {"callback", "rdone"} <=> l \in {"callback", "rdone"}
                            /\ w \in Users => l \notin HandlerLabels
    BY <1>34 DEF DropEvent, PeerDrop, Polled, Goto, TypeInv, Labels, Looking,
                 HandlerLabels
  <2>2. /\ m_callbacks' \in Seq(Cmds \cup Threads)
        /\ mode' \in [Threads -> Modes]
        /\ cur' \in [Workers -> Cmds \cup Threads \cup {None}]
        /\ port' \in [Threads \cup {None} -> {0, 1}]
        /\ answered' \in [Threads -> BOOLEAN]
        /\ connected' \in BOOLEAN /\ reader' \in Workers \cup {None}
        /\ running' = running
    BY <1>34 DEF DropEvent, PeerDrop, Polled, Goto, TypeInv, Modes
  <2> QED
    BY <2>1, <2>2, TypeKeep
<1>35. ASSUME NEW w \in Workers, ClientDrop(w) PROVE TypeInv'
  <2>1. PICK l \in Labels : /\ pc' = [pc EXCEPT ![w] = l]
                            /\ pc[w] \in {"callback", "rdone"} <=> l \in {"callback", "rdone"}
                            /\ w \in Users => l \notin HandlerLabels
    BY <1>35 DEF ClientDrop, Goto, TypeInv, Labels, Looking, HandlerLabels
  <2>2. /\ m_callbacks' \in Seq(Cmds \cup Threads)
        /\ mode' \in [Threads -> Modes]
        /\ cur' \in [Workers -> Cmds \cup Threads \cup {None}]
        /\ port' \in [Threads \cup {None} -> {0, 1}]
        /\ answered' \in [Threads -> BOOLEAN]
        /\ connected' \in BOOLEAN /\ reader' \in Workers \cup {None}
        /\ running' = running
    BY <1>35 DEF ClientDrop, Goto, TypeInv, Modes
  <2> QED
    BY <2>1, <2>2, TypeKeep
<1>36. ASSUME NEW w \in Workers, Reconnect(w) PROVE TypeInv'
  <2>a. pc' = [pc EXCEPT ![w] = pc'[w]]
    BY <1>36 DEF Reconnect, Lookup, FirstStep, should_reconnect, Goto, TypeInv
  <2>b. /\ pc'[w] \in Labels
        /\ pc[w] \in {"callback", "rdone"} <=> pc'[w] \in {"callback", "rdone"}
        /\ w \in Users => pc'[w] \notin HandlerLabels
    BY <1>36 DEF Reconnect, Lookup, FirstStep, should_reconnect, Goto, TypeInv,
                 Labels, Looking, HandlerLabels
  <2>2. /\ m_callbacks' \in Seq(Cmds \cup Threads)
        /\ mode' \in [Threads -> Modes]
        /\ cur' \in [Workers -> Cmds \cup Threads \cup {None}]
        /\ port' \in [Threads \cup {None} -> {0, 1}]
        /\ answered' \in [Threads -> BOOLEAN]
        /\ connected' \in BOOLEAN /\ reader' \in Workers \cup {None}
        /\ running' = running
    BY <1>36 DEF Reconnect, Lookup, FirstStep, should_reconnect, Goto, TypeInv,
                 Modes
  <2> QED
    BY <2>a, <2>b, <2>2, TypeKeep
<1>37. ASSUME NEW w \in Workers, ReconnectEnd(w) PROVE TypeInv'
  <2>1. PICK l \in Labels : /\ pc' = [pc EXCEPT ![w] = l]
                            /\ pc[w] \in {"callback", "rdone"} <=> l \in {"callback", "rdone"}
                            /\ w \in Users => l \notin HandlerLabels
    BY <1>37 DEF ReconnectEnd, should_reconnect, Goto, TypeInv, Labels, Looking,
                 HandlerLabels
  <2>2. /\ m_callbacks' \in Seq(Cmds \cup Threads)
        /\ mode' \in [Threads -> Modes]
        /\ cur' \in [Workers -> Cmds \cup Threads \cup {None}]
        /\ port' \in [Threads \cup {None} -> {0, 1}]
        /\ answered' \in [Threads -> BOOLEAN]
        /\ connected' \in BOOLEAN /\ reader' \in Workers \cup {None}
        /\ running' = running
    BY <1>37 DEF ReconnectEnd, should_reconnect, Goto, TypeInv, Modes
  <2> QED
    BY <2>1, <2>2, TypeKeep
<1>38. CASE UNCHANGED vars
  <2>1. Running' = Running
    BY <1>38 DEF vars, sentinelVars, Running
  <2> QED
    BY <1>38, <2>1 DEF TypeInv, vars, sentinelVars, connVars, queueVars,
                       lookupVars, workerVars, histVars, clientVars
<1> QED
  BY <1>1, <1>2, <1>3, <1>4, <1>5, <1>6, <1>7, <1>8, <1>9, <1>10, <1>11, <1>12,
     <1>13, <1>14, <1>15, <1>16, <1>17, <1>18, <1>19, <1>20, <1>21, <1>22,
     <1>23, <1>24, <1>25, <1>26, <1>27, <1>28, <1>29, <1>30, <1>31, <1>32,
     <1>33, <1>34, <1>35, <1>36, <1>37, <1>38 DEF Next, CallStep, ClientStep,
                                                  UserCall, ClientCall,
                                                  WorkerStep, HandlerStep

\* Nothing has happened yet.
LEMMA TypeInit == Init => TypeInv
<1> SUFFICES ASSUME Init PROVE TypeInv
  OBVIOUS
<1>1. pc = [t \in Threads |-> "idle"] /\ Running = {}
  BY DEF Init, SentinelInit, Running, Threads
<1>2. IsFiniteSet(Running) /\ running = Cardinality(Running)
  BY <1>1, FS_EmptySet DEF Init, SentinelInit
<1>3. m_callbacks \in Seq(Cmds \cup Threads)
  BY DEF Init, SentinelInit
<1>4. pc \in [Threads -> Labels] /\ \A u \in Users : pc[u] \notin HandlerLabels
  BY <1>1 DEF Labels, HandlerLabels, Threads
<1>5. /\ mode \in [Threads -> Modes]
      /\ cur \in [Workers -> Cmds \cup Threads \cup {None}]
      /\ port \in [Threads \cup {None} -> {0, 1}]
      /\ answered \in [Threads -> BOOLEAN]
      /\ connected \in BOOLEAN /\ reader \in Workers \cup {None}
  BY DEF Init, SentinelInit, ConnInit, Modes
<1> HIDE DEF Running
<1> QED
  BY <1>2, <1>3, <1>4, <1>5 DEF TypeInv

\* Hence they always hold.
LEMMA TypeInvariant == Spec => []TypeInv
BY TypeInit, TypeNext, PTL DEF Spec

\* The queue, the labels and the counter of running callbacks have the types the
\* sources give them, whatever is called and whatever fails; the counter is the
\* number of workers inside connection_receive_handler, hence never wraps.
THEOREM TypeCorrect == Spec => []TypeOK
<1>1. TypeInv => TypeOK
  BY DEF TypeInv, TypeOK, Running, HandlerLabels
<1> QED
  BY <1>1, TypeInvariant, PTL

(***************************************************************************)
(* An application of one thread, u, that uses the sentinel as its          *)
(* interface asks for, and any number of workers and commands, faults      *)
(* included.  Two application threads break CallbackInScope: one of them   *)
(* can connect while the other waits in disconnect().  So does one that    *)
(* does not wait in disconnect(): a worker of the connection before takes  *)
(* a reply of the next one.                                                *)
(***************************************************************************)
Considerate(u) == Users = {u} /\ Orderly /\ Quiet /\ "nowait" \notin Ops

\* Labels of a thread that looks up or handles the loss of the client's
\* connection.
Busy == Looking \cup {"lret", "connect", "hloop"}

\* Labels of a thread in connect() or disconnect() of the application.
Direct == {"tcp", "read", "handlers", "remove", "buffers"}

\* One thread at a time looks up, and nobody opens or closes the connection of
\* the sentinel meanwhile.
Turns(u) ==
  /\ \A s, t \in Threads : pc[s] \in Busy /\ pc[t] \in Busy => s = t
  /\ \A v, w \in Workers : pc[v] \in Busy \cup {"threw"} /\ pc[w] \in Busy \cup {"threw"} => v = w
  /\ \A w \in Workers : pc[w] \in Busy \cup {"threw"} => m_reconnecting
  /\ \A w \in Workers : pc[w] \in Looking \cup {"lret", "connect", "threw"} => mode[w] = "client"
  /\ \A w \in Workers : pc[w] \notin Direct \cup {"swait"}
  /\ pc[u] \in Direct => \A w \in Workers : pc[w] \notin Busy

\* Most steps begin nothing.
LEMMA TurnsKeep ==
  ASSUME NEW u, Considerate(u), TypeInv, Turns(u), NEW t \in Threads,
         pc' = [pc EXCEPT ![t] = pc'[t]],
         UNCHANGED <<mode, m_reconnecting>>,
         pc'[t] \in Busy => pc[t] \in Busy,
         pc'[t] \in {"threw", "connect", "lret"} \cup Looking
           => pc[t] \in {"threw", "connect", "lret"} \cup Looking,
         pc'[t] \in Direct => pc[t] \in Direct,
         t \in Workers => pc'[t] # "swait"
  PROVE  Turns(u)'
<1>1. \A s \in Threads : s # t => pc'[s] = pc[s]
  BY DEF TypeInv
<1>2. u \in Threads /\ u \notin Workers /\ Workers \subseteq Threads
  BY SentinelAssumption DEF Considerate, Threads
<1>3. \A s \in Threads : pc'[s] \in Busy => pc[s] \in Busy
  BY <1>1
<1>4. \A s, r \in Threads : pc'[s] \in Busy /\ pc'[r] \in Busy => s = r
  BY <1>3 DEF Turns
<1>5. ASSUME NEW w \in Workers
      PROVE  /\ pc'[w] \in Busy \cup {"threw"} => m_reconnecting
             /\ pc'[w] \in Looking \cup {"lret", "connect", "threw"} => mode[w] = "client"
             /\ pc'[w] \notin Direct \cup {"swait"}
  <2>1. CASE w # t
    BY <1>1, <1>2, <2>1 DEF Turns
  <2>2. CASE w = t
    BY <1>2, <2>2 DEF Turns, Busy
  <2> QED
    BY <2>1, <2>2
<1>6. pc'[u] \in Direct => \A w \in Workers : pc'[w] \notin Busy
  BY <1>1, <1>2, <1>3 DEF Turns
<1>7. \A w \in Workers : pc'[w] \in Busy \cup {"threw"} => pc[w] \in Busy \cup {"threw"}
  BY <1>1, <1>2 DEF Busy
<1> QED
  BY <1>4, <1>5, <1>6, <1>7 DEF Turns

\* A worker in the receive handler is the one tacopie knows of, and the
\* connection is open, or disconnect(true) waits for the worker.
Receives == {"loop", "rlock", "callback", "rdone"}

Reading(u) ==
  \A w \in Workers : pc[w] \in Receives =>
    /\ reader = w
    /\ connected \/ \E t \in Threads : pc[t] \in {"remove", "lremove"}

\* Most steps leave the connection and the thread that reads it alone.
LEMMA ReadingKeep ==
  ASSUME NEW u, TypeInv, Reading(u), NEW t \in Threads,
         pc' = [pc EXCEPT ![t] = pc'[t]],
         reader' = reader, connected' = connected,
         pc'[t] \in Receives => pc[t] \in Receives,
         pc[t] \notin {"remove", "lremove"}
  PROVE  Reading(u)'
<1>1. \A s \in Threads : s # t => pc'[s] = pc[s]
  BY DEF TypeInv
<1>2. SUFFICES ASSUME NEW w \in Workers, pc'[w] \in Receives
               PROVE  reader = w /\ (connected \/ \E s \in Threads : pc'[s] \in {"remove", "lremove"})
  BY DEF Reading
<1>3. pc[w] \in Receives
  BY <1>1, <1>2 DEF Threads
<1>4. \A s \in Threads : pc[s] \in {"remove", "lremove"}
           => pc'[s] \in {"remove", "lremove"}
  BY <1>1
<1> QED
  BY <1>3, <1>4 DEF Reading

\* A worker runs a callback only in the receive handler; the callback of a
\* lookup is only queued or run while the lookup waits, or is about to commit
\* a command that somebody else has committed.
Scope ==
  /\ \A w \in Workers : cur[w] # None => pc[w] \in {"callback", "rdone"}
  /\ \A w \in Workers, t \in Threads :
       cur[w] = t => pc[t] = "lwait" \/ (pc[t] = "lcommit" /\ connected)
  /\ \A t \in Threads : t \in Range(m_callbacks) => pc[t] \in {"lcommit", "lwait"}

\* Most steps are of threads whose callback is nowhere.
LEMMA ScopeKeep ==
  ASSUME TypeInv, Scope, NEW t \in Threads,
         pc' = [pc EXCEPT ![t] = pc'[t]],
         UNCHANGED <<cur, m_callbacks>>, connected => connected',
         pc[t] \notin {"lcommit", "lwait"},
         pc[t] \in {"callback", "rdone"} => pc'[t] \in {"callback", "rdone"}
  PROVE  Scope'
<1>1. \A s \in Threads : s # t => pc'[s] = pc[s]
  BY DEF TypeInv
<1>2. Workers \subseteq Threads
  BY DEF Threads
<1>3. ASSUME NEW w \in Workers, cur[w] # None PROVE pc'[w] \in {"callback", "rdone"}
  BY <1>1, <1>2, <1>3 DEF Scope
<1>4. ASSUME NEW w \in Workers, NEW s \in Threads, cur[w] = s
      PROVE  pc'[s] = "lwait" \/ (pc'[s] = "lcommit" /\ connected')
  BY <1>1, <1>4 DEF Scope
<1>5. ASSUME NEW s \in Threads, s \in Range(m_callbacks)
      PROVE  pc'[s] \in {"lcommit", "lwait"}
  BY <1>1, <1>5 DEF Scope
<1> QED
  BY <1>3, <1>4, <1>5 DEF Scope

\* The port a client's lookup is filling in is cleared, or has been given in
\* this lookup.
Found ==
  /\ \A t \in Threads : pc[t] \in Looking \cup {"lret", "connect"} /\ mode[t] = "client"
       => port[None] = 0 \/ answered[t]
  /\ \A t \in Threads : pc[t] = "connect" => mode[t] = "client" /\ port[None] # 0

\* Most steps fill in no address and begin no attempt with one.
LEMMA FoundKeep ==
  ASSUME TypeInv, Found, NEW t \in Threads,
         pc' = [pc EXCEPT ![t] = pc'[t]],
         UNCHANGED <<mode, port, answered>>,
         pc'[t] \in Looking \cup {"lret", "connect"} => pc[t] \in Looking \cup {"lret", "connect"},
         pc'[t] # "connect"
  PROVE  Found'
<1>1. \A s \in Threads : s # t => pc'[s] = pc[s]
  BY DEF TypeInv
<1>2. \A s \in Threads : pc'[s] \in Looking \cup {"lret", "connect"}
           => pc[s] \in Looking \cup {"lret", "connect"}
  BY <1>1
<1>3. \A s \in Threads : pc'[s] = "connect" => pc[s] = "connect"
  BY <1>1
<1> QED
  BY <1>2, <1>3 DEF Found

LookupInv(u) == Turns(u) /\ Reading(u) /\ Scope /\ Found

\* A lookup begins only when there is none, and ends before the next.
LEMMA TurnsNext ==
  ASSUME NEW u, Considerate(u), TypeInv, Turns(u), [Next]_vars
  PROVE  Turns(u)'
<1> USE SentinelAssumption DEF sentinelVars, connVars, queueVars, lookupVars,
                               workerVars, histVars, clientVars
<1>u. u \in Threads /\ u \notin Workers /\ Workers \subseteq Threads
      /\ Threads = {u} \cup Workers
      /\ Users \subseteq Threads
  BY DEF Considerate, Threads
<1>1. ASSUME NEW t \in Threads, SyncDone(t), UNCHANGED clientVars PROVE Turns(u)'
  <2>a. pc' = [pc EXCEPT ![t] = pc'[t]]
    BY <1>u, <1>1 DEF SyncDone, AllDone, Goto, TypeInv
  <2>b. UNCHANGED <<mode, m_reconnecting>>
    BY <1>u, <1>1 DEF SyncDone, AllDone, Goto
  <2>c. /\ pc'[t] \in Busy => pc[t] \in Busy
        /\ pc'[t] \in {"threw", "connect", "lret"} \cup Looking
             => pc[t] \in {"threw", "connect", "lret"} \cup Looking
        /\ pc'[t] \in Direct => pc[t] \in Direct
        /\ t \in Workers => pc'[t] # "swait"
    BY <1>u, <1>1 DEF SyncDone, AllDone, Goto, TypeInv, Labels, Looking, Busy,
                      Direct
  <2> QED
    BY <1>u, <2>a, <2>b, <2>c, TurnsKeep
<1>2. ASSUME NEW t \in Threads, ConnectTcp(t), UNCHANGED clientVars PROVE Turns(u)'
  <2>a. pc' = [pc EXCEPT ![t] = pc'[t]]
    BY <1>u, <1>2 DEF ConnectTcp, TcpConnect, Goto, AfterConnect, TypeInv
  <2>b. UNCHANGED <<mode, m_reconnecting>>
    BY <1>u, <1>2 DEF ConnectTcp, TcpConnect, Goto, AfterConnect
  <2>c. /\ pc'[t] \in Busy => pc[t] \in Busy
        /\ pc'[t] \in {"threw", "connect", "lret"} \cup Looking
             => pc[t] \in {"threw", "connect", "lret"} \cup Looking
        /\ pc'[t] \in Direct => pc[t] \in Direct
        /\ t \in Workers => pc'[t] # "swait"
    BY <1>u, <1>2, Follows DEF ConnectTcp, TcpConnect, Goto, AfterConnect,
                               TypeInv, Labels, Looking, Busy, Direct
  <2> QED
    BY <1>u, <2>a, <2>b, <2>c, TurnsKeep
<1>3. ASSUME NEW t \in Threads, ConnectRead(t), UNCHANGED clientVars PROVE Turns(u)'
  <2>a. pc' = [pc EXCEPT ![t] = pc'[t]]
    BY <1>u, <1>3 DEF ConnectRead, AsyncRead, Goto, AfterConnect, TypeInv
  <2>b. UNCHANGED <<mode, m_reconnecting>>
    BY <1>u, <1>3 DEF ConnectRead, AsyncRead, Goto, AfterConnect
  <2>c. /\ pc'[t] \in Busy => pc[t] \in Busy
        /\ pc'[t] \in {"threw", "connect", "lret"} \cup Looking
             => pc[t] \in {"threw", "connect", "lret"} \cup Looking
        /\ pc'[t] \in Direct => pc[t] \in Direct
        /\ t \in Workers => pc'[t] # "swait"
    BY <1>u, <1>3, Follows DEF ConnectRead, AsyncRead, Goto, AfterConnect,
                               TypeInv, Labels, Looking, Busy, Direct
  <2> QED
    BY <1>u, <2>a, <2>b, <2>c, TurnsKeep
<1>4. ASSUME NEW t \in Threads, ConnectHandlers(t), UNCHANGED clientVars PROVE Turns(u)'
  <2>a. pc' = [pc EXCEPT ![t] = pc'[t]]
    BY <1>u, <1>4 DEF ConnectHandlers, SetHandlers, Goto, AfterConnect, TypeInv
  <2>b. UNCHANGED <<mode, m_reconnecting>>
    BY <1>u, <1>4 DEF ConnectHandlers, SetHandlers, Goto, AfterConnect
  <2>c. /\ pc'[t] \in Busy => pc[t] \in Busy
        /\ pc'[t] \in {"threw", "connect", "lret"} \cup Looking
             => pc[t] \in {"threw", "connect", "lret"} \cup Looking
        /\ pc'[t] \in Direct => pc[t] \in Direct
        /\ t \in Workers => pc'[t] # "swait"
    BY <1>u, <1>4 DEF ConnectHandlers, SetHandlers, Goto, AfterConnect, TypeInv,
                      Labels, Looking, Busy, Direct
  <2> QED
    BY <1>u, <2>a, <2>b, <2>c, TurnsKeep
<1>5. ASSUME NEW t \in Threads, SentinelCheck(t), UNCHANGED clientVars PROVE Turns(u)'
  <2>a. pc' = [pc EXCEPT ![t] = pc'[t]]
    BY <1>u, <1>5 DEF SentinelCheck, ClearBuffers, Goto, TypeInv
  <2>b. UNCHANGED <<mode, m_reconnecting>>
    BY <1>u, <1>5 DEF SentinelCheck, ClearBuffers, Goto
  <2>c. /\ pc'[t] \in Busy => pc[t] \in Busy
        /\ pc'[t] \in {"threw", "connect", "lret"} \cup Looking
             => pc[t] \in {"threw", "connect", "lret"} \cup Looking
        /\ pc'[t] \in Direct => pc[t] \in Direct
        /\ t \in Workers => pc'[t] # "swait"
    BY <1>u, <1>5 DEF SentinelCheck, ClearBuffers, Goto, TypeInv, Labels,
                      Looking, Busy, Direct
  <2> QED
    BY <1>u, <2>a, <2>b, <2>c, TurnsKeep
<1>6. ASSUME NEW t \in Threads, LookupCheck(t), UNCHANGED clientVars PROVE Turns(u)'
  <2>a. pc' = [pc EXCEPT ![t] = pc'[t]]
    BY <1>u, <1>6 DEF LookupCheck, Goto, TypeInv
  <2>b. UNCHANGED <<mode, m_reconnecting>>
    BY <1>u, <1>6 DEF LookupCheck, Goto
  <2>c. /\ pc'[t] \in Busy => pc[t] \in Busy
        /\ pc'[t] \in {"threw", "connect", "lret"} \cup Looking
             => pc[t] \in {"threw", "connect", "lret"} \cup Looking
        /\ pc'[t] \in Direct => pc[t] \in Direct
        /\ t \in Workers => pc'[t] # "swait"
    BY <1>u, <1>6 DEF LookupCheck, Goto, TypeInv, Labels, Looking, Busy, Direct
  <2> QED
    BY <1>u, <2>a, <2>b, <2>c, TurnsKeep
<1>7. ASSUME NEW t \in Threads, LookupAsk(t), UNCHANGED clientVars PROVE Turns(u)'
  <2>a. pc' = [pc EXCEPT ![t] = pc'[t]]
    BY <1>u, <1>7 DEF LookupAsk, send, BufferCommand, Goto, TypeInv
  <2>b. UNCHANGED <<mode, m_reconnecting>>
    BY <1>u, <1>7 DEF LookupAsk, send, BufferCommand, Goto
  <2>c. /\ pc'[t] \in Busy => pc[t] \in Busy
        /\ pc'[t] \in {"threw", "connect", "lret"} \cup Looking
             => pc[t] \in {"threw", "connect", "lret"} \cup Looking
        /\ pc'[t] \in Direct => pc[t] \in Direct
        /\ t \in Workers => pc'[t] # "swait"
    BY <1>u, <1>7 DEF LookupAsk, send, BufferCommand, Goto, TypeInv, Labels,
                      Looking, Busy, Direct
  <2> QED
    BY <1>u, <2>a, <2>b, <2>c, TurnsKeep
<1>8. ASSUME NEW t \in Threads, LookupCommit(t), UNCHANGED clientVars PROVE Turns(u)'
  <2>a. pc' = [pc EXCEPT ![t] = pc'[t]]
    BY <1>u, <1>8 DEF LookupCommit, TryCommit, WriteBuffer, WriteFails,
                      clear_callbacks, Goto, TypeInv
  <2>b. UNCHANGED <<mode, m_reconnecting>>
    BY <1>u, <1>8 DEF LookupCommit, TryCommit, WriteBuffer, WriteFails,
                      clear_callbacks, Goto
  <2>c. /\ pc'[t] \in Busy => pc[t] \in Busy
        /\ pc'[t] \in {"threw", "connect", "lret"} \cup Looking
             => pc[t] \in {"threw", "connect", "lret"} \cup Looking
        /\ pc'[t] \in Direct => pc[t] \in Direct
        /\ t \in Workers => pc'[t] # "swait"
    BY <1>u, <1>8 DEF LookupCommit, TryCommit, WriteBuffer, WriteFails,
                      clear_callbacks, Goto, TypeInv, Labels, Looking, Busy,
                      Direct
  <2> QED
    BY <1>u, <2>a, <2>b, <2>c, TurnsKeep
<1>9. ASSUME NEW t \in Threads, LookupDisconnect(t), UNCHANGED clientVars
      PROVE  Turns(u)'
  <2>a. pc' = [pc EXCEPT ![t] = pc'[t]]
    BY <1>u, <1>9 DEF LookupDisconnect, TcpDisconnect, Goto, TypeInv
  <2>b. UNCHANGED <<mode, m_reconnecting>>
    BY <1>u, <1>9 DEF LookupDisconnect, TcpDisconnect, Goto
  <2>c. /\ pc'[t] \in Busy => pc[t] \in Busy
        /\ pc'[t] \in {"threw", "connect", "lret"} \cup Looking
             => pc[t] \in {"threw", "connect", "lret"} \cup Looking
        /\ pc'[t] \in Direct => pc[t] \in Direct
        /\ t \in Workers => pc'[t] # "swait"
    BY <1>u, <1>9 DEF LookupDisconnect, TcpDisconnect, Goto, TypeInv, Labels,
                      Looking, Busy, Direct
  <2> QED
    BY <1>u, <2>a, <2>b, <2>c, TurnsKeep
<1>10. ASSUME NEW t \in Threads, DisconnectRemoved(t), UNCHANGED clientVars
       PROVE  Turns(u)'
  <2>a. pc' = [pc EXCEPT ![t] = pc'[t]]
    BY <1>u, <1>10 DEF DisconnectRemoved, Removed, Goto, TypeInv
  <2>b. UNCHANGED <<mode, m_reconnecting>>
    BY <1>u, <1>10 DEF DisconnectRemoved, Removed, Goto
  <2>c. /\ pc'[t] \in Busy => pc[t] \in Busy
        /\ pc'[t] \in {"threw", "connect", "lret"} \cup Looking
             => pc[t] \in {"threw", "connect", "lret"} \cup Looking
        /\ pc'[t] \in Direct => pc[t] \in Direct
        /\ t \in Workers => pc'[t] # "swait"
    BY <1>u, <1>10 DEF DisconnectRemoved, Removed, Goto, TypeInv, Labels,
                       Looking, Busy, Direct
  <2> QED
    BY <1>u, <2>a, <2>b, <2>c, TurnsKeep
<1>11. ASSUME NEW t \in Threads, DisconnectBuffers(t), UNCHANGED clientVars
       PROVE  Turns(u)'
  <2>a. pc' = [pc EXCEPT ![t] = pc'[t]]
    BY <1>u, <1>11 DEF DisconnectBuffers, ClearBuffers, Goto, TypeInv
  <2>b. UNCHANGED <<mode, m_reconnecting>>
    BY <1>u, <1>11 DEF DisconnectBuffers, ClearBuffers, Goto
  <2>c. /\ pc'[t] \in Busy => pc[t] \in Busy
        /\ pc'[t] \in {"threw", "connect", "lret"} \cup Looking
             => pc[t] \in {"threw", "connect", "lret"} \cup Looking
        /\ pc'[t] \in Direct => pc[t] \in Direct
        /\ t \in Workers => pc'[t] # "swait"
    BY <1>u, <1>11 DEF DisconnectBuffers, ClearBuffers, Goto, TypeInv, Labels,
                       Looking, Busy, Direct
  <2> QED
    BY <1>u, <2>a, <2>b, <2>c, TurnsKeep
<1>12. ASSUME NEW t \in Threads, LookupReturn(t), UNCHANGED clientVars PROVE Turns(u)'
  <2>a. pc' = [pc EXCEPT ![t] = pc'[t]]
    BY <1>u, <1>12 DEF LookupReturn, Goto, TypeInv
  <2>b. UNCHANGED <<mode, m_reconnecting>>
    BY <1>u, <1>12 DEF LookupReturn, Goto
  <2>c. /\ pc'[t] \in Busy => pc[t] \in Busy
        /\ pc'[t] \in {"threw", "connect", "lret"} \cup Looking
             => pc[t] \in {"threw", "connect", "lret"} \cup Looking
        /\ pc'[t] \in Direct => pc[t] \in Direct
        /\ t \in Workers => pc'[t] # "swait"
    BY <1>u, <1>12 DEF LookupReturn, Goto, TypeInv, Labels, Looking, Busy, Direct
  <2> QED
    BY <1>u, <2>a, <2>b, <2>c, TurnsKeep
<1>13. ASSUME NEW t \in Threads, LookupEnd(t) PROVE Turns(u)'
  <2>a. pc' = [pc EXCEPT ![t] = pc'[t]]
    BY <1>u, <1>13 DEF LookupEnd, Failed, Goto, TypeInv
  <2>b. UNCHANGED <<mode, m_reconnecting>>
    BY <1>u, <1>13 DEF LookupEnd, Failed, Goto
  <2>c. /\ pc'[t] \in Busy => pc[t] \in Busy
        /\ pc'[t] \in {"threw", "connect", "lret"} \cup Looking
             => pc[t] \in {"threw", "connect", "lret"} \cup Looking
        /\ pc'[t] \in Direct => pc[t] \in Direct
        /\ t \in Workers => pc'[t] # "swait"
    BY <1>u, <1>13 DEF LookupEnd, Failed, Goto, TypeInv, Labels, Looking, Busy,
                       Direct
  <2> QED
    BY <1>u, <2>a, <2>b, <2>c, TurnsKeep
<1>14. ASSUME NEW t \in Threads, LookupThrow(t) PROVE Turns(u)'
  <2>a. pc' = [pc EXCEPT ![t] = pc'[t]]
    BY <1>u, <1>14 DEF LookupThrow, Goto, TypeInv
  <2>b. UNCHANGED <<mode, m_reconnecting>>
    BY <1>u, <1>14 DEF LookupThrow, Goto
  <2>c. /\ pc'[t] \in Busy => pc[t] \in Busy
        /\ pc'[t] \in {"threw", "connect", "lret"} \cup Looking
             => pc[t] \in {"threw", "connect", "lret"} \cup Looking
        /\ pc'[t] \in Direct => pc[t] \in Direct
        /\ t \in Workers => pc'[t] # "swait"
    BY <1>u, <1>14 DEF LookupThrow, Goto, TypeInv, Labels, Looking, Busy, Direct
  <2> QED
    BY <1>u, <2>a, <2>b, <2>c, TurnsKeep
<1>15. ASSUME NEW t \in Threads, ConnectMaster(t) PROVE Turns(u)'
  <2>a. pc' = [pc EXCEPT ![t] = pc'[t]]
    BY <1>u, <1>15 DEF ConnectMaster, Failed, Goto, TypeInv
  <2>b. UNCHANGED <<mode, m_reconnecting>>
    BY <1>u, <1>15 DEF ConnectMaster, Failed, Goto
  <2>c. /\ pc'[t] \in Busy => pc[t] \in Busy
        /\ pc'[t] \in {"threw", "connect", "lret"} \cup Looking
             => pc[t] \in {"threw", "connect", "lret"} \cup Looking
        /\ pc'[t] \in Direct => pc[t] \in Direct
        /\ t \in Workers => pc'[t] # "swait"
    BY <1>u, <1>15 DEF ConnectMaster, Failed, Goto, TypeInv, Labels, Looking,
                       Busy, Direct
  <2> QED
    BY <1>u, <2>a, <2>b, <2>c, TurnsKeep
<1>16. ASSUME NEW x \in Users, NEW c \in Cmds, Send(x, c), UNCHANGED clientVars
       PROVE  Turns(u)'
  <2>1. UNCHANGED <<pc, mode, m_reconnecting>>
    BY <1>u, <1>16 DEF Send, send, BufferCommand, Alone
  <2> QED
    BY <2>1 DEF Turns
<1>17. ASSUME NEW x \in Users, Commit(x), UNCHANGED clientVars PROVE Turns(u)'
  <2>a. pc' = [pc EXCEPT ![x] = pc'[x]]
    BY <1>u, <1>17 DEF Commit, TryCommit, WriteBuffer, WriteFails,
                       clear_callbacks, Goto, TypeInv
  <2>b. UNCHANGED <<mode, m_reconnecting>>
    BY <1>u, <1>17 DEF Commit, TryCommit, WriteBuffer, WriteFails,
                       clear_callbacks, Goto
  <2>c. /\ pc'[x] \in Busy => pc[x] \in Busy
        /\ pc'[x] \in {"threw", "connect", "lret"} \cup Looking
             => pc[x] \in {"threw", "connect", "lret"} \cup Looking
        /\ pc'[x] \in Direct => pc[x] \in Direct
        /\ x \in Workers => pc'[x] # "swait"
    BY <1>u, <1>17 DEF Commit, TryCommit, WriteBuffer, WriteFails,
                       clear_callbacks, Goto, TypeInv, Labels, Looking, Busy,
                       Direct
  <2> QED
    BY <1>u, <2>a, <2>b, <2>c, TurnsKeep
<1>18. ASSUME NEW x \in Users, SyncCommit(x), UNCHANGED clientVars PROVE Turns(u)'
  <2>a. pc' = [pc EXCEPT ![x] = pc'[x]]
    BY <1>u, <1>18 DEF SyncCommit, TryCommit, WriteBuffer, WriteFails,
                       clear_callbacks, Goto, TypeInv
  <2>b. UNCHANGED <<mode, m_reconnecting>>
    BY <1>u, <1>18 DEF SyncCommit, TryCommit, WriteBuffer, WriteFails,
                       clear_callbacks, Goto
  <2>c. /\ pc'[x] \in Busy => pc[x] \in Busy
        /\ pc'[x] \in {"threw", "connect", "lret"} \cup Looking
             => pc[x] \in {"threw", "connect", "lret"} \cup Looking
        /\ pc'[x] \in Direct => pc[x] \in Direct
        /\ x \in Workers => pc'[x] # "swait"
    BY <1>u, <1>18 DEF SyncCommit, TryCommit, WriteBuffer, WriteFails,
                       clear_callbacks, Goto, TypeInv, Labels, Looking, Busy,
                       Direct
  <2> QED
    BY <1>u, <2>a, <2>b, <2>c, TurnsKeep
<1>19. ASSUME NEW x \in Users, SyncTimeout(x), UNCHANGED clientVars PROVE Turns(u)'
  <2>a. pc' = [pc EXCEPT ![x] = pc'[x]]
    BY <1>u, <1>19 DEF SyncTimeout, Goto, TypeInv
  <2>b. UNCHANGED <<mode, m_reconnecting>>
    BY <1>u, <1>19 DEF SyncTimeout, Goto
  <2>c. /\ pc'[x] \in Busy => pc[x] \in Busy
        /\ pc'[x] \in {"threw", "connect", "lret"} \cup Looking
             => pc[x] \in {"threw", "connect", "lret"} \cup Looking
        /\ pc'[x] \in Direct => pc[x] \in Direct
        /\ x \in Workers => pc'[x] # "swait"
    BY <1>u, <1>19 DEF SyncTimeout, Goto, TypeInv, Labels, Looking, Busy, Direct
  <2> QED
    BY <1>u, <2>a, <2>b, <2>c, TurnsKeep
<1>20. ASSUME NEW x \in Users, Connect(x), UNCHANGED clientVars PROVE Turns(u)'
  <2>1. x = u /\ pc[u] = "idle" /\ \A w \in Workers : pc[w] \notin Busy
    BY <1>u, <1>20 DEF Connect, Goto, Alone, Settled, Considerate, Busy
  <2>2. pc' = [pc EXCEPT ![u] = pc'[u]] /\ pc'[u] \in Direct
      /\ UNCHANGED <<mode, m_reconnecting>>
    BY <1>u, <1>20, <2>1 DEF Connect, Goto, Alone, Settled, TypeInv, Direct
  <2>3. \A s \in Threads : s # u => pc'[s] = pc[s]
    BY <1>u, <2>2 DEF TypeInv
  <2>4. pc'[u] \notin Busy
    BY <2>2 DEF Direct, Busy, Looking
  <2>5. \A w \in Workers : pc'[w] = pc[w]
    BY <2>3, <1>u
  <2> QED
    BY <1>u, <2>1, <2>2, <2>3, <2>4, <2>5 DEF Turns
<1>21. ASSUME NEW x \in Users, NEW wait \in BOOLEAN, Disconnect(x, wait), UNCHANGED clientVars PROVE Turns(u)'
  <2>1. x = u /\ pc[u] = "idle" /\ \A w \in Workers : pc[w] \notin Busy
    BY <1>u, <1>21 DEF Disconnect, TcpDisconnect, Goto, Alone, Settled,
                       Considerate, Busy
  <2>2. pc' = [pc EXCEPT ![u] = pc'[u]] /\ pc'[u] \in Direct
      /\ UNCHANGED <<mode, m_reconnecting>>
    BY <1>u, <1>21, <2>1 DEF Disconnect, TcpDisconnect, Goto, Alone, Settled,
                             TypeInv, Direct
  <2>3. \A s \in Threads : s # u => pc'[s] = pc[s]
    BY <1>u, <2>2 DEF TypeInv
  <2>4. pc'[u] \notin Busy
    BY <2>2 DEF Direct, Busy, Looking
  <2>5. \A w \in Workers : pc'[w] = pc[w]
    BY <2>3, <1>u
  <2> QED
    BY <1>u, <2>1, <2>2, <2>3, <2>4, <2>5 DEF Turns
<1>22. ASSUME NEW x \in Users, get_master_addr_by_name(x), UNCHANGED clientVars
       PROVE  Turns(u)'
  <2>1. x = u /\ pc[u] = "idle" /\ \A s \in Threads : pc[s] \notin Busy
    BY <1>u, <1>22 DEF get_master_addr_by_name, Lookup, FirstStep, Goto, Alone,
                       Settled, Considerate, Busy
  <2>2. pc' = [pc EXCEPT ![u] = pc'[u]] /\ pc'[u] \notin Direct
      /\ UNCHANGED m_reconnecting
    BY <1>u, <1>22, <2>1 DEF get_master_addr_by_name, Lookup, FirstStep, Goto,
                             Alone, Settled, TypeInv, Direct
  <2>3. \A s \in Threads : s # u => pc'[s] = pc[s] /\ mode'[s] = mode[s]
    BY <1>u, <1>22, <2>1, <2>2 DEF get_master_addr_by_name, Lookup, FirstStep,
                                   Goto, Alone, Settled, TypeInv
  <2>5. \A w \in Workers : pc'[w] = pc[w] /\ mode'[w] = mode[w]
    BY <2>3, <1>u
  <2> QED
    BY <1>u, <2>1, <2>2, <2>3, <2>5 DEF Turns
<1>23. ASSUME NEW x \in Users, ConnectName(x) PROVE Turns(u)'
  <2>1. x = u /\ pc[u] = "idle" /\ \A s \in Threads : pc[s] \notin Busy
    BY <1>u, <1>23 DEF ConnectName, Lookup, FirstStep, Goto, Alone, Settled,
                       Considerate, Busy
  <2>2. pc' = [pc EXCEPT ![u] = pc'[u]] /\ pc'[u] \notin Direct
      /\ UNCHANGED m_reconnecting
    BY <1>u, <1>23, <2>1 DEF ConnectName, Lookup, FirstStep, Goto, Alone,
                             Settled, TypeInv, Direct
  <2>3. \A s \in Threads : s # u => pc'[s] = pc[s] /\ mode'[s] = mode[s]
    BY <1>u, <1>23, <2>1, <2>2 DEF ConnectName, Lookup, FirstStep, Goto, Alone,
                                   Settled, TypeInv
  <2>5. \A w \in Workers : pc'[w] = pc[w] /\ mode'[w] = mode[w]
    BY <2>3, <1>u
  <2> QED
    BY <1>u, <2>1, <2>2, <2>3, <2>5 DEF Turns
<1>24. ASSUME NEW x \in Users, CancelReconnect(x) PROVE Turns(u)'
  <2>1. UNCHANGED <<pc, mode, m_reconnecting>>
    BY <1>u, <1>24 DEF CancelReconnect
  <2> QED
    BY <2>1 DEF Turns
<1>25. ASSUME NEW w \in Workers, ReadEvent(w), UNCHANGED clientVars PROVE Turns(u)'
  <2>a. pc' = [pc EXCEPT ![w] = pc'[w]]
    BY <1>u, <1>25 DEF ReadEvent, ReadReplies, Polled, Goto, TypeInv
  <2>b. UNCHANGED <<mode, m_reconnecting>>
    BY <1>u, <1>25 DEF ReadEvent, ReadReplies, Polled, Goto
  <2>c. /\ pc'[w] \in Busy => pc[w] \in Busy
        /\ pc'[w] \in {"threw", "connect", "lret"} \cup Looking
             => pc[w] \in {"threw", "connect", "lret"} \cup Looking
        /\ pc'[w] \in Direct => pc[w] \in Direct
        /\ w \in Workers => pc'[w] # "swait"
    BY <1>u, <1>25 DEF ReadEvent, ReadReplies, Polled, Goto, TypeInv, Labels,
                       Looking, Busy, Direct
  <2> QED
    BY <1>u, <2>a, <2>b, <2>c, TurnsKeep
<1>26. ASSUME NEW w \in Workers, TakeReply(w), UNCHANGED clientVars PROVE Turns(u)'
  <2>a. pc' = [pc EXCEPT ![w] = pc'[w]]
    BY <1>u, <1>26 DEF TakeReply, PopReply, Goto, TypeInv
  <2>b. UNCHANGED <<mode, m_reconnecting>>
    BY <1>u, <1>26 DEF TakeReply, PopReply, Goto
  <2>c. /\ pc'[w] \in Busy => pc[w] \in Busy
        /\ pc'[w] \in {"threw", "connect", "lret"} \cup Looking
             => pc[w] \in {"threw", "connect", "lret"} \cup Looking
        /\ pc'[w] \in Direct => pc[w] \in Direct
        /\ w \in Workers => pc'[w] # "swait"
    BY <1>u, <1>26 DEF TakeReply, PopReply, Goto, TypeInv, Labels, Looking,
                       Busy, Direct
  <2> QED
    BY <1>u, <2>a, <2>b, <2>c, TurnsKeep
<1>27. ASSUME NEW w \in Workers, ReceiveLock(w), UNCHANGED clientVars PROVE Turns(u)'
  <2>a. pc' = [pc EXCEPT ![w] = pc'[w]]
    BY <1>u, <1>27 DEF ReceiveLock, Goto, TypeInv
  <2>b. UNCHANGED <<mode, m_reconnecting>>
    BY <1>u, <1>27 DEF ReceiveLock, Goto
  <2>c. /\ pc'[w] \in Busy => pc[w] \in Busy
        /\ pc'[w] \in {"threw", "connect", "lret"} \cup Looking
             => pc[w] \in {"threw", "connect", "lret"} \cup Looking
        /\ pc'[w] \in Direct => pc[w] \in Direct
        /\ w \in Workers => pc'[w] # "swait"
    BY <1>u, <1>27 DEF ReceiveLock, Goto, TypeInv, Labels, Looking, Busy, Direct
  <2> QED
    BY <1>u, <2>a, <2>b, <2>c, TurnsKeep
<1>28. ASSUME NEW w \in Workers, ReceiveCall(w), UNCHANGED clientVars PROVE Turns(u)'
  <2>a. pc' = [pc EXCEPT ![w] = pc'[w]]
    BY <1>u, <1>28 DEF ReceiveCall, LookupCallback, Out, Goto, TypeInv
  <2>b. UNCHANGED <<mode, m_reconnecting>>
    BY <1>u, <1>28 DEF ReceiveCall, LookupCallback, Out, Goto
  <2>c. /\ pc'[w] \in Busy => pc[w] \in Busy
        /\ pc'[w] \in {"threw", "connect", "lret"} \cup Looking
             => pc[w] \in {"threw", "connect", "lret"} \cup Looking
        /\ pc'[w] \in Direct => pc[w] \in Direct
        /\ w \in Workers => pc'[w] # "swait"
    BY <1>u, <1>28 DEF ReceiveCall, LookupCallback, Out, Goto, TypeInv, Labels,
                       Looking, Busy, Direct
  <2> QED
    BY <1>u, <2>a, <2>b, <2>c, TurnsKeep
<1>29. ASSUME NEW w \in Workers, ReceiveDone(w), UNCHANGED clientVars PROVE Turns(u)'
  <2>a. pc' = [pc EXCEPT ![w] = pc'[w]]
    BY <1>u, <1>29 DEF ReceiveDone, Goto, TypeInv
  <2>b. UNCHANGED <<mode, m_reconnecting>>
    BY <1>u, <1>29 DEF ReceiveDone, Goto
  <2>c. /\ pc'[w] \in Busy => pc[w] \in Busy
        /\ pc'[w] \in {"threw", "connect", "lret"} \cup Looking
             => pc[w] \in {"threw", "connect", "lret"} \cup Looking
        /\ pc'[w] \in Direct => pc[w] \in Direct
        /\ w \in Workers => pc'[w] # "swait"
    BY <1>u, <1>29 DEF ReceiveDone, Goto, TypeInv, Labels, Looking, Busy, Direct
  <2> QED
    BY <1>u, <2>a, <2>b, <2>c, TurnsKeep
<1>30. ASSUME NEW w \in Workers, EndRead(w), UNCHANGED clientVars PROVE Turns(u)'
  <2>a. pc' = [pc EXCEPT ![w] = pc'[w]]
    BY <1>u, <1>30 DEF EndRead, NextRead, ReleaseFd, Goto, TypeInv
  <2>b. UNCHANGED <<mode, m_reconnecting>>
    BY <1>u, <1>30 DEF EndRead, NextRead, ReleaseFd, Goto
  <2>c. /\ pc'[w] \in Busy => pc[w] \in Busy
        /\ pc'[w] \in {"threw", "connect", "lret"} \cup Looking
             => pc[w] \in {"threw", "connect", "lret"} \cup Looking
        /\ pc'[w] \in Direct => pc[w] \in Direct
        /\ w \in Workers => pc'[w] # "swait"
    BY <1>u, <1>30 DEF EndRead, NextRead, ReleaseFd, Goto, TypeInv, Labels,
                       Looking, Busy, Direct
  <2> QED
    BY <1>u, <2>a, <2>b, <2>c, TurnsKeep
<1>31. ASSUME NEW w \in Workers, DropBuffers(w), UNCHANGED clientVars PROVE Turns(u)'
  <2>a. pc' = [pc EXCEPT ![w] = pc'[w]]
    BY <1>u, <1>31 DEF DropBuffers, ClearBuffers, Goto, TypeInv
  <2>b. UNCHANGED <<mode, m_reconnecting>>
    BY <1>u, <1>31 DEF DropBuffers, ClearBuffers, Goto
  <2>c. /\ pc'[w] \in Busy => pc[w] \in Busy
        /\ pc'[w] \in {"threw", "connect", "lret"} \cup Looking
             => pc[w] \in {"threw", "connect", "lret"} \cup Looking
        /\ pc'[w] \in Direct => pc[w] \in Direct
        /\ w \in Workers => pc'[w] # "swait"
    BY <1>u, <1>31 DEF DropBuffers, ClearBuffers, Goto, TypeInv, Labels,
                       Looking, Busy, Direct
  <2> QED
    BY <1>u, <2>a, <2>b, <2>c, TurnsKeep
<1>32. ASSUME NEW w \in Workers, DropClear(w), UNCHANGED clientVars PROVE Turns(u)'
  <2>a. pc' = [pc EXCEPT ![w] = pc'[w]]
    BY <1>u, <1>32 DEF DropClear, clear_callbacks, Goto, TypeInv
  <2>b. UNCHANGED <<mode, m_reconnecting>>
    BY <1>u, <1>32 DEF DropClear, clear_callbacks, Goto
  <2>c. /\ pc'[w] \in Busy => pc[w] \in Busy
        /\ pc'[w] \in {"threw", "connect", "lret"} \cup Looking
             => pc[w] \in {"threw", "connect", "lret"} \cup Looking
        /\ pc'[w] \in Direct => pc[w] \in Direct
        /\ w \in Workers => pc'[w] # "swait"
    BY <1>u, <1>32 DEF DropClear, clear_callbacks, Goto, TypeInv, Labels,
                       Looking, Busy, Direct
  <2> QED
    BY <1>u, <2>a, <2>b, <2>c, TurnsKeep
<1>33. ASSUME NEW w \in Workers, HandlerReturns(w), UNCHANGED clientVars PROVE Turns(u)'
  <2>a. pc' = [pc EXCEPT ![w] = pc'[w]]
    BY <1>u, <1>33 DEF HandlerReturns, HandlerReturn, ReleaseFd, Goto, TypeInv
  <2>b. UNCHANGED <<mode, m_reconnecting>>
    BY <1>u, <1>33 DEF HandlerReturns, HandlerReturn, ReleaseFd, Goto
  <2>c. /\ pc'[w] \in Busy => pc[w] \in Busy
        /\ pc'[w] \in {"threw", "connect", "lret"} \cup Looking
             => pc[w] \in {"threw", "connect", "lret"} \cup Looking
        /\ pc'[w] \in Direct => pc[w] \in Direct
        /\ w \in Workers => pc'[w] # "swait"
    BY <1>u, <1>33 DEF HandlerReturns, HandlerReturn, ReleaseFd, Goto, TypeInv,
                       Labels, Looking, Busy, Direct
  <2> QED
    BY <1>u, <2>a, <2>b, <2>c, TurnsKeep
<1>34. ASSUME NEW w \in Workers, DropEvent(w), UNCHANGED clientVars PROVE Turns(u)'
  <2>a. pc' = [pc EXCEPT ![w] = pc'[w]]
    BY <1>u, <1>34 DEF DropEvent, PeerDrop, Polled, Goto, TypeInv
  <2>b. UNCHANGED <<mode, m_reconnecting>>
    BY <1>u, <1>34 DEF DropEvent, PeerDrop, Polled, Goto
  <2>c. /\ pc'[w] \in Busy => pc[w] \in Busy
        /\ pc'[w] \in {"threw", "connect", "lret"} \cup Looking
             => pc[w] \in {"threw", "connect", "lret"} \cup Looking
        /\ pc'[w] \in Direct => pc[w] \in Direct
        /\ w \in Workers => pc'[w] # "swait"
    BY <1>u, <1>34 DEF DropEvent, PeerDrop, Polled, Goto, TypeInv, Labels,
                       Looking, Busy, Direct
  <2> QED
    BY <1>u, <2>a, <2>b, <2>c, TurnsKeep
<1>35. ASSUME NEW w \in Workers, ClientDrop(w) PROVE Turns(u)'
  <2>1. pc[u] = "idle" /\ pc[w] = "idle" /\ m_reconnecting' = TRUE /\ mode' = mode
    BY <1>u, <1>35 DEF ClientDrop, Goto, Considerate
  <2>2. CASE m_reconnecting
    <3>1. \A s \in Threads : pc'[s] = pc[s]
      BY <1>u, <1>35, <2>1, <2>2 DEF ClientDrop, Goto, TypeInv
    <3> QED
      BY <1>u, <2>1, <2>2, <3>1 DEF Turns
  <2>3. CASE ~m_reconnecting
    <3>1. pc' = [pc EXCEPT ![w] = "hloop"]
      BY <1>u, <1>35, <2>3 DEF ClientDrop, Goto
    <3>2. \A s \in Threads : s # w => pc'[s] = pc[s]
      BY <1>u, <3>1 DEF TypeInv
    <3>3. \A s \in Threads : pc[s] \notin Busy
      <4>1. pc[u] \notin Busy
        BY <2>1 DEF Busy, Looking
      <4>2. \A s \in Workers : pc[s] \notin Busy
        BY <2>3 DEF Turns
      <4> QED
        BY <1>u, <4>1, <4>2
    <3>4. pc'[w] = "hloop"
      BY <1>u, <3>1 DEF TypeInv
    <3>5. /\ "hloop" \notin Looking \cup {"lret", "connect", "threw"}
          /\ "hloop" \notin Direct \cup {"swait"}
      BY DEF Looking, Direct
    <3>6. pc'[u] \notin Direct
      BY <1>u, <2>1, <3>2 DEF Direct
    <3>7. \A s \in Workers : s # w => pc'[s] = pc[s]
      BY <1>u, <3>2
    <3>8. \A s \in Workers : pc'[s] \in Busy \cup {"threw"} => s = w
      BY <2>3, <3>7 DEF Turns
    <3>9. \A s \in Threads : pc'[s] \in Busy => s = w
      BY <3>2, <3>3
    <3>10. \A s \in Workers :
             /\ pc'[s] \in Looking \cup {"lret", "connect", "threw"} => mode[s] = "client"
             /\ pc'[s] \notin Direct \cup {"swait"}
      BY <3>4, <3>5, <3>7 DEF Turns
    <3> QED
      BY <2>1, <3>6, <3>8, <3>9, <3>10 DEF Turns
  <2> QED
    BY <2>2, <2>3
<1>36. ASSUME NEW w \in Workers, Reconnect(w) PROVE Turns(u)'
  <2>1. pc[w] = "hloop" /\ UNCHANGED m_reconnecting /\ pc' = [pc EXCEPT ![w] = pc'[w]]
        /\ mode' = [mode EXCEPT ![w] = "client"] /\ pc'[w] \in {"stcp", "threw"}
    BY <1>u, <1>36 DEF Reconnect, Lookup, FirstStep, should_reconnect, Goto, TypeInv
  <2>2. \A s \in Threads : s # w => pc'[s] = pc[s] /\ mode'[s] = mode[s]
    BY <1>u, <2>1 DEF TypeInv
  <2>3. mode'[w] = "client"
    BY <1>u, <2>1 DEF TypeInv
  <2>4. pc[w] \in Busy /\ pc'[w] \notin Direct \cup {"swait"}
    BY <2>1 DEF Busy, Direct
  <2>5. \A s \in Threads : pc'[s] \in Busy => pc[s] \in Busy
    BY <2>2, <2>4
  <2>6. \A s \in Workers : s # w => pc'[s] = pc[s] /\ mode'[s] = mode[s]
    BY <1>u, <2>2
  <2>7. pc'[u] = pc[u]
    BY <1>u, <2>2
  <2> QED
    BY <1>u, <2>1, <2>3, <2>4, <2>5, <2>6, <2>7 DEF Turns
<1>37. ASSUME NEW w \in Workers, ReconnectEnd(w) PROVE Turns(u)'
  <2>1. pc[w] = "hloop" /\ mode' = mode /\ pc' = [pc EXCEPT ![w] = "idle"]
    BY <1>u, <1>37 DEF ReconnectEnd, should_reconnect, Goto
  <2>2. \A s \in Threads : s # w => pc'[s] = pc[s]
    BY <1>u, <2>1 DEF TypeInv
  <2>3. pc'[w] = "idle" /\ pc[w] \in Busy
    BY <1>u, <2>1 DEF TypeInv, Busy
  <2>4. \A s \in Workers : pc'[s] \notin Busy \cup {"threw"}
    <3>1. ASSUME NEW s \in Workers, pc[s] \in Busy PROVE s = w
      BY <1>u, <2>3, <3>1 DEF Turns
    <3>2. ASSUME NEW s \in Workers PROVE pc[s] = "threw" => s = w
      BY <1>u, <2>1, <3>2 DEF Turns, Busy
    <3>3. "idle" \notin Busy \cup {"threw"}
      BY DEF Busy, Looking
    <3> QED
      BY <1>u, <2>2, <2>3, <3>1, <3>2, <3>3
  <2>5. \A s \in Threads : pc'[s] \in Busy => pc[s] \in Busy
    BY <2>2, <2>3
  <2>6. \A s \in Workers : pc'[s] \notin Direct \cup {"swait"}
    <3>1. "idle" \notin Direct \cup {"swait"}
      BY DEF Direct
    <3> QED
      BY <1>u, <2>2, <2>3, <3>1 DEF Turns
  <2>7. Looking \cup {"lret", "connect", "threw"} \subseteq Busy \cup {"threw"}
    BY DEF Busy
  <2> QED
    BY <2>4, <2>5, <2>6, <2>7 DEF Turns
<1>38. CASE UNCHANGED vars
  BY <1>u, <1>38 DEF vars, Turns
<1> QED
  BY <1>1, <1>2, <1>3, <1>4, <1>5, <1>6, <1>7, <1>8, <1>9, <1>10, <1>11, <1>12,
     <1>13, <1>14, <1>15, <1>16, <1>17, <1>18, <1>19, <1>20, <1>21, <1>22,
     <1>23, <1>24, <1>25, <1>26, <1>27, <1>28, <1>29, <1>30, <1>31, <1>32,
     <1>33, <1>34, <1>35, <1>36, <1>37, <1>38 DEF Next, CallStep, ClientStep,
                                                  UserCall, ClientCall,
                                                  WorkerStep, HandlerStep

\* Nobody reads from a connection that is about to be opened.
LEMMA NobodyReads ==
  ASSUME NEW u, Considerate(u), TypeInv, Turns(u), Reading(u), ~connected,
         NEW t \in Threads, pc[t] \in {"tcp", "stcp"}
  PROVE  \A w \in Workers : pc[w] \notin Receives
<1>1. SUFFICES ASSUME NEW s \in Threads, pc[s] \in {"remove", "lremove"} PROVE FALSE
  BY DEF Reading
<1>2. u \notin Workers /\ Workers \subseteq Threads /\ Threads = {u} \cup Workers
  BY SentinelAssumption DEF Considerate, Threads
<1>3. CASE pc[t] = "tcp"
  <2>1. t = u /\ pc[u] \in Direct
    BY <1>2, <1>3 DEF Turns, Direct
  <2> QED
    BY <1>1, <1>2, <1>3, <2>1 DEF Turns, Busy, Looking, Direct
<1>4. CASE pc[t] = "stcp"
  <2>1. pc[t] \in Busy
    BY <1>4 DEF Busy, Looking
  <2>2. CASE pc[s] = "lremove"
    <3>1. pc[s] \in Busy
      BY <2>2 DEF Busy, Looking
    <3> QED
      BY <1>4, <2>1, <2>2, <3>1 DEF Turns
  <2>3. CASE pc[s] = "remove"
    BY <1>2, <1>4, <2>1, <2>3 DEF Turns, Direct
  <2> QED
    BY <1>1, <2>2, <2>3
<1> QED
  BY <1>3, <1>4

\* While a lookup is about to commit its command the connection on which a
\* reply is read is open.
LEMMA OpenForLookup ==
  ASSUME NEW u, Considerate(u), TypeInv, Turns(u), Reading(u),
         NEW w \in Workers, pc[w] \in Receives, NEW t \in Threads, pc[t] = "lcommit"
  PROVE  connected
<1>1. SUFFICES ASSUME NEW s \in Threads, pc[s] \in {"remove", "lremove"} PROVE FALSE
  BY DEF Reading
<1>2. u \notin Workers /\ Workers \subseteq Threads /\ Threads = {u} \cup Workers
  BY SentinelAssumption DEF Considerate, Threads
<1>3. pc[t] \in Busy
  BY DEF Busy, Looking
<1>4. CASE pc[s] = "lremove"
  <2>1. pc[s] \in Busy
    BY <1>4 DEF Busy, Looking
  <2> QED
    BY <1>3, <1>4, <2>1 DEF Turns
<1>5. CASE pc[s] = "remove"
  BY <1>2, <1>3, <1>5 DEF Turns, Direct
<1> QED
  BY <1>1, <1>4, <1>5

\* disconnect(true) and the disconnection handler leave no reader behind.
LEMMA ReadingNext ==
  ASSUME NEW u, Considerate(u), TypeInv, Turns(u), Reading(u), [Next]_vars
  PROVE  Reading(u)'
<1> USE SentinelAssumption DEF sentinelVars, connVars, queueVars, lookupVars,
                               workerVars, histVars, clientVars
<1>u. u \in Threads /\ u \notin Workers /\ Workers \subseteq Threads
      /\ Threads = {u} \cup Workers
      /\ Users \subseteq Threads /\ None \notin Threads
  BY DEF Considerate, Threads
<1>1. ASSUME NEW t \in Threads, SyncDone(t), UNCHANGED clientVars PROVE Reading(u)'
  <2>a. pc' = [pc EXCEPT ![t] = pc'[t]]
    BY <1>u, <1>1 DEF SyncDone, AllDone, Goto, TypeInv
  <2>b. reader' = reader /\ connected' = connected
    BY <1>1 DEF SyncDone, AllDone, Goto
  <2>c. pc[t] \notin {"remove", "lremove"} /\ (pc'[t] \in Receives => pc[t] \in Receives)
    BY <1>u, <1>1 DEF SyncDone, AllDone, Goto, TypeInv, Receives
  <2> QED
    BY <1>u, <2>a, <2>b, <2>c, ReadingKeep
<1>2. ASSUME NEW t \in Threads, ConnectTcp(t), UNCHANGED clientVars PROVE Reading(u)'
  <2>a. pc' = [pc EXCEPT ![t] = pc'[t]]
    BY <1>u, <1>2 DEF ConnectTcp, TcpConnect, Goto, AfterConnect, TypeInv
  <2>b. pc[t] \in {"tcp", "stcp"} /\ pc'[t] \notin Receives
    BY <1>u, <1>2, Follows DEF ConnectTcp, TcpConnect, Goto, AfterConnect,
                               TypeInv, Receives
  <2>1. \/ ~connected /\ TcpConnect
        \/ UNCHANGED <<reader, connected>>
    BY <1>2 DEF ConnectTcp, TcpConnect, Goto, AfterConnect
  <2>2. CASE ~connected /\ TcpConnect
    <3>1. \A r \in Workers : pc[r] \notin Receives
      BY <2>2, <2>b, NobodyReads
    <3>2. \A r \in Workers : pc'[r] \notin Receives
      BY <1>u, <2>a, <2>b, <3>1 DEF TypeInv
    <3> QED
      BY <3>2 DEF Reading
  <2>3. CASE UNCHANGED <<reader, connected>>
    BY <1>u, <2>a, <2>b, <2>3, ReadingKeep
  <2> QED
    BY <2>1, <2>2, <2>3
<1>3. ASSUME NEW t \in Threads, ConnectRead(t), UNCHANGED clientVars PROVE Reading(u)'
  <2>a. pc' = [pc EXCEPT ![t] = pc'[t]]
    BY <1>u, <1>3 DEF ConnectRead, AsyncRead, Goto, AfterConnect, TypeInv
  <2>b. reader' = reader /\ connected' = connected
    BY <1>3 DEF ConnectRead, AsyncRead, Goto, AfterConnect
  <2>c. pc[t] \notin {"remove", "lremove"} /\ (pc'[t] \in Receives => pc[t] \in Receives)
    BY <1>u, <1>3, Follows DEF ConnectRead, AsyncRead, Goto, AfterConnect,
                               TypeInv, Receives
  <2> QED
    BY <1>u, <2>a, <2>b, <2>c, ReadingKeep
<1>4. ASSUME NEW t \in Threads, ConnectHandlers(t), UNCHANGED clientVars
      PROVE  Reading(u)'
  <2>a. pc' = [pc EXCEPT ![t] = pc'[t]]
    BY <1>u, <1>4 DEF ConnectHandlers, SetHandlers, Goto, AfterConnect, TypeInv
  <2>b. reader' = reader /\ connected' = connected
    BY <1>4 DEF ConnectHandlers, SetHandlers, Goto, AfterConnect
  <2>c. pc[t] \notin {"remove", "lremove"} /\ (pc'[t] \in Receives => pc[t] \in Receives)
    BY <1>u, <1>4 DEF ConnectHandlers, SetHandlers, Goto, AfterConnect, TypeInv,
                      Receives
  <2> QED
    BY <1>u, <2>a, <2>b, <2>c, ReadingKeep
<1>5. ASSUME NEW t \in Threads, SentinelCheck(t), UNCHANGED clientVars PROVE Reading(u)'
  <2>a. pc' = [pc EXCEPT ![t] = pc'[t]]
    BY <1>u, <1>5 DEF SentinelCheck, ClearBuffers, Goto, TypeInv
  <2>b. reader' = reader /\ connected' = connected
    BY <1>5 DEF SentinelCheck, ClearBuffers, Goto
  <2>c. pc[t] \notin {"remove", "lremove"} /\ (pc'[t] \in Receives => pc[t] \in Receives)
    BY <1>u, <1>5 DEF SentinelCheck, ClearBuffers, Goto, TypeInv, Receives
  <2> QED
    BY <1>u, <2>a, <2>b, <2>c, ReadingKeep
<1>6. ASSUME NEW t \in Threads, LookupCheck(t), UNCHANGED clientVars PROVE Reading(u)'
  <2>a. pc' = [pc EXCEPT ![t] = pc'[t]]
    BY <1>u, <1>6 DEF LookupCheck, Goto, TypeInv
  <2>b. reader' = reader /\ connected' = connected
    BY <1>6 DEF LookupCheck, Goto
  <2>c. pc[t] \notin {"remove", "lremove"} /\ (pc'[t] \in Receives => pc[t] \in Receives)
    BY <1>u, <1>6 DEF LookupCheck, Goto, TypeInv, Receives
  <2> QED
    BY <1>u, <2>a, <2>b, <2>c, ReadingKeep
<1>7. ASSUME NEW t \in Threads, LookupAsk(t), UNCHANGED clientVars PROVE Reading(u)'
  <2>a. pc' = [pc EXCEPT ![t] = pc'[t]]
    BY <1>u, <1>7 DEF LookupAsk, send, BufferCommand, Goto, TypeInv
  <2>b. reader' = reader /\ connected' = connected
    BY <1>7 DEF LookupAsk, send, BufferCommand, Goto
  <2>c. pc[t] \notin {"remove", "lremove"} /\ (pc'[t] \in Receives => pc[t] \in Receives)
    BY <1>u, <1>7 DEF LookupAsk, send, BufferCommand, Goto, TypeInv, Receives
  <2> QED
    BY <1>u, <2>a, <2>b, <2>c, ReadingKeep
<1>8. ASSUME NEW t \in Threads, LookupCommit(t), UNCHANGED clientVars PROVE Reading(u)'
  <2>a. pc' = [pc EXCEPT ![t] = pc'[t]]
    BY <1>u, <1>8 DEF LookupCommit, TryCommit, WriteBuffer, WriteFails,
                      clear_callbacks, Goto, TypeInv
  <2>b. reader' = reader /\ connected' = connected
    BY <1>8 DEF LookupCommit, TryCommit, WriteBuffer, WriteFails,
                clear_callbacks, Goto
  <2>c. pc[t] \notin {"remove", "lremove"} /\ (pc'[t] \in Receives => pc[t] \in Receives)
    BY <1>u, <1>8 DEF LookupCommit, TryCommit, WriteBuffer, WriteFails,
                      clear_callbacks, Goto, TypeInv, Receives
  <2> QED
    BY <1>u, <2>a, <2>b, <2>c, ReadingKeep
<1>9. ASSUME NEW t \in Threads, LookupDisconnect(t), UNCHANGED clientVars
      PROVE  Reading(u)'
  <2>a. pc' = [pc EXCEPT ![t] = pc'[t]]
    BY <1>u, <1>9 DEF LookupDisconnect, TcpDisconnect, Goto, TypeInv
  <2>b. /\ pc[t] \notin {"remove", "lremove"} /\ pc'[t] \notin Receives
        /\ connected => pc'[t] = "lremove"
        /\ reader' = reader
    BY <1>u, <1>9 DEF LookupDisconnect, TcpDisconnect, Goto, TypeInv, Receives
  <2>1. \A s \in Threads : s # t => pc'[s] = pc[s]
    BY <1>u, <2>a DEF TypeInv
  <2>2. SUFFICES ASSUME NEW r \in Workers, pc'[r] \in Receives
                 PROVE  reader = r /\ \E s \in Threads : pc'[s] \in {"remove", "lremove"}
    BY <2>b DEF Reading
  <2>3. reader = r /\ (connected \/ \E s \in Threads : pc[s] \in {"remove", "lremove"})
    BY <1>u, <2>b, <2>1, <2>2 DEF Reading
  <2>4. CASE connected
    BY <1>u, <2>b, <2>3, <2>4
  <2>5. CASE ~connected
    BY <1>u, <2>b, <2>1, <2>3, <2>5
  <2> QED
    BY <2>4, <2>5
<1>10. ASSUME NEW t \in Threads, DisconnectRemoved(t), UNCHANGED clientVars
       PROVE  Reading(u)'
  <2>a. pc' = [pc EXCEPT ![t] = pc'[t]]
    BY <1>u, <1>10 DEF DisconnectRemoved, Removed, Goto, TypeInv
  <2>b. reader = None /\ pc'[t] \notin Receives
    BY <1>u, <1>10 DEF DisconnectRemoved, Removed, Goto, TypeInv, Receives
  <2>1. \A s \in Workers : s # t => pc'[s] = pc[s]
    BY <1>u, <2>a DEF TypeInv
  <2> QED
    BY <1>u, <2>b, <2>1 DEF Reading
<1>11. ASSUME NEW t \in Threads, DisconnectBuffers(t), UNCHANGED clientVars
       PROVE  Reading(u)'
  <2>a. pc' = [pc EXCEPT ![t] = pc'[t]]
    BY <1>u, <1>11 DEF DisconnectBuffers, ClearBuffers, Goto, TypeInv
  <2>b. reader' = reader /\ connected' = connected
    BY <1>11 DEF DisconnectBuffers, ClearBuffers, Goto
  <2>c. pc[t] \notin {"remove", "lremove"} /\ (pc'[t] \in Receives => pc[t] \in Receives)
    BY <1>u, <1>11 DEF DisconnectBuffers, ClearBuffers, Goto, TypeInv, Receives
  <2> QED
    BY <1>u, <2>a, <2>b, <2>c, ReadingKeep
<1>12. ASSUME NEW t \in Threads, LookupReturn(t), UNCHANGED clientVars PROVE Reading(u)'
  <2>a. pc' = [pc EXCEPT ![t] = pc'[t]]
    BY <1>u, <1>12 DEF LookupReturn, Goto, TypeInv
  <2>b. reader' = reader /\ connected' = connected
    BY <1>12 DEF LookupReturn, Goto
  <2>c. pc[t] \notin {"remove", "lremove"} /\ (pc'[t] \in Receives => pc[t] \in Receives)
    BY <1>u, <1>12 DEF LookupReturn, Goto, TypeInv, Receives
  <2> QED
    BY <1>u, <2>a, <2>b, <2>c, ReadingKeep
<1>13. ASSUME NEW t \in Threads, LookupEnd(t) PROVE Reading(u)'
  <2>a. pc' = [pc EXCEPT ![t] = pc'[t]]
    BY <1>u, <1>13 DEF LookupEnd, Failed, Goto, TypeInv
  <2>b. reader' = reader /\ connected' = connected
    BY <1>13 DEF LookupEnd, Failed, Goto
  <2>c. pc[t] \notin {"remove", "lremove"} /\ (pc'[t] \in Receives => pc[t] \in Receives)
    BY <1>u, <1>13 DEF LookupEnd, Failed, Goto, TypeInv, Receives
  <2> QED
    BY <1>u, <2>a, <2>b, <2>c, ReadingKeep
<1>14. ASSUME NEW t \in Threads, LookupThrow(t) PROVE Reading(u)'
  <2>a. pc' = [pc EXCEPT ![t] = pc'[t]]
    BY <1>u, <1>14 DEF LookupThrow, Goto, TypeInv
  <2>b. reader' = reader /\ connected' = connected
    BY <1>14 DEF LookupThrow, Goto
  <2>c. pc[t] \notin {"remove", "lremove"} /\ (pc'[t] \in Receives => pc[t] \in Receives)
    BY <1>u, <1>14 DEF LookupThrow, Goto, TypeInv, Receives
  <2> QED
    BY <1>u, <2>a, <2>b, <2>c, ReadingKeep
<1>15. ASSUME NEW t \in Threads, ConnectMaster(t) PROVE Reading(u)'
  <2>a. pc' = [pc EXCEPT ![t] = pc'[t]]
    BY <1>u, <1>15 DEF ConnectMaster, Failed, Goto, TypeInv
  <2>b. reader' = reader /\ connected' = connected
    BY <1>15 DEF ConnectMaster, Failed, Goto
  <2>c. pc[t] \notin {"remove", "lremove"} /\ (pc'[t] \in Receives => pc[t] \in Receives)
    BY <1>u, <1>15 DEF ConnectMaster, Failed, Goto, TypeInv, Receives
  <2> QED
    BY <1>u, <2>a, <2>b, <2>c, ReadingKeep
<1>16. ASSUME NEW x \in Users, NEW c \in Cmds, Send(x, c), UNCHANGED clientVars
       PROVE  Reading(u)'
  <2>1. UNCHANGED <<pc, reader, connected>>
    BY <1>16 DEF Send, send, BufferCommand, Alone
  <2> QED
    BY <2>1 DEF Reading
<1>17. ASSUME NEW x \in Users, Commit(x), UNCHANGED clientVars PROVE Reading(u)'
  <2>a. pc' = [pc EXCEPT ![x] = pc'[x]]
    BY <1>u, <1>17 DEF Commit, TryCommit, WriteBuffer, WriteFails,
                       clear_callbacks, Goto, TypeInv
  <2>b. reader' = reader /\ connected' = connected
    BY <1>17 DEF Commit, TryCommit, WriteBuffer, WriteFails, clear_callbacks, Goto
  <2>c. pc[x] \notin {"remove", "lremove"} /\ (pc'[x] \in Receives => pc[x] \in Receives)
    BY <1>u, <1>17 DEF Commit, TryCommit, WriteBuffer, WriteFails,
                       clear_callbacks, Goto, TypeInv, Receives
  <2> QED
    BY <1>u, <2>a, <2>b, <2>c, ReadingKeep
<1>18. ASSUME NEW x \in Users, SyncCommit(x), UNCHANGED clientVars PROVE Reading(u)'
  <2>a. pc' = [pc EXCEPT ![x] = pc'[x]]
    BY <1>u, <1>18 DEF SyncCommit, TryCommit, WriteBuffer, WriteFails,
                       clear_callbacks, Goto, TypeInv
  <2>b. reader' = reader /\ connected' = connected
    BY <1>18 DEF SyncCommit, TryCommit, WriteBuffer, WriteFails,
                 clear_callbacks, Goto
  <2>c. pc[x] \notin {"remove", "lremove"} /\ (pc'[x] \in Receives => pc[x] \in Receives)
    BY <1>u, <1>18 DEF SyncCommit, TryCommit, WriteBuffer, WriteFails,
                       clear_callbacks, Goto, TypeInv, Receives
  <2> QED
    BY <1>u, <2>a, <2>b, <2>c, ReadingKeep
<1>19. ASSUME NEW x \in Users, SyncTimeout(x), UNCHANGED clientVars PROVE Reading(u)'
  <2>a. pc' = [pc EXCEPT ![x] = pc'[x]]
    BY <1>u, <1>19 DEF SyncTimeout, Goto, TypeInv
  <2>b. reader' = reader /\ connected' = connected
    BY <1>19 DEF SyncTimeout, Goto
  <2>c. pc[x] \notin {"remove", "lremove"} /\ (pc'[x] \in Receives => pc[x] \in Receives)
    BY <1>u, <1>19 DEF SyncTimeout, Goto, TypeInv, Receives
  <2> QED
    BY <1>u, <2>a, <2>b, <2>c, ReadingKeep
<1>20. ASSUME NEW x \in Users, Connect(x), UNCHANGED clientVars PROVE Reading(u)'
  <2>a. pc' = [pc EXCEPT ![x] = pc'[x]]
    BY <1>u, <1>20 DEF Connect, Goto, Alone, Settled, TypeInv
  <2>b. reader' = reader /\ connected' = connected
    BY <1>20 DEF Connect, Goto, Alone, Settled
  <2>c. pc[x] \notin {"remove", "lremove"} /\ (pc'[x] \in Receives => pc[x] \in Receives)
    BY <1>u, <1>20 DEF Connect, Goto, Alone, Settled, TypeInv, Receives
  <2> QED
    BY <1>u, <2>a, <2>b, <2>c, ReadingKeep
<1>21. ASSUME NEW x \in Users, NEW wait \in BOOLEAN, Disconnect(x, wait),
              UNCHANGED clientVars
       PROVE  Reading(u)'
  <2>w. wait
    BY <1>21 DEF Disconnect, Considerate
  <2>a. pc' = [pc EXCEPT ![x] = pc'[x]]
    BY <1>u, <1>21 DEF Disconnect, TcpDisconnect, Goto, Alone, Settled, TypeInv
  <2>b. /\ pc[x] \notin {"remove", "lremove"} /\ pc'[x] \notin Receives
        /\ connected => pc'[x] = "remove"
        /\ reader' = reader
    BY <1>u, <2>w, <1>21 DEF Disconnect, TcpDisconnect, Goto, Alone, Settled,
                             TypeInv, Receives
  <2>1. \A s \in Threads : s # x => pc'[s] = pc[s]
    BY <1>u, <2>a DEF TypeInv
  <2>2. SUFFICES ASSUME NEW r \in Workers, pc'[r] \in Receives
                 PROVE  reader = r /\ \E s \in Threads : pc'[s] \in {"remove", "lremove"}
    BY <2>b DEF Reading
  <2>3. reader = r /\ (connected \/ \E s \in Threads : pc[s] \in {"remove", "lremove"})
    BY <1>u, <2>b, <2>1, <2>2 DEF Reading
  <2>4. CASE connected
    BY <1>u, <2>b, <2>3, <2>4
  <2>5. CASE ~connected
    BY <1>u, <2>b, <2>1, <2>3, <2>5
  <2> QED
    BY <2>4, <2>5
<1>22. ASSUME NEW x \in Users, get_master_addr_by_name(x), UNCHANGED clientVars
       PROVE  Reading(u)'
  <2>a. pc' = [pc EXCEPT ![x] = pc'[x]]
    BY <1>u, <1>22 DEF get_master_addr_by_name, Lookup, FirstStep, Goto, Alone,
                       Settled, TypeInv
  <2>b. reader' = reader /\ connected' = connected
    BY <1>22 DEF get_master_addr_by_name, Lookup, FirstStep, Goto, Alone, Settled
  <2>c. pc[x] \notin {"remove", "lremove"} /\ (pc'[x] \in Receives => pc[x] \in Receives)
    BY <1>u, <1>22 DEF get_master_addr_by_name, Lookup, FirstStep, Goto, Alone,
                       Settled, TypeInv, Receives
  <2> QED
    BY <1>u, <2>a, <2>b, <2>c, ReadingKeep
<1>23. ASSUME NEW x \in Users, ConnectName(x) PROVE Reading(u)'
  <2>a. pc' = [pc EXCEPT ![x] = pc'[x]]
    BY <1>u, <1>23 DEF ConnectName, Lookup, FirstStep, Goto, Alone, Settled, TypeInv
  <2>b. reader' = reader /\ connected' = connected
    BY <1>23 DEF ConnectName, Lookup, FirstStep, Goto, Alone, Settled
  <2>c. pc[x] \notin {"remove", "lremove"} /\ (pc'[x] \in Receives => pc[x] \in Receives)
    BY <1>u, <1>23 DEF ConnectName, Lookup, FirstStep, Goto, Alone, Settled,
                       TypeInv, Receives
  <2> QED
    BY <1>u, <2>a, <2>b, <2>c, ReadingKeep
<1>24. ASSUME NEW x \in Users, CancelReconnect(x) PROVE Reading(u)'
  <2>1. UNCHANGED <<pc, reader, connected>>
    BY <1>24 DEF CancelReconnect
  <2> QED
    BY <2>1 DEF Reading
<1>25. ASSUME NEW w \in Workers, ReadEvent(w), UNCHANGED clientVars PROVE Reading(u)'
  <2>1. reader = None /\ reader' = w /\ connected' = connected /\ connected
      /\ pc' = [pc EXCEPT ![w] = "loop"]
    BY <1>25 DEF ReadEvent, ReadReplies, Polled, Goto
  <2>2. \A s \in Workers : s # w => pc'[s] = pc[s]
    BY <1>u, <2>1 DEF TypeInv
  <2> QED
    BY <1>u, <2>1, <2>2 DEF Reading
<1>26. ASSUME NEW w \in Workers, TakeReply(w), UNCHANGED clientVars PROVE Reading(u)'
  <2>a. pc' = [pc EXCEPT ![w] = pc'[w]]
    BY <1>u, <1>26 DEF TakeReply, PopReply, Goto, TypeInv
  <2>b. reader' = reader /\ connected' = connected
    BY <1>26 DEF TakeReply, PopReply, Goto
  <2>c. pc[w] \notin {"remove", "lremove"} /\ (pc'[w] \in Receives => pc[w] \in Receives)
    BY <1>u, <1>26 DEF TakeReply, PopReply, Goto, TypeInv, Receives
  <2> QED
    BY <1>u, <2>a, <2>b, <2>c, ReadingKeep
<1>27. ASSUME NEW w \in Workers, ReceiveLock(w), UNCHANGED clientVars PROVE Reading(u)'
  <2>a. pc' = [pc EXCEPT ![w] = pc'[w]]
    BY <1>u, <1>27 DEF ReceiveLock, Goto, TypeInv
  <2>b. reader' = reader /\ connected' = connected
    BY <1>27 DEF ReceiveLock, Goto
  <2>c. pc[w] \notin {"remove", "lremove"} /\ (pc'[w] \in Receives => pc[w] \in Receives)
    BY <1>u, <1>27 DEF ReceiveLock, Goto, TypeInv, Receives
  <2> QED
    BY <1>u, <2>a, <2>b, <2>c, ReadingKeep
<1>28. ASSUME NEW w \in Workers, ReceiveCall(w), UNCHANGED clientVars PROVE Reading(u)'
  <2>a. pc' = [pc EXCEPT ![w] = pc'[w]]
    BY <1>u, <1>28 DEF ReceiveCall, LookupCallback, Out, Goto, TypeInv
  <2>b. reader' = reader /\ connected' = connected
    BY <1>28 DEF ReceiveCall, LookupCallback, Out, Goto
  <2>c. pc[w] \notin {"remove", "lremove"} /\ (pc'[w] \in Receives => pc[w] \in Receives)
    BY <1>u, <1>28 DEF ReceiveCall, LookupCallback, Out, Goto, TypeInv, Receives
  <2> QED
    BY <1>u, <2>a, <2>b, <2>c, ReadingKeep
<1>29. ASSUME NEW w \in Workers, ReceiveDone(w), UNCHANGED clientVars PROVE Reading(u)'
  <2>a. pc' = [pc EXCEPT ![w] = pc'[w]]
    BY <1>u, <1>29 DEF ReceiveDone, Goto, TypeInv
  <2>b. reader' = reader /\ connected' = connected
    BY <1>29 DEF ReceiveDone, Goto
  <2>c. pc[w] \notin {"remove", "lremove"} /\ (pc'[w] \in Receives => pc[w] \in Receives)
    BY <1>u, <1>29 DEF ReceiveDone, Goto, TypeInv, Receives
  <2> QED
    BY <1>u, <2>a, <2>b, <2>c, ReadingKeep
<1>30. ASSUME NEW w \in Workers, EndRead(w), UNCHANGED clientVars PROVE Reading(u)'
  <2>1. pc[w] = "loop" /\ pc' = [pc EXCEPT ![w] = "idle"]
    BY <1>30 DEF EndRead, NextRead, ReleaseFd, Goto
  <2>2. (\A s \in Workers : s # w => pc'[s] = pc[s]) /\ pc'[w] = "idle"
    BY <1>u, <2>1 DEF TypeInv
  <2> QED
    BY <1>u, <2>1, <2>2 DEF Reading, Receives
<1>31. ASSUME NEW w \in Workers, DropBuffers(w), UNCHANGED clientVars PROVE Reading(u)'
  <2>a. pc' = [pc EXCEPT ![w] = pc'[w]]
    BY <1>u, <1>31 DEF DropBuffers, ClearBuffers, Goto, TypeInv
  <2>b. reader' = reader /\ connected' = connected
    BY <1>31 DEF DropBuffers, ClearBuffers, Goto
  <2>c. pc[w] \notin {"remove", "lremove"} /\ (pc'[w] \in Receives => pc[w] \in Receives)
    BY <1>u, <1>31 DEF DropBuffers, ClearBuffers, Goto, TypeInv, Receives
  <2> QED
    BY <1>u, <2>a, <2>b, <2>c, ReadingKeep
<1>32. ASSUME NEW w \in Workers, DropClear(w), UNCHANGED clientVars PROVE Reading(u)'
  <2>a. pc' = [pc EXCEPT ![w] = pc'[w]]
    BY <1>u, <1>32 DEF DropClear, clear_callbacks, Goto, TypeInv
  <2>b. reader' = reader /\ connected' = connected
    BY <1>32 DEF DropClear, clear_callbacks, Goto
  <2>c. pc[w] \notin {"remove", "lremove"} /\ (pc'[w] \in Receives => pc[w] \in Receives)
    BY <1>u, <1>32 DEF DropClear, clear_callbacks, Goto, TypeInv, Receives
  <2> QED
    BY <1>u, <2>a, <2>b, <2>c, ReadingKeep
<1>33. ASSUME NEW w \in Workers, HandlerReturns(w), UNCHANGED clientVars
       PROVE  Reading(u)'
  <2>1. pc[w] = "ret" /\ pc' = [pc EXCEPT ![w] = "idle"] /\ connected' = connected
        /\ (reader # w => reader' = reader)
    BY <1>33 DEF HandlerReturns, HandlerReturn, ReleaseFd, Goto
  <2>2. (\A s \in Threads : s # w => pc'[s] = pc[s]) /\ pc'[w] = "idle"
    BY <1>u, <2>1 DEF TypeInv
  <2>3. SUFFICES ASSUME NEW v \in Workers, pc'[v] \in Receives
                 PROVE  reader' = v /\ (connected \/ \E s \in Threads : pc'[s] \in {"remove", "lremove"})
    BY <2>1 DEF Reading
  <2>4. v # w /\ pc'[v] = pc[v]
    BY <1>u, <2>2, <2>3 DEF Receives
  <2>5. \A s \in Threads : pc[s] \in {"remove", "lremove"}
             => pc'[s] \in {"remove", "lremove"}
    BY <2>1, <2>2
  <2> QED
    BY <2>1, <2>3, <2>4, <2>5 DEF Reading
<1>34. ASSUME NEW w \in Workers, DropEvent(w), UNCHANGED clientVars PROVE Reading(u)'
  <2>a. pc' = [pc EXCEPT ![w] = pc'[w]]
    BY <1>u, <1>34 DEF DropEvent, PeerDrop, Polled, Goto, TypeInv
  <2>b. reader = None /\ pc'[w] \notin Receives
    BY <1>u, <1>34 DEF DropEvent, PeerDrop, Polled, Goto, TypeInv, Receives
  <2>1. \A s \in Workers : s # w => pc'[s] = pc[s]
    BY <1>u, <2>a DEF TypeInv
  <2> QED
    BY <1>u, <2>b, <2>1 DEF Reading
<1>35. ASSUME NEW w \in Workers, ClientDrop(w) PROVE Reading(u)'
  <2>a. pc' = [pc EXCEPT ![w] = pc'[w]]
    BY <1>u, <1>35 DEF ClientDrop, Goto, TypeInv
  <2>b. reader' = reader /\ connected' = connected
    BY <1>35 DEF ClientDrop, Goto
  <2>c. pc[w] \notin {"remove", "lremove"} /\ (pc'[w] \in Receives => pc[w] \in Receives)
    BY <1>u, <1>35 DEF ClientDrop, Goto, TypeInv, Receives
  <2> QED
    BY <1>u, <2>a, <2>b, <2>c, ReadingKeep
<1>36. ASSUME NEW w \in Workers, Reconnect(w) PROVE Reading(u)'
  <2>a. pc' = [pc EXCEPT ![w] = pc'[w]]
    BY <1>u, <1>36 DEF Reconnect, Lookup, FirstStep, should_reconnect, Goto, TypeInv
  <2>b. reader' = reader /\ connected' = connected
    BY <1>36 DEF Reconnect, Lookup, FirstStep, should_reconnect, Goto
  <2>c. pc[w] \notin {"remove", "lremove"} /\ (pc'[w] \in Receives => pc[w] \in Receives)
    BY <1>u, <1>36 DEF Reconnect, Lookup, FirstStep, should_reconnect, Goto,
                       TypeInv, Receives
  <2> QED
    BY <1>u, <2>a, <2>b, <2>c, ReadingKeep
<1>37. ASSUME NEW w \in Workers, ReconnectEnd(w) PROVE Reading(u)'
  <2>a. pc' = [pc EXCEPT ![w] = pc'[w]]
    BY <1>u, <1>37 DEF ReconnectEnd, should_reconnect, Goto, TypeInv
  <2>b. reader' = reader /\ connected' = connected
    BY <1>37 DEF ReconnectEnd, should_reconnect, Goto
  <2>c. pc[w] \notin {"remove", "lremove"} /\ (pc'[w] \in Receives => pc[w] \in Receives)
    BY <1>u, <1>37 DEF ReconnectEnd, should_reconnect, Goto, TypeInv, Receives
  <2> QED
    BY <1>u, <2>a, <2>b, <2>c, ReadingKeep
<1>38. CASE UNCHANGED vars
  BY <1>38 DEF vars, Reading
<1> QED
  BY <1>1, <1>2, <1>3, <1>4, <1>5, <1>6, <1>7, <1>8, <1>9, <1>10, <1>11, <1>12,
     <1>13, <1>14, <1>15, <1>16, <1>17, <1>18, <1>19, <1>20, <1>21, <1>22,
     <1>23, <1>24, <1>25, <1>26, <1>27, <1>28, <1>29, <1>30, <1>31, <1>32,
     <1>33, <1>34, <1>35, <1>36, <1>37, <1>38 DEF Next, CallStep, ClientStep,
                                                  UserCall, ClientCall,
                                                  WorkerStep, HandlerStep

\* A lookup stops waiting only when its callback has been called or cleared.
LEMMA ScopeNext ==
  ASSUME NEW u, Considerate(u), TypeInv, Turns(u), Reading(u), Scope, [Next]_vars
  PROVE  Scope'
<1> USE SentinelAssumption DEF sentinelVars, connVars, queueVars, lookupVars,
                               workerVars, histVars, clientVars
<1>u. u \in Threads /\ u \notin Workers /\ Workers \subseteq Threads
      /\ Threads = {u} \cup Workers
      /\ Users \subseteq Threads /\ None \notin Threads
  BY DEF Considerate, Threads
<1>1. ASSUME NEW t \in Threads, SyncDone(t), UNCHANGED clientVars PROVE Scope'
  <2>1. m_callbacks = <<>> /\ Running = {} /\ UNCHANGED <<m_callbacks, cur>>
    BY <1>1, FS_EmptySet DEF SyncDone, AllDone, Goto, TypeInv
  <2>2. \A r \in Workers : cur[r] = None
    BY <2>1 DEF Scope, Running
  <2>3. Range(m_callbacks) = {}
    BY <2>1 DEF Range
  <2> QED
    BY <1>u, <2>1, <2>2, <2>3 DEF Scope
<1>2. ASSUME NEW t \in Threads, ConnectTcp(t), UNCHANGED clientVars PROVE Scope'
  <2>a. pc' = [pc EXCEPT ![t] = pc'[t]]
    BY <1>u, <1>2 DEF ConnectTcp, TcpConnect, Goto, AfterConnect, TypeInv
  <2>b. UNCHANGED <<cur, m_callbacks>> /\ (connected => connected')
    BY <1>2 DEF ConnectTcp, TcpConnect, Goto, AfterConnect
  <2>c. /\ pc[t] \notin {"lcommit", "lwait"}
        /\ pc[t] \in {"callback", "rdone"} => pc'[t] \in {"callback", "rdone"}
    BY <1>u, <1>2, Follows DEF ConnectTcp, TcpConnect, Goto, AfterConnect, TypeInv
  <2> QED
    BY <1>u, <2>a, <2>b, <2>c, ScopeKeep
<1>3. ASSUME NEW t \in Threads, ConnectRead(t), UNCHANGED clientVars PROVE Scope'
  <2>a. pc' = [pc EXCEPT ![t] = pc'[t]]
    BY <1>u, <1>3 DEF ConnectRead, AsyncRead, Goto, AfterConnect, TypeInv
  <2>b. UNCHANGED <<cur, m_callbacks>> /\ (connected => connected')
    BY <1>3 DEF ConnectRead, AsyncRead, Goto, AfterConnect
  <2>c. /\ pc[t] \notin {"lcommit", "lwait"}
        /\ pc[t] \in {"callback", "rdone"} => pc'[t] \in {"callback", "rdone"}
    BY <1>u, <1>3, Follows DEF ConnectRead, AsyncRead, Goto, AfterConnect, TypeInv
  <2> QED
    BY <1>u, <2>a, <2>b, <2>c, ScopeKeep
<1>4. ASSUME NEW t \in Threads, ConnectHandlers(t), UNCHANGED clientVars PROVE Scope'
  <2>a. pc' = [pc EXCEPT ![t] = pc'[t]]
    BY <1>u, <1>4 DEF ConnectHandlers, SetHandlers, Goto, AfterConnect, TypeInv
  <2>b. UNCHANGED <<cur, m_callbacks>> /\ (connected => connected')
    BY <1>4 DEF ConnectHandlers, SetHandlers, Goto, AfterConnect
  <2>c. /\ pc[t] \notin {"lcommit", "lwait"}
        /\ pc[t] \in {"callback", "rdone"} => pc'[t] \in {"callback", "rdone"}
    BY <1>u, <1>4 DEF ConnectHandlers, SetHandlers, Goto, AfterConnect, TypeInv
  <2> QED
    BY <1>u, <2>a, <2>b, <2>c, ScopeKeep
<1>5. ASSUME NEW t \in Threads, SentinelCheck(t), UNCHANGED clientVars PROVE Scope'
  <2>a. pc' = [pc EXCEPT ![t] = pc'[t]]
    BY <1>u, <1>5 DEF SentinelCheck, ClearBuffers, Goto, TypeInv
  <2>b. UNCHANGED <<cur, m_callbacks>> /\ (connected => connected')
    BY <1>5 DEF SentinelCheck, ClearBuffers, Goto
  <2>c. /\ pc[t] \notin {"lcommit", "lwait"}
        /\ pc[t] \in {"callback", "rdone"} => pc'[t] \in {"callback", "rdone"}
    BY <1>u, <1>5 DEF SentinelCheck, ClearBuffers, Goto, TypeInv
  <2> QED
    BY <1>u, <2>a, <2>b, <2>c, ScopeKeep
<1>6. ASSUME NEW t \in Threads, LookupCheck(t), UNCHANGED clientVars PROVE Scope'
  <2>a. pc' = [pc EXCEPT ![t] = pc'[t]]
    BY <1>u, <1>6 DEF LookupCheck, Goto, TypeInv
  <2>b. UNCHANGED <<cur, m_callbacks>> /\ (connected => connected')
    BY <1>6 DEF LookupCheck, Goto
  <2>c. /\ pc[t] \notin {"lcommit", "lwait"}
        /\ pc[t] \in {"callback", "rdone"} => pc'[t] \in {"callback", "rdone"}
    BY <1>u, <1>6 DEF LookupCheck, Goto, TypeInv
  <2> QED
    BY <1>u, <2>a, <2>b, <2>c, ScopeKeep
<1>7. ASSUME NEW t \in Threads, LookupAsk(t), UNCHANGED clientVars PROVE Scope'
  <2>1. pc[t] = "ask" /\ pc' = [pc EXCEPT ![t] = "lcommit"]
      /\ UNCHANGED <<cur, connected>>
        /\ m_callbacks' = Append(m_callbacks, t)
    BY <1>7 DEF LookupAsk, send, BufferCommand, Goto
  <2>2. Range(m_callbacks') = Range(m_callbacks) \cup {t}
    BY <2>1, Appended DEF TypeInv
  <2>3. (\A s \in Threads : s # t => pc'[s] = pc[s]) /\ pc'[t] = "lcommit"
    BY <2>1 DEF TypeInv
  <2>4. \A r \in Workers : cur[r] # t
    BY <2>1 DEF Scope
  <2>5. \A r \in Workers : cur[r] # None => pc'[r] \in {"callback", "rdone"}
    BY <1>u, <2>1, <2>3 DEF Scope
  <2> QED
    BY <2>1, <2>2, <2>3, <2>4, <2>5 DEF Scope
<1>8. ASSUME NEW t \in Threads, LookupCommit(t), UNCHANGED clientVars PROVE Scope'
  <2>1. /\ pc[t] = "lcommit" /\ cur' = cur /\ connected' = connected
        /\ \/ connected /\ pc' = [pc EXCEPT ![t] = "lwait"] /\ m_callbacks' = m_callbacks
           \/ ~connected /\ pc' = [pc EXCEPT ![t] = "threw"] /\ m_callbacks' = <<>>
    BY <1>8 DEF LookupCommit, TryCommit, WriteBuffer, WriteFails,
                clear_callbacks, Goto
  <2>2. \A s \in Threads : s # t => pc'[s] = pc[s]
    BY <2>1 DEF TypeInv
  <2>3. \A r \in Workers : cur[r] # None => pc'[r] \in {"callback", "rdone"}
    BY <1>u, <2>1, <2>2 DEF Scope
  <2>4. CASE connected
    <3>1. pc'[t] = "lwait" /\ m_callbacks' = m_callbacks
      BY <2>1, <2>4 DEF TypeInv
    <3> QED
      BY <2>1, <2>2, <2>3, <2>4, <3>1 DEF Scope
  <2>5. CASE ~connected
    <3>1. m_callbacks' = <<>>
      BY <2>1, <2>5
    <3>2. Range(m_callbacks') = {}
      BY <3>1 DEF Range
    <3>3. \A r \in Workers : cur[r] # t
      BY <2>1, <2>5 DEF Scope
    <3> QED
      BY <2>1, <2>2, <2>3, <2>5, <3>2, <3>3 DEF Scope
  <2> QED
    BY <2>4, <2>5
<1>9. ASSUME NEW t \in Threads, LookupDisconnect(t), UNCHANGED clientVars PROVE Scope'
  <2>a. pc' = [pc EXCEPT ![t] = pc'[t]]
    BY <1>u, <1>9 DEF LookupDisconnect, TcpDisconnect, Goto, TypeInv
  <2>1. cur' = cur /\ m_callbacks' = m_callbacks
      /\ pc[t] \notin {"lcommit", "lwait", "callback", "rdone"}
    BY <1>9 DEF LookupDisconnect, TcpDisconnect, Goto
  <2>2. \A s \in Threads : s # t => pc'[s] = pc[s]
    BY <1>u, <2>a DEF TypeInv
  <2>3. ASSUME NEW v \in Workers PROVE cur[v] \notin Threads
    <3>1. pc[t] = "lclose" /\ pc[t] \in Busy
      BY <1>9 DEF LookupDisconnect, TcpDisconnect, Goto, Busy, Looking
    <3>2. \A s \in Threads : pc[s] \in {"lcommit", "lwait"} => pc[s] \in Busy
      BY DEF Busy, Looking
    <3>3. \A s \in Threads : pc[s] \notin {"lcommit", "lwait"}
      BY <3>1, <3>2 DEF Turns
    <3> QED
      BY <3>3 DEF Scope
  <2>4. \A s \in Workers : cur[s] # None => pc'[s] \in {"callback", "rdone"}
    BY <1>u, <2>1, <2>2 DEF Scope
  <2>5. \A s \in Threads : pc[s] \in {"lcommit", "lwait"} => pc'[s] = pc[s]
    BY <2>1, <2>2
  <2> QED
    BY <2>1, <2>3, <2>4, <2>5 DEF Scope
<1>10. ASSUME NEW t \in Threads, DisconnectRemoved(t), UNCHANGED clientVars PROVE Scope'
  <2>a. pc' = [pc EXCEPT ![t] = pc'[t]]
    BY <1>u, <1>10 DEF DisconnectRemoved, Removed, Goto, TypeInv
  <2>b. UNCHANGED <<cur, m_callbacks>> /\ (connected => connected')
    BY <1>10 DEF DisconnectRemoved, Removed, Goto
  <2>c. /\ pc[t] \notin {"lcommit", "lwait"}
        /\ pc[t] \in {"callback", "rdone"} => pc'[t] \in {"callback", "rdone"}
    BY <1>u, <1>10 DEF DisconnectRemoved, Removed, Goto, TypeInv
  <2> QED
    BY <1>u, <2>a, <2>b, <2>c, ScopeKeep
<1>11. ASSUME NEW t \in Threads, DisconnectBuffers(t), UNCHANGED clientVars PROVE Scope'
  <2>a. pc' = [pc EXCEPT ![t] = pc'[t]]
    BY <1>u, <1>11 DEF DisconnectBuffers, ClearBuffers, Goto, TypeInv
  <2>b. UNCHANGED <<cur, m_callbacks>> /\ (connected => connected')
    BY <1>11 DEF DisconnectBuffers, ClearBuffers, Goto
  <2>c. /\ pc[t] \notin {"lcommit", "lwait"}
        /\ pc[t] \in {"callback", "rdone"} => pc'[t] \in {"callback", "rdone"}
    BY <1>u, <1>11 DEF DisconnectBuffers, ClearBuffers, Goto, TypeInv
  <2> QED
    BY <1>u, <2>a, <2>b, <2>c, ScopeKeep
<1>12. ASSUME NEW t \in Threads, LookupReturn(t), UNCHANGED clientVars PROVE Scope'
  <2>a. pc' = [pc EXCEPT ![t] = pc'[t]]
    BY <1>u, <1>12 DEF LookupReturn, Goto, TypeInv
  <2>b. UNCHANGED <<cur, m_callbacks>> /\ (connected => connected')
    BY <1>12 DEF LookupReturn, Goto
  <2>c. /\ pc[t] \notin {"lcommit", "lwait"}
        /\ pc[t] \in {"callback", "rdone"} => pc'[t] \in {"callback", "rdone"}
    BY <1>u, <1>12 DEF LookupReturn, Goto, TypeInv
  <2> QED
    BY <1>u, <2>a, <2>b, <2>c, ScopeKeep
<1>13. ASSUME NEW t \in Threads, LookupEnd(t) PROVE Scope'
  <2>a. pc' = [pc EXCEPT ![t] = pc'[t]]
    BY <1>u, <1>13 DEF LookupEnd, Failed, Goto, TypeInv
  <2>b. UNCHANGED <<cur, m_callbacks>> /\ (connected => connected')
    BY <1>13 DEF LookupEnd, Failed, Goto
  <2>c. /\ pc[t] \notin {"lcommit", "lwait"}
        /\ pc[t] \in {"callback", "rdone"} => pc'[t] \in {"callback", "rdone"}
    BY <1>u, <1>13 DEF LookupEnd, Failed, Goto, TypeInv
  <2> QED
    BY <1>u, <2>a, <2>b, <2>c, ScopeKeep
<1>14. ASSUME NEW t \in Threads, LookupThrow(t) PROVE Scope'
  <2>a. pc' = [pc EXCEPT ![t] = pc'[t]]
    BY <1>u, <1>14 DEF LookupThrow, Goto, TypeInv
  <2>b. UNCHANGED <<cur, m_callbacks>> /\ (connected => connected')
    BY <1>14 DEF LookupThrow, Goto
  <2>c. /\ pc[t] \notin {"lcommit", "lwait"}
        /\ pc[t] \in {"callback", "rdone"} => pc'[t] \in {"callback", "rdone"}
    BY <1>u, <1>14 DEF LookupThrow, Goto, TypeInv
  <2> QED
    BY <1>u, <2>a, <2>b, <2>c, ScopeKeep
<1>15. ASSUME NEW t \in Threads, ConnectMaster(t) PROVE Scope'
  <2>a. pc' = [pc EXCEPT ![t] = pc'[t]]
    BY <1>u, <1>15 DEF ConnectMaster, Failed, Goto, TypeInv
  <2>b. UNCHANGED <<cur, m_callbacks>> /\ (connected => connected')
    BY <1>15 DEF ConnectMaster, Failed, Goto
  <2>c. /\ pc[t] \notin {"lcommit", "lwait"}
        /\ pc[t] \in {"callback", "rdone"} => pc'[t] \in {"callback", "rdone"}
    BY <1>u, <1>15 DEF ConnectMaster, Failed, Goto, TypeInv
  <2> QED
    BY <1>u, <2>a, <2>b, <2>c, ScopeKeep
<1>16. ASSUME NEW x \in Users, NEW c \in Cmds, Send(x, c), UNCHANGED clientVars
       PROVE  Scope'
  <2>1. UNCHANGED <<pc, cur, connected>> /\ m_callbacks' = Append(m_callbacks, c)
    BY <1>16 DEF Send, send, BufferCommand, Alone
  <2>2. Range(m_callbacks') = Range(m_callbacks) \cup {c} /\ c \notin Threads
    BY <2>1, Appended DEF TypeInv
  <2> QED
    BY <2>1, <2>2 DEF Scope
<1>17. ASSUME NEW x \in Users, Commit(x), UNCHANGED clientVars PROVE Scope'
  <2>a. pc' = [pc EXCEPT ![x] = pc'[x]]
    BY <1>u, <1>17 DEF Commit, TryCommit, WriteBuffer, WriteFails,
                       clear_callbacks, Goto, TypeInv
  <2>1. cur' = cur /\ connected' = connected
      /\ pc[x] \notin {"lcommit", "lwait", "callback", "rdone"}
        /\ (m_callbacks' = m_callbacks \/ m_callbacks' = <<>>)
    BY <1>17 DEF Commit, TryCommit, WriteBuffer, WriteFails, clear_callbacks, Goto
  <2>2. \A s \in Threads : s # x => pc'[s] = pc[s]
    BY <1>u, <2>a DEF TypeInv
  <2>3. Range(m_callbacks') \subseteq Range(m_callbacks)
    BY <2>1 DEF Range
  <2>4. \A r \in Workers : cur[r] # None => pc'[r] \in {"callback", "rdone"}
    BY <1>u, <2>1, <2>2 DEF Scope
  <2>5. \A s \in Threads : pc[s] \in {"lcommit", "lwait"} => pc'[s] = pc[s]
    BY <2>1, <2>2
  <2>6. \A r \in Workers, s \in Threads : cur[r] = s
             => pc'[s] = "lwait" \/ (pc'[s] = "lcommit" /\ connected')
    BY <2>1, <2>5 DEF Scope
  <2>7. \A s \in Threads : s \in Range(m_callbacks') => pc'[s] \in {"lcommit", "lwait"}
    BY <2>3, <2>5 DEF Scope
  <2> QED
    BY <2>1, <2>4, <2>6, <2>7 DEF Scope
<1>18. ASSUME NEW x \in Users, SyncCommit(x), UNCHANGED clientVars PROVE Scope'
  <2>a. pc' = [pc EXCEPT ![x] = pc'[x]]
    BY <1>u, <1>18 DEF SyncCommit, TryCommit, WriteBuffer, WriteFails,
                       clear_callbacks, Goto, TypeInv
  <2>1. cur' = cur /\ connected' = connected
      /\ pc[x] \notin {"lcommit", "lwait", "callback", "rdone"}
        /\ (m_callbacks' = m_callbacks \/ m_callbacks' = <<>>)
    BY <1>18 DEF SyncCommit, TryCommit, WriteBuffer, WriteFails,
                 clear_callbacks, Goto
  <2>2. \A s \in Threads : s # x => pc'[s] = pc[s]
    BY <1>u, <2>a DEF TypeInv
  <2>3. Range(m_callbacks') \subseteq Range(m_callbacks)
    BY <2>1 DEF Range
  <2>4. \A r \in Workers : cur[r] # None => pc'[r] \in {"callback", "rdone"}
    BY <1>u, <2>1, <2>2 DEF Scope
  <2>5. \A s \in Threads : pc[s] \in {"lcommit", "lwait"} => pc'[s] = pc[s]
    BY <2>1, <2>2
  <2>6. \A r \in Workers, s \in Threads : cur[r] = s
             => pc'[s] = "lwait" \/ (pc'[s] = "lcommit" /\ connected')
    BY <2>1, <2>5 DEF Scope
  <2>7. \A s \in Threads : s \in Range(m_callbacks') => pc'[s] \in {"lcommit", "lwait"}
    BY <2>3, <2>5 DEF Scope
  <2> QED
    BY <2>1, <2>4, <2>6, <2>7 DEF Scope
<1>19. ASSUME NEW x \in Users, SyncTimeout(x), UNCHANGED clientVars PROVE Scope'
  <2>a. pc' = [pc EXCEPT ![x] = pc'[x]]
    BY <1>u, <1>19 DEF SyncTimeout, Goto, TypeInv
  <2>b. UNCHANGED <<cur, m_callbacks>> /\ (connected => connected')
    BY <1>19 DEF SyncTimeout, Goto
  <2>c. /\ pc[x] \notin {"lcommit", "lwait"}
        /\ pc[x] \in {"callback", "rdone"} => pc'[x] \in {"callback", "rdone"}
    BY <1>u, <1>19 DEF SyncTimeout, Goto, TypeInv
  <2> QED
    BY <1>u, <2>a, <2>b, <2>c, ScopeKeep
<1>20. ASSUME NEW x \in Users, Connect(x), UNCHANGED clientVars PROVE Scope'
  <2>a. pc' = [pc EXCEPT ![x] = pc'[x]]
    BY <1>u, <1>20 DEF Connect, Goto, Alone, Settled, TypeInv
  <2>b. UNCHANGED <<cur, m_callbacks>> /\ (connected => connected')
    BY <1>20 DEF Connect, Goto, Alone, Settled
  <2>c. /\ pc[x] \notin {"lcommit", "lwait"}
        /\ pc[x] \in {"callback", "rdone"} => pc'[x] \in {"callback", "rdone"}
    BY <1>u, <1>20 DEF Connect, Goto, Alone, Settled, TypeInv
  <2> QED
    BY <1>u, <2>a, <2>b, <2>c, ScopeKeep
<1>21. ASSUME NEW x \in Users, NEW wait \in BOOLEAN, Disconnect(x, wait), UNCHANGED clientVars PROVE Scope'
  <2>a. pc' = [pc EXCEPT ![x] = pc'[x]]
    BY <1>u, <1>21 DEF Disconnect, TcpDisconnect, Goto, Alone, Settled, TypeInv
  <2>1. cur' = cur /\ m_callbacks' = m_callbacks
      /\ pc[x] \notin {"lcommit", "lwait", "callback", "rdone"}
    BY <1>21 DEF Disconnect, TcpDisconnect, Goto, Alone, Settled
  <2>2. \A s \in Threads : s # x => pc'[s] = pc[s]
    BY <1>u, <2>a DEF TypeInv
  <2>3. ASSUME NEW v \in Workers PROVE cur[v] \notin Threads
    <3>1. \A s \in Threads : pc[s] \notin {"lcommit", "lwait"}
      BY <1>21 DEF Disconnect, TcpDisconnect, Goto, Alone, Settled, Considerate,
                   Looking
    <3> QED
      BY <3>1 DEF Scope
  <2>4. \A s \in Workers : cur[s] # None => pc'[s] \in {"callback", "rdone"}
    BY <1>u, <2>1, <2>2 DEF Scope
  <2>5. \A s \in Threads : pc[s] \in {"lcommit", "lwait"} => pc'[s] = pc[s]
    BY <2>1, <2>2
  <2> QED
    BY <2>1, <2>3, <2>4, <2>5 DEF Scope
<1>22. ASSUME NEW x \in Users, get_master_addr_by_name(x), UNCHANGED clientVars
       PROVE  Scope'
  <2>a. pc' = [pc EXCEPT ![x] = pc'[x]]
    BY <1>u, <1>22 DEF get_master_addr_by_name, Lookup, FirstStep, Goto, Alone,
                       Settled, TypeInv
  <2>b. UNCHANGED <<cur, m_callbacks>> /\ (connected => connected')
    BY <1>22 DEF get_master_addr_by_name, Lookup, FirstStep, Goto, Alone, Settled
  <2>c. /\ pc[x] \notin {"lcommit", "lwait"}
        /\ pc[x] \in {"callback", "rdone"} => pc'[x] \in {"callback", "rdone"}
    BY <1>u, <1>22 DEF get_master_addr_by_name, Lookup, FirstStep, Goto, Alone,
                       Settled, TypeInv
  <2> QED
    BY <1>u, <2>a, <2>b, <2>c, ScopeKeep
<1>23. ASSUME NEW x \in Users, ConnectName(x) PROVE Scope'
  <2>a. pc' = [pc EXCEPT ![x] = pc'[x]]
    BY <1>u, <1>23 DEF ConnectName, Lookup, FirstStep, Goto, Alone, Settled, TypeInv
  <2>b. UNCHANGED <<cur, m_callbacks>> /\ (connected => connected')
    BY <1>23 DEF ConnectName, Lookup, FirstStep, Goto, Alone, Settled
  <2>c. /\ pc[x] \notin {"lcommit", "lwait"}
        /\ pc[x] \in {"callback", "rdone"} => pc'[x] \in {"callback", "rdone"}
    BY <1>u, <1>23 DEF ConnectName, Lookup, FirstStep, Goto, Alone, Settled, TypeInv
  <2> QED
    BY <1>u, <2>a, <2>b, <2>c, ScopeKeep
<1>24. ASSUME NEW x \in Users, CancelReconnect(x) PROVE Scope'
  <2>1. UNCHANGED <<pc, cur, m_callbacks, connected>>
    BY <1>24 DEF CancelReconnect
  <2> QED
    BY <2>1 DEF Scope
<1>25. ASSUME NEW w \in Workers, ReadEvent(w), UNCHANGED clientVars PROVE Scope'
  <2>a. pc' = [pc EXCEPT ![w] = pc'[w]]
    BY <1>u, <1>25 DEF ReadEvent, ReadReplies, Polled, Goto, TypeInv
  <2>b. UNCHANGED <<cur, m_callbacks>> /\ (connected => connected')
    BY <1>25 DEF ReadEvent, ReadReplies, Polled, Goto
  <2>c. /\ pc[w] \notin {"lcommit", "lwait"}
        /\ pc[w] \in {"callback", "rdone"} => pc'[w] \in {"callback", "rdone"}
    BY <1>u, <1>25 DEF ReadEvent, ReadReplies, Polled, Goto, TypeInv
  <2> QED
    BY <1>u, <2>a, <2>b, <2>c, ScopeKeep
<1>26. ASSUME NEW w \in Workers, TakeReply(w), UNCHANGED clientVars PROVE Scope'
  <2>a. pc' = [pc EXCEPT ![w] = pc'[w]]
    BY <1>u, <1>26 DEF TakeReply, PopReply, Goto, TypeInv
  <2>b. UNCHANGED <<cur, m_callbacks>> /\ (connected => connected')
    BY <1>26 DEF TakeReply, PopReply, Goto
  <2>c. /\ pc[w] \notin {"lcommit", "lwait"}
        /\ pc[w] \in {"callback", "rdone"} => pc'[w] \in {"callback", "rdone"}
    BY <1>u, <1>26 DEF TakeReply, PopReply, Goto, TypeInv
  <2> QED
    BY <1>u, <2>a, <2>b, <2>c, ScopeKeep
<1>27. ASSUME NEW w \in Workers, ReceiveLock(w), UNCHANGED clientVars PROVE Scope'
  <2>1. pc[w] = "rlock" /\ pc' = [pc EXCEPT ![w] = "callback"] /\ connected' = connected
    BY <1>27 DEF ReceiveLock, Goto
  <2>2. (\A s \in Threads : s # w => pc'[s] = pc[s]) /\ pc'[w] = "callback"
    BY <1>u, <2>1 DEF TypeInv
  <2>3. /\ \A v \in Workers : v # w => cur'[v] = cur[v]
        /\ cur'[w] = None \/ cur'[w] \in Range(m_callbacks)
        /\ Range(m_callbacks') \subseteq Range(m_callbacks)
    <3>1. CASE m_callbacks = <<>>
      BY <1>u, <1>27, <3>1 DEF ReceiveLock, Goto, TypeInv
    <3>2. CASE m_callbacks # <<>>
      <4>1. /\ Head(m_callbacks) \in Range(m_callbacks)
            /\ Range(Tail(m_callbacks)) \subseteq Range(m_callbacks)
        BY <3>2, Popped DEF TypeInv
      <4>2. m_callbacks' = Tail(m_callbacks) /\ cur' = [cur EXCEPT ![w] = Head(m_callbacks)]
        BY <1>27, <3>2 DEF ReceiveLock, Goto
      <4> QED
        BY <1>u, <4>1, <4>2 DEF TypeInv
    <3> QED
      BY <3>1, <3>2
  <2>4. \A s \in Threads : pc[s] \in {"lcommit", "lwait"} => pc'[s] = pc[s]
    BY <2>1, <2>2
  <2>5. ASSUME NEW t \in Threads, t \in Range(m_callbacks)
        PROVE  pc'[t] = "lwait" \/ (pc'[t] = "lcommit" /\ connected')
    <3>1. pc[t] \in {"lcommit", "lwait"}
      BY <2>5 DEF Scope
    <3>2. pc[t] = "lcommit" => connected
      BY <2>1, OpenForLookup DEF Receives
    <3> QED
      BY <2>1, <2>4, <3>1, <3>2
  <2>6. \A v \in Workers : cur'[v] # None => pc'[v] \in {"callback", "rdone"}
    BY <1>u, <2>2, <2>3 DEF Scope
  <2>7. \A v \in Workers, t \in Threads : cur'[v] = t
             => pc'[t] = "lwait" \/ (pc'[t] = "lcommit" /\ connected')
    BY <1>u, <2>1, <2>3, <2>4, <2>5 DEF Scope
  <2>8. \A t \in Threads : t \in Range(m_callbacks') => pc'[t] \in {"lcommit", "lwait"}
    BY <2>3, <2>4 DEF Scope
  <2> QED
    BY <2>6, <2>7, <2>8 DEF Scope
<1>28. ASSUME NEW w \in Workers, ReceiveCall(w), UNCHANGED clientVars PROVE Scope'
  <2>a. pc' = [pc EXCEPT ![w] = pc'[w]]
    BY <1>u, <1>28 DEF ReceiveCall, LookupCallback, Out, Goto, TypeInv
  <2>b. UNCHANGED <<cur, m_callbacks>> /\ (connected => connected')
    BY <1>28 DEF ReceiveCall, LookupCallback, Out, Goto
  <2>c. /\ pc[w] \notin {"lcommit", "lwait"}
        /\ pc[w] \in {"callback", "rdone"} => pc'[w] \in {"callback", "rdone"}
    BY <1>u, <1>28 DEF ReceiveCall, LookupCallback, Out, Goto, TypeInv
  <2> QED
    BY <1>u, <2>a, <2>b, <2>c, ScopeKeep
<1>29. ASSUME NEW w \in Workers, ReceiveDone(w), UNCHANGED clientVars PROVE Scope'
  <2>1. pc[w] = "rdone" /\ pc' = [pc EXCEPT ![w] = "loop"] /\ connected' = connected
      /\ m_callbacks' = m_callbacks
        /\ cur' = [cur EXCEPT ![w] = None]
    BY <1>29 DEF ReceiveDone, Goto
  <2>2. \A s \in Threads : s # w => pc'[s] = pc[s]
    BY <1>u, <2>1 DEF TypeInv
  <2>3. (\A v \in Workers : v # w => cur'[v] = cur[v]) /\ cur'[w] = None
    BY <2>1 DEF TypeInv
  <2>4. \A s \in Threads : pc[s] \in {"lcommit", "lwait"} => pc'[s] = pc[s]
    BY <2>1, <2>2
  <2>5. \A v \in Workers : cur'[v] # None => pc'[v] \in {"callback", "rdone"}
    BY <1>u, <2>2, <2>3 DEF Scope
  <2>6. \A v \in Workers, t \in Threads : cur'[v] = t
             => pc'[t] = "lwait" \/ (pc'[t] = "lcommit" /\ connected')
    BY <1>u, <2>1, <2>3, <2>4 DEF Scope
  <2>7. \A t \in Threads : t \in Range(m_callbacks') => pc'[t] \in {"lcommit", "lwait"}
    BY <2>1, <2>4 DEF Scope
  <2> QED
    BY <2>5, <2>6, <2>7 DEF Scope
<1>30. ASSUME NEW w \in Workers, EndRead(w), UNCHANGED clientVars PROVE Scope'
  <2>a. pc' = [pc EXCEPT ![w] = pc'[w]]
    BY <1>u, <1>30 DEF EndRead, NextRead, ReleaseFd, Goto, TypeInv
  <2>b. UNCHANGED <<cur, m_callbacks>> /\ (connected => connected')
    BY <1>30 DEF EndRead, NextRead, ReleaseFd, Goto
  <2>c. /\ pc[w] \notin {"lcommit", "lwait"}
        /\ pc[w] \in {"callback", "rdone"} => pc'[w] \in {"callback", "rdone"}
    BY <1>u, <1>30 DEF EndRead, NextRead, ReleaseFd, Goto, TypeInv
  <2> QED
    BY <1>u, <2>a, <2>b, <2>c, ScopeKeep
<1>31. ASSUME NEW w \in Workers, DropBuffers(w), UNCHANGED clientVars PROVE Scope'
  <2>a. pc' = [pc EXCEPT ![w] = pc'[w]]
    BY <1>u, <1>31 DEF DropBuffers, ClearBuffers, Goto, TypeInv
  <2>b. UNCHANGED <<cur, m_callbacks>> /\ (connected => connected')
    BY <1>31 DEF DropBuffers, ClearBuffers, Goto
  <2>c. /\ pc[w] \notin {"lcommit", "lwait"}
        /\ pc[w] \in {"callback", "rdone"} => pc'[w] \in {"callback", "rdone"}
    BY <1>u, <1>31 DEF DropBuffers, ClearBuffers, Goto, TypeInv
  <2> QED
    BY <1>u, <2>a, <2>b, <2>c, ScopeKeep
<1>32. ASSUME NEW w \in Workers, DropClear(w), UNCHANGED clientVars PROVE Scope'
  <2>a. pc' = [pc EXCEPT ![w] = pc'[w]]
    BY <1>u, <1>32 DEF DropClear, clear_callbacks, Goto, TypeInv
  <2>1. cur' = cur /\ connected' = connected
      /\ pc[w] \notin {"lcommit", "lwait", "callback", "rdone"}
        /\ (m_callbacks' = m_callbacks \/ m_callbacks' = <<>>)
    BY <1>32 DEF DropClear, clear_callbacks, Goto
  <2>2. \A s \in Threads : s # w => pc'[s] = pc[s]
    BY <1>u, <2>a DEF TypeInv
  <2>3. Range(m_callbacks') \subseteq Range(m_callbacks)
    BY <2>1 DEF Range
  <2>4. \A r \in Workers : cur[r] # None => pc'[r] \in {"callback", "rdone"}
    BY <1>u, <2>1, <2>2 DEF Scope
  <2>5. \A s \in Threads : pc[s] \in {"lcommit", "lwait"} => pc'[s] = pc[s]
    BY <2>1, <2>2
  <2>6. \A r \in Workers, s \in Threads : cur[r] = s
             => pc'[s] = "lwait" \/ (pc'[s] = "lcommit" /\ connected')
    BY <2>1, <2>5 DEF Scope
  <2>7. \A s \in Threads : s \in Range(m_callbacks') => pc'[s] \in {"lcommit", "lwait"}
    BY <2>3, <2>5 DEF Scope
  <2> QED
    BY <2>1, <2>4, <2>6, <2>7 DEF Scope
<1>33. ASSUME NEW w \in Workers, HandlerReturns(w), UNCHANGED clientVars PROVE Scope'
  <2>a. pc' = [pc EXCEPT ![w] = pc'[w]]
    BY <1>u, <1>33 DEF HandlerReturns, HandlerReturn, ReleaseFd, Goto, TypeInv
  <2>b. UNCHANGED <<cur, m_callbacks>> /\ (connected => connected')
    BY <1>33 DEF HandlerReturns, HandlerReturn, ReleaseFd, Goto
  <2>c. /\ pc[w] \notin {"lcommit", "lwait"}
        /\ pc[w] \in {"callback", "rdone"} => pc'[w] \in {"callback", "rdone"}
    BY <1>u, <1>33 DEF HandlerReturns, HandlerReturn, ReleaseFd, Goto, TypeInv
  <2> QED
    BY <1>u, <2>a, <2>b, <2>c, ScopeKeep
<1>34. ASSUME NEW w \in Workers, DropEvent(w), UNCHANGED clientVars PROVE Scope'
  <2>a. pc' = [pc EXCEPT ![w] = pc'[w]]
    BY <1>u, <1>34 DEF DropEvent, PeerDrop, Polled, Goto, TypeInv
  <2>1. cur' = cur /\ m_callbacks' = m_callbacks
      /\ pc[w] \notin {"lcommit", "lwait", "callback", "rdone"}
    BY <1>34 DEF DropEvent, PeerDrop, Polled, Goto
  <2>2. \A s \in Threads : s # w => pc'[s] = pc[s]
    BY <1>u, <2>a DEF TypeInv
  <2>3. ASSUME NEW v \in Workers PROVE cur[v] \notin Threads
    <3>1. reader = None
      BY <1>34 DEF DropEvent, PeerDrop, Polled, Goto
    <3>2. pc[v] \notin Receives
      BY <1>u, <3>1 DEF Reading
    <3> QED
      BY <1>u, <3>2 DEF Scope, Receives
  <2>4. \A s \in Workers : cur[s] # None => pc'[s] \in {"callback", "rdone"}
    BY <1>u, <2>1, <2>2 DEF Scope
  <2>5. \A s \in Threads : pc[s] \in {"lcommit", "lwait"} => pc'[s] = pc[s]
    BY <2>1, <2>2
  <2> QED
    BY <2>1, <2>3, <2>4, <2>5 DEF Scope
<1>35. ASSUME NEW w \in Workers, ClientDrop(w) PROVE Scope'
  <2>a. pc' = [pc EXCEPT ![w] = pc'[w]]
    BY <1>u, <1>35 DEF ClientDrop, Goto, TypeInv
  <2>b. UNCHANGED <<cur, m_callbacks>> /\ (connected => connected')
    BY <1>35 DEF ClientDrop, Goto
  <2>c. /\ pc[w] \notin {"lcommit", "lwait"}
        /\ pc[w] \in {"callback", "rdone"} => pc'[w] \in {"callback", "rdone"}
    BY <1>u, <1>35 DEF ClientDrop, Goto, TypeInv
  <2> QED
    BY <1>u, <2>a, <2>b, <2>c, ScopeKeep
<1>36. ASSUME NEW w \in Workers, Reconnect(w) PROVE Scope'
  <2>a. pc' = [pc EXCEPT ![w] = pc'[w]]
    BY <1>u, <1>36 DEF Reconnect, Lookup, FirstStep, should_reconnect, Goto, TypeInv
  <2>b. UNCHANGED <<cur, m_callbacks>> /\ (connected => connected')
    BY <1>36 DEF Reconnect, Lookup, FirstStep, should_reconnect, Goto
  <2>c. /\ pc[w] \notin {"lcommit", "lwait"}
        /\ pc[w] \in {"callback", "rdone"} => pc'[w] \in {"callback", "rdone"}
    BY <1>u, <1>36 DEF Reconnect, Lookup, FirstStep, should_reconnect, Goto, TypeInv
  <2> QED
    BY <1>u, <2>a, <2>b, <2>c, ScopeKeep
<1>37. ASSUME NEW w \in Workers, ReconnectEnd(w) PROVE Scope'
  <2>a. pc' = [pc EXCEPT ![w] = pc'[w]]
    BY <1>u, <1>37 DEF ReconnectEnd, should_reconnect, Goto, TypeInv
  <2>b. UNCHANGED <<cur, m_callbacks>> /\ (connected => connected')
    BY <1>37 DEF ReconnectEnd, should_reconnect, Goto
  <2>c. /\ pc[w] \notin {"lcommit", "lwait"}
        /\ pc[w] \in {"callback", "rdone"} => pc'[w] \in {"callback", "rdone"}
    BY <1>u, <1>37 DEF ReconnectEnd, should_reconnect, Goto, TypeInv
  <2> QED
    BY <1>u, <2>a, <2>b, <2>c, ScopeKeep
<1>38. CASE UNCHANGED vars
  BY <1>38 DEF vars, Scope
<1> QED
  BY <1>1, <1>2, <1>3, <1>4, <1>5, <1>6, <1>7, <1>8, <1>9, <1>10, <1>11, <1>12,
     <1>13, <1>14, <1>15, <1>16, <1>17, <1>18, <1>19, <1>20, <1>21, <1>22,
     <1>23, <1>24, <1>25, <1>26, <1>27, <1>28, <1>29, <1>30, <1>31, <1>32,
     <1>33, <1>34, <1>35, <1>36, <1>37, <1>38 DEF Next, CallStep, ClientStep,
                                                  UserCall, ClientCall,
                                                  WorkerStep, HandlerStep

\* A lookup clears the port first, and goes on only with one it has been given.
LEMMA FoundNext ==
  ASSUME NEW u, Considerate(u), TypeInv, Turns(u), Scope, Found, [Next]_vars
  PROVE  Found'
<1> USE SentinelAssumption DEF sentinelVars, connVars, queueVars, lookupVars,
                               workerVars, histVars, clientVars
<1>u. u \in Threads /\ u \notin Workers /\ Workers \subseteq Threads
      /\ Threads = {u} \cup Workers
      /\ Users \subseteq Threads /\ None \notin Threads
  BY DEF Considerate, Threads
<1>1. ASSUME NEW t \in Threads, SyncDone(t), UNCHANGED clientVars PROVE Found'
  <2>a. pc' = [pc EXCEPT ![t] = pc'[t]]
    BY <1>u, <1>1 DEF SyncDone, AllDone, Goto, TypeInv
  <2>b. UNCHANGED <<mode, port, answered>>
    BY <1>1 DEF SyncDone, AllDone, Goto
  <2>c. /\ pc'[t] # "connect"
        /\ pc'[t] \in Looking \cup {"lret", "connect"}
            => pc[t] \in Looking \cup {"lret", "connect"}
    BY <1>u, <1>1 DEF SyncDone, AllDone, Goto, TypeInv, Looking
  <2> QED
    BY <1>u, <2>a, <2>b, <2>c, FoundKeep
<1>2. ASSUME NEW t \in Threads, ConnectTcp(t), UNCHANGED clientVars PROVE Found'
  <2>a. pc' = [pc EXCEPT ![t] = pc'[t]]
    BY <1>u, <1>2 DEF ConnectTcp, TcpConnect, Goto, AfterConnect, TypeInv
  <2>b. UNCHANGED <<mode, port, answered>>
    BY <1>2 DEF ConnectTcp, TcpConnect, Goto, AfterConnect
  <2>c. /\ pc'[t] # "connect"
        /\ pc'[t] \in Looking \cup {"lret", "connect"}
            => pc[t] \in Looking \cup {"lret", "connect"}
    BY <1>u, <1>2, Follows DEF ConnectTcp, TcpConnect, Goto, AfterConnect,
                               TypeInv, Looking
  <2> QED
    BY <1>u, <2>a, <2>b, <2>c, FoundKeep
<1>3. ASSUME NEW t \in Threads, ConnectRead(t), UNCHANGED clientVars PROVE Found'
  <2>a. pc' = [pc EXCEPT ![t] = pc'[t]]
    BY <1>u, <1>3 DEF ConnectRead, AsyncRead, Goto, AfterConnect, TypeInv
  <2>b. UNCHANGED <<mode, port, answered>>
    BY <1>3 DEF ConnectRead, AsyncRead, Goto, AfterConnect
  <2>c. /\ pc'[t] # "connect"
        /\ pc'[t] \in Looking \cup {"lret", "connect"}
            => pc[t] \in Looking \cup {"lret", "connect"}
    BY <1>u, <1>3, Follows DEF ConnectRead, AsyncRead, Goto, AfterConnect,
                               TypeInv, Looking
  <2> QED
    BY <1>u, <2>a, <2>b, <2>c, FoundKeep
<1>4. ASSUME NEW t \in Threads, ConnectHandlers(t), UNCHANGED clientVars PROVE Found'
  <2>a. pc' = [pc EXCEPT ![t] = pc'[t]]
    BY <1>u, <1>4 DEF ConnectHandlers, SetHandlers, Goto, AfterConnect, TypeInv
  <2>b. UNCHANGED <<mode, port, answered>>
    BY <1>4 DEF ConnectHandlers, SetHandlers, Goto, AfterConnect
  <2>c. /\ pc'[t] # "connect"
        /\ pc'[t] \in Looking \cup {"lret", "connect"}
            => pc[t] \in Looking \cup {"lret", "connect"}
    BY <1>u, <1>4 DEF ConnectHandlers, SetHandlers, Goto, AfterConnect, TypeInv,
                      Looking
  <2> QED
    BY <1>u, <2>a, <2>b, <2>c, FoundKeep
<1>5. ASSUME NEW t \in Threads, SentinelCheck(t), UNCHANGED clientVars PROVE Found'
  <2>a. pc' = [pc EXCEPT ![t] = pc'[t]]
    BY <1>u, <1>5 DEF SentinelCheck, ClearBuffers, Goto, TypeInv
  <2>b. UNCHANGED <<mode, port, answered>>
    BY <1>5 DEF SentinelCheck, ClearBuffers, Goto
  <2>c. /\ pc'[t] # "connect"
        /\ pc'[t] \in Looking \cup {"lret", "connect"}
            => pc[t] \in Looking \cup {"lret", "connect"}
    BY <1>u, <1>5 DEF SentinelCheck, ClearBuffers, Goto, TypeInv, Looking
  <2> QED
    BY <1>u, <2>a, <2>b, <2>c, FoundKeep
<1>6. ASSUME NEW t \in Threads, LookupCheck(t), UNCHANGED clientVars PROVE Found'
  <2>a. pc' = [pc EXCEPT ![t] = pc'[t]]
    BY <1>u, <1>6 DEF LookupCheck, Goto, TypeInv
  <2>b. UNCHANGED <<mode, port, answered>>
    BY <1>6 DEF LookupCheck, Goto
  <2>c. /\ pc'[t] # "connect"
        /\ pc'[t] \in Looking \cup {"lret", "connect"}
            => pc[t] \in Looking \cup {"lret", "connect"}
    BY <1>u, <1>6 DEF LookupCheck, Goto, TypeInv, Looking
  <2> QED
    BY <1>u, <2>a, <2>b, <2>c, FoundKeep
<1>7. ASSUME NEW t \in Threads, LookupAsk(t), UNCHANGED clientVars PROVE Found'
  <2>a. pc' = [pc EXCEPT ![t] = pc'[t]]
    BY <1>u, <1>7 DEF LookupAsk, send, BufferCommand, Goto, TypeInv
  <2>b. UNCHANGED <<mode, port, answered>>
    BY <1>7 DEF LookupAsk, send, BufferCommand, Goto
  <2>c. /\ pc'[t] # "connect"
        /\ pc'[t] \in Looking \cup {"lret", "connect"}
            => pc[t] \in Looking \cup {"lret", "connect"}
    BY <1>u, <1>7 DEF LookupAsk, send, BufferCommand, Goto, TypeInv, Looking
  <2> QED
    BY <1>u, <2>a, <2>b, <2>c, FoundKeep
<1>8. ASSUME NEW t \in Threads, LookupCommit(t), UNCHANGED clientVars PROVE Found'
  <2>a. pc' = [pc EXCEPT ![t] = pc'[t]]
    BY <1>u, <1>8 DEF LookupCommit, TryCommit, WriteBuffer, WriteFails,
                      clear_callbacks, Goto, TypeInv
  <2>b. UNCHANGED <<mode, port, answered>>
    BY <1>8 DEF LookupCommit, TryCommit, WriteBuffer, WriteFails,
                clear_callbacks, Goto
  <2>c. /\ pc'[t] # "connect"
        /\ pc'[t] \in Looking \cup {"lret", "connect"}
            => pc[t] \in Looking \cup {"lret", "connect"}
    BY <1>u, <1>8 DEF LookupCommit, TryCommit, WriteBuffer, WriteFails,
                      clear_callbacks, Goto, TypeInv, Looking
  <2> QED
    BY <1>u, <2>a, <2>b, <2>c, FoundKeep
<1>9. ASSUME NEW t \in Threads, LookupDisconnect(t), UNCHANGED clientVars PROVE Found'
  <2>a. pc' = [pc EXCEPT ![t] = pc'[t]]
    BY <1>u, <1>9 DEF LookupDisconnect, TcpDisconnect, Goto, TypeInv
  <2>b. UNCHANGED <<mode, port, answered>>
    BY <1>9 DEF LookupDisconnect, TcpDisconnect, Goto
  <2>c. /\ pc'[t] # "connect"
        /\ pc'[t] \in Looking \cup {"lret", "connect"}
            => pc[t] \in Looking \cup {"lret", "connect"}
    BY <1>u, <1>9 DEF LookupDisconnect, TcpDisconnect, Goto, TypeInv, Looking
  <2> QED
    BY <1>u, <2>a, <2>b, <2>c, FoundKeep
<1>10. ASSUME NEW t \in Threads, DisconnectRemoved(t), UNCHANGED clientVars PROVE Found'
  <2>a. pc' = [pc EXCEPT ![t] = pc'[t]]
    BY <1>u, <1>10 DEF DisconnectRemoved, Removed, Goto, TypeInv
  <2>b. UNCHANGED <<mode, port, answered>>
    BY <1>10 DEF DisconnectRemoved, Removed, Goto
  <2>c. /\ pc'[t] # "connect"
        /\ pc'[t] \in Looking \cup {"lret", "connect"}
            => pc[t] \in Looking \cup {"lret", "connect"}
    BY <1>u, <1>10 DEF DisconnectRemoved, Removed, Goto, TypeInv, Looking
  <2> QED
    BY <1>u, <2>a, <2>b, <2>c, FoundKeep
<1>11. ASSUME NEW t \in Threads, DisconnectBuffers(t), UNCHANGED clientVars PROVE Found'
  <2>a. pc' = [pc EXCEPT ![t] = pc'[t]]
    BY <1>u, <1>11 DEF DisconnectBuffers, ClearBuffers, Goto, TypeInv
  <2>b. UNCHANGED <<mode, port, answered>>
    BY <1>11 DEF DisconnectBuffers, ClearBuffers, Goto
  <2>c. /\ pc'[t] # "connect"
        /\ pc'[t] \in Looking \cup {"lret", "connect"}
            => pc[t] \in Looking \cup {"lret", "connect"}
    BY <1>u, <1>11 DEF DisconnectBuffers, ClearBuffers, Goto, TypeInv, Looking
  <2> QED
    BY <1>u, <2>a, <2>b, <2>c, FoundKeep
<1>12. ASSUME NEW t \in Threads, LookupReturn(t), UNCHANGED clientVars PROVE Found'
  <2>a. pc' = [pc EXCEPT ![t] = pc'[t]]
    BY <1>u, <1>12 DEF LookupReturn, Goto, TypeInv
  <2>b. UNCHANGED <<mode, port, answered>>
    BY <1>12 DEF LookupReturn, Goto
  <2>c. /\ pc'[t] # "connect"
        /\ pc'[t] \in Looking \cup {"lret", "connect"}
            => pc[t] \in Looking \cup {"lret", "connect"}
    BY <1>u, <1>12 DEF LookupReturn, Goto, TypeInv, Looking
  <2> QED
    BY <1>u, <2>a, <2>b, <2>c, FoundKeep
<1>13. ASSUME NEW t \in Threads, LookupEnd(t) PROVE Found'
  <2>a. pc' = [pc EXCEPT ![t] = pc'[t]]
    BY <1>u, <1>13 DEF LookupEnd, Failed, Goto, TypeInv
  <2>1. pc[t] = "lret" /\ mode[t] = "client" /\ (pc'[t] = "connect" => port[None] # 0)
      /\ pc'[t] \notin Looking \cup {"lret"}
        /\ UNCHANGED <<mode, port, answered>>
    BY <1>u, <1>13 DEF LookupEnd, Failed, Goto, TypeInv, Looking
  <2>2. \A s \in Threads : s # t => pc'[s] = pc[s]
    BY <2>a DEF TypeInv
  <2> QED
    BY <2>1, <2>2 DEF Found
<1>14. ASSUME NEW t \in Threads, LookupThrow(t) PROVE Found'
  <2>a. pc' = [pc EXCEPT ![t] = pc'[t]]
    BY <1>u, <1>14 DEF LookupThrow, Goto, TypeInv
  <2>b. UNCHANGED <<mode, port, answered>>
    BY <1>14 DEF LookupThrow, Goto
  <2>c. /\ pc'[t] # "connect"
        /\ pc'[t] \in Looking \cup {"lret", "connect"}
            => pc[t] \in Looking \cup {"lret", "connect"}
    BY <1>u, <1>14 DEF LookupThrow, Goto, TypeInv, Looking
  <2> QED
    BY <1>u, <2>a, <2>b, <2>c, FoundKeep
<1>15. ASSUME NEW t \in Threads, ConnectMaster(t) PROVE Found'
  <2>a. pc' = [pc EXCEPT ![t] = pc'[t]]
    BY <1>u, <1>15 DEF ConnectMaster, Failed, Goto, TypeInv
  <2>b. UNCHANGED <<mode, port, answered>>
    BY <1>15 DEF ConnectMaster, Failed, Goto
  <2>c. /\ pc'[t] # "connect"
        /\ pc'[t] \in Looking \cup {"lret", "connect"}
            => pc[t] \in Looking \cup {"lret", "connect"}
    BY <1>u, <1>15 DEF ConnectMaster, Failed, Goto, TypeInv, Looking
  <2> QED
    BY <1>u, <2>a, <2>b, <2>c, FoundKeep
<1>16. ASSUME NEW x \in Users, NEW c \in Cmds, Send(x, c), UNCHANGED clientVars
       PROVE  Found'
  <2>1. UNCHANGED <<pc, mode, port, answered>>
    BY <1>16 DEF Send, send, BufferCommand, Alone
  <2> QED
    BY <2>1 DEF Found
<1>17. ASSUME NEW x \in Users, Commit(x), UNCHANGED clientVars PROVE Found'
  <2>a. pc' = [pc EXCEPT ![x] = pc'[x]]
    BY <1>u, <1>17 DEF Commit, TryCommit, WriteBuffer, WriteFails,
                       clear_callbacks, Goto, TypeInv
  <2>b. UNCHANGED <<mode, port, answered>>
    BY <1>17 DEF Commit, TryCommit, WriteBuffer, WriteFails, clear_callbacks, Goto
  <2>c. /\ pc'[x] # "connect"
        /\ pc'[x] \in Looking \cup {"lret", "connect"}
            => pc[x] \in Looking \cup {"lret", "connect"}
    BY <1>u, <1>17 DEF Commit, TryCommit, WriteBuffer, WriteFails,
                       clear_callbacks, Goto, TypeInv, Looking
  <2> QED
    BY <1>u, <2>a, <2>b, <2>c, FoundKeep
<1>18. ASSUME NEW x \in Users, SyncCommit(x), UNCHANGED clientVars PROVE Found'
  <2>a. pc' = [pc EXCEPT ![x] = pc'[x]]
    BY <1>u, <1>18 DEF SyncCommit, TryCommit, WriteBuffer, WriteFails,
                       clear_callbacks, Goto, TypeInv
  <2>b. UNCHANGED <<mode, port, answered>>
    BY <1>18 DEF SyncCommit, TryCommit, WriteBuffer, WriteFails,
                 clear_callbacks, Goto
  <2>c. /\ pc'[x] # "connect"
        /\ pc'[x] \in Looking \cup {"lret", "connect"}
            => pc[x] \in Looking \cup {"lret", "connect"}
    BY <1>u, <1>18 DEF SyncCommit, TryCommit, WriteBuffer, WriteFails,
                       clear_callbacks, Goto, TypeInv, Looking
  <2> QED
    BY <1>u, <2>a, <2>b, <2>c, FoundKeep
<1>19. ASSUME NEW x \in Users, SyncTimeout(x), UNCHANGED clientVars PROVE Found'
  <2>a. pc' = [pc EXCEPT ![x] = pc'[x]]
    BY <1>u, <1>19 DEF SyncTimeout, Goto, TypeInv
  <2>b. UNCHANGED <<mode, port, answered>>
    BY <1>19 DEF SyncTimeout, Goto
  <2>c. /\ pc'[x] # "connect"
        /\ pc'[x] \in Looking \cup {"lret", "connect"}
            => pc[x] \in Looking \cup {"lret", "connect"}
    BY <1>u, <1>19 DEF SyncTimeout, Goto, TypeInv, Looking
  <2> QED
    BY <1>u, <2>a, <2>b, <2>c, FoundKeep
<1>20. ASSUME NEW x \in Users, Connect(x), UNCHANGED clientVars PROVE Found'
  <2>a. pc' = [pc EXCEPT ![x] = pc'[x]]
    BY <1>u, <1>20 DEF Connect, Goto, Alone, Settled, TypeInv
  <2>b. UNCHANGED <<mode, port, answered>>
    BY <1>20 DEF Connect, Goto, Alone, Settled
  <2>c. /\ pc'[x] # "connect"
        /\ pc'[x] \in Looking \cup {"lret", "connect"}
            => pc[x] \in Looking \cup {"lret", "connect"}
    BY <1>u, <1>20 DEF Connect, Goto, Alone, Settled, TypeInv, Looking
  <2> QED
    BY <1>u, <2>a, <2>b, <2>c, FoundKeep
<1>21. ASSUME NEW x \in Users, NEW wait \in BOOLEAN, Disconnect(x, wait), UNCHANGED clientVars PROVE Found'
  <2>a. pc' = [pc EXCEPT ![x] = pc'[x]]
    BY <1>u, <1>21 DEF Disconnect, TcpDisconnect, Goto, Alone, Settled, TypeInv
  <2>b. UNCHANGED <<mode, port, answered>>
    BY <1>21 DEF Disconnect, TcpDisconnect, Goto, Alone, Settled
  <2>c. /\ pc'[x] # "connect"
        /\ pc'[x] \in Looking \cup {"lret", "connect"}
            => pc[x] \in Looking \cup {"lret", "connect"}
    BY <1>u, <1>21 DEF Disconnect, TcpDisconnect, Goto, Alone, Settled, TypeInv,
                       Looking
  <2> QED
    BY <1>u, <2>a, <2>b, <2>c, FoundKeep
<1>22. ASSUME NEW x \in Users, get_master_addr_by_name(x), UNCHANGED clientVars
       PROVE  Found'
  <2>1. x = u /\ pc' = [pc EXCEPT ![u] = pc'[u]]
      /\ mode' = [mode EXCEPT ![u] = mode'[u]]
        /\ mode'[u] # "client" /\ pc'[u] # "connect" /\ port'[None] = port[None]
        /\ answered' = [answered EXCEPT ![u] = FALSE]
    BY <1>u, <1>22 DEF get_master_addr_by_name, Lookup, FirstStep, Goto, Alone,
                       Settled, TypeInv, Considerate
  <2>2. \A s \in Threads : s # u
             => pc'[s] = pc[s] /\ mode'[s] = mode[s] /\ answered'[s] = answered[s]
    BY <2>1 DEF TypeInv
  <2> QED
    BY <1>u, <2>1, <2>2 DEF Found
<1>23. ASSUME NEW x \in Users, ConnectName(x) PROVE Found'
  <2>1. x = u /\ pc' = [pc EXCEPT ![u] = pc'[u]] /\ pc'[u] # "connect"
      /\ port'[None] = 0
    BY <1>u, <1>23 DEF ConnectName, Lookup, FirstStep, Goto, Alone, Settled,
                       TypeInv, Considerate
  <2>2. \A s \in Threads : pc[s] # "connect"
    BY <1>23 DEF ConnectName, Lookup, FirstStep, Goto, Alone, Settled, Considerate
  <2>3. \A s \in Threads : pc'[s] # "connect"
    BY <2>1, <2>2 DEF TypeInv
  <2> QED
    BY <2>1, <2>3 DEF Found
<1>24. ASSUME NEW x \in Users, CancelReconnect(x) PROVE Found'
  <2>1. UNCHANGED <<pc, mode, port, answered>>
    BY <1>24 DEF CancelReconnect
  <2> QED
    BY <2>1 DEF Found
<1>25. ASSUME NEW w \in Workers, ReadEvent(w), UNCHANGED clientVars PROVE Found'
  <2>a. pc' = [pc EXCEPT ![w] = pc'[w]]
    BY <1>u, <1>25 DEF ReadEvent, ReadReplies, Polled, Goto, TypeInv
  <2>b. UNCHANGED <<mode, port, answered>>
    BY <1>25 DEF ReadEvent, ReadReplies, Polled, Goto
  <2>c. /\ pc'[w] # "connect"
        /\ pc'[w] \in Looking \cup {"lret", "connect"}
            => pc[w] \in Looking \cup {"lret", "connect"}
    BY <1>u, <1>25 DEF ReadEvent, ReadReplies, Polled, Goto, TypeInv, Looking
  <2> QED
    BY <1>u, <2>a, <2>b, <2>c, FoundKeep
<1>26. ASSUME NEW w \in Workers, TakeReply(w), UNCHANGED clientVars PROVE Found'
  <2>a. pc' = [pc EXCEPT ![w] = pc'[w]]
    BY <1>u, <1>26 DEF TakeReply, PopReply, Goto, TypeInv
  <2>b. UNCHANGED <<mode, port, answered>>
    BY <1>26 DEF TakeReply, PopReply, Goto
  <2>c. /\ pc'[w] # "connect"
        /\ pc'[w] \in Looking \cup {"lret", "connect"}
            => pc[w] \in Looking \cup {"lret", "connect"}
    BY <1>u, <1>26 DEF TakeReply, PopReply, Goto, TypeInv, Looking
  <2> QED
    BY <1>u, <2>a, <2>b, <2>c, FoundKeep
<1>27. ASSUME NEW w \in Workers, ReceiveLock(w), UNCHANGED clientVars PROVE Found'
  <2>a. pc' = [pc EXCEPT ![w] = pc'[w]]
    BY <1>u, <1>27 DEF ReceiveLock, Goto, TypeInv
  <2>b. UNCHANGED <<mode, port, answered>>
    BY <1>27 DEF ReceiveLock, Goto
  <2>c. /\ pc'[w] # "connect"
        /\ pc'[w] \in Looking \cup {"lret", "connect"}
            => pc[w] \in Looking \cup {"lret", "connect"}
    BY <1>u, <1>27 DEF ReceiveLock, Goto, TypeInv, Looking
  <2> QED
    BY <1>u, <2>a, <2>b, <2>c, FoundKeep
<1>28. ASSUME NEW w \in Workers, ReceiveCall(w), UNCHANGED clientVars PROVE Found'
  <2>1. pc' = [pc EXCEPT ![w] = "rdone"] /\ mode' = mode
    BY <1>28 DEF ReceiveCall, LookupCallback, Out, Goto
  <2>2. (\A s \in Threads : s # w => pc'[s] = pc[s]) /\ pc'[w] = "rdone"
    BY <1>u, <2>1 DEF TypeInv
  <2>3. \A s \in Threads : pc'[s] \in Looking \cup {"lret", "connect"} => pc'[s] = pc[s]
    BY <2>2 DEF Looking
  <2>4. CASE UNCHANGED <<port, answered>>
    BY <2>1, <2>3, <2>4 DEF Found
  <2>5. CASE cur[w] \in Threads /\ port' = [port EXCEPT ![Out(cur[w])] = 1]
      /\ answered' = [answered EXCEPT ![cur[w]] = TRUE]
    <3> DEFINE c == cur[w]
    <3>1. c \in Threads /\ pc[c] \in {"lcommit", "lwait"}
      BY <2>5 DEF Scope
    <3>2. pc[c] \in Busy
      BY <3>1 DEF Busy, Looking
    <3>3. answered'[c] /\ \A s \in Threads : s # c => answered'[s] = answered[s]
      BY <2>5 DEF TypeInv
    <3>4. IF mode[c] = "client" THEN port'[None] = 1 ELSE port'[None] = port[None]
      BY <1>u, <2>5 DEF Out, TypeInv
    <3>5. \A s \in Threads : pc[s] \in Looking \cup {"lret", "connect"} => s = c
      BY <3>1, <3>2 DEF Turns, Busy
    <3>6. \A s \in Threads : pc'[s] # "connect"
      BY <2>3, <3>1, <3>5
    <3> HIDE DEF c
    <3> QED
      BY <2>1, <2>3, <3>3, <3>5, <3>6 DEF Found
  <2> QED
    BY <1>28, <2>4, <2>5 DEF ReceiveCall, LookupCallback
<1>29. ASSUME NEW w \in Workers, ReceiveDone(w), UNCHANGED clientVars PROVE Found'
  <2>a. pc' = [pc EXCEPT ![w] = pc'[w]]
    BY <1>u, <1>29 DEF ReceiveDone, Goto, TypeInv
  <2>b. UNCHANGED <<mode, port, answered>>
    BY <1>29 DEF ReceiveDone, Goto
  <2>c. /\ pc'[w] # "connect"
        /\ pc'[w] \in Looking \cup {"lret", "connect"}
            => pc[w] \in Looking \cup {"lret", "connect"}
    BY <1>u, <1>29 DEF ReceiveDone, Goto, TypeInv, Looking
  <2> QED
    BY <1>u, <2>a, <2>b, <2>c, FoundKeep
<1>30. ASSUME NEW w \in Workers, EndRead(w), UNCHANGED clientVars PROVE Found'
  <2>a. pc' = [pc EXCEPT ![w] = pc'[w]]
    BY <1>u, <1>30 DEF EndRead, NextRead, ReleaseFd, Goto, TypeInv
  <2>b. UNCHANGED <<mode, port, answered>>
    BY <1>30 DEF EndRead, NextRead, ReleaseFd, Goto
  <2>c. /\ pc'[w] # "connect"
        /\ pc'[w] \in Looking \cup {"lret", "connect"}
            => pc[w] \in Looking \cup {"lret", "connect"}
    BY <1>u, <1>30 DEF EndRead, NextRead, ReleaseFd, Goto, TypeInv, Looking
  <2> QED
    BY <1>u, <2>a, <2>b, <2>c, FoundKeep
<1>31. ASSUME NEW w \in Workers, DropBuffers(w), UNCHANGED clientVars PROVE Found'
  <2>a. pc' = [pc EXCEPT ![w] = pc'[w]]
    BY <1>u, <1>31 DEF DropBuffers, ClearBuffers, Goto, TypeInv
  <2>b. UNCHANGED <<mode, port, answered>>
    BY <1>31 DEF DropBuffers, ClearBuffers, Goto
  <2>c. /\ pc'[w] # "connect"
        /\ pc'[w] \in Looking \cup {"lret", "connect"}
            => pc[w] \in Looking \cup {"lret", "connect"}
    BY <1>u, <1>31 DEF DropBuffers, ClearBuffers, Goto, TypeInv, Looking
  <2> QED
    BY <1>u, <2>a, <2>b, <2>c, FoundKeep
<1>32. ASSUME NEW w \in Workers, DropClear(w), UNCHANGED clientVars PROVE Found'
  <2>a. pc' = [pc EXCEPT ![w] = pc'[w]]
    BY <1>u, <1>32 DEF DropClear, clear_callbacks, Goto, TypeInv
  <2>b. UNCHANGED <<mode, port, answered>>
    BY <1>32 DEF DropClear, clear_callbacks, Goto
  <2>c. /\ pc'[w] # "connect"
        /\ pc'[w] \in Looking \cup {"lret", "connect"}
            => pc[w] \in Looking \cup {"lret", "connect"}
    BY <1>u, <1>32 DEF DropClear, clear_callbacks, Goto, TypeInv, Looking
  <2> QED
    BY <1>u, <2>a, <2>b, <2>c, FoundKeep
<1>33. ASSUME NEW w \in Workers, HandlerReturns(w), UNCHANGED clientVars PROVE Found'
  <2>a. pc' = [pc EXCEPT ![w] = pc'[w]]
    BY <1>u, <1>33 DEF HandlerReturns, HandlerReturn, ReleaseFd, Goto, TypeInv
  <2>b. UNCHANGED <<mode, port, answered>>
    BY <1>33 DEF HandlerReturns, HandlerReturn, ReleaseFd, Goto
  <2>c. /\ pc'[w] # "connect"
        /\ pc'[w] \in Looking \cup {"lret", "connect"}
            => pc[w] \in Looking \cup {"lret", "connect"}
    BY <1>u, <1>33 DEF HandlerReturns, HandlerReturn, ReleaseFd, Goto, TypeInv,
                       Looking
  <2> QED
    BY <1>u, <2>a, <2>b, <2>c, FoundKeep
<1>34. ASSUME NEW w \in Workers, DropEvent(w), UNCHANGED clientVars PROVE Found'
  <2>a. pc' = [pc EXCEPT ![w] = pc'[w]]
    BY <1>u, <1>34 DEF DropEvent, PeerDrop, Polled, Goto, TypeInv
  <2>b. UNCHANGED <<mode, port, answered>>
    BY <1>34 DEF DropEvent, PeerDrop, Polled, Goto
  <2>c. /\ pc'[w] # "connect"
        /\ pc'[w] \in Looking \cup {"lret", "connect"}
            => pc[w] \in Looking \cup {"lret", "connect"}
    BY <1>u, <1>34 DEF DropEvent, PeerDrop, Polled, Goto, TypeInv, Looking
  <2> QED
    BY <1>u, <2>a, <2>b, <2>c, FoundKeep
<1>35. ASSUME NEW w \in Workers, ClientDrop(w) PROVE Found'
  <2>a. pc' = [pc EXCEPT ![w] = pc'[w]]
    BY <1>u, <1>35 DEF ClientDrop, Goto, TypeInv
  <2>b. UNCHANGED <<mode, port, answered>>
    BY <1>35 DEF ClientDrop, Goto
  <2>c. /\ pc'[w] # "connect"
        /\ pc'[w] \in Looking \cup {"lret", "connect"}
            => pc[w] \in Looking \cup {"lret", "connect"}
    BY <1>u, <1>35 DEF ClientDrop, Goto, TypeInv, Looking
  <2> QED
    BY <1>u, <2>a, <2>b, <2>c, FoundKeep
<1>36. ASSUME NEW w \in Workers, Reconnect(w) PROVE Found'
  <2>1. w \in Threads /\ pc' = [pc EXCEPT ![w] = pc'[w]] /\ pc'[w] # "connect"
      /\ port'[None] = 0
    BY <1>u, <1>36 DEF Reconnect, Lookup, FirstStep, should_reconnect, Goto,
                       TypeInv, Considerate
  <2>2. \A s \in Threads : pc[s] # "connect"
    <3>1. pc[w] = "hloop" /\ pc[w] \in Busy
      BY <1>36 DEF Reconnect, Lookup, FirstStep, should_reconnect, Goto, Busy
    <3>2. \A s \in Threads : pc[s] = "connect" => pc[s] \in Busy
      BY DEF Busy
    <3> QED
      BY <1>u, <3>1, <3>2 DEF Turns
  <2>3. \A s \in Threads : pc'[s] # "connect"
    BY <2>1, <2>2 DEF TypeInv
  <2> QED
    BY <2>1, <2>3 DEF Found
<1>37. ASSUME NEW w \in Workers, ReconnectEnd(w) PROVE Found'
  <2>a. pc' = [pc EXCEPT ![w] = pc'[w]]
    BY <1>u, <1>37 DEF ReconnectEnd, should_reconnect, Goto, TypeInv
  <2>b. UNCHANGED <<mode, port, answered>>
    BY <1>37 DEF ReconnectEnd, should_reconnect, Goto
  <2>c. /\ pc'[w] # "connect"
        /\ pc'[w] \in Looking \cup {"lret", "connect"}
            => pc[w] \in Looking \cup {"lret", "connect"}
    BY <1>u, <1>37 DEF ReconnectEnd, should_reconnect, Goto, TypeInv, Looking
  <2> QED
    BY <1>u, <2>a, <2>b, <2>c, FoundKeep
<1>38. CASE UNCHANGED vars
  BY <1>38 DEF vars, Found
<1> QED
  BY <1>1, <1>2, <1>3, <1>4, <1>5, <1>6, <1>7, <1>8, <1>9, <1>10, <1>11, <1>12,
     <1>13, <1>14, <1>15, <1>16, <1>17, <1>18, <1>19, <1>20, <1>21, <1>22,
     <1>23, <1>24, <1>25, <1>26, <1>27, <1>28, <1>29, <1>30, <1>31, <1>32,
     <1>33, <1>34, <1>35, <1>36, <1>37, <1>38 DEF Next, CallStep, ClientStep,
                                                  UserCall, ClientCall,
                                                  WorkerStep, HandlerStep

\* Nobody has begun anything.
LEMMA LookupInit == ASSUME NEW u, Considerate(u) PROVE Init => LookupInv(u)
<1> SUFFICES ASSUME Init PROVE LookupInv(u)
  OBVIOUS
<1>1. (\A t \in Threads : pc[t] = "idle") /\ (\A r \in Workers : cur[r] = None /\ pc[r] = "idle")
      /\ m_callbacks = <<>> /\ u \in Threads
  BY DEF Init, SentinelInit, Threads, Considerate
<1>2. "idle" \notin Busy \cup Direct \cup Receives \cup Looking \cup {"lret", "connect", "threw", "swait"}
  BY DEF Busy, Direct, Receives, Looking
<1>3. Range(m_callbacks) = {}
  BY <1>1 DEF Range
<1>4. \A r \in Workers : cur[r] \notin Threads
  BY <1>1, SentinelAssumption
<1> QED
  BY <1>1, <1>2, <1>3, <1>4 DEF LookupInv, Turns, Reading, Scope, Found

\* The four always hold together.
LEMMA LookupInvariant ==
  ASSUME NEW u, Considerate(u)
  PROVE  Spec => []LookupInv(u)
<1>1. TypeInv /\ LookupInv(u) /\ [Next]_vars => LookupInv(u)'
  BY TurnsNext, ReadingNext, ScopeNext, FoundNext DEF LookupInv
<1> QED
  BY <1>1, LookupInit, TypeInvariant, PTL DEF Spec

\* Once get_master_addr_by_name() has returned, its callback, which refers to
\* its variables, is neither queued nor running: whether the reply came, the
\* connection was lost or the write failed.
THEOREM CallbackKeepsScope ==
  ASSUME NEW u, Considerate(u)
  PROVE  Spec => []CallbackInScope
<1>1. LookupInv(u) => CallbackInScope
  BY DEF LookupInv, Scope, CallbackInScope
<1> QED
  BY <1>1, LookupInvariant, PTL

\* An attempt to connect uses an address given to this very attempt.
THEOREM AddressIsFresh ==
  ASSUME NEW u, Considerate(u)
  PROVE  Spec => []FreshAddress
<1>1. TypeInv /\ LookupInv(u) => FreshAddress
  <2> SUFFICES ASSUME TypeInv, Found, NEW t \in Threads, pc[t] = "connect"
               PROVE  port[None] = 1 /\ answered[t]
    BY DEF LookupInv, FreshAddress
  <2> QED
    BY DEF TypeInv, Found
<1> QED
  BY <1>1, LookupInvariant, TypeInvariant, PTL
=============================================================================
