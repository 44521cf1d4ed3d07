--------------------------- MODULE CallbackProofs ---------------------------
(***************************************************************************)
(* What happens to a callback, under every fault and interleaving and for  *)
(* any number of threads and commands: m_callbacks_running counts the      *)
(* callbacks that are out of the queue and not completed, and a command is *)
(* in exactly one place at a time, so that its callback is called at most  *)
(* once.                                                                   *)
(*                                                                         *)
(* Both rest on what the local variables of a thread hold outside the code *)
(* that uses them: nothing (Local).                                        *)
(***************************************************************************)
EXTENDS ClientProofs, FiniteSetTheorems

\* A thread holds a command, or a queue it has moved out, only in the code that
\* uses it.
Local ==
  /\ \A u \in Users : /\ cur[u] # None => pc[u] = "push"
                      /\ job[u] # <<>> => pc[u] = "spawn"
  /\ \A w \in Workers : /\ cur[w] # None => pc[w] = "call"
                        /\ job[w] # <<>> => pc[w] = "resend"
  /\ \A d \in Detached : /\ cur[d] = None
                         /\ job[d] # <<>> => pc[d] \in {"fail", "dec"}

\* A queue of one command is empty once its front is popped.
LEMMA TailOfOne ==
  ASSUME NEW C, NEW s \in Seq(C), Len(s) = 1
  PROVE  Tail(s) = <<>>
<1>1. Tail(s) \in Seq(C) /\ Len(Tail(s)) = 0
  BY EmptySeq
<1> QED
  BY <1>1, EmptySeq

\* Every action clears what it has used.
LEMMA LocalNext ==
  ASSUME TypeInv, Local, [Next]_vars
  PROVE  Local'
<1>p. /\ pc \in [Threads -> UserLabels \cup WorkerLabels \cup DetachedLabels]
      /\ cur \in [Threads -> AllCmds \cup {None}]
      /\ job \in [Threads -> Seq(AllCmds)]
  BY DEF TypeInv, TypeOK, ControlOK, DataOK
<1> USE <1>p, ThreadsAssumption
    DEF Local, Threads, queueVars, reconVars, localVars, histVars
<1>1. ASSUME NEW u \in Users, NEW c \in Cmds, Send(u, c) PROVE Local'
  BY <1>1 DEF Send, Begin, Goto
<1>2. ASSUME NEW u \in Users, NEW o \in {"commit", "sync", "timed"}, Commit(u, o)
      PROVE  Local'
  BY <1>2 DEF Commit, Begin, Goto, AfterCommit
<1>3. ASSUME NEW u \in Users, NEW o \in {"disconnect", "disconnect_wait"}, Disconnect(u, o)
      PROVE  Local'
  BY <1>3 DEF Disconnect, Begin, Goto
<1>4. ASSUME NEW u \in Users, SendPush(u) PROVE Local'
  BY <1>4 DEF SendPush, Goto
<1>5. ASSUME NEW u \in Users, TryCommit(u) PROVE Local'
  BY <1>5 DEF TryCommit, Goto, AfterCommit
<1>6. ASSUME NEW u \in Users, ClearMove(u) PROVE Local'
  BY <1>6 DEF ClearMove, Goto
<1>7. ASSUME NEW u \in Users, ClearSpawn(u) PROVE Local'
  BY <1>7, SMTT(30) DEF ClearSpawn, SpawnClear
<1>8. ASSUME NEW u \in Users, SyncLock(u) PROVE Local'
  BY <1>8 DEF SyncLock, Goto
<1>9. ASSUME NEW u \in Users, SyncBlock(u) PROVE Local'
  BY <1>9 DEF SyncBlock, Goto
<1>10. ASSUME NEW u \in Users, SyncReturn(u) PROVE Local'
  BY <1>10 DEF SyncReturn, Goto
<1>11. ASSUME NEW u \in Users, SyncTimeout(u) PROVE Local'
  BY <1>11 DEF SyncTimeout, Goto
<1>12. ASSUME NEW u \in Users, DisconnectRemoved(u) PROVE Local'
  BY <1>12 DEF DisconnectRemoved, Goto
<1>13. ASSUME NEW u \in Users, DisconnectBuffers(u) PROVE Local'
  BY <1>13 DEF DisconnectBuffers, Goto
<1>14. ASSUME NEW u \in Users, Connect(u) PROVE Local'
  BY <1>14 DEF Connect, Begin, Goto
<1>15. ASSUME NEW u \in Users, CancelReconnect(u) PROVE Local'
  BY <1>15 DEF CancelReconnect, Begin
<1>16. ASSUME NEW t \in Users \cup Workers, ConnectTcp(t) PROVE Local'
  BY <1>16 DEF ConnectTcp, Goto, AfterConnect
<1>17. ASSUME NEW t \in Users \cup Workers, ConnectRead(t) PROVE Local'
  BY <1>17 DEF ConnectRead, Goto, AfterConnect
<1>18. ASSUME NEW t \in Users \cup Workers, ConnectHandlers(t) PROVE Local'
  BY <1>18 DEF ConnectHandlers, Goto, AfterConnect
<1>19. ASSUME NEW w \in Workers, ReadEvent(w) PROVE Local'
  BY <1>19 DEF ReadEvent, Goto
<1>20. ASSUME NEW w \in Workers, DropEvent(w) PROVE Local'
  BY <1>20 DEF DropEvent, Goto
<1>21. ASSUME NEW w \in Workers, MalformedEvent(w) PROVE Local'
  BY <1>21 DEF MalformedEvent, Goto
<1>22. ASSUME NEW w \in Workers, TakeReply(w) PROVE Local'
  BY <1>22 DEF TakeReply, Goto
<1>23. ASSUME NEW w \in Workers, EndRead(w) PROVE Local'
  BY <1>23 DEF EndRead, Goto
<1>24. ASSUME NEW w \in Workers, ReceiveLock(w) PROVE Local'
  BY <1>24 DEF ReceiveLock, Goto
<1>25. ASSUME NEW w \in Workers, ReceiveCall(w) PROVE Local'
  BY <1>25 DEF ReceiveCall, Goto
<1>26. ASSUME NEW w \in Workers, ReceiveDone(w) PROVE Local'
  BY <1>26 DEF ReceiveDone, NotifyAll
<1>27. ASSUME NEW w \in Workers, DropBuffers(w) PROVE Local'
  BY <1>27 DEF DropBuffers, Goto
<1>28. ASSUME NEW w \in Workers, DropCheck(w) PROVE Local'
  BY <1>28 DEF DropCheck, Goto
<1>29. ASSUME NEW w \in Workers, DropSet(w) PROVE Local'
  BY <1>29 DEF DropSet, Goto
<1>30. ASSUME NEW w \in Workers, DropLock(w) PROVE Local'
  BY <1>30 DEF DropLock, Goto
<1>31. ASSUME NEW w \in Workers, ReconnectSleep(w) PROVE Local'
  BY <1>31 DEF ReconnectSleep, Goto
<1>32. ASSUME NEW w \in Workers, ReconnectStart(w) PROVE Local'
  BY <1>32 DEF ReconnectStart, Goto
<1>33. ASSUME NEW w \in Workers, ReconnectCheck(w) PROVE Local'
  BY <1>33 DEF ReconnectCheck, Goto
<1>34. ASSUME NEW w \in Workers, ReAuth(w) PROVE Local'
  BY <1>34 DEF ReAuth, Goto
<1>35. ASSUME NEW w \in Workers, ReSelect(w) PROVE Local'
  BY <1>35 DEF ReSelect, Goto
<1>36. ASSUME NEW w \in Workers, ResendMove(w) PROVE Local'
  BY <1>36 DEF ResendMove, Goto
<1>37. ASSUME NEW w \in Workers, ResendOne(w) PROVE Local'
  <2>1. Len(job[w]) = 1 => Tail(job[w]) = <<>>
    BY TailOfOne
  <2> QED
    BY <1>37, <2>1 DEF ResendOne, Goto
<1>38. ASSUME NEW w \in Workers, ReconnectCommit(w) PROVE Local'
  BY <1>38 DEF ReconnectCommit, ClearLocked, SpawnClear
<1>39. ASSUME NEW w \in Workers, ReconnectStop(w) PROVE Local'
  BY <1>39 DEF ReconnectStop, Goto
<1>40. ASSUME NEW w \in Workers, GiveUp(w) PROVE Local'
  BY <1>40, ZenonT(30) DEF GiveUp, ClearLocked, SpawnClear
<1>41. ASSUME NEW w \in Workers, DropEnd(w) PROVE Local'
  BY <1>41 DEF DropEnd, Goto
<1>42. ASSUME NEW w \in Workers, HandlerReturns(w) PROVE Local'
  BY <1>42 DEF HandlerReturns, Goto
<1>43. ASSUME NEW d \in Detached, FailCall(d) PROVE Local'
  BY <1>43 DEF FailCall, Goto
<1>44. ASSUME NEW d \in Detached, FailDone(d) PROVE Local'
  <2>1. Len(job[d]) = 1 => Tail(job[d]) = <<>>
    BY TailOfOne
  <2> QED
    BY <1>44, <2>1 DEF FailDone, Goto
<1>45. ASSUME NEW d \in Detached, FailNotify(d) PROVE Local'
  BY <1>45 DEF FailNotify, NotifyAll
<1>46. CASE UNCHANGED vars
  BY <1>46 DEF vars, connVars, queueVars, reconVars, localVars, histVars
<1> HIDE <1>p DEF Local
<1> QED
  BY <1>1, <1>2, <1>3, <1>4, <1>5, <1>6, <1>7, <1>8, <1>9, <1>10, <1>11, <1>12,
     <1>13, <1>14, <1>15, <1>16, <1>17, <1>18, <1>19, <1>20, <1>21, <1>22,
     <1>23, <1>24, <1>25, <1>26, <1>27, <1>28, <1>29, <1>30, <1>31, <1>32,
     <1>33, <1>34, <1>35, <1>36, <1>37, <1>38, <1>39, <1>40, <1>41, <1>42,
     <1>43, <1>44, <1>45, <1>46
  DEF Next, UserCall, UserStep, HandlerStep, DetachedStep

(***************************************************************************)
(* m_callbacks_running                                                     *)
(***************************************************************************)
Counted == IsFiniteSet(Outstanding) /\ RunningCount

\* Nothing that m_callbacks_running counts changes.
Untouched ==
  /\ Receiving' = Receiving
  /\ \A d \in Detached : job'[d] = job[d]
  /\ running' = running

\* The actions that begin or complete a callback.
Counting ==
  \/ \E w \in Workers : \/ ReceiveLock(w) \/ ReceiveDone(w)
                        \/ ReconnectCommit(w) \/ GiveUp(w)
  \/ \E u \in Users : ClearSpawn(u)
  \/ \E d \in Detached : FailDone(d)

\* No other action concerns the count.
LEMMA CountingSteps ==
  ASSUME TypeInv, [Next]_vars
  PROVE  Untouched \/ Counting
<1>p. /\ pc \in [Threads -> UserLabels \cup WorkerLabels \cup DetachedLabels]
      /\ \A w \in Workers : pc[w] \in WorkerLabels
      /\ job \in [Threads -> Seq(AllCmds)]
  BY DEF TypeInv, TypeOK, ControlOK, DataOK
<1> USE <1>p, ThreadsAssumption
    DEF Untouched, Receiving, WorkerLabels, Threads, queueVars, reconVars,
        localVars, histVars
<1>1. ASSUME NEW u \in Users, NEW c \in Cmds, Send(u, c) PROVE Untouched
  BY <1>1 DEF Send, Begin, Goto
<1>2. ASSUME NEW u \in Users, NEW o \in {"commit", "sync", "timed"}, Commit(u, o)
      PROVE  Untouched
  BY <1>2 DEF Commit, Begin, Goto, AfterCommit
<1>3. ASSUME NEW u \in Users, NEW o \in {"disconnect", "disconnect_wait"}, Disconnect(u, o)
      PROVE  Untouched
  BY <1>3 DEF Disconnect, Begin, Goto
<1>4. ASSUME NEW u \in Users, SendPush(u) PROVE Untouched
  BY <1>4 DEF SendPush, Goto
<1>5. ASSUME NEW u \in Users, TryCommit(u) PROVE Untouched
  BY <1>5 DEF TryCommit, Goto, AfterCommit
<1>6. ASSUME NEW u \in Users, ClearMove(u) PROVE Untouched
  BY <1>6 DEF ClearMove, Goto
<1>7. ASSUME NEW u \in Users, SyncLock(u) PROVE Untouched
  BY <1>7 DEF SyncLock, Goto
<1>8. ASSUME NEW u \in Users, SyncBlock(u) PROVE Untouched
  BY <1>8 DEF SyncBlock, Goto
<1>9. ASSUME NEW u \in Users, SyncReturn(u) PROVE Untouched
  BY <1>9 DEF SyncReturn, Goto
<1>10. ASSUME NEW u \in Users, SyncTimeout(u) PROVE Untouched
  BY <1>10 DEF SyncTimeout, Goto
<1>11. ASSUME NEW u \in Users, DisconnectRemoved(u) PROVE Untouched
  BY <1>11 DEF DisconnectRemoved, Goto
<1>12. ASSUME NEW u \in Users, DisconnectBuffers(u) PROVE Untouched
  BY <1>12 DEF DisconnectBuffers, Goto
<1>13. ASSUME NEW u \in Users, Connect(u) PROVE Untouched
  BY <1>13 DEF Connect, Begin, Goto
<1>14. ASSUME NEW u \in Users, CancelReconnect(u) PROVE Untouched
  BY <1>14 DEF CancelReconnect, Begin
<1>15. ASSUME NEW t \in Users \cup Workers, ConnectTcp(t) PROVE Untouched
  BY <1>15 DEF ConnectTcp, Goto, AfterConnect
<1>16. ASSUME NEW t \in Users \cup Workers, ConnectRead(t) PROVE Untouched
  BY <1>16 DEF ConnectRead, Goto, AfterConnect
<1>17. ASSUME NEW t \in Users \cup Workers, ConnectHandlers(t) PROVE Untouched
  BY <1>17 DEF ConnectHandlers, Goto, AfterConnect
<1>18. ASSUME NEW w \in Workers, ReadEvent(w) PROVE Untouched
  BY <1>18 DEF ReadEvent, Goto
<1>19. ASSUME NEW w \in Workers, DropEvent(w) PROVE Untouched
  BY <1>19 DEF DropEvent, Goto
<1>20. ASSUME NEW w \in Workers, MalformedEvent(w) PROVE Untouched
  BY <1>20 DEF MalformedEvent, Goto
<1>21. ASSUME NEW w \in Workers, TakeReply(w) PROVE Untouched
  BY <1>21 DEF TakeReply, Goto
<1>22. ASSUME NEW w \in Workers, EndRead(w) PROVE Untouched
  BY <1>22 DEF EndRead, Goto
<1>23. ASSUME NEW w \in Workers, ReceiveCall(w) PROVE Untouched
  BY <1>23 DEF ReceiveCall, Goto
<1>24. ASSUME NEW w \in Workers, DropBuffers(w) PROVE Untouched
  BY <1>24 DEF DropBuffers, Goto
<1>25. ASSUME NEW w \in Workers, DropCheck(w) PROVE Untouched
  BY <1>25 DEF DropCheck, Goto
<1>26. ASSUME NEW w \in Workers, DropSet(w) PROVE Untouched
  BY <1>26 DEF DropSet, Goto
<1>27. ASSUME NEW w \in Workers, DropLock(w) PROVE Untouched
  BY <1>27 DEF DropLock, Goto
<1>28. ASSUME NEW w \in Workers, ReconnectSleep(w) PROVE Untouched
  BY <1>28 DEF ReconnectSleep, Goto
<1>29. ASSUME NEW w \in Workers, ReconnectStart(w) PROVE Untouched
  BY <1>29 DEF ReconnectStart, Goto
<1>30. ASSUME NEW w \in Workers, ReconnectCheck(w) PROVE Untouched
  BY <1>30 DEF ReconnectCheck, Goto
<1>31. ASSUME NEW w \in Workers, ReAuth(w) PROVE Untouched
  BY <1>31 DEF ReAuth, Goto
<1>32. ASSUME NEW w \in Workers, ReSelect(w) PROVE Untouched
  BY <1>32 DEF ReSelect, Goto
<1>33. ASSUME NEW w \in Workers, ResendMove(w) PROVE Untouched
  BY <1>33 DEF ResendMove, Goto
<1>34. ASSUME NEW w \in Workers, ResendOne(w) PROVE Untouched
  BY <1>34 DEF ResendOne, Goto
<1>35. ASSUME NEW w \in Workers, ReconnectStop(w) PROVE Untouched
  BY <1>35 DEF ReconnectStop, Goto
<1>36. ASSUME NEW w \in Workers, DropEnd(w) PROVE Untouched
  BY <1>36 DEF DropEnd, Goto
<1>37. ASSUME NEW w \in Workers, HandlerReturns(w) PROVE Untouched
  BY <1>37 DEF HandlerReturns, Goto
<1>38. ASSUME NEW d \in Detached, FailCall(d) PROVE Untouched
  BY <1>38 DEF FailCall, Goto
<1>39. ASSUME NEW d \in Detached, FailNotify(d) PROVE Untouched
  BY <1>39 DEF FailNotify, NotifyAll
<1>40. CASE UNCHANGED vars
  BY <1>40 DEF vars, connVars, queueVars, reconVars, localVars, histVars
<1> HIDE <1>p DEF Untouched, Receiving, WorkerLabels
<1> QED
  BY <1>1, <1>2, <1>3, <1>4, <1>5, <1>6, <1>7, <1>8, <1>9, <1>10, <1>11, <1>12,
     <1>13, <1>14, <1>15, <1>16, <1>17, <1>18, <1>19, <1>20, <1>21, <1>22,
     <1>23, <1>24, <1>25, <1>26, <1>27, <1>28, <1>29, <1>30, <1>31, <1>32,
     <1>33, <1>34, <1>35, <1>36, <1>37, <1>38, <1>39, <1>40
  DEF Next, UserCall, UserStep, HandlerStep, DetachedStep, Counting

\* Handing a queue to a detached thread counts its commands.
LEMMA SpawnCounts ==
  ASSUME TypeInv, Local, Counted,
         NEW t \in Users \cup Workers, pc[t] \notin {"call", "rdone"},
         NEW q \in Seq(AllCmds), NEW l \in {"idle", "ret", "dend"},
         SpawnClear(t, q, l)
  PROVE  Counted'
<1>p. /\ pc \in [Threads -> UserLabels \cup WorkerLabels \cup DetachedLabels]
      /\ job \in [Threads -> Seq(AllCmds)]
      /\ running \in Int
      /\ t \in Threads /\ t \notin Detached
  BY ThreadsAssumption DEF TypeInv, TypeOK, ControlOK, DataOK, Threads
<1>1. PICK d \in Detached : /\ pc[d] = "idle"
                            /\ running' = running + Len(q)
                            /\ job' = [job EXCEPT ![t] = <<>>, ![d] = q]
                            /\ pc' = [pc EXCEPT ![t] = l, ![d] = "fail"]
  BY DEF SpawnClear
<1>2. job[d] = <<>> /\ job'[d] = q /\ \A x \in Detached \ {d} : job'[x] = job[x]
  BY <1>p, <1>1 DEF Local, Threads
<1>3. Receiving' = Receiving
  BY <1>p, <1>1, ThreadsAssumption DEF Receiving, Threads
<1> DEFINE New == {d} \X (1 .. Len(q))
<1>4. Outstanding' = Outstanding \cup New
  <2>1. ASSUME NEW x PROVE x \in Outstanding' <=> x \in Outstanding \/ x \in New
    <3>1. x \in Outstanding' <=> \/ x \in Receiving' \X {0}
                                 \/ \E e \in Detached : x \in {e} \X (1 .. Len(job'[e]))
      BY DEF Outstanding
    <3>2. x \in Outstanding <=> \/ x \in Receiving \X {0}
                                \/ \E e \in Detached : x \in {e} \X (1 .. Len(job[e]))
      BY DEF Outstanding
    <3>3. {d} \X (1 .. Len(job[d])) = {}
      BY <1>2
    <3> QED
      BY <1>2, <1>3, <3>1, <3>2, <3>3
  <2> QED
    BY <2>1
<1>5. Outstanding \cap New = {}
  <2>1. ASSUME NEW x \in New PROVE x \notin Outstanding
    <3>1. x[1] = d
      OBVIOUS
    <3>2. x \notin Receiving \X {0}
      BY <3>1, ThreadsAssumption DEF Receiving
    <3>3. ASSUME NEW e \in Detached PROVE x \notin {e} \X (1 .. Len(job[e]))
      BY <3>1, <1>2
    <3> QED
      BY <3>2, <3>3 DEF Outstanding
  <2> QED
    BY <2>1
<1>6. Len(q) \in Nat
  OBVIOUS
<1>7. IsFiniteSet(New) /\ Cardinality(New) = Len(q)
  <2>1. IsFiniteSet({d}) /\ Cardinality({d}) = 1
    BY FS_Singleton
  <2>2. IsFiniteSet(1 .. Len(q)) /\ Cardinality(1 .. Len(q)) = Len(q)
    BY <1>6, FS_Interval
  <2>3. IsFiniteSet(New) /\ Cardinality(New) = 1 * Len(q)
    BY <2>1, <2>2, FS_Product
  <2> QED
    BY <1>6, <2>3
<1>8. IsFiniteSet(Outstanding) /\ Cardinality(Outstanding) \in Nat
  BY FS_CardinalityType DEF Counted
<1>9. /\ IsFiniteSet(Outstanding \cup New)
      /\ Cardinality(Outstanding \cup New) = Cardinality(Outstanding) + Len(q)
  <2>1. Cardinality(Outstanding \cap New) = 0
    BY <1>5, FS_EmptySet
  <2> HIDE DEF New
  <2>2. /\ IsFiniteSet(Outstanding \cup New)
        /\ Cardinality(Outstanding \cup New)
             = Cardinality(Outstanding) + Cardinality(New) - Cardinality(Outstanding \cap New)
    BY <1>7, <1>8, FS_Union
  <2> QED
    BY <1>6, <1>7, <1>8, <2>1, <2>2
<1> QED
  BY <1>1, <1>4, <1>9 DEF Counted, RunningCount

\* The count follows every step.
LEMMA CountedNext ==
  ASSUME TypeInv, Local, Counted, [Next]_vars
  PROVE  Counted'
<1>p. /\ pc \in [Threads -> UserLabels \cup WorkerLabels \cup DetachedLabels]
      /\ \A w \in Workers : pc[w] \in WorkerLabels
      /\ job \in [Threads -> Seq(AllCmds)]
      /\ m_commands \in Seq(AllCmds)
      /\ running \in Int
  BY DEF TypeInv, TypeOK, ControlOK, DataOK
<1>c. /\ IsFiniteSet(Outstanding) /\ Cardinality(Outstanding) \in Nat
      /\ running = Cardinality(Outstanding)
  BY FS_CardinalityType DEF Counted, RunningCount
<1>1. CASE Untouched
  <2>1. Outstanding' = Outstanding
    BY <1>1 DEF Untouched, Outstanding
  <2> QED
    BY <1>1, <2>1 DEF Untouched, Counted, RunningCount
<1>2. ASSUME NEW w \in Workers, ReceiveLock(w) PROVE Counted'
  <2>1. Receiving' = Receiving \cup {w} /\ w \notin Receiving
    BY <1>2, <1>p DEF ReceiveLock, Goto, Receiving, Threads
  <2>2. job' = job /\ running' = running + 1
    BY <1>2 DEF ReceiveLock
  <2>3. Outstanding' = Outstanding \cup {<<w, 0>>}
    BY <2>1, <2>2 DEF Outstanding
  <2>4. <<w, 0>> \notin Outstanding
    BY <2>1, ThreadsAssumption DEF Outstanding
  <2> QED
    BY <1>c, <2>2, <2>3, <2>4, FS_AddElement DEF Counted, RunningCount
<1>3. ASSUME NEW w \in Workers, ReceiveDone(w) PROVE Counted'
  <2>1. Receiving' = Receiving \ {w} /\ w \in Receiving
    BY <1>3, <1>p DEF ReceiveDone, NotifyAll, Receiving, WorkerLabels, Threads
  <2>2. job' = job /\ running' = running - 1
    BY <1>3 DEF ReceiveDone, localVars
  <2>3. Outstanding' = Outstanding \ {<<w, 0>>}
    BY <2>1, <2>2, ThreadsAssumption DEF Outstanding
  <2>4. <<w, 0>> \in Outstanding
    BY <2>1 DEF Outstanding
  <2> QED
    BY <1>c, <2>2, <2>3, <2>4, FS_RemoveElement DEF Counted, RunningCount
<1>4. ASSUME NEW w \in Workers, ReconnectCommit(w) PROVE Counted'
  <2>1. CASE pc' = [pc EXCEPT ![w] = "dloop"] /\ UNCHANGED <<queueVars, mutex, job>>
    <3>1. Untouched
      BY <1>4, <1>p, <2>1 DEF ReconnectCommit, Untouched, Receiving, queueVars, Threads
    <3> QED
      BY <3>1, <1>1
  <2>2. CASE ClearLocked(w, "ret") /\ m_commands = <<>>
    <3>1. Untouched
      BY <1>4, <1>p, <2>2 DEF ReconnectCommit, ClearLocked, Untouched, Receiving,
                              queueVars, Threads
    <3> QED
      BY <3>1, <1>1
  <2>3. CASE ClearLocked(w, "ret") /\ m_commands # <<>>
    <3>1. SpawnClear(w, m_commands, "ret")
      BY <2>3 DEF ClearLocked
    <3>2. pc[w] \notin {"call", "rdone"}
      BY <1>4 DEF ReconnectCommit
    <3> QED
      BY <1>p, <3>1, <3>2, SpawnCounts
  <2> QED
    BY <1>4, <2>1, <2>2, <2>3 DEF ReconnectCommit
<1>5. ASSUME NEW w \in Workers, GiveUp(w) PROVE Counted'
  <2>1. CASE pc' = [pc EXCEPT ![w] = "dend"] /\ UNCHANGED <<queueVars, notified, job>>
    <3>1. Untouched
      BY <1>5, <1>p, <2>1 DEF GiveUp, Untouched, Receiving, queueVars, Threads
    <3> QED
      BY <3>1, <1>1
  <2>2. CASE ClearLocked(w, "dend") /\ m_commands = <<>>
    <3>1. Untouched
      BY <1>5, <1>p, <2>2 DEF GiveUp, ClearLocked, Untouched, Receiving, queueVars,
                              Threads
    <3> QED
      BY <3>1, <1>1
  <2>3. CASE ClearLocked(w, "dend") /\ m_commands # <<>>
    <3>1. SpawnClear(w, m_commands, "dend")
      BY <2>3 DEF ClearLocked
    <3>2. pc[w] \notin {"call", "rdone"}
      BY <1>5 DEF GiveUp
    <3> QED
      BY <1>p, <3>1, <3>2, SpawnCounts
  <2> QED
    BY <1>5, <2>1, <2>2, <2>3 DEF GiveUp
<1>6. ASSUME NEW u \in Users, ClearSpawn(u) PROVE Counted'
  <2>1. SpawnClear(u, job[u], "idle") /\ pc[u] = "spawn"
    BY <1>6 DEF ClearSpawn
  <2>2. job[u] \in Seq(AllCmds)
    BY <1>p DEF Threads
  <2> QED
    BY <2>1, <2>2, SpawnCounts
<1>7. ASSUME NEW d \in Detached, FailDone(d) PROVE Counted'
  <2>1. job[d] \in Seq(AllCmds) /\ job[d] # <<>>
    BY <1>7, <1>p DEF FailDone, Goto, TypeInv, FrontDefined, Threads
  <2>2. Len(job[d]) \in Nat \ {0} /\ Len(Tail(job[d])) = Len(job[d]) - 1
    BY <2>1, EmptySeq
  <2>3. /\ running' = running - 1
        /\ \A e \in Detached : job'[e] = IF e = d THEN Tail(job[d]) ELSE job[e]
    BY <1>7, <1>p DEF FailDone, Threads
  <2>4. Receiving' = Receiving
    BY <1>7, <1>p, ThreadsAssumption DEF FailDone, Goto, Receiving, Threads
  <2>5. Outstanding' = Outstanding \ {<<d, Len(job[d])>>}
    <3>1. ASSUME NEW x
          PROVE  x \in Outstanding' <=> x \in Outstanding /\ x # <<d, Len(job[d])>>
      <4>1. x \in Outstanding' <=> \/ x \in Receiving' \X {0}
                                   \/ \E e \in Detached : x \in {e} \X (1 .. Len(job'[e]))
        BY DEF Outstanding
      <4>2. x \in Outstanding <=> \/ x \in Receiving \X {0}
                                  \/ \E e \in Detached : x \in {e} \X (1 .. Len(job[e]))
        BY DEF Outstanding
      <4>3. x \in {d} \X (1 .. Len(Tail(job[d])))
              <=> x \in {d} \X (1 .. Len(job[d])) /\ x # <<d, Len(job[d])>>
        BY <2>2
      <4>4. ASSUME NEW e \in Detached
            PROVE  x \in {e} \X (1 .. Len(job'[e]))
                     <=> x \in {e} \X (1 .. Len(job[e])) /\ x # <<d, Len(job[d])>>
        <5>1. CASE e = d
          BY <2>3, <4>3, <5>1
        <5>2. CASE e # d
          <6>1. job'[e] = job[e]
            BY <2>3, <5>2
          <6>2. x \in {e} \X (1 .. Len(job[e])) => x # <<d, Len(job[d])>>
            BY <5>2
          <6> QED
            BY <6>1, <6>2
        <5> QED
          BY <5>1, <5>2
      <4>5. x \in Receiving \X {0} => x # <<d, Len(job[d])>>
        BY ThreadsAssumption DEF Receiving
      <4> QED
        BY <2>4, <4>1, <4>2, <4>4, <4>5
    <3> QED
      BY <3>1
  <2>6. <<d, Len(job[d])>> \in Outstanding
    BY <2>2 DEF Outstanding
  <2> QED
    BY <1>c, <2>3, <2>5, <2>6, FS_RemoveElement DEF Counted, RunningCount
<1> QED
  BY <1>1, <1>2, <1>3, <1>4, <1>5, <1>6, <1>7, CountingSteps DEF Counting

\* Nothing is held, and no callback is running, in the beginning.
LEMMA CountedInit == Init => Local /\ Counted
<1> SUFFICES ASSUME Init PROVE Local /\ Counted
  OBVIOUS
<1>1. Local
  BY DEF Init, Local, Threads
<1>2. Receiving = {} /\ \A d \in Detached : job[d] = <<>>
  BY DEF Init, Receiving, Threads
<1>3. Outstanding = {}
  BY <1>2 DEF Outstanding
<1> QED
  BY <1>1, <1>3, FS_EmptySet DEF Init, Counted, RunningCount

\* What the theorems below rest on.
LEMMA CallbackInv == Spec => [](TypeInv /\ Local /\ Counted)
BY TypeInit, TypeNext, LocalNext, CountedInit, CountedNext, PTL DEF Spec

\* m_callbacks_running is the number of callbacks begun and not completed: it
\* is incremented and decremented by different threads, on four paths, and is
\* what sync_commit() waits for.
THEOREM RunningCounts == Spec => []RunningCount
<1>1. Counted => RunningCount
  BY DEF Counted
<1> QED
  BY <1>1, CallbackInv, PTL

\* The atomic<unsigned int> is never decremented below zero.
THEOREM RunningNeverWraps == Spec => [](running \in Nat)
<1>1. Counted => running \in Nat
  BY FS_CardinalityType DEF Counted, RunningCount
<1> QED
  BY <1>1, CallbackInv, PTL

(***************************************************************************)
(* The place of a command.  Sequences are looked at through two            *)
(* predicates, with one lemma per way a step rewrites a sequence.          *)
(***************************************************************************)
Absent(c, s) == \A i \in 1 .. Len(s) : s[i] # c
Once(c, s) == \E i \in 1 .. Len(s) : /\ s[i] = c
                                     /\ \A j \in 1 .. Len(s) : s[j] = c => j = i

\* An empty queue holds nothing.
LEMMA EmptyHolds ==
  ASSUME NEW c
  PROVE  Absent(c, <<>>) /\ ~Once(c, <<>>)
BY DEF Absent, Once

\* push(): the command joins the others.
LEMMA AppendHolds ==
  ASSUME NEW C, NEW s \in Seq(C), NEW x \in C, NEW c
  PROVE  /\ Absent(c, Append(s, x)) <=> Absent(c, s) /\ x # c
         /\ Once(c, Append(s, x)) <=> \/ Once(c, s) /\ x # c
                                      \/ Absent(c, s) /\ x = c
<1> DEFINE t == Append(s, x)
<1>1. Len(s) \in Nat /\ Len(t) = Len(s) + 1
  OBVIOUS
<1>2. t[Len(s) + 1] = x /\ \A i \in 1 .. Len(s) : t[i] = s[i]
  OBVIOUS
<1>3. 1 .. Len(t) = (1 .. Len(s)) \cup {Len(s) + 1} /\ Len(s) + 1 \notin 1 .. Len(s)
  BY <1>1
<1> HIDE DEF t
<1>4. Absent(c, t) <=> Absent(c, s) /\ x # c
  BY <1>2, <1>3 DEF Absent
<1>5. CASE x # c
  <2>1. \A i \in 1 .. Len(t) : t[i] = c <=> i \in 1 .. Len(s) /\ s[i] = c
    BY <1>2, <1>3, <1>5
  <2> QED
    BY <1>3, <1>4, <1>5, <2>1 DEF Once, t
<1>6. CASE x = c
  <2>1. Once(c, t) => Absent(c, s)
    BY <1>2, <1>3, <1>6 DEF Once, Absent
  <2>2. Absent(c, s) => Once(c, t)
    <3>1. SUFFICES ASSUME Absent(c, s) PROVE Once(c, t)
      OBVIOUS
    <3>2. Len(s) + 1 \in 1 .. Len(t) /\ t[Len(s) + 1] = c
      BY <1>2, <1>3, <1>6
    <3>3. \A j \in 1 .. Len(t) : t[j] = c => j = Len(s) + 1
      BY <1>2, <1>3, <3>1 DEF Absent
    <3> QED
      BY <3>2, <3>3 DEF Once
  <2> QED
    BY <1>4, <1>6, <2>1, <2>2 DEF t
<1> QED
  BY <1>5, <1>6

\* front() and pop(): what a queue holds is its front or behind it.
LEMMA PopHolds ==
  ASSUME NEW C, NEW s \in Seq(C), s # <<>>, NEW c
  PROVE  /\ Absent(c, s) <=> Head(s) # c /\ Absent(c, Tail(s))
         /\ Once(c, s) <=> \/ Head(s) = c /\ Absent(c, Tail(s))
                           \/ Head(s) # c /\ Once(c, Tail(s))
<1> DEFINE t == Tail(s)
<1>1. Len(s) \in Nat /\ Len(s) # 0 /\ Len(t) = Len(s) - 1
  BY EmptySeq
<1>2. Head(s) = s[1] /\ \A i \in 1 .. Len(t) : t[i] = s[i + 1]
  OBVIOUS
<1>3. \A i : i \in 1 .. Len(s) <=> i = 1 \/ (i \in Int /\ i - 1 \in 1 .. Len(t))
  BY <1>1
<1>4. \A i \in 1 .. Len(t) : i + 1 \in 1 .. Len(s) /\ i + 1 # 1
  BY <1>1
<1>5. \A i \in 1 .. Len(s) : i # 1 => i - 1 \in 1 .. Len(t) /\ t[i - 1] = s[i]
  BY <1>1, <1>2
<1> HIDE DEF t
<1>6. Absent(c, s) <=> s[1] # c /\ Absent(c, t)
  <2>1. Absent(c, s) => s[1] # c /\ Absent(c, t)
    BY <1>1, <1>2, <1>4 DEF Absent
  <2>2. s[1] # c /\ Absent(c, t) => Absent(c, s)
    BY <1>5 DEF Absent
  <2> QED
    BY <2>1, <2>2
<1>7. CASE s[1] = c
  <2>1. Once(c, s) => Absent(c, t)
    BY <1>1, <1>2, <1>4, <1>7 DEF Once, Absent
  <2>2. Absent(c, t) => Once(c, s)
    <3>1. SUFFICES ASSUME Absent(c, t) PROVE Once(c, s)
      OBVIOUS
    <3>2. 1 \in 1 .. Len(s)
      BY <1>1
    <3>3. \A j \in 1 .. Len(s) : s[j] = c => j = 1
      BY <1>5, <3>1 DEF Absent
    <3> QED
      BY <1>7, <3>2, <3>3 DEF Once
  <2> QED
    BY <1>2, <1>6, <1>7, <2>1, <2>2 DEF t
<1>8. CASE s[1] # c
  <2>1. Once(c, s) => Once(c, t)
    <3>1. SUFFICES ASSUME NEW i \in 1 .. Len(s), s[i] = c,
                          \A j \in 1 .. Len(s) : s[j] = c => j = i
                   PROVE  Once(c, t)
      BY DEF Once
    <3>2. i - 1 \in 1 .. Len(t) /\ t[i - 1] = c
      BY <1>5, <1>8, <3>1
    <3>3. \A j \in 1 .. Len(t) : t[j] = c => j = i - 1
      BY <1>1, <1>2, <1>4, <3>1
    <3> QED
      BY <3>2, <3>3 DEF Once
  <2>2. Once(c, t) => Once(c, s)
    <3>1. SUFFICES ASSUME NEW i \in 1 .. Len(t), t[i] = c,
                          \A j \in 1 .. Len(t) : t[j] = c => j = i
                   PROVE  Once(c, s)
      BY DEF Once
    <3>2. i + 1 \in 1 .. Len(s) /\ s[i + 1] = c
      BY <1>2, <1>4, <3>1
    <3>3. \A j \in 1 .. Len(s) : s[j] = c => j = i + 1
      BY <1>1, <1>5, <1>8, <3>1
    <3> QED
      BY <3>2, <3>3 DEF Once
  <2> QED
    BY <1>2, <1>6, <1>8, <2>1, <2>2 DEF t
<1> QED
  BY <1>7, <1>8

Free(c) == \A t \in Threads : cur[t] # c
HeldBy(c, t) == cur[t] = c /\ \A x \in Threads : cur[x] = c => x = t
Unmoved(c) == \A t \in Threads : Absent(c, Uncalled(t))
MovedBy(c, t) == /\ Once(c, Uncalled(t))
                 /\ \A x \in Threads : x # t => Absent(c, Uncalled(x))

\* Not sent, or in one of the four kinds of places and in none of the others.
Whereabouts(c) ==
  \/ /\ sender[c] = None
     /\ Free(c) /\ Absent(c, m_commands) /\ Unmoved(c) /\ calls[c] = <<>>
  \/ /\ sender[c] # None
     /\ \E t \in Threads : HeldBy(c, t)
     /\ Absent(c, m_commands) /\ Unmoved(c) /\ calls[c] = <<>>
  \/ /\ sender[c] # None
     /\ Once(c, m_commands)
     /\ Free(c) /\ Unmoved(c) /\ calls[c] = <<>>
  \/ /\ sender[c] # None
     /\ \E t \in Threads : MovedBy(c, t)
     /\ Free(c) /\ Absent(c, m_commands) /\ calls[c] = <<>>
  \/ /\ sender[c] # None
     /\ Len(calls[c]) = 1
     /\ Free(c) /\ Absent(c, m_commands) /\ Unmoved(c)

Placed == \A c \in Cmds : Whereabouts(c)

\* No command changes its place.
Settled ==
  /\ UNCHANGED <<m_commands, cur, sender, calls>>
  /\ \A t \in Threads : Uncalled(t)' = Uncalled(t)

\* The actions that move commands from one place to another.
Moving ==
  \/ \E u \in Users : \/ \E c \in Cmds : Send(u, c)
                      \/ SendPush(u) \/ ClearMove(u) \/ ClearSpawn(u)
  \/ \E w \in Workers : \/ ReceiveLock(w) \/ ReceiveCall(w) \/ ReAuth(w) \/ ReSelect(w)
                        \/ ResendMove(w) \/ ResendOne(w) \/ ReconnectCommit(w)
                        \/ GiveUp(w)
  \/ \E d \in Detached : FailCall(d)

\* No other action concerns the commands.
LEMMA MovingSteps ==
  ASSUME TypeInv, [Next]_vars
  PROVE  Settled \/ Moving
<1>p. /\ pc \in [Threads -> UserLabels \cup WorkerLabels \cup DetachedLabels]
      /\ \A u \in Users : pc[u] \in UserLabels
      /\ \A w \in Workers : pc[w] \in WorkerLabels
      /\ job \in [Threads -> Seq(AllCmds)]
  BY DEF TypeInv, TypeOK, ControlOK, DataOK
<1> USE <1>p, ThreadsAssumption
    DEF Settled, Uncalled, UserLabels, WorkerLabels, Threads, queueVars, reconVars,
        localVars, histVars
<1>1. ASSUME NEW u \in Users, NEW o \in {"commit", "sync", "timed"}, Commit(u, o)
      PROVE  Settled
  BY <1>1 DEF Commit, Begin, Goto, AfterCommit
<1>2. ASSUME NEW u \in Users, NEW o \in {"disconnect", "disconnect_wait"}, Disconnect(u, o)
      PROVE  Settled
  BY <1>2 DEF Disconnect, Begin, Goto
<1>3. ASSUME NEW u \in Users, TryCommit(u) PROVE Settled
  BY <1>3 DEF TryCommit, Goto, AfterCommit
<1>4. ASSUME NEW u \in Users, SyncLock(u) PROVE Settled
  BY <1>4 DEF SyncLock, Goto
<1>5. ASSUME NEW u \in Users, SyncBlock(u) PROVE Settled
  BY <1>5 DEF SyncBlock, Goto
<1>6. ASSUME NEW u \in Users, SyncReturn(u) PROVE Settled
  BY <1>6 DEF SyncReturn, Goto
<1>7. ASSUME NEW u \in Users, SyncTimeout(u) PROVE Settled
  BY <1>7 DEF SyncTimeout, Goto
<1>8. ASSUME NEW u \in Users, DisconnectRemoved(u) PROVE Settled
  BY <1>8 DEF DisconnectRemoved, Goto
<1>9. ASSUME NEW u \in Users, DisconnectBuffers(u) PROVE Settled
  BY <1>9 DEF DisconnectBuffers, Goto
<1>10. ASSUME NEW u \in Users, Connect(u) PROVE Settled
  BY <1>10 DEF Connect, Begin, Goto
<1>11. ASSUME NEW u \in Users, CancelReconnect(u) PROVE Settled
  BY <1>11 DEF CancelReconnect, Begin
<1>12. ASSUME NEW t \in Users \cup Workers, ConnectTcp(t) PROVE Settled
  BY <1>12 DEF ConnectTcp, Goto, AfterConnect
<1>13. ASSUME NEW t \in Users \cup Workers, ConnectRead(t) PROVE Settled
  BY <1>13 DEF ConnectRead, Goto, AfterConnect
<1>14. ASSUME NEW t \in Users \cup Workers, ConnectHandlers(t) PROVE Settled
  BY <1>14 DEF ConnectHandlers, Goto, AfterConnect
<1>15. ASSUME NEW w \in Workers, ReadEvent(w) PROVE Settled
  BY <1>15 DEF ReadEvent, Goto
<1>16. ASSUME NEW w \in Workers, DropEvent(w) PROVE Settled
  BY <1>16 DEF DropEvent, Goto
<1>17. ASSUME NEW w \in Workers, MalformedEvent(w) PROVE Settled
  BY <1>17 DEF MalformedEvent, Goto
<1>18. ASSUME NEW w \in Workers, TakeReply(w) PROVE Settled
  BY <1>18 DEF TakeReply, Goto
<1>19. ASSUME NEW w \in Workers, EndRead(w) PROVE Settled
  BY <1>19 DEF EndRead, Goto
<1>20. ASSUME NEW w \in Workers, ReceiveDone(w) PROVE Settled
  BY <1>20 DEF ReceiveDone, NotifyAll
<1>21. ASSUME NEW w \in Workers, DropBuffers(w) PROVE Settled
  BY <1>21 DEF DropBuffers, Goto
<1>22. ASSUME NEW w \in Workers, DropCheck(w) PROVE Settled
  BY <1>22 DEF DropCheck, Goto
<1>23. ASSUME NEW w \in Workers, DropSet(w) PROVE Settled
  BY <1>23 DEF DropSet, Goto
<1>24. ASSUME NEW w \in Workers, DropLock(w) PROVE Settled
  BY <1>24 DEF DropLock, Goto
<1>25. ASSUME NEW w \in Workers, ReconnectSleep(w) PROVE Settled
  BY <1>25 DEF ReconnectSleep, Goto
<1>26. ASSUME NEW w \in Workers, ReconnectStart(w) PROVE Settled
  BY <1>26 DEF ReconnectStart, Goto
<1>27. ASSUME NEW w \in Workers, ReconnectCheck(w) PROVE Settled
  BY <1>27 DEF ReconnectCheck, Goto
<1>28. ASSUME NEW w \in Workers, ReconnectStop(w) PROVE Settled
  BY <1>28 DEF ReconnectStop, Goto
<1>29. ASSUME NEW w \in Workers, DropEnd(w) PROVE Settled
  BY <1>29 DEF DropEnd, Goto
<1>30. ASSUME NEW w \in Workers, HandlerReturns(w) PROVE Settled
  BY <1>30 DEF HandlerReturns, Goto
<1>31. ASSUME NEW d \in Detached, FailDone(d) PROVE Settled
  BY <1>31 DEF FailDone, Goto
<1>32. ASSUME NEW d \in Detached, FailNotify(d) PROVE Settled
  BY <1>32 DEF FailNotify, NotifyAll
<1>33. CASE UNCHANGED vars
  BY <1>33 DEF vars, connVars, queueVars, reconVars, localVars, histVars
<1> HIDE <1>p DEF Settled, Uncalled, UserLabels, WorkerLabels
<1> QED
  BY <1>1, <1>2, <1>3, <1>4, <1>5, <1>6, <1>7, <1>8, <1>9, <1>10, <1>11, <1>12,
     <1>13, <1>14, <1>15, <1>16, <1>17, <1>18, <1>19, <1>20, <1>21, <1>22,
     <1>23, <1>24, <1>25, <1>26, <1>27, <1>28, <1>29, <1>30, <1>31, <1>32,
     <1>33
  DEF Next, UserCall, UserStep, HandlerStep, DetachedStep, Moving

\* A queue handed to a detached thread by the thread that has moved it out.
LEMMA SpawnKeepsPlaces ==
  ASSUME TypeInv, Local, Placed,
         NEW t \in Users \cup Workers, NEW q \in Seq(AllCmds),
         NEW l \in {"idle", "ret", "dend"}, SpawnClear(t, q, l),
         UNCHANGED <<cur, sender, calls>>,
         \/ Uncalled(t) = q /\ m_commands' = m_commands
         \/ Uncalled(t) = <<>> /\ m_commands = q /\ m_commands' = <<>>
  PROVE  Placed'
<1>p. /\ pc \in [Threads -> UserLabels \cup WorkerLabels \cup DetachedLabels]
      /\ job \in [Threads -> Seq(AllCmds)]
      /\ t \in Threads /\ t \notin Detached
  BY ThreadsAssumption DEF TypeInv, TypeOK, ControlOK, DataOK, Threads
<1>1. PICK d \in Detached : /\ pc[d] = "idle"
                            /\ job' = [job EXCEPT ![t] = <<>>, ![d] = q]
                            /\ pc' = [pc EXCEPT ![t] = l, ![d] = "fail"]
  BY DEF SpawnClear
<1>2. d \in Threads /\ d # t /\ Uncalled(d) = <<>> /\ Uncalled(d)' = q
  BY <1>p, <1>1 DEF Local, Uncalled, Threads
<1>3. Uncalled(t)' = <<>>
  BY <1>p, <1>1, <1>2 DEF Uncalled
<1>4. ASSUME NEW x \in Threads, x # t, x # d PROVE Uncalled(x)' = Uncalled(x)
  BY <1>p, <1>1, <1>4 DEF Uncalled
<1>5. SUFFICES ASSUME NEW c \in Cmds PROVE Whereabouts(c)'
  BY DEF Placed
<1>6. Absent(c, <<>>) /\ ~Once(c, <<>>)
  BY EmptyHolds
<1>7. Whereabouts(c)
  BY DEF Placed
<1>8. Free(c)' = Free(c) /\ \A x \in Threads : HeldBy(c, x)' = HeldBy(c, x)
  BY DEF Free, HeldBy
<1>9. CASE Uncalled(t) = q /\ m_commands' = m_commands
  <2>1. Unmoved(c) => Unmoved(c)'
    BY <1>p, <1>2, <1>3, <1>4, <1>6, <1>9 DEF Unmoved
  <2>2. ASSUME NEW x \in Threads, MovedBy(c, x)
        PROVE  \E y \in Threads : MovedBy(c, y)'
    <3>1. CASE x = t
      <4>1. MovedBy(c, d)'
        BY <1>p, <1>2, <1>3, <1>4, <1>6, <1>9, <2>2, <3>1 DEF MovedBy
      <4> QED
        BY <1>2, <4>1
    <3>2. CASE x # t
      <4>1. x # d
        BY <1>2, <1>6, <2>2 DEF MovedBy
      <4>2. MovedBy(c, x)'
        BY <1>p, <1>2, <1>3, <1>4, <1>6, <1>9, <2>2, <3>2, <4>1 DEF MovedBy
      <4> QED
        BY <4>2
    <3> QED
      BY <3>1, <3>2
  <2> QED
    BY <1>7, <1>8, <1>9, <2>1, <2>2 DEF Whereabouts
<1>10. CASE Uncalled(t) = <<>> /\ m_commands = q /\ m_commands' = <<>>
  <2>1. Absent(c, q) /\ Unmoved(c) => Unmoved(c)'
    BY <1>p, <1>2, <1>3, <1>4, <1>6, <1>10 DEF Unmoved
  <2>2. Once(c, q) /\ Unmoved(c) => MovedBy(c, d)'
    BY <1>p, <1>2, <1>3, <1>4, <1>6, <1>10 DEF Unmoved, MovedBy
  <2>3. ASSUME NEW x \in Threads, MovedBy(c, x), Absent(c, q)
        PROVE  MovedBy(c, x)'
    <3>1. x # t /\ x # d
      BY <1>2, <1>6, <1>10, <2>3 DEF MovedBy
    <3> QED
      BY <1>p, <1>2, <1>3, <1>4, <1>6, <1>10, <2>3, <3>1 DEF MovedBy
  <2>4. Absent(c, m_commands')
    BY <1>6, <1>10
  <2> QED
    BY <1>2, <1>7, <1>8, <1>10, <2>1, <2>2, <2>3, <2>4 DEF Whereabouts
<1> QED
  BY <1>9, <1>10

\* Whatever moves a command takes it from its place.
LEMMA PlacedNext ==
  ASSUME TypeInv, Local, Placed, [Next]_vars
  PROVE  Placed'
<1>p. /\ pc \in [Threads -> UserLabels \cup WorkerLabels \cup DetachedLabels]
      /\ cur \in [Threads -> AllCmds \cup {None}]
      /\ job \in [Threads -> Seq(AllCmds)]
      /\ m_commands \in Seq(AllCmds)
      /\ sender \in [Cmds -> Users \cup {None}]
      /\ calls \in [Cmds -> Seq(AllCmds \cup {Failure})]
  BY DEF TypeInv, TypeOK, ControlOK, DataOK
<1>n. /\ Users \subseteq Threads /\ Workers \subseteq Threads /\ Detached \subseteq Threads
      /\ None \notin Cmds /\ Cmds \subseteq AllCmds /\ None \notin Users
  BY ThreadsAssumption, CommandsAssumption DEF Threads, AllCmds
<1>e. \A c \in Cmds : Absent(c, <<>>) /\ ~Once(c, <<>>)
  BY EmptyHolds
<1>w. \A c \in Cmds : Whereabouts(c)
  BY DEF Placed
<1>1. CASE Settled
  BY <1>1 DEF Settled, Placed, Whereabouts, Free, HeldBy, Unmoved, MovedBy
<1>2. ASSUME NEW u \in Users, NEW c \in Cmds, Send(u, c) PROVE Placed'
  <2>1. /\ sender[c] = None /\ cur[u] = None
        /\ cur' = [cur EXCEPT ![u] = c] /\ sender' = [sender EXCEPT ![c] = u]
        /\ m_commands' = m_commands /\ calls' = calls
    BY <1>2, <1>n DEF Send, Begin, Goto, Local, queueVars
  <2>2. \A t \in Threads : Uncalled(t)' = Uncalled(t)
    BY <1>2, <1>p, <1>n DEF Send, Goto, Uncalled
  <2>3. SUFFICES ASSUME NEW e \in Cmds PROVE Whereabouts(e)'
    BY DEF Placed
  <2>4. Unmoved(e)' = Unmoved(e) /\ \A t \in Threads : MovedBy(e, t)' = MovedBy(e, t)
    BY <2>2 DEF Unmoved, MovedBy
  <2>5. CASE e = c
    <3>1. Free(c) /\ Absent(c, m_commands) /\ Unmoved(c) /\ calls[c] = <<>>
      BY <1>w, <2>1 DEF Whereabouts
    <3>2. HeldBy(c, u)' /\ u \in Threads
      BY <1>p, <1>n, <2>1, <3>1 DEF Free, HeldBy
    <3>3. sender'[c] # None
      BY <1>p, <1>n, <2>1
    <3> QED
      BY <2>1, <2>4, <2>5, <3>1, <3>2, <3>3 DEF Whereabouts
  <2>6. CASE e # c
    <3>1. sender'[e] = sender[e]
      BY <1>p, <2>1, <2>6
    <3>2. Free(e)' = Free(e) /\ \A t \in Threads : HeldBy(e, t)' = HeldBy(e, t)
      BY <1>p, <1>n, <2>1, <2>6 DEF Free, HeldBy
    <3> QED
      BY <1>w, <2>1, <2>4, <3>1, <3>2 DEF Whereabouts
  <2> QED
    BY <2>5, <2>6
<1>3. ASSUME NEW u \in Users, SendPush(u) PROVE Placed'
  <2>1. /\ cur[u] \in AllCmds /\ u \in Threads
        /\ cur' = [cur EXCEPT ![u] = None] /\ m_commands' = Append(m_commands, cur[u])
        /\ calls' = calls /\ sender' = sender
    BY <1>3, <1>n DEF SendPush, Goto, TypeInv, Held, histVars
  <2>2. \A t \in Threads : Uncalled(t)' = Uncalled(t)
    BY <1>3, <1>p, <1>n DEF SendPush, Goto, Uncalled
  <2>3. SUFFICES ASSUME NEW c \in Cmds PROVE Whereabouts(c)'
    BY DEF Placed
  <2>4. Unmoved(c)' = Unmoved(c) /\ \A t \in Threads : MovedBy(c, t)' = MovedBy(c, t)
    BY <2>2 DEF Unmoved, MovedBy
  <2>5. /\ Absent(c, m_commands') <=> Absent(c, m_commands) /\ cur[u] # c
        /\ Once(c, m_commands') <=> \/ Once(c, m_commands) /\ cur[u] # c
                                    \/ Absent(c, m_commands) /\ cur[u] = c
    BY <1>p, <2>1, AppendHolds
  <2>6. CASE cur[u] = c
    <3>1. sender[c] # None /\ (\E t \in Threads : HeldBy(c, t))
      BY <1>w, <2>1, <2>6 DEF Whereabouts, Free
    <3>2. HeldBy(c, u) /\ Absent(c, m_commands) /\ Unmoved(c) /\ calls[c] = <<>>
      BY <1>w, <2>1, <2>6 DEF Whereabouts, Free, HeldBy
    <3>3. Free(c)'
      BY <1>p, <1>n, <2>1, <3>2 DEF Free, HeldBy
    <3> QED
      BY <2>1, <2>4, <2>5, <2>6, <3>1, <3>2, <3>3 DEF Whereabouts
  <2>7. CASE cur[u] # c
    <3>1. Free(c)' = Free(c) /\ \A t \in Threads : HeldBy(c, t)' = HeldBy(c, t)
      BY <1>p, <1>n, <2>1, <2>7 DEF Free, HeldBy
    <3> QED
      BY <1>w, <2>1, <2>4, <2>5, <2>7, <3>1 DEF Whereabouts
  <2> QED
    BY <2>6, <2>7
<1>4. ASSUME NEW t \in Users \cup Workers, Uncalled(t) = <<>>, Uncalled(t)' = m_commands,
             m_commands' = <<>>, UNCHANGED <<cur, calls, sender>>,
             \A x \in Threads : x # t => Uncalled(x)' = Uncalled(x)
      PROVE  Placed'
  <2>1. SUFFICES ASSUME NEW c \in Cmds PROVE Whereabouts(c)'
    BY DEF Placed
  <2>2. Free(c)' = Free(c) /\ \A x \in Threads : HeldBy(c, x)' = HeldBy(c, x)
    BY <1>4 DEF Free, HeldBy
  <2>3. t \in Threads /\ Absent(c, Uncalled(t)) /\ ~Once(c, Uncalled(t)) /\ Absent(c, m_commands')
    BY <1>e, <1>4 DEF Threads
  <2>4. Absent(c, m_commands) /\ Unmoved(c) => Unmoved(c)'
    BY <1>4 DEF Unmoved
  <2>5. Once(c, m_commands) /\ Unmoved(c) => MovedBy(c, t)'
    BY <1>4 DEF Unmoved, MovedBy
  <2>6. ASSUME NEW x \in Threads, MovedBy(c, x), Absent(c, m_commands)
        PROVE  MovedBy(c, x)'
    <3>1. x # t
      BY <2>3, <2>6 DEF MovedBy
    <3> QED
      BY <1>4, <2>6, <3>1 DEF MovedBy
  <2> QED
    BY <1>w, <1>4, <2>2, <2>3, <2>4, <2>5, <2>6 DEF Whereabouts
<1>5. ASSUME NEW u \in Users, ClearMove(u) PROVE Placed'
  <2>1. Uncalled(u) = <<>> /\ Uncalled(u)' = m_commands
    BY <1>5, <1>p, <1>n DEF ClearMove, Goto, Local, Uncalled
  <2>2. \A x \in Threads : x # u => Uncalled(x)' = Uncalled(x)
    BY <1>5, <1>p, <1>n DEF ClearMove, Goto, Uncalled
  <2> QED
    BY <1>4, <1>5, <2>1, <2>2 DEF ClearMove, histVars
<1>6. ASSUME NEW w \in Workers, ResendMove(w) PROVE Placed'
  <2>1. Uncalled(w) = <<>> /\ Uncalled(w)' = m_commands
    BY <1>6, <1>p, <1>n DEF ResendMove, Goto, Local, Uncalled
  <2>2. \A x \in Threads : x # w => Uncalled(x)' = Uncalled(x)
    BY <1>6, <1>p, <1>n DEF ResendMove, Goto, Uncalled
  <2> QED
    BY <1>4, <1>6, <2>1, <2>2 DEF ResendMove, histVars
<1>7. ASSUME NEW u \in Users, ClearSpawn(u) PROVE Placed'
  <2>1. Uncalled(u) = job[u] /\ job[u] \in Seq(AllCmds)
    BY <1>7, <1>p, <1>n DEF ClearSpawn, Uncalled
  <2>2. SpawnClear(u, job[u], "idle") /\ UNCHANGED <<cur, sender, calls>> /\ m_commands' = m_commands
    BY <1>7 DEF ClearSpawn, histVars
  <2> QED
    BY <2>1, <2>2, SpawnKeepsPlaces
<1>8. ASSUME NEW w \in Workers, ReceiveLock(w) PROVE Placed'
  <2>1. cur[w] = None /\ w \in Threads /\ calls' = calls /\ sender' = sender
    BY <1>8, <1>n DEF ReceiveLock, Goto, Local, histVars
  <2>2. \A t \in Threads : Uncalled(t)' = Uncalled(t)
    BY <1>8, <1>p, <1>n DEF ReceiveLock, Goto, Uncalled
  <2>3. CASE m_commands = <<>>
    <3>1. cur' = cur /\ m_commands' = m_commands
      BY <1>8, <1>p, <2>1, <2>3 DEF ReceiveLock
    <3> QED
      BY <1>1, <2>1, <2>2, <3>1 DEF Settled
  <2>4. CASE m_commands # <<>>
    <3>1. cur' = [cur EXCEPT ![w] = Head(m_commands)] /\ m_commands' = Tail(m_commands)
      BY <1>8, <2>4 DEF ReceiveLock
    <3>2. SUFFICES ASSUME NEW c \in Cmds PROVE Whereabouts(c)'
      BY DEF Placed
    <3>3. Unmoved(c)' = Unmoved(c) /\ \A t \in Threads : MovedBy(c, t)' = MovedBy(c, t)
      BY <2>2 DEF Unmoved, MovedBy
    <3>4. /\ Absent(c, m_commands) <=> Head(m_commands) # c /\ Absent(c, m_commands')
          /\ Once(c, m_commands) <=> \/ Head(m_commands) = c /\ Absent(c, m_commands')
                                     \/ Head(m_commands) # c /\ Once(c, m_commands')
      BY <1>p, <2>4, <3>1, PopHolds
    <3>5. CASE Head(m_commands) = c
      <4>1. /\ sender[c] # None /\ Free(c) /\ Absent(c, m_commands')
            /\ Unmoved(c) /\ calls[c] = <<>>
        BY <1>w, <3>4, <3>5 DEF Whereabouts
      <4>2. HeldBy(c, w)'
        BY <1>p, <2>1, <3>1, <3>5, <4>1 DEF Free, HeldBy
      <4> QED
        BY <2>1, <3>3, <4>1, <4>2 DEF Whereabouts
    <3>6. CASE Head(m_commands) # c
      <4>1. Free(c)' = Free(c) /\ \A t \in Threads : HeldBy(c, t)' = HeldBy(c, t)
        BY <1>p, <1>n, <2>1, <3>1, <3>6 DEF Free, HeldBy
      <4> QED
        BY <1>w, <2>1, <3>3, <3>4, <3>6, <4>1 DEF Whereabouts
    <3> QED
      BY <3>5, <3>6
  <2> QED
    BY <2>3, <2>4
<1>9. ASSUME NEW w \in Workers, ReceiveCall(w) PROVE Placed'
  <2>1. /\ w \in Threads /\ cur' = [cur EXCEPT ![w] = None] /\ rep[w] \in AllCmds
        /\ m_commands' = m_commands /\ sender' = sender
        /\ calls' = IF cur[w] \in Cmds THEN [calls EXCEPT ![cur[w]] = Append(@, rep[w])]
                    ELSE calls
    BY <1>9, <1>n DEF ReceiveCall, RunCallback, Goto, TypeInv, Held, queueVars
  <2>2. \A t \in Threads : Uncalled(t)' = Uncalled(t)
    BY <1>9, <1>p, <1>n DEF ReceiveCall, Goto, Uncalled
  <2>3. SUFFICES ASSUME NEW c \in Cmds PROVE Whereabouts(c)'
    BY DEF Placed
  <2>4. Unmoved(c)' = Unmoved(c) /\ \A t \in Threads : MovedBy(c, t)' = MovedBy(c, t)
    BY <2>2 DEF Unmoved, MovedBy
  <2>5. CASE cur[w] = c
    <3>1. sender[c] # None /\ HeldBy(c, w) /\ Absent(c, m_commands) /\ Unmoved(c) /\ calls[c] = <<>>
      BY <1>w, <2>1, <2>5 DEF Whereabouts, Free, HeldBy
    <3>2. Free(c)'
      BY <1>p, <1>n, <2>1, <3>1 DEF Free, HeldBy
    <3>3. Len(calls'[c]) = 1
      <4>1. calls'[c] = Append(<<>>, rep[w])
        BY <1>p, <2>1, <2>5, <3>1
      <4> QED
        BY <4>1
    <3> QED
      BY <2>1, <2>4, <3>1, <3>2, <3>3 DEF Whereabouts
  <2>6. CASE cur[w] # c
    <3>1. Free(c)' = Free(c) /\ \A t \in Threads : HeldBy(c, t)' = HeldBy(c, t)
      BY <1>p, <1>n, <2>1, <2>6 DEF Free, HeldBy
    <3>2. calls'[c] = calls[c]
      BY <1>p, <2>1, <2>6
    <3> QED
      BY <1>w, <2>1, <2>4, <3>1, <3>2 DEF Whereabouts
  <2> QED
    BY <2>5, <2>6
<1>10. ASSUME NEW w \in Workers, ReAuth(w) \/ ReSelect(w) PROVE Placed'
  <2>1. PICK x \in {Auth, Select} : m_commands' \in {m_commands, Append(m_commands, x)}
    BY <1>10 DEF ReAuth, ReSelect, unprotected_send
  <2>2. UNCHANGED <<cur, sender, calls>>
    BY <1>10 DEF ReAuth, ReSelect, localVars, histVars
  <2>3. \A t \in Threads : Uncalled(t)' = Uncalled(t)
    BY <1>10, <1>p, <1>n DEF ReAuth, ReSelect, localVars, Goto, Uncalled
  <2>4. SUFFICES ASSUME NEW c \in Cmds PROVE Whereabouts(c)'
    BY DEF Placed
  <2>5. x \in AllCmds /\ x # c
    BY CommandsAssumption DEF AllCmds
  <2>6. /\ Absent(c, m_commands') <=> Absent(c, m_commands)
        /\ Once(c, m_commands') <=> Once(c, m_commands)
    <3>1. /\ Absent(c, Append(m_commands, x)) <=> Absent(c, m_commands)
          /\ Once(c, Append(m_commands, x)) <=> Once(c, m_commands)
      BY <1>p, <2>5, AppendHolds
    <3>2. m_commands' = m_commands \/ m_commands' = Append(m_commands, x)
      BY <2>1
    <3> QED
      BY <3>1, <3>2
  <2>7. /\ Unmoved(c)' = Unmoved(c) /\ Free(c)' = Free(c)
        /\ \A t \in Threads : MovedBy(c, t)' = MovedBy(c, t) /\ HeldBy(c, t)' = HeldBy(c, t)
    BY <2>2, <2>3 DEF Unmoved, MovedBy, Free, HeldBy
  <2> QED
    BY <1>w, <2>2, <2>6, <2>7 DEF Whereabouts
<1>11. ASSUME NEW w \in Workers, ResendOne(w) PROVE Placed'
  <2>1. w \in Threads /\ job[w] # <<>> /\ job[w] \in Seq(AllCmds)
    BY <1>11, <1>p, <1>n DEF ResendOne, Goto, TypeInv, FrontDefined
  <2>2. /\ m_commands' = Append(m_commands, Head(job[w]))
        /\ Uncalled(w) = job[w] /\ Uncalled(w)' = Tail(job[w])
    BY <1>11, <1>p, <2>1 DEF ResendOne, unprotected_send, Goto, Uncalled
  <2>3. \A t \in Threads : t # w => Uncalled(t)' = Uncalled(t)
    BY <1>11, <1>p, <2>1 DEF ResendOne, Goto, Uncalled
  <2>4. UNCHANGED <<cur, sender, calls>>
    BY <1>11 DEF ResendOne, histVars
  <2>5. SUFFICES ASSUME NEW c \in Cmds PROVE Whereabouts(c)'
    BY DEF Placed
  <2> DEFINE x == Head(job[w])
  <2>6. x \in AllCmds
    BY <2>1
  <2>7. /\ Absent(c, Uncalled(w)) <=> x # c /\ Absent(c, Uncalled(w)')
        /\ Once(c, Uncalled(w)) <=> \/ x = c /\ Absent(c, Uncalled(w)')
                                    \/ x # c /\ Once(c, Uncalled(w)')
    BY <2>1, <2>2, PopHolds
  <2>8. /\ Absent(c, m_commands') <=> Absent(c, m_commands) /\ x # c
        /\ Once(c, m_commands') <=> \/ Once(c, m_commands) /\ x # c
                                    \/ Absent(c, m_commands) /\ x = c
    BY <1>p, <2>2, <2>6, AppendHolds
  <2> HIDE DEF x
  <2>9. Free(c)' = Free(c) /\ \A t \in Threads : HeldBy(c, t)' = HeldBy(c, t)
    BY <2>4 DEF Free, HeldBy
  <2>10. CASE x = c
    <3>1. ~Absent(c, Uncalled(w)) /\ ~Unmoved(c)
      BY <2>1, <2>7, <2>10 DEF Unmoved
    <3>2. /\ sender[c] # None /\ MovedBy(c, w)
          /\ Free(c) /\ Absent(c, m_commands) /\ calls[c] = <<>>
      BY <1>w, <2>1, <3>1 DEF Whereabouts, MovedBy
    <3>3. Unmoved(c)'
      BY <2>3, <2>7, <2>10, <3>2 DEF MovedBy, Unmoved
    <3> QED
      BY <2>4, <2>8, <2>9, <2>10, <3>2, <3>3 DEF Whereabouts
  <2>11. CASE x # c
    <3>1. Unmoved(c) => Unmoved(c)'
      BY <2>1, <2>3, <2>7, <2>11 DEF Unmoved
    <3>2. ASSUME NEW t \in Threads, MovedBy(c, t) PROVE MovedBy(c, t)'
      BY <2>1, <2>3, <2>7, <2>11, <3>2 DEF MovedBy
    <3> QED
      BY <1>w, <2>4, <2>8, <2>9, <2>11, <3>1, <3>2 DEF Whereabouts
  <2> QED
    BY <2>10, <2>11
<1>12. ASSUME NEW w \in Workers, NEW l \in {"ret", "dend"}, ClearLocked(w, l),
              pc[w] \in {"rcommit", "dfinal"}, UNCHANGED <<cur, sender, calls>>
       PROVE  Placed'
  <2>1. job[w] = <<>> /\ Uncalled(w) = <<>>
    BY <1>12, <1>n DEF Local, Uncalled
  <2>2. CASE m_commands = <<>>
    <3>1. \A t \in Threads : Uncalled(t)' = Uncalled(t)
      BY <1>12, <1>p, <1>n, <2>2 DEF ClearLocked, Uncalled
    <3> QED
      BY <1>1, <1>12, <2>2, <3>1 DEF ClearLocked, Settled, queueVars
  <2>3. CASE m_commands # <<>>
    <3>1. SpawnClear(w, m_commands, l) /\ m_commands' = <<>>
      BY <1>12, <2>3 DEF ClearLocked
    <3> QED
      BY <1>p, <1>12, <2>1, <3>1, SpawnKeepsPlaces
  <2> QED
    BY <2>2, <2>3
<1>13. ASSUME NEW w \in Workers, ReconnectCommit(w) PROVE Placed'
  <2>1. CASE pc' = [pc EXCEPT ![w] = "dloop"] /\ UNCHANGED <<queueVars, mutex, job>>
    <3>1. \A t \in Threads : Uncalled(t)' = Uncalled(t)
      BY <1>13, <1>p, <1>n, <2>1 DEF ReconnectCommit, Uncalled
    <3> QED
      BY <1>1, <1>13, <2>1, <3>1 DEF ReconnectCommit, Settled, queueVars, histVars
  <2>2. CASE ClearLocked(w, "ret")
    BY <1>12, <1>13, <2>2 DEF ReconnectCommit, histVars
  <2> QED
    BY <1>13, <2>1, <2>2 DEF ReconnectCommit
<1>14. ASSUME NEW w \in Workers, GiveUp(w) PROVE Placed'
  <2>1. CASE pc' = [pc EXCEPT ![w] = "dend"] /\ UNCHANGED <<queueVars, notified, job>>
    <3>1. \A t \in Threads : Uncalled(t)' = Uncalled(t)
      BY <1>14, <1>p, <1>n, <2>1 DEF GiveUp, Uncalled
    <3> QED
      BY <1>1, <1>14, <2>1, <3>1 DEF GiveUp, Settled, queueVars, histVars
  <2>2. CASE ClearLocked(w, "dend")
    BY <1>12, <1>14, <2>2 DEF GiveUp, histVars
  <2> QED
    BY <1>14, <2>1, <2>2 DEF GiveUp
<1>15. ASSUME NEW d \in Detached, FailCall(d) PROVE Placed'
  <2>1. d \in Threads /\ job[d] # <<>> /\ job[d] \in Seq(AllCmds)
    BY <1>15, <1>p, <1>n DEF FailCall, Goto, TypeInv, FrontDefined
  <2>2. Uncalled(d) = job[d] /\ Uncalled(d)' = Tail(job[d])
    BY <1>15, <1>p, <2>1 DEF FailCall, Goto, localVars, Uncalled
  <2>3. \A t \in Threads : t # d => Uncalled(t)' = Uncalled(t)
    BY <1>15, <1>p, <2>1 DEF FailCall, Goto, localVars, Uncalled
  <2> DEFINE x == Head(job[d])
  <2>4. /\ UNCHANGED <<m_commands, cur, sender>>
        /\ calls' = IF x \in Cmds THEN [calls EXCEPT ![x] = Append(@, Failure)] ELSE calls
    BY <1>15 DEF FailCall, RunCallback, queueVars, localVars
  <2>5. SUFFICES ASSUME NEW c \in Cmds PROVE Whereabouts(c)'
    BY DEF Placed
  <2>6. /\ Absent(c, Uncalled(d)) <=> x # c /\ Absent(c, Uncalled(d)')
        /\ Once(c, Uncalled(d)) <=> \/ x = c /\ Absent(c, Uncalled(d)')
                                    \/ x # c /\ Once(c, Uncalled(d)')
    BY <2>1, <2>2, PopHolds
  <2> HIDE DEF x
  <2>7. Free(c)' = Free(c) /\ \A t \in Threads : HeldBy(c, t)' = HeldBy(c, t)
    BY <2>4 DEF Free, HeldBy
  <2>8. CASE x = c
    <3>1. ~Absent(c, Uncalled(d)) /\ ~Unmoved(c)
      BY <2>1, <2>6, <2>8 DEF Unmoved
    <3>2. /\ sender[c] # None /\ MovedBy(c, d)
          /\ Free(c) /\ Absent(c, m_commands) /\ calls[c] = <<>>
      BY <1>w, <2>1, <3>1 DEF Whereabouts, MovedBy
    <3>3. Unmoved(c)'
      BY <2>3, <2>6, <2>8, <3>2 DEF MovedBy, Unmoved
    <3>4. Len(calls'[c]) = 1
      <4>1. calls'[c] = Append(<<>>, Failure)
        BY <1>p, <2>4, <2>8, <3>2
      <4> QED
        BY <4>1
    <3> QED
      BY <2>4, <2>7, <3>2, <3>3, <3>4 DEF Whereabouts
  <2>9. CASE x # c
    <3>1. Unmoved(c) => Unmoved(c)'
      BY <2>1, <2>3, <2>6, <2>9 DEF Unmoved
    <3>2. ASSUME NEW t \in Threads, MovedBy(c, t) PROVE MovedBy(c, t)'
      BY <2>1, <2>3, <2>6, <2>9, <3>2 DEF MovedBy
    <3>3. calls'[c] = calls[c]
      BY <1>p, <2>4, <2>9
    <3> QED
      BY <1>w, <2>4, <2>7, <3>1, <3>2, <3>3 DEF Whereabouts
  <2> QED
    BY <2>8, <2>9
<1> QED
  BY <1>1, <1>2, <1>3, <1>5, <1>6, <1>7, <1>8, <1>9, <1>10, <1>11, <1>13, <1>14,
     <1>15, MovingSteps DEF Moving

\* No command has been sent in the beginning.
LEMMA PlacedInit == Init => Placed
<1> SUFFICES ASSUME Init, NEW c \in Cmds PROVE Whereabouts(c)
  BY DEF Placed
<1>1. sender[c] = None /\ calls[c] = <<>> /\ Absent(c, m_commands)
  BY EmptyHolds DEF Init
<1>2. Free(c)
  BY CommandsAssumption DEF Init, Free, AllCmds
<1>3. Unmoved(c)
  BY EmptyHolds DEF Init, Unmoved, Uncalled
<1> QED
  BY <1>1, <1>2, <1>3 DEF Whereabouts

\* Where a sequence holds c: nowhere, or at one index.
LEMMA OccurrencesOf ==
  ASSUME NEW C, NEW s \in Seq(C), NEW c
  PROVE  /\ Absent(c, s) => Occurrences(c, s) = {}
         /\ Once(c, s) => \E i : Occurrences(c, s) = {i}
<1>1. DOMAIN s = 1 .. Len(s)
  OBVIOUS
<1>2. Absent(c, s) => Occurrences(c, s) = {}
  BY <1>1 DEF Absent, Occurrences
<1>3. ASSUME Once(c, s) PROVE \E i : Occurrences(c, s) = {i}
  <2>1. PICK i \in 1 .. Len(s) : s[i] = c /\ \A j \in 1 .. Len(s) : s[j] = c => j = i
    BY <1>3 DEF Once
  <2>2. Occurrences(c, s) = {i}
    BY <1>1, <2>1 DEF Occurrences
  <2> QED
    BY <2>2
<1> QED
  BY <1>2, <1>3

\* Whereabouts says in which of its places a command is.
LEMMA PlacedMeans == TypeInv /\ Placed => OnePlace
<1> SUFFICES ASSUME TypeInv, Placed, NEW c \in Cmds
             PROVE  IF sender[c] = None THEN Places(c) = {}
                    ELSE \E p \in Places(c) : Places(c) = {p}
  BY DEF OnePlace
<1>p. /\ job \in [Threads -> Seq(AllCmds)]
      /\ m_commands \in Seq(AllCmds)
      /\ calls \in [Cmds -> Seq(AllCmds \cup {Failure})]
  BY DEF TypeInv, TypeOK, DataOK
<1>u. \A t \in Threads : Uncalled(t) \in Seq(AllCmds)
  <2>1. ASSUME NEW t \in Threads PROVE Uncalled(t) \in Seq(AllCmds)
    <3>1. CASE pc[t] = "dec"
      <4>1. job[t] # <<>> /\ job[t] \in Seq(AllCmds)
        BY <1>p, <3>1 DEF TypeInv, FrontDefined
      <4> QED
        BY <3>1, <4>1 DEF Uncalled
    <3>2. CASE pc[t] # "dec"
      BY <1>p, <3>2 DEF Uncalled
    <3> QED
      BY <3>1, <3>2
  <2> QED
    BY <2>1
<1>w. Whereabouts(c)
  BY DEF Placed
<1> DEFINE H == {"held"} \X {t \in Threads : cur[t] = c} \X {0}
           Q == {"queued"} \X {None} \X Occurrences(c, m_commands)
           M(t) == {"moved"} \X {t} \X Occurrences(c, Uncalled(t))
           R == {"called"} \X {None} \X DOMAIN calls[c]
           U == UNION {M(t) : t \in Threads}
<1>1. Places(c) = H \cup Q \cup R \cup U
  BY DEF Places
<1>2. /\ Free(c) => H = {}
      /\ \A t \in Threads : HeldBy(c, t) => H = {<<"held", t, 0>>}
  BY DEF Free, HeldBy
<1>3. /\ Absent(c, m_commands) => Q = {}
      /\ Once(c, m_commands) => \E p : Q = {p}
  <2>1. /\ Absent(c, m_commands) => Occurrences(c, m_commands) = {}
        /\ Once(c, m_commands) => \E i : Occurrences(c, m_commands) = {i}
    BY <1>p, OccurrencesOf
  <2>2. ASSUME NEW i, Occurrences(c, m_commands) = {i} PROVE Q = {<<"queued", None, i>>}
    BY <2>2
  <2> QED
    BY <2>1, <2>2
<1>4. \A t \in Threads : /\ Absent(c, Uncalled(t)) => M(t) = {}
                         /\ Once(c, Uncalled(t)) => \E p : M(t) = {p}
  <2>1. ASSUME NEW t \in Threads
        PROVE  /\ Absent(c, Uncalled(t)) => M(t) = {}
               /\ Once(c, Uncalled(t)) => \E p : M(t) = {p}
    <3>1. /\ Absent(c, Uncalled(t)) => Occurrences(c, Uncalled(t)) = {}
          /\ Once(c, Uncalled(t)) => \E i : Occurrences(c, Uncalled(t)) = {i}
      BY <1>u, OccurrencesOf
    <3>2. ASSUME NEW i, Occurrences(c, Uncalled(t)) = {i} PROVE M(t) = {<<"moved", t, i>>}
      BY <3>2
    <3> QED
      BY <3>1, <3>2
  <2> QED
    BY <2>1
<1>5. /\ calls[c] = <<>> => R = {}
      /\ Len(calls[c]) = 1 => R = {<<"called", None, 1>>}
  <2>1. DOMAIN calls[c] = 1 .. Len(calls[c])
    BY <1>p
  <2>2. calls[c] = <<>> => DOMAIN calls[c] = {}
    BY <2>1
  <2>3. Len(calls[c]) = 1 => DOMAIN calls[c] = {1}
    BY <2>1
  <2> QED
    BY <2>2, <2>3
<1>6. Unmoved(c) => UNION {M(t) : t \in Threads} = {}
  BY <1>4 DEF Unmoved
<1>7. ASSUME NEW t \in Threads, MovedBy(c, t)
      PROVE  \E p : UNION {M(x) : x \in Threads} = {p}
  <2>1. PICK p : M(t) = {p}
    BY <1>4, <1>7 DEF MovedBy
  <2>2. \A x \in Threads : x # t => M(x) = {}
    BY <1>4, <1>7 DEF MovedBy
  <2>3. UNION {M(x) : x \in Threads} = {p}
    BY <2>1, <2>2
  <2> QED
    BY <2>3
<1> HIDE DEF H, Q, M, R, U
<1>8. \/ sender[c] = None /\ H = {} /\ Q = {} /\ U = {} /\ R = {}
      \/ sender[c] # None /\ (\E p : H = {p}) /\ Q = {} /\ U = {} /\ R = {}
      \/ sender[c] # None /\ H = {} /\ (\E p : Q = {p}) /\ U = {} /\ R = {}
      \/ sender[c] # None /\ H = {} /\ Q = {} /\ (\E p : U = {p}) /\ R = {}
      \/ sender[c] # None /\ H = {} /\ Q = {} /\ U = {} /\ (\E p : R = {p})
  BY <1>w, <1>2, <1>3, <1>5, <1>6, <1>7 DEF Whereabouts, U
<1> QED
  BY <1>1, <1>8

\* The invariant behind the theorems on places.
LEMMA PlaceInv == Spec => [](TypeInv /\ Local /\ Placed)
BY CallbackInv, PlacedInit, PlacedNext, PTL DEF Spec

\* No command is lost or doubled between send() and its callback, whatever
\* disconnect(), clear_callbacks(), resend_failed_commands() and the two
\* handlers do to the queues at the same time.
THEOREM CommandsInOnePlace == Spec => []OnePlace
BY PlacedMeans, PlaceInv, PTL

\* No callback is called twice.
THEOREM CalledOnce == Spec => [](\A c \in Cmds : Len(calls[c]) \in {0, 1})
<1>1. Placed => \A c \in Cmds : Len(calls[c]) \in {0, 1}
  BY DEF Placed, Whereabouts
<1> QED
  BY <1>1, PlaceInv, PTL

(***************************************************************************)
(* sync_commit()                                                           *)
(***************************************************************************)
\* What sync_commit() looks at is only true when no callback is left, except
\* for the queue a thread in clear_callbacks has moved out and not counted yet.
LEMMA NothingLeft ==
  ASSUME TypeInv, Local, Counted, Placed, MutexOwner,
         AllDone, mutex = None, \A u \in Users : pc[u] # "spawn",
         NEW c \in Cmds, sender[c] # None
  PROVE  calls[c] # <<>>
<1>p. /\ pc \in [Threads -> UserLabels \cup WorkerLabels \cup DetachedLabels]
      /\ \A u \in Users : pc[u] \in UserLabels
      /\ \A w \in Workers : pc[w] \in WorkerLabels
      /\ job \in [Threads -> Seq(AllCmds)]
  BY DEF TypeInv, TypeOK, ControlOK, DataOK
<1>n. None \notin Threads /\ None \notin Cmds /\ Absent(c, <<>>) /\ ~Once(c, <<>>)
  BY ThreadsAssumption, CommandsAssumption, EmptyHolds DEF AllCmds
<1>1. Outstanding = {}
  BY FS_EmptySet DEF AllDone, Counted, RunningCount
<1>2. ASSUME NEW t \in Threads, cur[t] = c PROVE FALSE
  <2>1. CASE t \in Users
    <3>1. pc[t] = "push"
      BY <1>n, <1>2, <2>1 DEF Local
    <3>2. mutex = t
      BY <2>1, <3>1 DEF MutexOwner, Locked, UserLocked, Threads
    <3> QED
      BY <1>n, <3>2
  <2>2. CASE t \in Workers
    <3>1. pc[t] = "call"
      BY <1>n, <1>2, <2>2 DEF Local
    <3>2. <<t, 0>> \in Outstanding
      BY <2>2, <3>1 DEF Outstanding, Receiving
    <3> QED
      BY <1>1, <3>2
  <2>3. CASE t \in Detached
    BY <1>n, <1>2, <2>3 DEF Local
  <2> QED
    BY <2>1, <2>2, <2>3 DEF Threads
<1>3. ASSUME NEW t \in Threads, Uncalled(t) # <<>> PROVE FALSE
  <2>1. CASE t \in Users
    <3>1. job[t] # <<>>
      BY <1>p, <1>3, <2>1 DEF Uncalled, UserLabels
    <3> QED
      BY <2>1, <3>1 DEF Local
  <2>2. CASE t \in Workers
    <3>1. job[t] # <<>>
      BY <1>p, <1>3, <2>2 DEF Uncalled, WorkerLabels
    <3>2. pc[t] = "resend"
      BY <2>2, <3>1 DEF Local
    <3>3. mutex = t
      BY <2>2, <3>2 DEF MutexOwner, Locked, HandlerLocked, Threads
    <3> QED
      BY <1>n, <3>3
  <2>3. CASE t \in Detached
    <3>1. job[t] # <<>> /\ job[t] \in Seq(AllCmds)
      BY <1>p, <1>3 DEF TypeInv, FrontDefined, Uncalled
    <3>2. Len(job[t]) \in Nat /\ Len(job[t]) # 0
      BY <3>1, EmptySeq
    <3>3. <<t, 1>> \in Outstanding
      BY <2>3, <3>2 DEF Outstanding
    <3> QED
      BY <1>1, <3>3
  <2> QED
    BY <2>1, <2>2, <2>3 DEF Threads
<1>4. ~\E t \in Threads : HeldBy(c, t)
  BY <1>2 DEF HeldBy
<1>5. ~\E t \in Threads : MovedBy(c, t)
  BY <1>3, <1>n DEF MovedBy
<1>6. ~Once(c, m_commands)
  BY <1>n DEF AllDone
<1>7. Len(calls[c]) = 1
  BY <1>4, <1>5, <1>6 DEF Placed, Whereabouts
<1> QED
  BY <1>7

\* No thread evaluates the predicate of sync_commit() while another one is
\* between the two halves of clear_callbacks (client.cpp:260 and 262).
NoClearAside ==
  \A u \in Users : pc[u] = "slock" => \A x \in Users : pc[x] # "spawn"

\* A callback that has been called stays called.
LEMMA CallsGrow ==
  ASSUME TypeInv, [Next]_vars
  PROVE  \A c \in Cmds : calls[c] # <<>> => calls'[c] # <<>>
<1> DEFINE Goal == \A c \in Cmds : calls[c] # <<>> => calls'[c] # <<>>
<1>p. calls \in [Cmds -> Seq(AllCmds \cup {Failure})]
  BY DEF TypeInv, TypeOK, DataOK
<1>c. ASSUME NEW x, NEW r \in AllCmds \cup {Failure}, RunCallback(x, r)
      PROVE  Goal
  <2>1. SUFFICES ASSUME NEW c \in Cmds, calls[c] # <<>> PROVE calls'[c] # <<>>
    OBVIOUS
  <2>2. calls[c] \in Seq(AllCmds \cup {Failure})
    BY <1>p
  <2>3. calls'[c] = calls[c] \/ calls'[c] = Append(calls[c], r)
    BY <1>p, <1>c DEF RunCallback
  <2>4. Append(calls[c], r) # <<>>
    BY <2>2
  <2> QED
    BY <2>1, <2>3, <2>4
<1> SUFFICES Goal
  OBVIOUS
<1>k. calls' = calls => Goal
  OBVIOUS
<1> USE DEF histVars
<1> HIDE DEF Goal
<1>1. ASSUME NEW u \in Users, NEW c \in Cmds, Send(u, c) PROVE Goal
  BY <1>1, <1>k DEF Send, Begin, Goto
<1>2. ASSUME NEW u \in Users, NEW o \in {"commit", "sync", "timed"}, Commit(u, o)
      PROVE  Goal
  BY <1>2, <1>k DEF Commit, Begin, Goto, AfterCommit
<1>3. ASSUME NEW u \in Users, NEW o \in {"disconnect", "disconnect_wait"}, Disconnect(u, o)
      PROVE  Goal
  BY <1>3, <1>k DEF Disconnect, Begin, Goto
<1>4. ASSUME NEW u \in Users, SendPush(u) PROVE Goal
  BY <1>4, <1>k DEF SendPush, Goto
<1>5. ASSUME NEW u \in Users, TryCommit(u) PROVE Goal
  BY <1>5, <1>k DEF TryCommit, Goto, AfterCommit
<1>6. ASSUME NEW u \in Users, ClearMove(u) PROVE Goal
  BY <1>6, <1>k DEF ClearMove, Goto
<1>7. ASSUME NEW u \in Users, ClearSpawn(u) PROVE Goal
  BY <1>7, <1>k DEF ClearSpawn, SpawnClear
<1>8. ASSUME NEW u \in Users, SyncLock(u) PROVE Goal
  BY <1>8, <1>k DEF SyncLock, Goto
<1>9. ASSUME NEW u \in Users, SyncBlock(u) PROVE Goal
  BY <1>9, <1>k DEF SyncBlock, Goto
<1>10. ASSUME NEW u \in Users, SyncReturn(u) PROVE Goal
  BY <1>10, <1>k DEF SyncReturn, Goto
<1>11. ASSUME NEW u \in Users, SyncTimeout(u) PROVE Goal
  BY <1>11, <1>k DEF SyncTimeout, Goto
<1>12. ASSUME NEW u \in Users, DisconnectRemoved(u) PROVE Goal
  BY <1>12, <1>k DEF DisconnectRemoved, Goto
<1>13. ASSUME NEW u \in Users, DisconnectBuffers(u) PROVE Goal
  BY <1>13, <1>k DEF DisconnectBuffers, Goto
<1>14. ASSUME NEW u \in Users, Connect(u) PROVE Goal
  BY <1>14, <1>k DEF Connect, Begin, Goto
<1>15. ASSUME NEW u \in Users, CancelReconnect(u) PROVE Goal
  BY <1>15, <1>k DEF CancelReconnect, Begin
<1>16. ASSUME NEW t \in Users \cup Workers, ConnectTcp(t) PROVE Goal
  BY <1>16, <1>k DEF ConnectTcp, Goto, AfterConnect
<1>17. ASSUME NEW t \in Users \cup Workers, ConnectRead(t) PROVE Goal
  BY <1>17, <1>k DEF ConnectRead, Goto, AfterConnect
<1>18. ASSUME NEW t \in Users \cup Workers, ConnectHandlers(t) PROVE Goal
  BY <1>18, <1>k DEF ConnectHandlers, Goto, AfterConnect
<1>19. ASSUME NEW w \in Workers, ReadEvent(w) PROVE Goal
  BY <1>19, <1>k DEF ReadEvent, Goto
<1>20. ASSUME NEW w \in Workers, DropEvent(w) PROVE Goal
  BY <1>20, <1>k DEF DropEvent, Goto
<1>21. ASSUME NEW w \in Workers, MalformedEvent(w) PROVE Goal
  BY <1>21, <1>k DEF MalformedEvent, Goto
<1>22. ASSUME NEW w \in Workers, TakeReply(w) PROVE Goal
  BY <1>22, <1>k DEF TakeReply, Goto
<1>23. ASSUME NEW w \in Workers, EndRead(w) PROVE Goal
  BY <1>23, <1>k DEF EndRead, Goto
<1>24. ASSUME NEW w \in Workers, ReceiveLock(w) PROVE Goal
  BY <1>24, <1>k DEF ReceiveLock, Goto
<1>25. ASSUME NEW w \in Workers, ReceiveCall(w) PROVE Goal
  <2>1. RunCallback(cur[w], rep[w]) /\ rep[w] \in AllCmds
    BY <1>25 DEF ReceiveCall, Goto, TypeInv, Held
  <2> QED
    BY <2>1, <1>c
<1>26. ASSUME NEW w \in Workers, ReceiveDone(w) PROVE Goal
  BY <1>26, <1>k DEF ReceiveDone, NotifyAll
<1>27. ASSUME NEW w \in Workers, DropBuffers(w) PROVE Goal
  BY <1>27, <1>k DEF DropBuffers, Goto
<1>28. ASSUME NEW w \in Workers, DropCheck(w) PROVE Goal
  BY <1>28, <1>k DEF DropCheck, Goto
<1>29. ASSUME NEW w \in Workers, DropSet(w) PROVE Goal
  BY <1>29, <1>k DEF DropSet, Goto
<1>30. ASSUME NEW w \in Workers, DropLock(w) PROVE Goal
  BY <1>30, <1>k DEF DropLock, Goto
<1>31. ASSUME NEW w \in Workers, ReconnectSleep(w) PROVE Goal
  BY <1>31, <1>k DEF ReconnectSleep, Goto
<1>32. ASSUME NEW w \in Workers, ReconnectStart(w) PROVE Goal
  BY <1>32, <1>k DEF ReconnectStart, Goto
<1>33. ASSUME NEW w \in Workers, ReconnectCheck(w) PROVE Goal
  BY <1>33, <1>k DEF ReconnectCheck, Goto
<1>34. ASSUME NEW w \in Workers, ReAuth(w) PROVE Goal
  BY <1>34, <1>k DEF ReAuth, Goto
<1>35. ASSUME NEW w \in Workers, ReSelect(w) PROVE Goal
  BY <1>35, <1>k DEF ReSelect, Goto
<1>36. ASSUME NEW w \in Workers, ResendMove(w) PROVE Goal
  BY <1>36, <1>k DEF ResendMove, Goto
<1>37. ASSUME NEW w \in Workers, ResendOne(w) PROVE Goal
  BY <1>37, <1>k DEF ResendOne, Goto
<1>38. ASSUME NEW w \in Workers, ReconnectCommit(w) PROVE Goal
  BY <1>38, <1>k DEF ReconnectCommit, ClearLocked, SpawnClear
<1>39. ASSUME NEW w \in Workers, ReconnectStop(w) PROVE Goal
  BY <1>39, <1>k DEF ReconnectStop, Goto
<1>40. ASSUME NEW w \in Workers, GiveUp(w) PROVE Goal
  BY <1>40, <1>k DEF GiveUp, ClearLocked, SpawnClear
<1>41. ASSUME NEW w \in Workers, DropEnd(w) PROVE Goal
  BY <1>41, <1>k DEF DropEnd, Goto
<1>42. ASSUME NEW w \in Workers, HandlerReturns(w) PROVE Goal
  BY <1>42, <1>k DEF HandlerReturns, Goto
<1>43. ASSUME NEW d \in Detached, FailCall(d) PROVE Goal
  BY <1>43, <1>c DEF FailCall
<1>44. ASSUME NEW d \in Detached, FailDone(d) PROVE Goal
  BY <1>44, <1>k DEF FailDone, Goto
<1>45. ASSUME NEW d \in Detached, FailNotify(d) PROVE Goal
  BY <1>45, <1>k DEF FailNotify, NotifyAll
<1>46. CASE UNCHANGED vars
  BY <1>46, <1>k DEF vars, connVars, queueVars, reconVars, localVars, histVars
<1> QED
  BY <1>1, <1>2, <1>3, <1>4, <1>5, <1>6, <1>7, <1>8, <1>9, <1>10, <1>11, <1>12,
     <1>13, <1>14, <1>15, <1>16, <1>17, <1>18, <1>19, <1>20, <1>21, <1>22,
     <1>23, <1>24, <1>25, <1>26, <1>27, <1>28, <1>29, <1>30, <1>31, <1>32,
     <1>33, <1>34, <1>35, <1>36, <1>37, <1>38, <1>39, <1>40, <1>41, <1>42,
     <1>43, <1>44, <1>45, <1>46
  DEF Next, UserCall, UserStep, HandlerStep, DetachedStep

\* A thread that leaves its wait has evaluated the predicate itself.
LEMMA SyncedSteps ==
  ASSUME TypeInv, [Next]_vars, NEW v \in Users, pc'[v] = "synced"
  PROVE  \/ SyncLock(v) /\ AllDone /\ mutex = None /\ sender' = sender
         \/ pc[v] = "synced" /\ \A c \in Cmds : sender'[c] = v => sender[c] = v
<1> DEFINE Kept == pc[v] = "synced" /\ \A c \in Cmds : sender'[c] = v => sender[c] = v
           Evaluated == SyncLock(v) /\ AllDone /\ mutex = None /\ sender' = sender
           Goal == Evaluated \/ Kept
<1>p. /\ pc \in [Threads -> UserLabels \cup WorkerLabels \cup DetachedLabels]
      /\ sender \in [Cmds -> Users \cup {None}]
  BY DEF TypeInv, TypeOK, ControlOK, DataOK
<1> SUFFICES Goal
  OBVIOUS
<1> USE <1>p, ThreadsAssumption DEF Threads, queueVars, reconVars, localVars, histVars
<1>1. ASSUME NEW u \in Users, NEW c \in Cmds, Send(u, c) PROVE Goal
  BY <1>1 DEF Send, Begin, Goto
<1>2. ASSUME NEW u \in Users, NEW o \in {"commit", "sync", "timed"}, Commit(u, o)
      PROVE  Goal
  BY <1>2 DEF Commit, Begin, Goto, AfterCommit
<1>3. ASSUME NEW u \in Users, NEW o \in {"disconnect", "disconnect_wait"}, Disconnect(u, o)
      PROVE  Goal
  BY <1>3 DEF Disconnect, Begin, Goto
<1>4. ASSUME NEW u \in Users, SendPush(u) PROVE Goal
  BY <1>4 DEF SendPush, Goto
<1>5. ASSUME NEW u \in Users, TryCommit(u) PROVE Goal
  BY <1>5 DEF TryCommit, Goto, AfterCommit
<1>6. ASSUME NEW u \in Users, ClearMove(u) PROVE Goal
  BY <1>6 DEF ClearMove, Goto
<1>7. ASSUME NEW u \in Users, ClearSpawn(u) PROVE Goal
  BY <1>7 DEF ClearSpawn, SpawnClear
<1>8. ASSUME NEW u \in Users, SyncLock(u) PROVE Goal
  <2>1. CASE u = v
    BY <1>8, <2>1 DEF SyncLock, Goto
  <2>2. CASE u # v
    BY <1>8, <2>2 DEF SyncLock, Goto
  <2> QED
    BY <2>1, <2>2
<1>9. ASSUME NEW u \in Users, SyncBlock(u) PROVE Goal
  BY <1>9 DEF SyncBlock, Goto
<1>10. ASSUME NEW u \in Users, SyncReturn(u) PROVE Goal
  BY <1>10 DEF SyncReturn, Goto
<1>11. ASSUME NEW u \in Users, SyncTimeout(u) PROVE Goal
  BY <1>11 DEF SyncTimeout, Goto
<1>12. ASSUME NEW u \in Users, DisconnectRemoved(u) PROVE Goal
  BY <1>12 DEF DisconnectRemoved, Goto
<1>13. ASSUME NEW u \in Users, DisconnectBuffers(u) PROVE Goal
  BY <1>13 DEF DisconnectBuffers, Goto
<1>14. ASSUME NEW u \in Users, Connect(u) PROVE Goal
  BY <1>14 DEF Connect, Begin, Goto
<1>15. ASSUME NEW u \in Users, CancelReconnect(u) PROVE Goal
  BY <1>15 DEF CancelReconnect, Begin
<1>16. ASSUME NEW t \in Users \cup Workers, ConnectTcp(t) PROVE Goal
  BY <1>16 DEF ConnectTcp, Goto, AfterConnect
<1>17. ASSUME NEW t \in Users \cup Workers, ConnectRead(t) PROVE Goal
  BY <1>17 DEF ConnectRead, Goto, AfterConnect
<1>18. ASSUME NEW t \in Users \cup Workers, ConnectHandlers(t) PROVE Goal
  BY <1>18 DEF ConnectHandlers, Goto, AfterConnect
<1>19. ASSUME NEW w \in Workers, ReadEvent(w) PROVE Goal
  BY <1>19 DEF ReadEvent, Goto
<1>20. ASSUME NEW w \in Workers, DropEvent(w) PROVE Goal
  BY <1>20 DEF DropEvent, Goto
<1>21. ASSUME NEW w \in Workers, MalformedEvent(w) PROVE Goal
  BY <1>21 DEF MalformedEvent, Goto
<1>22. ASSUME NEW w \in Workers, TakeReply(w) PROVE Goal
  BY <1>22 DEF TakeReply, Goto
<1>23. ASSUME NEW w \in Workers, EndRead(w) PROVE Goal
  BY <1>23 DEF EndRead, Goto
<1>24. ASSUME NEW w \in Workers, ReceiveLock(w) PROVE Goal
  BY <1>24 DEF ReceiveLock, Goto
<1>25. ASSUME NEW w \in Workers, ReceiveCall(w) PROVE Goal
  BY <1>25 DEF ReceiveCall, Goto
<1>26. ASSUME NEW w \in Workers, ReceiveDone(w) PROVE Goal
  BY <1>26 DEF ReceiveDone, NotifyAll
<1>27. ASSUME NEW w \in Workers, DropBuffers(w) PROVE Goal
  BY <1>27 DEF DropBuffers, Goto
<1>28. ASSUME NEW w \in Workers, DropCheck(w) PROVE Goal
  BY <1>28 DEF DropCheck, Goto
<1>29. ASSUME NEW w \in Workers, DropSet(w) PROVE Goal
  BY <1>29 DEF DropSet, Goto
<1>30. ASSUME NEW w \in Workers, DropLock(w) PROVE Goal
  BY <1>30 DEF DropLock, Goto
<1>31. ASSUME NEW w \in Workers, ReconnectSleep(w) PROVE Goal
  BY <1>31 DEF ReconnectSleep, Goto
<1>32. ASSUME NEW w \in Workers, ReconnectStart(w) PROVE Goal
  BY <1>32 DEF ReconnectStart, Goto
<1>33. ASSUME NEW w \in Workers, ReconnectCheck(w) PROVE Goal
  BY <1>33 DEF ReconnectCheck, Goto
<1>34. ASSUME NEW w \in Workers, ReAuth(w) PROVE Goal
  BY <1>34 DEF ReAuth, Goto
<1>35. ASSUME NEW w \in Workers, ReSelect(w) PROVE Goal
  BY <1>35 DEF ReSelect, Goto
<1>36. ASSUME NEW w \in Workers, ResendMove(w) PROVE Goal
  BY <1>36 DEF ResendMove, Goto
<1>37. ASSUME NEW w \in Workers, ResendOne(w) PROVE Goal
  BY <1>37 DEF ResendOne, Goto
<1>38. ASSUME NEW w \in Workers, ReconnectCommit(w) PROVE Goal
  BY <1>38 DEF ReconnectCommit, ClearLocked, SpawnClear
<1>39. ASSUME NEW w \in Workers, ReconnectStop(w) PROVE Goal
  BY <1>39 DEF ReconnectStop, Goto
<1>40. ASSUME NEW w \in Workers, GiveUp(w) PROVE Goal
  BY <1>40 DEF GiveUp, ClearLocked, SpawnClear
<1>41. ASSUME NEW w \in Workers, DropEnd(w) PROVE Goal
  BY <1>41 DEF DropEnd, Goto
<1>42. ASSUME NEW w \in Workers, HandlerReturns(w) PROVE Goal
  BY <1>42 DEF HandlerReturns, Goto
<1>43. ASSUME NEW d \in Detached, FailCall(d) PROVE Goal
  BY <1>43 DEF FailCall, Goto
<1>44. ASSUME NEW d \in Detached, FailDone(d) PROVE Goal
  BY <1>44 DEF FailDone, Goto
<1>45. ASSUME NEW d \in Detached, FailNotify(d) PROVE Goal
  BY <1>45 DEF FailNotify, NotifyAll
<1>46. CASE UNCHANGED vars
  BY <1>46 DEF vars, connVars, queueVars, reconVars, localVars, histVars
<1> HIDE <1>p DEF Goal
<1> QED
  BY <1>1, <1>2, <1>3, <1>4, <1>5, <1>6, <1>7, <1>8, <1>9, <1>10, <1>11, <1>12,
     <1>13, <1>14, <1>15, <1>16, <1>17, <1>18, <1>19, <1>20, <1>21, <1>22,
     <1>23, <1>24, <1>25, <1>26, <1>27, <1>28, <1>29, <1>30, <1>31, <1>32,
     <1>33, <1>34, <1>35, <1>36, <1>37, <1>38, <1>39, <1>40, <1>41, <1>42,
     <1>43, <1>44, <1>45, <1>46
  DEF Next, UserCall, UserStep, HandlerStep, DetachedStep

\* The wait of one thread concerns the commands of that thread.
LEMMA SyncNext ==
  ASSUME TypeInv, Local, Counted, Placed, MutexOwner, NoClearAside, SyncComplete,
         [Next]_vars
  PROVE  SyncComplete'
<1> SUFFICES ASSUME NEW v \in Users, pc'[v] = "synced", NEW c \in Cmds, sender'[c] = v
             PROVE  calls'[c] # <<>>
  BY DEF SyncComplete
<1>1. calls[c] # <<>> => calls'[c] # <<>>
  BY CallsGrow
<1>2. CASE SyncLock(v) /\ AllDone /\ mutex = None /\ sender' = sender
  <2>1. pc[v] = "slock"
    BY <1>2 DEF SyncLock, Goto
  <2>2. \A u \in Users : pc[u] # "spawn"
    BY <2>1 DEF NoClearAside
  <2>3. sender[c] # None
    BY <1>2, ThreadsAssumption DEF Threads
  <2> QED
    BY <1>1, <1>2, <2>2, <2>3, NothingLeft
<1>3. CASE pc[v] = "synced" /\ \A e \in Cmds : sender'[e] = v => sender[e] = v
  BY <1>1, <1>3 DEF SyncComplete
<1> QED
  BY <1>2, <1>3, SyncedSteps

\* When sync_commit() returns, every callback of its caller has been called,
\* whatever happens to the connection, unless another thread was clearing the
\* callbacks aside at that moment.
THEOREM SyncWaits == Spec /\ []NoClearAside => []SyncComplete
<1>1. Init => SyncComplete
  BY DEF Init, SyncComplete, Threads
<1>2. /\ TypeInv /\ Local /\ Counted /\ Placed /\ MutexOwner
      /\ NoClearAside /\ SyncComplete /\ [Next]_vars
      => SyncComplete'
  BY SyncNext
<1> QED
  BY <1>1, <1>2, CallbackInv, PlaceInv, MutualExclusion, PTL DEF Spec

\* With a single application thread there is no such moment.
THEOREM SyncWaitsAlone ==
  ASSUME NEW u, Users = {u}
  PROVE  Spec => []SyncComplete
<1>1. TypeInv => NoClearAside
  BY DEF NoClearAside
<1>2. Spec => []TypeInv
  BY CallbackInv, PTL
<1> QED
  BY <1>1, <1>2, SyncWaits, PTL
=============================================================================
