---------------------------- MODULE ClientProofs ----------------------------
(***************************************************************************)
(* Theorems about Client that hold for any number of application threads,  *)
(* workers, detached threads and commands, any use of the operations and   *)
(* any number of lost connections, refusals and malformed replies.         *)
(*                                                                         *)
(* Types are not inductive on their own: that a callback is given a reply  *)
(* (TypeOK types calls) rests on what a thread holds at each label (Held), *)
(* and that a queue element is a command rests on fronts being taken only  *)
(* from non-empty queues (FrontDefined).  TypeInv is the conjunction.      *)
(***************************************************************************)
EXTENDS ClientProperties, SequenceTheorems, TLAPS

(***************************************************************************)
(* The connection: its steps keep its state well typed, whatever the       *)
(* commands are.                                                           *)
(***************************************************************************)
\* A read splits wire in two sequences of commands.
LEMMA ReadSplits ==
  ASSUME NEW C, NEW s \in Seq(C), NEW n \in 0 .. Len(s)
  PROVE  /\ SubSeq(s, 1, n) \in Seq(C)
         /\ SubSeq(s, n + 1, Len(s)) \in Seq(C)
OBVIOUS

\* The flags of the connection stay Boolean.
LEMMA FlagsTyped ==
  ASSUME NEW C, FlagsOK, [ConnNext(C)]_connVars
  PROVE  FlagsOK'
<1> USE DEF FlagsOK
<1>1. CASE TcpConnect \/ AsyncRead \/ SetHandlers \/ TcpDisconnect \/ ClearBuffers
  BY <1>1 DEF TcpConnect, AsyncRead, SetHandlers, TcpDisconnect, ClearBuffers
<1>2. ASSUME NEW c \in C, BufferCommand(c) PROVE FlagsOK'
  BY <1>2 DEF BufferCommand
<1>3. CASE WriteBuffer \/ WriteFails
  BY <1>3 DEF WriteBuffer, WriteFails
<1>4. ASSUME NEW w \in Workers, NEW n \in 0 .. Len(wire), ReadReplies(w, n)
      PROVE  FlagsOK'
  BY <1>4 DEF ReadReplies
<1>5. ASSUME NEW w \in Workers, PeerDrop(w) \/ NextRead(w) \/ HandlerReturn(w)
      PROVE  FlagsOK'
  BY <1>5 DEF PeerDrop, NextRead, HandlerReturn
<1>6. CASE PopReply
  BY <1>6 DEF PopReply
<1>7. CASE UNCHANGED connVars
  BY <1>7 DEF connVars
<1> QED
  BY <1>1, <1>2, <1>3, <1>4, <1>5, <1>6, <1>7 DEF ConnNext

\* The buffers hold commands, and only a worker runs a callback of the socket.
LEMMA QueuesTyped ==
  ASSUME NEW C, QueuesOK(C), [ConnNext(C)]_connVars
  PROVE  QueuesOK(C)'
<1> USE DEF QueuesOK
<1>1. CASE TcpConnect
  BY <1>1 DEF TcpConnect
<1>2. CASE TcpDisconnect
  BY <1>2 DEF TcpDisconnect
<1>3. CASE AsyncRead \/ SetHandlers
  BY <1>3 DEF AsyncRead, SetHandlers
<1>4. CASE ClearBuffers
  BY <1>4 DEF ClearBuffers
<1>5. ASSUME NEW c \in C, BufferCommand(c) PROVE QueuesOK(C)'
  BY <1>5 DEF BufferCommand
<1>6. CASE WriteBuffer
  BY <1>6 DEF WriteBuffer
<1>7. CASE WriteFails
  BY <1>7 DEF WriteFails
<1>8. ASSUME NEW w \in Workers, NEW n \in 0 .. Len(wire), ReadReplies(w, n)
      PROVE  QueuesOK(C)'
  <2>1. /\ SubSeq(wire, 1, n) \in Seq(C)
        /\ SubSeq(wire, n + 1, Len(wire)) \in Seq(C)
    BY ReadSplits
  <2> QED
    BY <1>8, <2>1 DEF ReadReplies
<1>9. ASSUME NEW w \in Workers, PeerDrop(w) PROVE QueuesOK(C)'
  BY <1>9 DEF PeerDrop
<1>10. ASSUME NEW w \in Workers, NextRead(w) PROVE QueuesOK(C)'
  BY <1>10 DEF NextRead, ReleaseFd
<1>11. ASSUME NEW w \in Workers, HandlerReturn(w) PROVE QueuesOK(C)'
  BY <1>11 DEF HandlerReturn, ReleaseFd
<1>12. CASE PopReply
  BY <1>12 DEF PopReply
<1>13. CASE UNCHANGED connVars
  BY <1>13 DEF connVars
<1> QED
  BY <1>1, <1>2, <1>3, <1>4, <1>5, <1>6, <1>7, <1>8, <1>9, <1>10, <1>11, <1>12,
     <1>13
  DEF ConnNext

\* Every step of the connection preserves its type, whatever the commands.
THEOREM ConnStepTyped ==
  ASSUME NEW C, ConnTypeOK(C), [ConnNext(C)]_connVars
  PROVE  ConnTypeOK(C)'
BY FlagsTyped, QueuesTyped DEF ConnTypeOK

(***************************************************************************)
(* The client.                                                             *)
(***************************************************************************)

\* A thread about to push a command, or to run a callback, has the command or
\* the reply in hand.
Held ==
  /\ \A u \in Users : pc[u] = "push" => cur[u] \in AllCmds
  /\ \A w \in Workers : pc[w] \in {"rlock", "call"} => rep[w] \in AllCmds

\* Every thread stays within its labels, and flags and counters keep their
\* types.
LEMMA ControlNext ==
  ASSUME ControlOK, [Next]_vars
  PROVE  ControlOK'
<1> USE ThreadsAssumption
    DEF ControlOK, UserLabels, WorkerLabels, DetachedLabels, States, Threads,
        reconVars, localVars, histVars
<1>1. ASSUME NEW u \in Users, NEW c \in Cmds, Send(u, c) PROVE ControlOK'
  BY <1>1 DEF Send, Begin, Goto
<1>2. ASSUME NEW u \in Users, NEW o \in {"commit", "sync", "timed"}, Commit(u, o)
      PROVE  ControlOK'
  BY <1>2 DEF Commit, Begin, Goto, AfterCommit
<1>3. ASSUME NEW u \in Users, NEW o \in {"disconnect", "disconnect_wait"}, Disconnect(u, o)
      PROVE  ControlOK'
  BY <1>3 DEF Disconnect, Begin, Goto
<1>4. ASSUME NEW u \in Users, SendPush(u) PROVE ControlOK'
  BY <1>4 DEF SendPush, Goto
<1>5. ASSUME NEW u \in Users, TryCommit(u) PROVE ControlOK'
  BY <1>5 DEF TryCommit, Goto, AfterCommit
<1>6. ASSUME NEW u \in Users, ClearMove(u) PROVE ControlOK'
  BY <1>6 DEF ClearMove, Goto
<1>7. ASSUME NEW u \in Users, ClearSpawn(u) PROVE ControlOK'
  BY <1>7 DEF ClearSpawn, SpawnClear
<1>8. ASSUME NEW u \in Users, SyncLock(u) PROVE ControlOK'
  BY <1>8 DEF SyncLock, Goto
<1>9. ASSUME NEW u \in Users, SyncBlock(u) PROVE ControlOK'
  BY <1>9 DEF SyncBlock, Goto
<1>10. ASSUME NEW u \in Users, SyncReturn(u) PROVE ControlOK'
  BY <1>10 DEF SyncReturn, Goto
<1>11. ASSUME NEW u \in Users, SyncTimeout(u) PROVE ControlOK'
  BY <1>11 DEF SyncTimeout, Goto
<1>12. ASSUME NEW u \in Users, DisconnectRemoved(u) PROVE ControlOK'
  BY <1>12 DEF DisconnectRemoved, Goto
<1>13. ASSUME NEW u \in Users, DisconnectBuffers(u) PROVE ControlOK'
  BY <1>13 DEF DisconnectBuffers, Goto
<1>14. ASSUME NEW u \in Users, Connect(u) PROVE ControlOK'
  BY <1>14 DEF Connect, Begin, Goto
<1>15. ASSUME NEW u \in Users, CancelReconnect(u) PROVE ControlOK'
  BY <1>15 DEF CancelReconnect, Begin
<1>16. ASSUME NEW t \in Users \cup Workers, ConnectTcp(t) PROVE ControlOK'
  BY <1>16 DEF ConnectTcp, Goto, AfterConnect
<1>17. ASSUME NEW t \in Users \cup Workers, ConnectRead(t) PROVE ControlOK'
  BY <1>17 DEF ConnectRead, Goto, AfterConnect
<1>18. ASSUME NEW t \in Users \cup Workers, ConnectHandlers(t) PROVE ControlOK'
  BY <1>18 DEF ConnectHandlers, Goto, AfterConnect
<1>19. ASSUME NEW w \in Workers, ReadEvent(w) PROVE ControlOK'
  BY <1>19 DEF ReadEvent, Goto
<1>20. ASSUME NEW w \in Workers, DropEvent(w) PROVE ControlOK'
  BY <1>20 DEF DropEvent, Goto
<1>21. ASSUME NEW w \in Workers, MalformedEvent(w) PROVE ControlOK'
  BY <1>21 DEF MalformedEvent, Goto
<1>22. ASSUME NEW w \in Workers, TakeReply(w) PROVE ControlOK'
  BY <1>22 DEF TakeReply, Goto
<1>23. ASSUME NEW w \in Workers, EndRead(w) PROVE ControlOK'
  BY <1>23 DEF EndRead, Goto
<1>24. ASSUME NEW w \in Workers, ReceiveLock(w) PROVE ControlOK'
  BY <1>24 DEF ReceiveLock, Goto
<1>25. ASSUME NEW w \in Workers, ReceiveCall(w) PROVE ControlOK'
  BY <1>25 DEF ReceiveCall, Goto
<1>26. ASSUME NEW w \in Workers, ReceiveDone(w) PROVE ControlOK'
  BY <1>26 DEF ReceiveDone, NotifyAll
<1>27. ASSUME NEW w \in Workers, DropBuffers(w) PROVE ControlOK'
  BY <1>27 DEF DropBuffers, Goto
<1>28. ASSUME NEW w \in Workers, DropCheck(w) PROVE ControlOK'
  BY <1>28 DEF DropCheck, Goto
<1>29. ASSUME NEW w \in Workers, DropSet(w) PROVE ControlOK'
  BY <1>29 DEF DropSet, Goto
<1>30. ASSUME NEW w \in Workers, DropLock(w) PROVE ControlOK'
  BY <1>30 DEF DropLock, Goto
<1>31. ASSUME NEW w \in Workers, ReconnectSleep(w) PROVE ControlOK'
  BY <1>31 DEF ReconnectSleep, Goto
<1>32. ASSUME NEW w \in Workers, ReconnectStart(w) PROVE ControlOK'
  BY <1>32 DEF ReconnectStart, Goto
<1>33. ASSUME NEW w \in Workers, ReconnectCheck(w) PROVE ControlOK'
  BY <1>33 DEF ReconnectCheck, Goto
<1>34. ASSUME NEW w \in Workers, ReAuth(w) PROVE ControlOK'
  BY <1>34 DEF ReAuth, Goto
<1>35. ASSUME NEW w \in Workers, ReSelect(w) PROVE ControlOK'
  BY <1>35 DEF ReSelect, Goto
<1>36. ASSUME NEW w \in Workers, ResendMove(w) PROVE ControlOK'
  BY <1>36 DEF ResendMove, Goto
<1>37. ASSUME NEW w \in Workers, ResendOne(w) PROVE ControlOK'
  BY <1>37 DEF ResendOne, Goto
<1>38. ASSUME NEW w \in Workers, ReconnectCommit(w) PROVE ControlOK'
  BY <1>38 DEF ReconnectCommit, ClearLocked, SpawnClear
<1>39. ASSUME NEW w \in Workers, ReconnectStop(w) PROVE ControlOK'
  BY <1>39 DEF ReconnectStop, Goto
<1>40. ASSUME NEW w \in Workers, GiveUp(w) PROVE ControlOK'
  BY <1>40 DEF GiveUp, ClearLocked, SpawnClear
<1>41. ASSUME NEW w \in Workers, DropEnd(w) PROVE ControlOK'
  BY <1>41 DEF DropEnd, Goto
<1>42. ASSUME NEW w \in Workers, HandlerReturns(w) PROVE ControlOK'
  BY <1>42 DEF HandlerReturns, Goto
<1>43. ASSUME NEW d \in Detached, FailCall(d) PROVE ControlOK'
  BY <1>43 DEF FailCall, Goto
<1>44. ASSUME NEW d \in Detached, FailDone(d) PROVE ControlOK'
  BY <1>44 DEF FailDone, Goto
<1>45. ASSUME NEW d \in Detached, FailNotify(d) PROVE ControlOK'
  BY <1>45 DEF FailNotify, NotifyAll
<1>46. CASE UNCHANGED vars
  BY <1>46 DEF vars, connVars, queueVars, reconVars, localVars, histVars
<1> HIDE DEF ControlOK, UserLabels, WorkerLabels, DetachedLabels, States, Threads,
             reconVars, localVars, histVars
<1> QED
  BY <1>1, <1>2, <1>3, <1>4, <1>5, <1>6, <1>7, <1>8, <1>9, <1>10, <1>11, <1>12,
     <1>13, <1>14, <1>15, <1>16, <1>17, <1>18, <1>19, <1>20, <1>21, <1>22,
     <1>23, <1>24, <1>25, <1>26, <1>27, <1>28, <1>29, <1>30, <1>31, <1>32,
     <1>33, <1>34, <1>35, <1>36, <1>37, <1>38, <1>39, <1>40, <1>41, <1>42,
     <1>43, <1>44, <1>45, <1>46
  DEF Next, UserCall, UserStep, HandlerStep, DetachedStep

\* Tail of a queue that holds more than one command.
LEMMA TailNonEmpty ==
  ASSUME NEW C, NEW s \in Seq(C), s # <<>>, Len(s) # 1
  PROVE  Tail(s) # <<>>
<1>1. Len(s) \in Nat /\ Len(s) # 0
  OBVIOUS
<1>2. Len(Tail(s)) = Len(s) - 1
  OBVIOUS
<1>3. Tail(s) = <<>> => Len(Tail(s)) = 0
  BY EmptySeq
<1> QED
  BY <1>1, <1>2, <1>3

\* clear_callbacks hands a non-empty queue of commands to a detached thread
\* and empties the one of its caller.
LEMMA SpawnClearData ==
  ASSUME ControlOK, DataOK, FrontDefined,
         NEW t \in Threads, t \notin Detached, NEW q \in Seq(AllCmds), q # <<>>,
         NEW l \in {"idle", "ret", "dend"}, SpawnClear(t, q, l)
  PROVE  /\ running' \in Int
         /\ job' \in [Threads -> Seq(AllCmds)]
         /\ FrontDefined'
         /\ \A x \in Threads \ Detached : x # t => pc'[x] = pc[x]
         /\ pc'[t] = l
<1>1. PICK d \in Detached : /\ running' = running + Len(q)
                           /\ job' = [job EXCEPT ![t] = <<>>, ![d] = q]
                           /\ pc' = [pc EXCEPT ![t] = l, ![d] = "fail"]
  BY DEF SpawnClear
<1>2. d \in Threads /\ d # t
  BY DEF Threads
<1>3. job' \in [Threads -> Seq(AllCmds)]
  <2>1. <<>> \in Seq(AllCmds) /\ job \in [Threads -> Seq(AllCmds)]
    BY DEF DataOK
  <2>2. [job EXCEPT ![t] = <<>>] \in [Threads -> Seq(AllCmds)]
    BY <2>1
  <2> QED
    BY <1>1, <1>2, <2>2
<1>4. FrontDefined'
  BY <1>1, <1>2 DEF FrontDefined, DataOK, ControlOK
<1>5. pc'[t] = l /\ \A x \in Threads \ Detached : x # t => pc'[x] = pc[x]
  BY <1>1, <1>2 DEF ControlOK
<1>6. running' \in Int
  <2>1. Len(q) \in Nat
    OBVIOUS
  <2> QED
    BY <1>1, <2>1 DEF DataOK
<1> QED
  BY <1>3, <1>4, <1>5, <1>6

\* The same for clear_callbacks called with the mutex held.
LEMMA ClearLockedData ==
  ASSUME ControlOK, DataOK, FrontDefined, NEW w \in Workers,
         NEW l \in {"ret", "dend"}, ClearLocked(w, l)
  PROVE  /\ m_commands' \in Seq(AllCmds)
         /\ running' \in Int
         /\ job' \in [Threads -> Seq(AllCmds)]
         /\ FrontDefined'
         /\ \A x \in Threads \ Detached : x # w => pc'[x] = pc[x]
         /\ pc'[w] = l
<1>1. w \in Threads /\ w \notin Detached
  BY ThreadsAssumption DEF Threads
<1>2. CASE m_commands = <<>>
  <2>1. pc' = [pc EXCEPT ![w] = l] /\ UNCHANGED <<m_commands, running, job>>
    BY <1>2 DEF ClearLocked, queueVars
  <2>2. FrontDefined'
    BY <1>1, <2>1 DEF ControlOK, FrontDefined
  <2> QED
    BY <1>1, <2>1, <2>2 DEF ControlOK, DataOK
<1>3. CASE m_commands # <<>>
  <2>1. SpawnClear(w, m_commands, l) /\ m_commands' = <<>>
    BY <1>3 DEF ClearLocked
  <2>2. m_commands' \in Seq(AllCmds)
    BY <2>1
  <2>3. m_commands \in Seq(AllCmds)
    BY DEF DataOK
  <2> QED
    BY <1>1, <1>3, <2>1, <2>2, <2>3, SpawnClearData
<1> QED
  BY <1>2, <1>3

\* The queues, the data the threads hold and the history keep their types.
LEMMA DataNext ==
  ASSUME TypeOK, Held, FrontDefined, [Next]_vars
  PROVE  DataOK'
<1> USE ThreadsAssumption, CommandsAssumption
    DEF TypeOK, ConnTypeOK, QueuesOK, ControlOK, DataOK, Held, FrontDefined,
        Threads, AllCmds, queueVars, localVars, histVars
<1>1. ASSUME NEW u \in Users, NEW c \in Cmds, Send(u, c) PROVE DataOK'
  BY <1>1 DEF Send, Begin, Goto
<1>2. ASSUME NEW u \in Users, NEW o \in {"commit", "sync", "timed"}, Commit(u, o)
      PROVE  DataOK'
  BY <1>2 DEF Commit, Begin, Goto, AfterCommit
<1>3. ASSUME NEW u \in Users, NEW o \in {"disconnect", "disconnect_wait"}, Disconnect(u, o)
      PROVE  DataOK'
  BY <1>3 DEF Disconnect, Begin, Goto
<1>4. ASSUME NEW u \in Users, SendPush(u) PROVE DataOK'
  BY <1>4 DEF SendPush, Goto
<1>5. ASSUME NEW u \in Users, TryCommit(u) PROVE DataOK'
  BY <1>5 DEF TryCommit, Goto, AfterCommit
<1>6. ASSUME NEW u \in Users, ClearMove(u) PROVE DataOK'
  BY <1>6 DEF ClearMove, Goto
<1>7. ASSUME NEW u \in Users, ClearSpawn(u) PROVE DataOK'
  <2>1. job[u] \in Seq(AllCmds) /\ job[u] # <<>>
    BY <1>7 DEF ClearSpawn
  <2>2. /\ running' \in Int
        /\ job' \in [Threads -> Seq(AllCmds)]
    <3> HIDE DEF ControlOK, DataOK, FrontDefined
    <3> QED
      BY <1>7, <2>1, SpawnClearData DEF ClearSpawn
  <2> QED
    BY <1>7, <2>2 DEF ClearSpawn
<1>8. ASSUME NEW u \in Users, SyncLock(u) PROVE DataOK'
  BY <1>8 DEF SyncLock, Goto
<1>9. ASSUME NEW u \in Users, SyncBlock(u) PROVE DataOK'
  BY <1>9 DEF SyncBlock, Goto
<1>10. ASSUME NEW u \in Users, SyncReturn(u) PROVE DataOK'
  BY <1>10 DEF SyncReturn, Goto
<1>11. ASSUME NEW u \in Users, SyncTimeout(u) PROVE DataOK'
  BY <1>11 DEF SyncTimeout, Goto
<1>12. ASSUME NEW u \in Users, DisconnectRemoved(u) PROVE DataOK'
  BY <1>12 DEF DisconnectRemoved, Goto
<1>13. ASSUME NEW u \in Users, DisconnectBuffers(u) PROVE DataOK'
  BY <1>13 DEF DisconnectBuffers, Goto
<1>14. ASSUME NEW u \in Users, Connect(u) PROVE DataOK'
  BY <1>14 DEF Connect, Begin, Goto
<1>15. ASSUME NEW u \in Users, CancelReconnect(u) PROVE DataOK'
  BY <1>15 DEF CancelReconnect, Begin
<1>16. ASSUME NEW t \in Users \cup Workers, ConnectTcp(t) PROVE DataOK'
  BY <1>16 DEF ConnectTcp, Goto, AfterConnect
<1>17. ASSUME NEW t \in Users \cup Workers, ConnectRead(t) PROVE DataOK'
  BY <1>17 DEF ConnectRead, Goto, AfterConnect
<1>18. ASSUME NEW t \in Users \cup Workers, ConnectHandlers(t) PROVE DataOK'
  BY <1>18 DEF ConnectHandlers, Goto, AfterConnect
<1>19. ASSUME NEW w \in Workers, ReadEvent(w) PROVE DataOK'
  BY <1>19 DEF ReadEvent, Goto
<1>20. ASSUME NEW w \in Workers, DropEvent(w) PROVE DataOK'
  BY <1>20 DEF DropEvent, Goto
<1>21. ASSUME NEW w \in Workers, MalformedEvent(w) PROVE DataOK'
  BY <1>21 DEF MalformedEvent, Goto
<1>22. ASSUME NEW w \in Workers, TakeReply(w) PROVE DataOK'
  BY <1>22, SMTT(30) DEF TakeReply, Goto, PopReply
<1>23. ASSUME NEW w \in Workers, EndRead(w) PROVE DataOK'
  BY <1>23 DEF EndRead, Goto
<1>24. ASSUME NEW w \in Workers, ReceiveLock(w) PROVE DataOK'
  BY <1>24 DEF ReceiveLock, Goto
<1>25. ASSUME NEW w \in Workers, ReceiveCall(w) PROVE DataOK'
  BY <1>25, SMTT(30) DEF ReceiveCall, Goto, RunCallback
<1>26. ASSUME NEW w \in Workers, ReceiveDone(w) PROVE DataOK'
  BY <1>26 DEF ReceiveDone, NotifyAll
<1>27. ASSUME NEW w \in Workers, DropBuffers(w) PROVE DataOK'
  BY <1>27 DEF DropBuffers, Goto
<1>28. ASSUME NEW w \in Workers, DropCheck(w) PROVE DataOK'
  BY <1>28 DEF DropCheck, Goto
<1>29. ASSUME NEW w \in Workers, DropSet(w) PROVE DataOK'
  BY <1>29 DEF DropSet, Goto
<1>30. ASSUME NEW w \in Workers, DropLock(w) PROVE DataOK'
  BY <1>30 DEF DropLock, Goto
<1>31. ASSUME NEW w \in Workers, ReconnectSleep(w) PROVE DataOK'
  BY <1>31 DEF ReconnectSleep, Goto
<1>32. ASSUME NEW w \in Workers, ReconnectStart(w) PROVE DataOK'
  BY <1>32 DEF ReconnectStart, Goto
<1>33. ASSUME NEW w \in Workers, ReconnectCheck(w) PROVE DataOK'
  BY <1>33 DEF ReconnectCheck, Goto
<1>34. ASSUME NEW w \in Workers, ReAuth(w) PROVE DataOK'
  <2>1. m_commands' = Append(m_commands, Auth) \/ m_commands' = m_commands
    BY <1>34 DEF ReAuth, unprotected_send
  <2>2. Auth \in AllCmds /\ m_commands \in Seq(AllCmds)
    OBVIOUS
  <2>3. m_commands' \in Seq(AllCmds)
    BY ONLY <2>1, <2>2
  <2> QED
    BY <1>34, <2>3 DEF ReAuth
<1>35. ASSUME NEW w \in Workers, ReSelect(w) PROVE DataOK'
  <2>1. m_commands' = Append(m_commands, Select) \/ m_commands' = m_commands
    BY <1>35 DEF ReSelect, unprotected_send
  <2>2. Select \in AllCmds /\ m_commands \in Seq(AllCmds)
    OBVIOUS
  <2>3. m_commands' \in Seq(AllCmds)
    BY ONLY <2>1, <2>2
  <2> QED
    BY <1>35, <2>3 DEF ReSelect
<1>36. ASSUME NEW w \in Workers, ResendMove(w) PROVE DataOK'
  BY <1>36 DEF ResendMove, Goto
<1>37. ASSUME NEW w \in Workers, ResendOne(w) PROVE DataOK'
  BY <1>37, SMTT(30) DEF ResendOne, Goto, unprotected_send
<1>38. ASSUME NEW w \in Workers, ReconnectCommit(w) PROVE DataOK'
  <2>1. /\ m_commands' \in Seq(AllCmds)
        /\ running' \in Int
        /\ job' \in [Threads -> Seq(AllCmds)]
    <3>1. CASE UNCHANGED <<m_commands, running, job>>
      BY <3>1
    <3>2. CASE ClearLocked(w, "ret")
      <4> HIDE DEF ControlOK, DataOK, FrontDefined
      <4> QED
        BY <3>2, ClearLockedData
    <3> QED
      BY <1>38, <3>1, <3>2 DEF ReconnectCommit
  <2> QED
    BY <1>38, <2>1 DEF ReconnectCommit
<1>39. ASSUME NEW w \in Workers, ReconnectStop(w) PROVE DataOK'
  BY <1>39 DEF ReconnectStop, Goto
<1>40. ASSUME NEW w \in Workers, GiveUp(w) PROVE DataOK'
  <2>1. /\ m_commands' \in Seq(AllCmds)
        /\ running' \in Int
        /\ job' \in [Threads -> Seq(AllCmds)]
    <3>1. CASE UNCHANGED <<m_commands, running, job>>
      BY <3>1
    <3>2. CASE ClearLocked(w, "dend")
      <4> HIDE DEF ControlOK, DataOK, FrontDefined
      <4> QED
        BY <3>2, ClearLockedData
    <3> QED
      BY <1>40, <3>1, <3>2 DEF GiveUp
  <2> QED
    BY <1>40, <2>1 DEF GiveUp
<1>41. ASSUME NEW w \in Workers, DropEnd(w) PROVE DataOK'
  BY <1>41 DEF DropEnd, Goto
<1>42. ASSUME NEW w \in Workers, HandlerReturns(w) PROVE DataOK'
  BY <1>42 DEF HandlerReturns, Goto
<1>43. ASSUME NEW d \in Detached, FailCall(d) PROVE DataOK'
  BY <1>43, SMTT(30) DEF FailCall, Goto, RunCallback
<1>44. ASSUME NEW d \in Detached, FailDone(d) PROVE DataOK'
  BY <1>44 DEF FailDone, Goto
<1>45. ASSUME NEW d \in Detached, FailNotify(d) PROVE DataOK'
  BY <1>45 DEF FailNotify, NotifyAll
<1>46. CASE UNCHANGED vars
  BY <1>46 DEF vars, connVars, queueVars, reconVars, localVars, histVars
<1> HIDE DEF DataOK
<1> QED
  BY <1>1, <1>2, <1>3, <1>4, <1>5, <1>6, <1>7, <1>8, <1>9, <1>10, <1>11, <1>12,
     <1>13, <1>14, <1>15, <1>16, <1>17, <1>18, <1>19, <1>20, <1>21, <1>22,
     <1>23, <1>24, <1>25, <1>26, <1>27, <1>28, <1>29, <1>30, <1>31, <1>32,
     <1>33, <1>34, <1>35, <1>36, <1>37, <1>38, <1>39, <1>40, <1>41, <1>42,
     <1>43, <1>44, <1>45, <1>46
  DEF Next, UserCall, UserStep, HandlerStep, DetachedStep

\* A thread that is about to push a command, or to call a callback, has the
\* command or the reply in hand, and moved-out queues have a front.
LEMMA HeldNext ==
  ASSUME TypeOK, Held, FrontDefined, [Next]_vars
  PROVE  (Held /\ FrontDefined)'
<1> USE ThreadsAssumption, CommandsAssumption
    DEF TypeOK, ConnTypeOK, QueuesOK, ControlOK, DataOK, Held, FrontDefined,
        Threads, AllCmds, localVars
<1>1. ASSUME NEW u \in Users, NEW c \in Cmds, Send(u, c)
      PROVE  (Held /\ FrontDefined)'
  BY <1>1 DEF Send, Begin, Goto
<1>2. ASSUME NEW u \in Users, NEW o \in {"commit", "sync", "timed"}, Commit(u, o)
      PROVE  (Held /\ FrontDefined)'
  BY <1>2 DEF Commit, Begin, Goto, AfterCommit
<1>3. ASSUME NEW u \in Users, NEW o \in {"disconnect", "disconnect_wait"}, Disconnect(u, o)
      PROVE  (Held /\ FrontDefined)'
  BY <1>3 DEF Disconnect, Begin, Goto
<1>4. ASSUME NEW u \in Users, SendPush(u) PROVE (Held /\ FrontDefined)'
  BY <1>4 DEF SendPush, Goto
<1>5. ASSUME NEW u \in Users, TryCommit(u) PROVE (Held /\ FrontDefined)'
  BY <1>5 DEF TryCommit, Goto, AfterCommit
<1>6. ASSUME NEW u \in Users, ClearMove(u) PROVE (Held /\ FrontDefined)'
  BY <1>6 DEF ClearMove, Goto
<1>7. ASSUME NEW u \in Users, ClearSpawn(u) PROVE (Held /\ FrontDefined)'
  BY <1>7, SMTT(30) DEF ClearSpawn, SpawnClear
<1>8. ASSUME NEW u \in Users, SyncLock(u) PROVE (Held /\ FrontDefined)'
  BY <1>8 DEF SyncLock, Goto
<1>9. ASSUME NEW u \in Users, SyncBlock(u) PROVE (Held /\ FrontDefined)'
  BY <1>9 DEF SyncBlock, Goto
<1>10. ASSUME NEW u \in Users, SyncReturn(u) PROVE (Held /\ FrontDefined)'
  BY <1>10 DEF SyncReturn, Goto
<1>11. ASSUME NEW u \in Users, SyncTimeout(u) PROVE (Held /\ FrontDefined)'
  BY <1>11 DEF SyncTimeout, Goto
<1>12. ASSUME NEW u \in Users, DisconnectRemoved(u)
       PROVE  (Held /\ FrontDefined)'
  BY <1>12 DEF DisconnectRemoved, Goto
<1>13. ASSUME NEW u \in Users, DisconnectBuffers(u)
       PROVE  (Held /\ FrontDefined)'
  BY <1>13 DEF DisconnectBuffers, Goto
<1>14. ASSUME NEW u \in Users, Connect(u) PROVE (Held /\ FrontDefined)'
  BY <1>14 DEF Connect, Begin, Goto
<1>15. ASSUME NEW u \in Users, CancelReconnect(u) PROVE (Held /\ FrontDefined)'
  BY <1>15 DEF CancelReconnect, Begin
<1>16. ASSUME NEW t \in Users \cup Workers, ConnectTcp(t)
       PROVE  (Held /\ FrontDefined)'
  BY <1>16 DEF ConnectTcp, Goto, AfterConnect
<1>17. ASSUME NEW t \in Users \cup Workers, ConnectRead(t)
       PROVE  (Held /\ FrontDefined)'
  BY <1>17 DEF ConnectRead, Goto, AfterConnect
<1>18. ASSUME NEW t \in Users \cup Workers, ConnectHandlers(t)
       PROVE  (Held /\ FrontDefined)'
  BY <1>18 DEF ConnectHandlers, Goto, AfterConnect
<1>19. ASSUME NEW w \in Workers, ReadEvent(w) PROVE (Held /\ FrontDefined)'
  BY <1>19 DEF ReadEvent, Goto
<1>20. ASSUME NEW w \in Workers, DropEvent(w) PROVE (Held /\ FrontDefined)'
  BY <1>20 DEF DropEvent, Goto
<1>21. ASSUME NEW w \in Workers, MalformedEvent(w) PROVE (Held /\ FrontDefined)'
  BY <1>21 DEF MalformedEvent, Goto
<1>22. ASSUME NEW w \in Workers, TakeReply(w) PROVE (Held /\ FrontDefined)'
  BY <1>22 DEF TakeReply, Goto, PopReply
<1>23. ASSUME NEW w \in Workers, EndRead(w) PROVE (Held /\ FrontDefined)'
  BY <1>23 DEF EndRead, Goto
<1>24. ASSUME NEW w \in Workers, ReceiveLock(w) PROVE (Held /\ FrontDefined)'
  BY <1>24 DEF ReceiveLock, Goto
<1>25. ASSUME NEW w \in Workers, ReceiveCall(w) PROVE (Held /\ FrontDefined)'
  BY <1>25 DEF ReceiveCall, Goto
<1>26. ASSUME NEW w \in Workers, ReceiveDone(w) PROVE (Held /\ FrontDefined)'
  BY <1>26 DEF ReceiveDone, NotifyAll
<1>27. ASSUME NEW w \in Workers, DropBuffers(w) PROVE (Held /\ FrontDefined)'
  BY <1>27 DEF DropBuffers, Goto
<1>28. ASSUME NEW w \in Workers, DropCheck(w) PROVE (Held /\ FrontDefined)'
  BY <1>28 DEF DropCheck, Goto
<1>29. ASSUME NEW w \in Workers, DropSet(w) PROVE (Held /\ FrontDefined)'
  BY <1>29 DEF DropSet, Goto
<1>30. ASSUME NEW w \in Workers, DropLock(w) PROVE (Held /\ FrontDefined)'
  BY <1>30 DEF DropLock, Goto
<1>31. ASSUME NEW w \in Workers, ReconnectSleep(w) PROVE (Held /\ FrontDefined)'
  BY <1>31 DEF ReconnectSleep, Goto
<1>32. ASSUME NEW w \in Workers, ReconnectStart(w) PROVE (Held /\ FrontDefined)'
  BY <1>32 DEF ReconnectStart, Goto
<1>33. ASSUME NEW w \in Workers, ReconnectCheck(w) PROVE (Held /\ FrontDefined)'
  BY <1>33 DEF ReconnectCheck, Goto
<1>34. ASSUME NEW w \in Workers, ReAuth(w) PROVE (Held /\ FrontDefined)'
  BY <1>34 DEF ReAuth, Goto
<1>35. ASSUME NEW w \in Workers, ReSelect(w) PROVE (Held /\ FrontDefined)'
  BY <1>35 DEF ReSelect, Goto
<1>36. ASSUME NEW w \in Workers, ResendMove(w) PROVE (Held /\ FrontDefined)'
  BY <1>36 DEF ResendMove, Goto
<1>37. ASSUME NEW w \in Workers, ResendOne(w) PROVE (Held /\ FrontDefined)'
  <2>1. Len(job[w]) # 1 => Tail(job[w]) # <<>>
    BY <1>37, TailNonEmpty DEF ResendOne, Goto
  <2> QED
    BY <1>37, <2>1 DEF ResendOne, Goto
<1>38. ASSUME NEW w \in Workers, ReconnectCommit(w)
       PROVE  (Held /\ FrontDefined)'
  <2>1. CASE pc' = [pc EXCEPT ![w] = "dloop"] /\ UNCHANGED job
    BY <1>38, <2>1 DEF ReconnectCommit
  <2>2. CASE ClearLocked(w, "ret")
    <3>1. /\ FrontDefined'
          /\ \A x \in Threads \ Detached : x # w => pc'[x] = pc[x]
          /\ pc'[w] = "ret"
      <4> HIDE DEF ControlOK, DataOK, FrontDefined
      <4> QED
        BY <2>2, ClearLockedData
    <3>2. Held'
      BY <1>38, <3>1 DEF ReconnectCommit
    <3> QED
      BY <3>1, <3>2
  <2> QED
    BY <1>38, <2>1, <2>2 DEF ReconnectCommit
<1>39. ASSUME NEW w \in Workers, ReconnectStop(w) PROVE (Held /\ FrontDefined)'
  BY <1>39 DEF ReconnectStop, Goto
<1>40. ASSUME NEW w \in Workers, GiveUp(w) PROVE (Held /\ FrontDefined)'
  <2>1. CASE pc' = [pc EXCEPT ![w] = "dend"] /\ UNCHANGED job
    BY <1>40, <2>1 DEF GiveUp
  <2>2. CASE ClearLocked(w, "dend")
    <3>1. /\ FrontDefined'
          /\ \A x \in Threads \ Detached : x # w => pc'[x] = pc[x]
          /\ pc'[w] = "dend"
      <4> HIDE DEF ControlOK, DataOK, FrontDefined
      <4> QED
        BY <2>2, ClearLockedData
    <3>2. Held'
      BY <1>40, <3>1 DEF GiveUp
    <3> QED
      BY <3>1, <3>2
  <2> QED
    BY <1>40, <2>1, <2>2 DEF GiveUp
<1>41. ASSUME NEW w \in Workers, DropEnd(w) PROVE (Held /\ FrontDefined)'
  BY <1>41 DEF DropEnd, Goto
<1>42. ASSUME NEW w \in Workers, HandlerReturns(w) PROVE (Held /\ FrontDefined)'
  BY <1>42 DEF HandlerReturns, Goto
<1>43. ASSUME NEW d \in Detached, FailCall(d) PROVE (Held /\ FrontDefined)'
  BY <1>43 DEF FailCall, Goto
<1>44. ASSUME NEW d \in Detached, FailDone(d) PROVE (Held /\ FrontDefined)'
  <2>1. Len(job[d]) # 1 => Tail(job[d]) # <<>>
    BY <1>44, TailNonEmpty DEF FailDone, Goto
  <2> QED
    BY <1>44, <2>1 DEF FailDone, Goto
<1>45. ASSUME NEW d \in Detached, FailNotify(d) PROVE (Held /\ FrontDefined)'
  BY <1>45 DEF FailNotify, NotifyAll
<1>46. CASE UNCHANGED vars
  BY <1>46 DEF vars, connVars, queueVars, reconVars, localVars, histVars
<1> HIDE DEF Held, FrontDefined
<1> QED
  BY <1>1, <1>2, <1>3, <1>4, <1>5, <1>6, <1>7, <1>8, <1>9, <1>10, <1>11, <1>12,
     <1>13, <1>14, <1>15, <1>16, <1>17, <1>18, <1>19, <1>20, <1>21, <1>22,
     <1>23, <1>24, <1>25, <1>26, <1>27, <1>28, <1>29, <1>30, <1>31, <1>32,
     <1>33, <1>34, <1>35, <1>36, <1>37, <1>38, <1>39, <1>40, <1>41, <1>42,
     <1>43, <1>44, <1>45, <1>46
  DEF Next, UserCall, UserStep, HandlerStep, DetachedStep

\* Whatever the client does to its connection is a step of the connection.
LEMMA ConnStep ==
  ASSUME TypeOK, FrontDefined, [Next]_vars
  PROVE  [ConnNext(AllCmds)]_connVars
<1> DEFINE Goal == [ConnNext(AllCmds)]_connVars
<1> SUFFICES Goal
  OBVIOUS
<1> USE DEF ConnNext
<1>1. ASSUME NEW u \in Users, NEW c \in Cmds, Send(u, c) PROVE Goal
  <2>1. c \in AllCmds
    BY DEF AllCmds
  <2> QED
    BY <1>1, <2>1 DEF Send
<1>2. ASSUME NEW u \in Users, NEW o \in {"commit", "sync", "timed"}, Commit(u, o)
      PROVE  Goal
  BY <1>2 DEF Commit
<1>3. ASSUME NEW u \in Users, NEW o \in {"disconnect", "disconnect_wait"}, Disconnect(u, o)
      PROVE  Goal
  BY <1>3 DEF Disconnect
<1>4. ASSUME NEW u \in Users, SendPush(u) PROVE Goal
  BY <1>4 DEF SendPush
<1>5. ASSUME NEW u \in Users, TryCommit(u) PROVE Goal
  BY <1>5 DEF TryCommit
<1>6. ASSUME NEW u \in Users, ClearMove(u) PROVE Goal
  BY <1>6 DEF ClearMove
<1>7. ASSUME NEW u \in Users, ClearSpawn(u) PROVE Goal
  BY <1>7 DEF ClearSpawn
<1>8. ASSUME NEW u \in Users, SyncLock(u) PROVE Goal
  BY <1>8 DEF SyncLock
<1>9. ASSUME NEW u \in Users, SyncBlock(u) PROVE Goal
  BY <1>9 DEF SyncBlock
<1>10. ASSUME NEW u \in Users, SyncReturn(u) PROVE Goal
  BY <1>10 DEF SyncReturn
<1>11. ASSUME NEW u \in Users, SyncTimeout(u) PROVE Goal
  BY <1>11 DEF SyncTimeout
<1>12. ASSUME NEW u \in Users, DisconnectRemoved(u) PROVE Goal
  BY <1>12 DEF DisconnectRemoved
<1>13. ASSUME NEW u \in Users, DisconnectBuffers(u) PROVE Goal
  BY <1>13 DEF DisconnectBuffers
<1>14. ASSUME NEW u \in Users, Connect(u) PROVE Goal
  BY <1>14 DEF Connect
<1>15. ASSUME NEW u \in Users, CancelReconnect(u) PROVE Goal
  BY <1>15 DEF CancelReconnect
<1>16. ASSUME NEW t \in Users \cup Workers, ConnectTcp(t) PROVE Goal
  BY <1>16 DEF ConnectTcp
<1>17. ASSUME NEW t \in Users \cup Workers, ConnectRead(t) PROVE Goal
  BY <1>17 DEF ConnectRead
<1>18. ASSUME NEW t \in Users \cup Workers, ConnectHandlers(t) PROVE Goal
  BY <1>18 DEF ConnectHandlers
<1>19. ASSUME NEW w \in Workers, ReadEvent(w) PROVE Goal
  <2>1. 1 .. Len(wire) \subseteq 0 .. Len(wire)
    BY DEF TypeOK, ConnTypeOK, QueuesOK
  <2> QED
    BY <1>19, <2>1 DEF ReadEvent
<1>20. ASSUME NEW w \in Workers, DropEvent(w) PROVE Goal
  BY <1>20 DEF DropEvent
<1>21. ASSUME NEW w \in Workers, MalformedEvent(w) PROVE Goal
  BY <1>21 DEF MalformedEvent
<1>22. ASSUME NEW w \in Workers, TakeReply(w) PROVE Goal
  BY <1>22 DEF TakeReply
<1>23. ASSUME NEW w \in Workers, EndRead(w) PROVE Goal
  BY <1>23 DEF EndRead
<1>24. ASSUME NEW w \in Workers, ReceiveLock(w) PROVE Goal
  BY <1>24 DEF ReceiveLock
<1>25. ASSUME NEW w \in Workers, ReceiveCall(w) PROVE Goal
  BY <1>25 DEF ReceiveCall
<1>26. ASSUME NEW w \in Workers, ReceiveDone(w) PROVE Goal
  BY <1>26 DEF ReceiveDone
<1>27. ASSUME NEW w \in Workers, DropBuffers(w) PROVE Goal
  BY <1>27 DEF DropBuffers
<1>28. ASSUME NEW w \in Workers, DropCheck(w) PROVE Goal
  BY <1>28 DEF DropCheck
<1>29. ASSUME NEW w \in Workers, DropSet(w) PROVE Goal
  BY <1>29 DEF DropSet
<1>30. ASSUME NEW w \in Workers, DropLock(w) PROVE Goal
  BY <1>30 DEF DropLock
<1>31. ASSUME NEW w \in Workers, ReconnectSleep(w) PROVE Goal
  BY <1>31 DEF ReconnectSleep
<1>32. ASSUME NEW w \in Workers, ReconnectStart(w) PROVE Goal
  BY <1>32 DEF ReconnectStart
<1>33. ASSUME NEW w \in Workers, ReconnectCheck(w) PROVE Goal
  BY <1>33 DEF ReconnectCheck
<1>34. ASSUME NEW w \in Workers, ReAuth(w) PROVE Goal
  <2>1. Auth \in AllCmds
    BY DEF AllCmds
  <2> QED
    BY <1>34, <2>1 DEF ReAuth, unprotected_send
<1>35. ASSUME NEW w \in Workers, ReSelect(w) PROVE Goal
  <2>1. Select \in AllCmds
    BY DEF AllCmds
  <2> QED
    BY <1>35, <2>1 DEF ReSelect, unprotected_send
<1>36. ASSUME NEW w \in Workers, ResendMove(w) PROVE Goal
  BY <1>36 DEF ResendMove
<1>37. ASSUME NEW w \in Workers, ResendOne(w) PROVE Goal
  <2>1. job[w] # <<>> /\ job[w] \in Seq(AllCmds)
    BY <1>37, ThreadsAssumption DEF ResendOne, Goto, FrontDefined, TypeOK, DataOK, Threads
  <2>2. Head(job[w]) \in AllCmds
    BY <2>1
  <2> QED
    BY <1>37, <2>2 DEF ResendOne, unprotected_send
<1>38. ASSUME NEW w \in Workers, ReconnectCommit(w) PROVE Goal
  BY <1>38 DEF ReconnectCommit
<1>39. ASSUME NEW w \in Workers, ReconnectStop(w) PROVE Goal
  BY <1>39 DEF ReconnectStop
<1>40. ASSUME NEW w \in Workers, GiveUp(w) PROVE Goal
  BY <1>40 DEF GiveUp
<1>41. ASSUME NEW w \in Workers, DropEnd(w) PROVE Goal
  BY <1>41 DEF DropEnd
<1>42. ASSUME NEW w \in Workers, HandlerReturns(w) PROVE Goal
  BY <1>42 DEF HandlerReturns
<1>43. ASSUME NEW d \in Detached, FailCall(d) PROVE Goal
  BY <1>43 DEF FailCall
<1>44. ASSUME NEW d \in Detached, FailDone(d) PROVE Goal
  BY <1>44 DEF FailDone
<1>45. ASSUME NEW d \in Detached, FailNotify(d) PROVE Goal
  BY <1>45 DEF FailNotify
<1>46. CASE UNCHANGED vars
  BY <1>46 DEF vars
<1> HIDE DEF Goal
<1> QED
  BY <1>1, <1>2, <1>3, <1>4, <1>5, <1>6, <1>7, <1>8, <1>9, <1>10, <1>11, <1>12,
     <1>13, <1>14, <1>15, <1>16, <1>17, <1>18, <1>19, <1>20, <1>21, <1>22,
     <1>23, <1>24, <1>25, <1>26, <1>27, <1>28, <1>29, <1>30, <1>31, <1>32,
     <1>33, <1>34, <1>35, <1>36, <1>37, <1>38, <1>39, <1>40, <1>41, <1>42,
     <1>43, <1>44, <1>45, <1>46
  DEF Next, UserCall, UserStep, HandlerStep, DetachedStep

\* The inductive invariant behind type correctness.
TypeInv == TypeOK /\ Held /\ FrontDefined

\* The initial states satisfy TypeInv.
LEMMA TypeInit == Init => TypeInv
<1> SUFFICES ASSUME Init PROVE TypeInv
  OBVIOUS
<1>1. FlagsOK
  BY ParametersAssumption DEF Init, ConnInit, FlagsOK
<1>2. QueuesOK(AllCmds)
  BY DEF Init, ConnInit, QueuesOK
<1>3. ControlOK
  BY DEF Init, ControlOK, UserLabels, WorkerLabels, DetachedLabels, States, Threads
<1>4. DataOK
  BY DEF Init, DataOK, Threads
<1>5. Held /\ FrontDefined
  BY DEF Init, Held, FrontDefined, Threads
<1> QED
  BY <1>1, <1>2, <1>3, <1>4, <1>5 DEF TypeInv, TypeOK, ConnTypeOK

\* Every step preserves TypeInv.
LEMMA TypeNext == TypeInv /\ [Next]_vars => TypeInv'
<1> SUFFICES ASSUME TypeInv, [Next]_vars PROVE TypeInv'
  OBVIOUS
<1>1. TypeOK /\ Held /\ FrontDefined
  BY DEF TypeInv
<1>2. ConnTypeOK(AllCmds)'
  BY <1>1, ConnStep, ConnStepTyped DEF TypeOK
<1>3. ControlOK'
  BY <1>1, ControlNext DEF TypeOK
<1>4. DataOK'
  BY <1>1, DataNext
<1>5. (Held /\ FrontDefined)'
  BY <1>1, HeldNext
<1> QED
  BY <1>2, <1>3, <1>4, <1>5 DEF TypeInv, TypeOK

\* Every reachable state is well typed: whatever faults happen, the queues hold
\* commands, threads stay within their code, and connection_receive_handler and
\* clear_callbacks never call a callback without a reply.
THEOREM TypeCorrect == Spec => []TypeOK
<1>1. TypeInv => TypeOK
  BY DEF TypeInv
<1> QED
  BY <1>1, TypeInit, TypeNext, PTL DEF Spec

\* clear_callbacks and resend_failed_commands never take the front of an empty
\* queue.
THEOREM FrontAlwaysDefined == Spec => []FrontDefined
<1>1. TypeInv => FrontDefined
  BY DEF TypeInv
<1> QED
  BY <1>1, TypeInit, TypeNext, PTL DEF Spec

\* Every action enters and leaves critical sections together with the mutex.
LEMMA MutexNext ==
  ASSUME ControlOK, MutexOwner, [Next]_vars
  PROVE  MutexOwner'
<1> USE ThreadsAssumption
    DEF ControlOK, MutexOwner, Locked, UserLocked, HandlerLocked, Threads
<1>1. ASSUME NEW u \in Users, NEW c \in Cmds, Send(u, c) PROVE MutexOwner'
  BY <1>1 DEF Send, Begin, Goto
<1>2. ASSUME NEW u \in Users, NEW o \in {"commit", "sync", "timed"}, Commit(u, o)
      PROVE  MutexOwner'
  BY <1>2 DEF Commit, Begin, Goto, AfterCommit
<1>3. ASSUME NEW u \in Users, NEW o \in {"disconnect", "disconnect_wait"}, Disconnect(u, o)
      PROVE  MutexOwner'
  BY <1>3 DEF Disconnect, Begin, Goto
<1>4. ASSUME NEW u \in Users, SendPush(u) PROVE MutexOwner'
  BY <1>4 DEF SendPush, Goto
<1>5. ASSUME NEW u \in Users, TryCommit(u) PROVE MutexOwner'
  BY <1>5 DEF TryCommit, Goto, AfterCommit
<1>6. ASSUME NEW u \in Users, ClearMove(u) PROVE MutexOwner'
  BY <1>6 DEF ClearMove, Goto
<1>7. ASSUME NEW u \in Users, ClearSpawn(u) PROVE MutexOwner'
  BY <1>7 DEF ClearSpawn, SpawnClear
<1>8. ASSUME NEW u \in Users, SyncLock(u) PROVE MutexOwner'
  BY <1>8 DEF SyncLock, Goto
<1>9. ASSUME NEW u \in Users, SyncBlock(u) PROVE MutexOwner'
  BY <1>9 DEF SyncBlock, Goto
<1>10. ASSUME NEW u \in Users, SyncReturn(u) PROVE MutexOwner'
  BY <1>10 DEF SyncReturn, Goto
<1>11. ASSUME NEW u \in Users, SyncTimeout(u) PROVE MutexOwner'
  BY <1>11 DEF SyncTimeout, Goto
<1>12. ASSUME NEW u \in Users, DisconnectRemoved(u) PROVE MutexOwner'
  BY <1>12 DEF DisconnectRemoved, Goto
<1>13. ASSUME NEW u \in Users, DisconnectBuffers(u) PROVE MutexOwner'
  BY <1>13 DEF DisconnectBuffers, Goto
<1>14. ASSUME NEW u \in Users, Connect(u) PROVE MutexOwner'
  BY <1>14 DEF Connect, Begin, Goto
<1>15. ASSUME NEW u \in Users, CancelReconnect(u) PROVE MutexOwner'
  BY <1>15 DEF CancelReconnect, Begin
<1>16. ASSUME NEW t \in Users \cup Workers, ConnectTcp(t) PROVE MutexOwner'
  BY <1>16 DEF ConnectTcp, Goto, AfterConnect
<1>17. ASSUME NEW t \in Users \cup Workers, ConnectRead(t) PROVE MutexOwner'
  BY <1>17 DEF ConnectRead, Goto, AfterConnect
<1>18. ASSUME NEW t \in Users \cup Workers, ConnectHandlers(t) PROVE MutexOwner'
  BY <1>18 DEF ConnectHandlers, Goto, AfterConnect
<1>19. ASSUME NEW w \in Workers, ReadEvent(w) PROVE MutexOwner'
  BY <1>19 DEF ReadEvent, Goto
<1>20. ASSUME NEW w \in Workers, DropEvent(w) PROVE MutexOwner'
  BY <1>20 DEF DropEvent, Goto
<1>21. ASSUME NEW w \in Workers, MalformedEvent(w) PROVE MutexOwner'
  BY <1>21 DEF MalformedEvent, Goto
<1>22. ASSUME NEW w \in Workers, TakeReply(w) PROVE MutexOwner'
  BY <1>22 DEF TakeReply, Goto
<1>23. ASSUME NEW w \in Workers, EndRead(w) PROVE MutexOwner'
  BY <1>23 DEF EndRead, Goto
<1>24. ASSUME NEW w \in Workers, ReceiveLock(w) PROVE MutexOwner'
  BY <1>24 DEF ReceiveLock, Goto
<1>25. ASSUME NEW w \in Workers, ReceiveCall(w) PROVE MutexOwner'
  BY <1>25 DEF ReceiveCall, Goto
<1>26. ASSUME NEW w \in Workers, ReceiveDone(w) PROVE MutexOwner'
  BY <1>26 DEF ReceiveDone, NotifyAll
<1>27. ASSUME NEW w \in Workers, DropBuffers(w) PROVE MutexOwner'
  BY <1>27 DEF DropBuffers, Goto
<1>28. ASSUME NEW w \in Workers, DropCheck(w) PROVE MutexOwner'
  BY <1>28 DEF DropCheck, Goto
<1>29. ASSUME NEW w \in Workers, DropSet(w) PROVE MutexOwner'
  BY <1>29 DEF DropSet, Goto
<1>30. ASSUME NEW w \in Workers, DropLock(w) PROVE MutexOwner'
  BY <1>30 DEF DropLock, Goto
<1>31. ASSUME NEW w \in Workers, ReconnectSleep(w) PROVE MutexOwner'
  BY <1>31 DEF ReconnectSleep, Goto
<1>32. ASSUME NEW w \in Workers, ReconnectStart(w) PROVE MutexOwner'
  BY <1>32 DEF ReconnectStart, Goto
<1>33. ASSUME NEW w \in Workers, ReconnectCheck(w) PROVE MutexOwner'
  BY <1>33 DEF ReconnectCheck, Goto
<1>34. ASSUME NEW w \in Workers, ReAuth(w) PROVE MutexOwner'
  BY <1>34 DEF ReAuth, Goto
<1>35. ASSUME NEW w \in Workers, ReSelect(w) PROVE MutexOwner'
  BY <1>35 DEF ReSelect, Goto
<1>36. ASSUME NEW w \in Workers, ResendMove(w) PROVE MutexOwner'
  BY <1>36 DEF ResendMove, Goto
<1>37. ASSUME NEW w \in Workers, ResendOne(w) PROVE MutexOwner'
  BY <1>37 DEF ResendOne, Goto
<1>38. ASSUME NEW w \in Workers, ReconnectCommit(w) PROVE MutexOwner'
  BY <1>38 DEF ReconnectCommit, ClearLocked, SpawnClear
<1>39. ASSUME NEW w \in Workers, ReconnectStop(w) PROVE MutexOwner'
  BY <1>39 DEF ReconnectStop, Goto
<1>40. ASSUME NEW w \in Workers, GiveUp(w) PROVE MutexOwner'
  BY <1>40 DEF GiveUp, ClearLocked, SpawnClear
<1>41. ASSUME NEW w \in Workers, DropEnd(w) PROVE MutexOwner'
  BY <1>41 DEF DropEnd, Goto
<1>42. ASSUME NEW w \in Workers, HandlerReturns(w) PROVE MutexOwner'
  BY <1>42 DEF HandlerReturns, Goto
<1>43. ASSUME NEW d \in Detached, FailCall(d) PROVE MutexOwner'
  BY <1>43 DEF FailCall, Goto
<1>44. ASSUME NEW d \in Detached, FailDone(d) PROVE MutexOwner'
  BY <1>44 DEF FailDone, Goto
<1>45. ASSUME NEW d \in Detached, FailNotify(d) PROVE MutexOwner'
  BY <1>45 DEF FailNotify, NotifyAll
<1>46. CASE UNCHANGED vars
  BY <1>46 DEF vars, connVars, queueVars, reconVars, localVars, histVars
<1> QED
  BY <1>1, <1>2, <1>3, <1>4, <1>5, <1>6, <1>7, <1>8, <1>9, <1>10, <1>11, <1>12,
     <1>13, <1>14, <1>15, <1>16, <1>17, <1>18, <1>19, <1>20, <1>21, <1>22,
     <1>23, <1>24, <1>25, <1>26, <1>27, <1>28, <1>29, <1>30, <1>31, <1>32,
     <1>33, <1>34, <1>35, <1>36, <1>37, <1>38, <1>39, <1>40, <1>41, <1>42,
     <1>43, <1>44, <1>45, <1>46
  DEF Next, UserCall, UserStep, HandlerStep, DetachedStep

\* No thread starts inside a critical section.
LEMMA MutexInit == Init => MutexOwner
BY ThreadsAssumption
   DEF Init, MutexOwner, Locked, UserLocked, HandlerLocked, Threads

\* m_callbacks_mutex: a thread is in a critical section exactly when it owns
\* the mutex, also on the path where try_commit throws out of the handler.
THEOREM MutualExclusion == Spec => []MutexOwner
<1>1. TypeOK => ControlOK
  BY DEF TypeOK
<1>2. ControlOK /\ MutexOwner /\ [Next]_vars => MutexOwner'
  BY MutexNext
<1> QED
  BY <1>1, <1>2, MutexInit, TypeCorrect, PTL DEF Spec
=============================================================================
