--------------------------- MODULE ReconnectProofs ---------------------------
(***************************************************************************)
(* Losing the connection: an application that lets the client reconnect on *)
(* its own, however often the connection is lost, refused or fed replies   *)
(* that do not parse, still has every callback called with the reply to    *)
(* its own command or with the failure, and sees the abstract Pipeline.    *)
(*                                                                         *)
(* While the connection is up the queue of callbacks equals the replies to *)
(* come (Fifo, as in PipelineProofs).  When it is lost the replies to come *)
(* are gone and the equation with them; from then on until                 *)
(* resend_failed_commands() has emptied m_commands nothing may be buffered *)
(* or on the wire (Drained), and nobody but the handler may touch either   *)
(* (Flow).  The equation then holds again, between two empty sequences.    *)
(***************************************************************************)
EXTENDS PipelineProofs, CallbackProofs

\* The application sends, commits, waits and may cancel the reconnection, but
\* leaves connecting and disconnecting to the client; the connection is not
\* lost in the middle of a call (Quiet); the io_service has one worker, its
\* default.  With a password or a database the reconnection sends AUTH or
\* SELECT twice and the equation is lost (run auth_twice).
Gentle(w) ==
  /\ Workers = {w}
  /\ StartConnected /\ Quiet
  /\ ~HasPassword /\ ~HasDatabase
  /\ Ops \subseteq {"send", "commit", "sync", "timed", "cancel"}

Receives == {"loop", "rlock", "call", "rdone"}
Fresh == {"aread", "handlers", "rauth", "rselect", "rmove"}
Early == {"dcheck", "dset", "dlock", "dloop", "dfinal"}

\* The connection has been lost, and the handler w has not yet begun to send
\* the commands again nor given them up.
Broken(w) ==
  \/ pc[w] \in {"dropped", "rstart", "tcp", "rcheck"} \cup Fresh
  \/ pc[w] \in Early /\ ~connected

\* Who can be where: while the handler repairs the connection no other thread
\* is in the code that touches the queue or the send buffer, and callbacks are
\* cleared aside only after the handler has given up.
Flow(w) ==
  /\ hset
  /\ \A u \in Users : pc[u] \in {"idle", "push", "write", "clear", "spawn", "slock",
                                 "sblock", "swait", "synced"}
  /\ pc[w] \in Receives => connected /\ reader = w
  /\ pc[w] \in {"dropped", "rstart", "tcp"} => ~connected
  /\ pc[w] \in Fresh \cup {"resend", "rcommit"} => connected
  /\ m_reconnecting <=> pc[w] \in Reconnecting
  /\ Broken(w) \/ pc[w] \in {"resend", "rcommit"} =>
       \A u \in Users : pc[u] \notin {"push", "write", "clear", "spawn"}
  /\ \A u \in Users : pc[u] \in {"clear", "spawn"} =>
                        ~connected /\ pc[w] \in {"idle", "ret", "dend"}

\* The steps such an application and its client can take.
GentleNext(w) ==
  \/ \E u \in Users : \/ \E c \in Cmds : Send(u, c)
                      \/ SendPush(u)
                      \/ \E o \in {"commit", "sync", "timed"} : Commit(u, o)
                      \/ TryCommit(u) \/ ClearMove(u) \/ ClearSpawn(u)
                      \/ SyncLock(u) \/ SyncBlock(u) \/ SyncReturn(u) \/ SyncTimeout(u)
                      \/ CancelReconnect(u)
  \/ ReadEvent(w) \/ DropEvent(w) \/ MalformedEvent(w) \/ HandlerStep(w)
  \/ \E d \in Detached : DetachedStep(d)

\* Connections are opened by the handler only, and closed by nobody.
LEMMA GentleSteps ==
  ASSUME NEW w, Gentle(w), Flow(w), Next
  PROVE  GentleNext(w)
<1>1. ASSUME NEW u \in Users, UserCall(u) \/ UserStep(u) \/ SyncTimeout(u)
      PROVE  GentleNext(w)
  <2>1. ~Connect(u)
    BY DEF Gentle, Connect, Begin
  <2>2. \A o \in {"disconnect", "disconnect_wait"} : ~Disconnect(u, o)
    BY DEF Gentle, Disconnect, Begin
  <2>3. /\ ~ConnectTcp(u) /\ ~ConnectRead(u) /\ ~ConnectHandlers(u)
        /\ ~DisconnectRemoved(u) /\ ~DisconnectBuffers(u)
    BY DEF Flow, ConnectTcp, ConnectRead, ConnectHandlers, DisconnectRemoved,
           DisconnectBuffers, Goto
  <2> QED
    BY <1>1, <2>1, <2>2, <2>3 DEF UserCall, UserStep, GentleNext
<1> QED
  BY <1>1 DEF Next, GentleNext, Gentle

LEMMA FlowNext ==
  ASSUME NEW w, Gentle(w), TypeInv, MutexOwner, Flow(w), [Next]_vars
  PROVE  Flow(w)'
<1>p. /\ pc \in [Threads -> UserLabels \cup WorkerLabels \cup DetachedLabels]
      /\ pc[w] \in WorkerLabels /\ connected \in BOOLEAN
  BY DEF TypeInv, TypeOK, ControlOK, Gentle, ConnTypeOK, FlagsOK
<1>m. pc[w] \in HandlerLocked => mutex = w
  BY DEF MutexOwner, Locked, Gentle, Threads
<1> USE <1>p, <1>m, ThreadsAssumption
    DEF Gentle, Flow, Broken, Threads, Receives, Fresh, Early, Reconnecting,
        HandlerLocked, WorkerLabels, connVars, queueVars, reconVars, localVars, histVars
<1>1. ASSUME NEW u \in Users, NEW c \in Cmds, Send(u, c) PROVE Flow(w)'
  BY <1>1 DEF Send, Begin, Goto, BufferCommand, CallAllowed, DropWindow
<1>2. ASSUME NEW u \in Users, NEW o \in {"commit", "sync", "timed"}, Commit(u, o)
      PROVE  Flow(w)'
  BY <1>2 DEF Commit, Begin, Goto, AfterCommit, CallAllowed, DropWindow
<1>3. ASSUME NEW u \in Users, SendPush(u) PROVE Flow(w)'
  BY <1>3 DEF SendPush, Goto
<1>4. ASSUME NEW u \in Users, TryCommit(u) PROVE Flow(w)'
  <2>1. CASE WriteBuffer /\ Goto(u, "write", AfterCommit(op[u]))
    BY <1>4, <2>1 DEF TryCommit, Goto, AfterCommit, WriteBuffer
  <2>2. CASE WriteFails /\ Goto(u, "write", "clear")
    <3>1. ~connected /\ pc[u] = "write"
      BY <2>2 DEF WriteFails, Goto
    <3>2. pc[w] \in {"idle", "ret", "dend"}
      BY <3>1
    <3> QED
      BY <1>4, <2>2, <3>1, <3>2 DEF TryCommit, Goto, WriteFails
  <2> QED
    BY <1>4, <2>1, <2>2 DEF TryCommit
<1>5. ASSUME NEW u \in Users, ClearMove(u) PROVE Flow(w)'
  BY <1>5 DEF ClearMove, Goto
<1>6. ASSUME NEW u \in Users, ClearSpawn(u) PROVE Flow(w)'
  BY <1>6 DEF ClearSpawn, SpawnClear
<1>7. ASSUME NEW u \in Users, SyncLock(u) PROVE Flow(w)'
  BY <1>7 DEF SyncLock, Goto
<1>8. ASSUME NEW u \in Users, SyncBlock(u) PROVE Flow(w)'
  BY <1>8 DEF SyncBlock, Goto
<1>9. ASSUME NEW u \in Users, SyncReturn(u) PROVE Flow(w)'
  BY <1>9 DEF SyncReturn, Goto
<1>10. ASSUME NEW u \in Users, SyncTimeout(u) PROVE Flow(w)'
  BY <1>10 DEF SyncTimeout, Goto
<1>11. ASSUME NEW u \in Users, CancelReconnect(u) PROVE Flow(w)'
  BY <1>11 DEF CancelReconnect, Begin
<1>12. ASSUME ReadEvent(w) PROVE Flow(w)'
  BY <1>12 DEF ReadEvent, Goto, ReadReplies, Polled
<1>13. ASSUME DropEvent(w) PROVE Flow(w)'
  BY <1>13 DEF DropEvent, Goto, PeerDrop, Polled, DropAllowed
<1>14. ASSUME MalformedEvent(w) PROVE Flow(w)'
  BY <1>14 DEF MalformedEvent, Goto, ReadReplies, Polled
<1>15. ASSUME TakeReply(w) PROVE Flow(w)'
  BY <1>15 DEF TakeReply, Goto, PopReply
<1>16. ASSUME EndRead(w) PROVE Flow(w)'
  BY <1>16 DEF EndRead, Goto, NextRead, ReleaseFd
<1>17. ASSUME ReceiveLock(w) PROVE Flow(w)'
  BY <1>17 DEF ReceiveLock, Goto
<1>18. ASSUME ReceiveCall(w) PROVE Flow(w)'
  BY <1>18 DEF ReceiveCall, Goto
<1>19. ASSUME ReceiveDone(w) PROVE Flow(w)'
  BY <1>19 DEF ReceiveDone, NotifyAll
<1>20. ASSUME DropBuffers(w) PROVE Flow(w)'
  BY <1>20 DEF DropBuffers, Goto, ClearBuffers
<1>21. ASSUME DropCheck(w) PROVE Flow(w)'
  BY <1>21 DEF DropCheck, Goto
<1>22. ASSUME DropSet(w) PROVE Flow(w)'
  BY <1>22 DEF DropSet, Goto
<1>23. ASSUME DropLock(w) PROVE Flow(w)'
  BY <1>23 DEF DropLock, Goto
<1>24. ASSUME ReconnectSleep(w) PROVE Flow(w)'
  BY <1>24 DEF ReconnectSleep, Goto, should_reconnect
<1>25. ASSUME ReconnectStart(w) PROVE Flow(w)'
  BY <1>25 DEF ReconnectStart, Goto
<1>26. ASSUME ConnectTcp(w) PROVE Flow(w)'
  BY <1>26, ZenonT(30) DEF ConnectTcp, Goto, AfterConnect, TcpConnect
<1>27. ASSUME ConnectRead(w) PROVE Flow(w)'
  BY <1>27 DEF ConnectRead, Goto, AfterConnect, AsyncRead
<1>28. ASSUME ConnectHandlers(w) PROVE Flow(w)'
  BY <1>28 DEF ConnectHandlers, Goto, AfterConnect, SetHandlers
<1>29. ASSUME ReconnectCheck(w) PROVE Flow(w)'
  BY <1>29 DEF ReconnectCheck, Goto
<1>30. ASSUME ReAuth(w) PROVE Flow(w)'
  BY <1>30 DEF ReAuth, Goto
<1>31. ASSUME ReSelect(w) PROVE Flow(w)'
  BY <1>31 DEF ReSelect, Goto
<1>32. ASSUME ResendMove(w) PROVE Flow(w)'
  BY <1>32 DEF ResendMove, Goto
<1>33. ASSUME ResendOne(w) PROVE Flow(w)'
  BY <1>33 DEF ResendOne, Goto, unprotected_send, BufferCommand
<1>34. ASSUME ReconnectCommit(w) PROVE Flow(w)'
  BY <1>34 DEF ReconnectCommit, ClearLocked, SpawnClear, WriteBuffer, WriteFails
<1>35. ASSUME ReconnectStop(w) PROVE Flow(w)'
  BY <1>35 DEF ReconnectStop, Goto
<1>36. ASSUME GiveUp(w) PROVE Flow(w)'
  BY <1>36 DEF GiveUp, ClearLocked, SpawnClear
<1>37. ASSUME DropEnd(w) PROVE Flow(w)'
  BY <1>37 DEF DropEnd, Goto
<1>38. ASSUME HandlerReturns(w) PROVE Flow(w)'
  BY <1>38 DEF HandlerReturns, Goto, HandlerReturn, ReleaseFd
<1>39. ASSUME NEW d \in Detached, FailCall(d) PROVE Flow(w)'
  BY <1>39 DEF FailCall, Goto
<1>40. ASSUME NEW d \in Detached, FailDone(d) PROVE Flow(w)'
  BY <1>40 DEF FailDone, Goto
<1>41. ASSUME NEW d \in Detached, FailNotify(d) PROVE Flow(w)'
  BY <1>41 DEF FailNotify, NotifyAll
<1>42. CASE UNCHANGED vars
  BY <1>42 DEF vars, connVars, queueVars, reconVars, localVars, histVars
<1> HIDE DEF Gentle, Flow
<1> QED
  BY GentleSteps, <1>1, <1>2, <1>3, <1>4, <1>5, <1>6, <1>7, <1>8, <1>9, <1>10,
     <1>11, <1>12, <1>13, <1>14, <1>15, <1>16, <1>17, <1>18, <1>19, <1>20,
     <1>21, <1>22, <1>23, <1>24, <1>25, <1>26, <1>27, <1>28, <1>29, <1>30,
     <1>31, <1>32, <1>33, <1>34, <1>35, <1>36, <1>37, <1>38, <1>39, <1>40,
     <1>41, <1>42
  DEF GentleNext, HandlerStep, DetachedStep

\* While the connection is down, or up again and not yet in use, nothing is on
\* the wire, available, or (once the handler has cleared the buffers) buffered.
Drained(w) ==
  /\ rd /\ pc[w] \notin Receives => avail = <<>>
  /\ ~connected \/ Broken(w) => wire = <<>> /\ avail = <<>>
  /\ Broken(w) /\ pc[w] # "dropped" => m_buffer = <<>>

\* Nobody but the handler fills the connection while it is broken.
LEMMA DrainedNext ==
  ASSUME NEW w, Gentle(w), TypeInv, MutexOwner, Flow(w), Drained(w), [Next]_vars
  PROVE  Drained(w)'
<1>p. /\ pc \in [Threads -> UserLabels \cup WorkerLabels \cup DetachedLabels]
      /\ pc[w] \in WorkerLabels /\ connected \in BOOLEAN
  BY DEF TypeInv, TypeOK, ControlOK, Gentle, ConnTypeOK, FlagsOK
<1>m. pc[w] \in HandlerLocked => mutex = w
  BY DEF MutexOwner, Locked, Gentle, Threads
<1> USE <1>p, <1>m, ThreadsAssumption
    DEF Gentle, Flow, Drained, Broken, Threads, Receives, Fresh, Early, Reconnecting,
        HandlerLocked, WorkerLabels, connVars, queueVars, reconVars, localVars, histVars
<1>1. ASSUME NEW u \in Users, NEW c \in Cmds, Send(u, c) PROVE Drained(w)'
  BY <1>1 DEF Send, Begin, Goto, BufferCommand, CallAllowed, DropWindow
<1>2. ASSUME NEW u \in Users, NEW o \in {"commit", "sync", "timed"}, Commit(u, o)
      PROVE  Drained(w)'
  BY <1>2 DEF Commit, Begin, Goto, AfterCommit, CallAllowed, DropWindow
<1>3. ASSUME NEW u \in Users, SendPush(u) PROVE Drained(w)'
  BY <1>3 DEF SendPush, Goto
<1>4. ASSUME NEW u \in Users, TryCommit(u) PROVE Drained(w)'
  <2>1. pc[u] = "write" /\ pc'[w] = pc[w] /\ ~Broken(w)
    BY <1>4 DEF TryCommit, Goto
  <2>2. avail' = avail /\ connected' = connected /\ rd' = rd /\ m_buffer' = <<>>
    BY <1>4 DEF TryCommit, WriteBuffer, WriteFails
  <2>3. ~connected => wire' = wire
    BY <1>4 DEF TryCommit, WriteBuffer, WriteFails
  <2> QED
    BY <2>1, <2>2, <2>3
<1>5. ASSUME NEW u \in Users, ClearMove(u) PROVE Drained(w)'
  BY <1>5 DEF ClearMove, Goto
<1>6. ASSUME NEW u \in Users, ClearSpawn(u) PROVE Drained(w)'
  BY <1>6 DEF ClearSpawn, SpawnClear
<1>7. ASSUME NEW u \in Users, SyncLock(u) PROVE Drained(w)'
  BY <1>7 DEF SyncLock, Goto
<1>8. ASSUME NEW u \in Users, SyncBlock(u) PROVE Drained(w)'
  BY <1>8 DEF SyncBlock, Goto
<1>9. ASSUME NEW u \in Users, SyncReturn(u) PROVE Drained(w)'
  BY <1>9 DEF SyncReturn, Goto
<1>10. ASSUME NEW u \in Users, SyncTimeout(u) PROVE Drained(w)'
  BY <1>10 DEF SyncTimeout, Goto
<1>11. ASSUME NEW u \in Users, CancelReconnect(u) PROVE Drained(w)'
  BY <1>11 DEF CancelReconnect, Begin
<1>12. ASSUME ReadEvent(w) PROVE Drained(w)'
  BY <1>12 DEF ReadEvent, Goto, ReadReplies, Polled
<1>13. ASSUME DropEvent(w) PROVE Drained(w)'
  BY <1>13 DEF DropEvent, Goto, PeerDrop, Polled, DropAllowed
<1>14. ASSUME MalformedEvent(w) PROVE Drained(w)'
  BY <1>14 DEF MalformedEvent, Goto, ReadReplies, Polled
<1>15. ASSUME TakeReply(w) PROVE Drained(w)'
  BY <1>15 DEF TakeReply, Goto, PopReply
<1>16. ASSUME EndRead(w) PROVE Drained(w)'
  BY <1>16 DEF EndRead, Goto, NextRead, ReleaseFd
<1>17. ASSUME ReceiveLock(w) PROVE Drained(w)'
  BY <1>17 DEF ReceiveLock, Goto
<1>18. ASSUME ReceiveCall(w) PROVE Drained(w)'
  BY <1>18 DEF ReceiveCall, Goto
<1>19. ASSUME ReceiveDone(w) PROVE Drained(w)'
  BY <1>19 DEF ReceiveDone, NotifyAll
<1>20. ASSUME DropBuffers(w) PROVE Drained(w)'
  BY <1>20 DEF DropBuffers, Goto, ClearBuffers
<1>21. ASSUME DropCheck(w) PROVE Drained(w)'
  BY <1>21 DEF DropCheck, Goto
<1>22. ASSUME DropSet(w) PROVE Drained(w)'
  BY <1>22 DEF DropSet, Goto
<1>23. ASSUME DropLock(w) PROVE Drained(w)'
  BY <1>23 DEF DropLock, Goto
<1>24. ASSUME ReconnectSleep(w) PROVE Drained(w)'
  BY <1>24 DEF ReconnectSleep, Goto, should_reconnect
<1>25. ASSUME ReconnectStart(w) PROVE Drained(w)'
  BY <1>25 DEF ReconnectStart, Goto
<1>26. ASSUME ConnectTcp(w) PROVE Drained(w)'
  BY <1>26 DEF ConnectTcp, Goto, AfterConnect, TcpConnect
<1>27. ASSUME ConnectRead(w) PROVE Drained(w)'
  BY <1>27 DEF ConnectRead, Goto, AfterConnect, AsyncRead
<1>28. ASSUME ConnectHandlers(w) PROVE Drained(w)'
  BY <1>28 DEF ConnectHandlers, Goto, AfterConnect, SetHandlers
<1>29. ASSUME ReconnectCheck(w) PROVE Drained(w)'
  BY <1>29 DEF ReconnectCheck, Goto
<1>30. ASSUME ReAuth(w) PROVE Drained(w)'
  BY <1>30 DEF ReAuth, Goto
<1>31. ASSUME ReSelect(w) PROVE Drained(w)'
  BY <1>31 DEF ReSelect, Goto
<1>32. ASSUME ResendMove(w) PROVE Drained(w)'
  BY <1>32 DEF ResendMove, Goto
<1>33. ASSUME ResendOne(w) PROVE Drained(w)'
  BY <1>33 DEF ResendOne, Goto, unprotected_send, BufferCommand
<1>34. ASSUME ReconnectCommit(w) PROVE Drained(w)'
  BY <1>34 DEF ReconnectCommit, ClearLocked, SpawnClear, WriteBuffer, WriteFails
<1>35. ASSUME ReconnectStop(w) PROVE Drained(w)'
  BY <1>35 DEF ReconnectStop, Goto, should_reconnect
<1>36. ASSUME GiveUp(w) PROVE Drained(w)'
  BY <1>36 DEF GiveUp, ClearLocked, SpawnClear
<1>37. ASSUME DropEnd(w) PROVE Drained(w)'
  BY <1>37 DEF DropEnd, Goto
<1>38. ASSUME HandlerReturns(w) PROVE Drained(w)'
  BY <1>38 DEF HandlerReturns, Goto, HandlerReturn, ReleaseFd
<1>39. ASSUME NEW d \in Detached, FailCall(d) PROVE Drained(w)'
  BY <1>39 DEF FailCall, Goto
<1>40. ASSUME NEW d \in Detached, FailDone(d) PROVE Drained(w)'
  BY <1>40 DEF FailDone, Goto
<1>41. ASSUME NEW d \in Detached, FailNotify(d) PROVE Drained(w)'
  BY <1>41 DEF FailNotify, NotifyAll
<1>42. CASE UNCHANGED vars
  BY <1>42 DEF vars, connVars, queueVars, reconVars, localVars, histVars
<1> HIDE DEF Gentle, Flow, Drained
<1> QED
  BY GentleSteps, <1>1, <1>2, <1>3, <1>4, <1>5, <1>6, <1>7, <1>8, <1>9, <1>10,
     <1>11, <1>12, <1>13, <1>14, <1>15, <1>16, <1>17, <1>18, <1>19, <1>20,
     <1>21, <1>22, <1>23, <1>24, <1>25, <1>26, <1>27, <1>28, <1>29, <1>30,
     <1>31, <1>32, <1>33, <1>34, <1>35, <1>36, <1>37, <1>38, <1>39, <1>40,
     <1>41, <1>42
  DEF GentleNext, HandlerStep, DetachedStep

\* On a connection that is up and in use, the queue and the replies to come
\* agree.
Intact(w) == connected /\ ~Broken(w) => Fifo

\* The equation holds after resend_failed_commands() as it did before.
LEMMA IntactNext ==
  ASSUME NEW w, Gentle(w), TypeInv, MutexOwner, Flow(w), Drained(w), Intact(w),
         [Next]_vars
  PROVE  Intact(w)'
<1>p. /\ pc \in [Threads -> UserLabels \cup WorkerLabels \cup DetachedLabels]
      /\ pc[w] \in WorkerLabels /\ connected \in BOOLEAN
      /\ reader \in {w, None}
      /\ job \in [Threads -> Seq(AllCmds)]
  BY DEF TypeInv, TypeOK, ControlOK, DataOK, Gentle, ConnTypeOK, FlagsOK, QueuesOK
<1>t. /\ m_commands \in Seq(AllCmds) /\ avail \in Seq(AllCmds)
      /\ wire \in Seq(AllCmds) /\ m_buffer \in Seq(AllCmds)
      /\ Handed \in Seq(AllCmds)
  BY FifoTypes
<1>n. /\ w \in Workers /\ w \notin Users /\ w # None /\ None \notin Users
      /\ Workers = {w} /\ Users \subseteq Threads /\ w \in Threads
      /\ \A d \in Detached : d \notin Users /\ d # w /\ d \in Threads
  BY ThreadsAssumption DEF Gentle, Threads
<1>m. pc[w] \in HandlerLocked => mutex = w
  BY DEF MutexOwner, Locked, Gentle, Threads
<1>e. Joined(<<>>, <<>>, <<>>, <<>>) = <<>>
  BY EmptySeq, CatFacts DEF Joined
<1>s. SUFFICES ASSUME connected', ~Broken(w)' PROVE Fifo'
  BY DEF Intact
<1>f. connected /\ ~Broken(w) => Queued = Joined(Handed, avail, wire, m_buffer)
  BY DEF Intact, Fifo
<1>h. pc[w] # "rlock" => Handed = <<>>
  BY <1>p, <1>n DEF Handed
<1>g. pc'[w] # "rlock" /\ reader' \in {w, None} => Handed' = <<>>
  BY <1>n DEF Handed
<1>k. ASSUME connected, ~Broken(w), Queued' = Queued, Handed' = Handed,
             avail' = avail, wire' = wire, m_buffer' = m_buffer
      PROVE  Fifo'
  BY ONLY <1>f, <1>k DEF Fifo
<1>c. ASSUME CalmNext PROVE Fifo'
  <2>1. CASE connected /\ ~Broken(w)
    <3>1. Attached
      BY <1>n, <2>1 DEF Attached, Flow, Receives
    <3> QED
      BY <1>c, <2>1, <3>1, FifoNext DEF Intact
  <2>2. CASE ~(connected /\ ~Broken(w))
    <3>1. ASSUME NEW u \in Users,
                 \/ \E c \in Cmds : Send(u, c)
                 \/ SendPush(u)
                 \/ \E x \in {"commit", "sync", "timed"} : Commit(u, x)
                 \/ TryCommit(u)
                 \/ SyncLock(u) \/ SyncBlock(u) \/ SyncReturn(u) \/ SyncTimeout(u)
          PROVE  connected' = connected /\ pc'[w] = pc[w]
      BY <3>1, <1>p, <1>n DEF Send, SendPush, Commit, TryCommit, SyncLock,
                              SyncBlock,
                   SyncReturn, SyncTimeout, Begin, Goto, BufferCommand, WriteBuffer,
                   WriteFails, connVars
    <3>2. ASSUME NEW v \in Workers,
                 \/ ReadEvent(v) \/ TakeReply(v) \/ EndRead(v)
                 \/ ReceiveLock(v) \/ ReceiveCall(v) \/ ReceiveDone(v)
          PROVE  FALSE
      <4>1. v = w
        BY <1>n
      <4>2. pc[w] \in {"idle"} \cup Receives /\ (pc[w] = "idle" => connected)
        BY <3>2, <4>1 DEF ReadEvent, ReadReplies, Polled, TakeReply, EndRead,
                          ReceiveLock, ReceiveCall, ReceiveDone, Goto, Receives
      <4>3. connected /\ ~Broken(w)
        BY <4>2 DEF Flow, Broken, Receives, Fresh, Early
      <4> QED
        BY <2>2, <4>3
    <3>3. connected' = connected /\ pc'[w] = pc[w]
      BY <1>c, <3>1, <3>2 DEF CalmNext
    <3> QED
      BY <1>s, <2>2, <3>3 DEF Broken
  <2> QED
    BY <2>1, <2>2
<1>1. ASSUME NEW u \in Users, NEW c \in Cmds, Send(u, c) PROVE Fifo'
  BY <1>1, <1>c, <1>n DEF CalmNext
<1>2. ASSUME NEW u \in Users, NEW o \in {"commit", "sync", "timed"}, Commit(u, o)
      PROVE  Fifo'
  BY <1>2, <1>c, <1>n DEF CalmNext
<1>3. ASSUME NEW u \in Users, SendPush(u) PROVE Fifo'
  BY <1>3, <1>c, <1>n DEF CalmNext
<1>4. ASSUME NEW u \in Users, TryCommit(u) PROVE Fifo'
  BY <1>4, <1>c, <1>n DEF CalmNext
<1>5. ASSUME NEW u \in Users, ClearMove(u) PROVE Fifo'
  BY <1>5, <1>s, <1>p, <1>n DEF ClearMove, Goto, Flow, Broken, Fresh, Early,
                                connVars
<1>6. ASSUME NEW u \in Users, ClearSpawn(u) PROVE Fifo'
  BY <1>6, <1>s, <1>p, <1>n DEF ClearSpawn, SpawnClear, Flow, Broken, Fresh,
                                Early, connVars
<1>7. ASSUME NEW u \in Users, SyncLock(u) PROVE Fifo'
  BY <1>7, <1>c, <1>n DEF CalmNext
<1>8. ASSUME NEW u \in Users, SyncBlock(u) PROVE Fifo'
  BY <1>8, <1>c, <1>n DEF CalmNext
<1>9. ASSUME NEW u \in Users, SyncReturn(u) PROVE Fifo'
  BY <1>9, <1>c, <1>n DEF CalmNext
<1>10. ASSUME NEW u \in Users, SyncTimeout(u) PROVE Fifo'
  BY <1>10, <1>c, <1>n DEF CalmNext
<1>11. ASSUME NEW u \in Users, CancelReconnect(u) PROVE Fifo'
  <2>1. connected /\ ~Broken(w)
    BY <1>11, <1>s, <1>p, <1>n DEF CancelReconnect, Begin, Flow, Broken, Fresh,
                                   Early, connVars
  <2>2. avail' = avail /\ wire' = wire /\ m_buffer' = m_buffer
    BY <1>11, <2>1 DEF CancelReconnect, Begin, connVars
  <2>3. Handed' = Handed
    BY <1>11, <2>1, <1>p, <1>n, <1>h, <1>g DEF CancelReconnect, Begin, Handed,
                                               connVars, localVars
  <2>4. Queued' = Queued
    BY <1>11, <2>1, <1>p, <1>n, <1>m DEF CancelReconnect, Begin, Queued,
                                         queueVars, localVars, HandlerLocked
  <2> QED
    BY <1>k, <2>1, <2>2, <2>3, <2>4
<1>12. ASSUME ReadEvent(w) PROVE Fifo'
  BY <1>12, <1>c, <1>n DEF CalmNext
<1>13. ASSUME DropEvent(w) PROVE Fifo'
  BY <1>13, <1>s, <1>p, <1>n DEF DropEvent, Goto, Flow, Broken, Fresh, Early,
                                 connVars, PeerDrop
<1>14. ASSUME MalformedEvent(w) PROVE Fifo'
  <2>1. PICK n \in 0 .. Len(wire) : ReadReplies(w, n)
    BY <1>14 DEF MalformedEvent
  <2>2. pc[w] = "idle" /\ pc' = [pc EXCEPT ![w] = "dcheck"]
    BY <1>14 DEF MalformedEvent, Goto, Flow
  <2>3. connected /\ ~Broken(w)
    BY <2>1, <2>2 DEF ReadReplies, Polled, Broken, Fresh, Early
  <2>4. Handed = <<>> /\ Handed' = <<>>
    BY <1>p, <1>h, <1>g, <1>n, <2>1, <2>2 DEF ReadReplies
  <2>5. /\ avail' = avail \o SubSeq(wire, 1, n)
        /\ wire' = SubSeq(wire, n + 1, Len(wire))
        /\ m_buffer' = m_buffer
    BY <2>1 DEF ReadReplies
  <2>6. Queued' = Queued
    BY <1>14, <1>p, <1>n, <2>2 DEF MalformedEvent, Queued, queueVars, localVars
  <2>7. Joined(Handed, avail \o SubSeq(wire, 1, n), SubSeq(wire, n + 1, Len(wire)),
               m_buffer) = Joined(Handed, avail, wire, m_buffer)
    BY <1>t, JoinedRead
  <2> QED
    BY ONLY <1>f, <2>3, <2>4, <2>5, <2>6, <2>7 DEF Fifo
<1>15. ASSUME TakeReply(w) PROVE Fifo'
  BY <1>15, <1>c, <1>n DEF CalmNext
<1>16. ASSUME EndRead(w) PROVE Fifo'
  BY <1>16, <1>c, <1>n DEF CalmNext
<1>17. ASSUME ReceiveLock(w) PROVE Fifo'
  BY <1>17, <1>c, <1>n DEF CalmNext
<1>18. ASSUME ReceiveCall(w) PROVE Fifo'
  BY <1>18, <1>c, <1>n DEF CalmNext
<1>19. ASSUME ReceiveDone(w) PROVE Fifo'
  BY <1>19, <1>c, <1>n DEF CalmNext
<1>20. ASSUME DropBuffers(w) PROVE Fifo'
  BY <1>20, <1>s, <1>p, <1>n DEF DropBuffers, Goto, Flow, Broken, Fresh, Early,
                                 connVars, ClearBuffers
<1>21. ASSUME DropCheck(w) PROVE Fifo'
  <2>1. connected /\ ~Broken(w)
    BY <1>21, <1>s, <1>p, <1>n DEF DropCheck, Goto, Flow, Broken, Fresh, Early,
                                   connVars
  <2>2. avail' = avail /\ wire' = wire /\ m_buffer' = m_buffer
    BY <1>21, <2>1 DEF DropCheck, Goto, connVars
  <2>3. Handed' = Handed
    BY <1>21, <2>1, <1>p, <1>n, <1>h, <1>g DEF DropCheck, Goto, Handed,
                                               connVars, localVars
  <2>4. Queued' = Queued
    BY <1>21, <2>1, <1>p, <1>n, <1>m DEF DropCheck, Goto, Queued, queueVars,
                                         localVars, HandlerLocked
  <2> QED
    BY <1>k, <2>1, <2>2, <2>3, <2>4
<1>22. ASSUME DropSet(w) PROVE Fifo'
  <2>1. connected /\ ~Broken(w)
    BY <1>22, <1>s, <1>p, <1>n DEF DropSet, Goto, Flow, Broken, Fresh, Early,
                                   connVars
  <2>2. avail' = avail /\ wire' = wire /\ m_buffer' = m_buffer
    BY <1>22, <2>1 DEF DropSet, Goto, connVars
  <2>3. Handed' = Handed
    BY <1>22, <2>1, <1>p, <1>n, <1>h, <1>g DEF DropSet, Goto, Handed, connVars,
                                               localVars
  <2>4. Queued' = Queued
    BY <1>22, <2>1, <1>p, <1>n, <1>m DEF DropSet, Goto, Queued, queueVars,
                                         localVars, HandlerLocked
  <2> QED
    BY <1>k, <2>1, <2>2, <2>3, <2>4
<1>23. ASSUME DropLock(w) PROVE Fifo'
  <2>1. connected /\ ~Broken(w)
    BY <1>23, <1>s, <1>p, <1>n DEF DropLock, Goto, Flow, Broken, Fresh, Early,
                                   connVars
  <2>2. avail' = avail /\ wire' = wire /\ m_buffer' = m_buffer
    BY <1>23, <2>1 DEF DropLock, Goto, connVars
  <2>3. Handed' = Handed
    BY <1>23, <2>1, <1>p, <1>n, <1>h, <1>g DEF DropLock, Goto, Handed, connVars,
                                               localVars
  <2>4. Queued' = Queued
    BY <1>23, <2>1, <1>p, <1>n, <1>m DEF DropLock, Goto, Queued, queueVars,
                                         localVars, HandlerLocked
  <2> QED
    BY <1>k, <2>1, <2>2, <2>3, <2>4
<1>24. ASSUME ReconnectSleep(w) PROVE Fifo'
  BY <1>24, <1>s, <1>p, <1>n DEF ReconnectSleep, Goto, Flow, Broken, Fresh,
                                 Early, connVars, should_reconnect
<1>25. ASSUME ReconnectStart(w) PROVE Fifo'
  BY <1>25, <1>s, <1>p, <1>n DEF ReconnectStart, Goto, Flow, Broken, Fresh,
                                 Early, connVars
<1>26. ASSUME ConnectTcp(w) PROVE Fifo'
  BY <1>26, <1>s, <1>p, <1>n DEF ConnectTcp, Goto, AfterConnect, Flow, Broken,
                                 Fresh, Early, connVars, TcpConnect
<1>27. ASSUME ConnectRead(w) PROVE Fifo'
  BY <1>27, <1>s, <1>p, <1>n DEF ConnectRead, Goto, AfterConnect, Flow, Broken,
                                 Fresh, Early, connVars, AsyncRead
<1>28. ASSUME ConnectHandlers(w) PROVE Fifo'
  BY <1>28, <1>s, <1>p, <1>n DEF ConnectHandlers, Goto, AfterConnect, Flow,
                                 Broken, Fresh, Early, connVars, SetHandlers
<1>29. ASSUME ReconnectCheck(w) PROVE Fifo'
  BY <1>29, <1>s, <1>p, <1>n DEF ReconnectCheck, Goto, Flow, Broken, Fresh,
                                 Early, connVars
<1>30. ASSUME ReAuth(w) PROVE Fifo'
  BY <1>30, <1>s, <1>p, <1>n DEF ReAuth, Goto, Flow, Broken, Fresh, Early,
                                 connVars, Gentle
<1>31. ASSUME ReSelect(w) PROVE Fifo'
  BY <1>31, <1>s, <1>p, <1>n DEF ReSelect, Goto, Flow, Broken, Fresh, Early,
                                 connVars, Gentle
<1>32. ASSUME ResendMove(w) PROVE Fifo'
  <2>1. Broken(w) /\ pc[w] = "rmove" /\ mutex = w
    BY <1>32, <1>m DEF ResendMove, Goto, Broken, Fresh, HandlerLocked
  <2>2. wire = <<>> /\ avail = <<>> /\ m_buffer = <<>>
    BY <2>1 DEF Drained
  <2>3. wire' = <<>> /\ avail' = <<>> /\ m_buffer' = <<>> /\ reader' = reader
    BY <1>32, <2>2 DEF ResendMove, connVars
  <2>4. Handed' = <<>>
    BY <1>32, <2>3, <1>p, <1>g DEF ResendMove, Goto
  <2>5. Queued' = <<>>
    BY <1>32, <2>1, <1>n DEF ResendMove, Queued
  <2> QED
    BY ONLY <1>e, <2>3, <2>4, <2>5 DEF Fifo
<1>33. ASSUME ResendOne(w) PROVE Fifo'
  <2>1. connected /\ pc[w] = "resend" /\ ~Broken(w) /\ mutex = w
    BY <1>33, <1>m DEF ResendOne, Goto, Broken, Fresh, Early, Flow, HandlerLocked
  <2>2. job[w] # <<>> /\ job[w] \in Seq(AllCmds)
    BY <1>p, <1>n, <2>1 DEF TypeInv, FrontDefined
  <2>3. PICK c \in AllCmds : c = Head(job[w])
    BY <2>2, HeadTailProperties
  <2>4. /\ m_buffer' = Append(m_buffer, c) /\ m_commands' = Append(m_commands, c)
        /\ wire' = wire /\ avail' = avail /\ reader' = reader
    BY <1>33, <2>3 DEF ResendOne, unprotected_send, BufferCommand
  <2>5. Handed = <<>> /\ Handed' = <<>>
    BY <1>33, <2>1, <2>4, <1>p, <1>h, <1>g DEF ResendOne, Goto
  <2>6. Queued = m_commands /\ Queued' = Append(m_commands, c)
    BY <1>33, <2>1, <2>4, <1>n DEF ResendOne, Queued
  <2>7. Joined(Handed, avail, wire, Extend(m_buffer, c))
          = Extend(Joined(Handed, avail, wire, m_buffer), c)
    BY <1>t, JoinedBuffer
  <2> QED
    BY ONLY <1>f, <2>1, <2>4, <2>5, <2>6, <2>7 DEF Fifo, Extend
<1>34. ASSUME ReconnectCommit(w) PROVE Fifo'
  <2>1. connected /\ pc[w] = "rcommit" /\ ~Broken(w)
    BY <1>34 DEF ReconnectCommit, Broken, Fresh, Early, Flow
  <2>2. WriteBuffer /\ pc' = [pc EXCEPT ![w] = "dloop"] /\ UNCHANGED <<queueVars, mutex, job>>
    BY <1>34, <2>1 DEF ReconnectCommit, WriteFails
  <2>3. avail' = avail /\ wire' = wire \o m_buffer /\ m_buffer' = <<>> /\ reader' = reader
    BY <2>2 DEF WriteBuffer
  <2>4. Handed = <<>> /\ Handed' = <<>>
    BY <2>1, <2>2, <2>3, <1>p, <1>h, <1>g
  <2>5. Queued' = Queued
    BY <1>34, <2>2, <1>p, <1>n DEF ReconnectCommit, Queued, queueVars
  <2>6. Joined(Handed, avail, wire \o m_buffer, <<>>) = Joined(Handed, avail, wire, m_buffer)
    BY <1>t, JoinedWrite
  <2> QED
    BY ONLY <1>f, <2>1, <2>3, <2>4, <2>5, <2>6 DEF Fifo
<1>35. ASSUME ReconnectStop(w) PROVE Fifo'
  <2>1. connected /\ ~Broken(w)
    BY <1>35, <1>s, <1>p, <1>n DEF ReconnectStop, Goto, Flow, Broken, Fresh,
                                   Early, connVars, should_reconnect
  <2>2. avail' = avail /\ wire' = wire /\ m_buffer' = m_buffer
    BY <1>35, <2>1 DEF ReconnectStop, Goto, connVars, should_reconnect
  <2>3. Handed' = Handed
    BY <1>35, <2>1, <1>p, <1>n, <1>h, <1>g DEF ReconnectStop, Goto, Handed,
                                               connVars, localVars,
                                               should_reconnect
  <2>4. Queued' = Queued
    BY <1>35, <2>1, <1>p, <1>n, <1>m DEF ReconnectStop, Goto, Queued, queueVars,
                                         localVars, HandlerLocked,
                                         should_reconnect
  <2> QED
    BY <1>k, <2>1, <2>2, <2>3, <2>4
<1>36. ASSUME GiveUp(w) PROVE Fifo'
  <2>1. connected /\ ~Broken(w)
    BY <1>36, <1>s, <1>p, <1>n DEF GiveUp, Flow, Broken, Fresh, Early, connVars
  <2>2. avail' = avail /\ wire' = wire /\ m_buffer' = m_buffer
    BY <1>36 DEF GiveUp, connVars
  <2>3. pc[w] = "dfinal" /\ pc' = [pc EXCEPT ![w] = "dend"] /\ UNCHANGED queueVars
    BY <1>36, <2>1 DEF GiveUp
  <2>4. Handed' = Handed
    BY <1>36, <2>3, <1>p, <1>n, <1>h, <1>g DEF GiveUp, connVars
  <2>5. Queued' = Queued
    BY <1>36, <2>3, <1>p, <1>n DEF GiveUp, Queued, queueVars
  <2> QED
    BY <1>k, <2>1, <2>2, <2>4, <2>5
<1>37. ASSUME DropEnd(w) PROVE Fifo'
  <2>1. connected /\ ~Broken(w)
    BY <1>37, <1>s, <1>p, <1>n DEF DropEnd, Goto, Flow, Broken, Fresh, Early,
                                   connVars
  <2>2. avail' = avail /\ wire' = wire /\ m_buffer' = m_buffer
    BY <1>37, <2>1 DEF DropEnd, Goto, connVars
  <2>3. Handed' = Handed
    BY <1>37, <2>1, <1>p, <1>n, <1>h, <1>g DEF DropEnd, Goto, Handed, connVars,
                                               localVars
  <2>4. Queued' = Queued
    BY <1>37, <2>1, <1>p, <1>n, <1>m DEF DropEnd, Goto, Queued, queueVars,
                                         localVars, HandlerLocked
  <2> QED
    BY <1>k, <2>1, <2>2, <2>3, <2>4
<1>38. ASSUME HandlerReturns(w) PROVE Fifo'
  <2>1. connected /\ ~Broken(w)
    BY <1>38, <1>s, <1>p, <1>n DEF HandlerReturns, Goto, Flow, Broken, Fresh,
                                   Early, connVars, HandlerReturn, ReleaseFd
  <2>2. avail' = avail /\ wire' = wire /\ m_buffer' = m_buffer
    BY <1>38, <2>1 DEF HandlerReturns, Goto, connVars, HandlerReturn, ReleaseFd
  <2>3. Handed' = Handed
    BY <1>38, <2>1, <1>p, <1>n, <1>h, <1>g DEF HandlerReturns, Goto, Handed,
                                               connVars, localVars,
                                               HandlerReturn, ReleaseFd
  <2>4. Queued' = Queued
    BY <1>38, <2>1, <1>p, <1>n, <1>m DEF HandlerReturns, Goto, Queued,
                                         queueVars, localVars, HandlerLocked,
                                         HandlerReturn, ReleaseFd
  <2> QED
    BY <1>k, <2>1, <2>2, <2>3, <2>4
<1>39. ASSUME NEW d \in Detached, FailCall(d) PROVE Fifo'
  <2>1. connected /\ ~Broken(w)
    BY <1>39, <1>s, <1>p, <1>n DEF FailCall, Goto, Flow, Broken, Fresh, Early,
                                   connVars
  <2>2. avail' = avail /\ wire' = wire /\ m_buffer' = m_buffer
    BY <1>39, <2>1 DEF FailCall, Goto, connVars
  <2>3. Handed' = Handed
    BY <1>39, <2>1, <1>p, <1>n, <1>h, <1>g DEF FailCall, Goto, Handed, connVars,
                                               localVars
  <2>4. Queued' = Queued
    BY <1>39, <2>1, <1>p, <1>n, <1>m DEF FailCall, Goto, Queued, queueVars,
                                         localVars, HandlerLocked
  <2> QED
    BY <1>k, <2>1, <2>2, <2>3, <2>4
<1>40. ASSUME NEW d \in Detached, FailDone(d) PROVE Fifo'
  <2>1. connected /\ ~Broken(w)
    BY <1>40, <1>s, <1>p, <1>n DEF FailDone, Goto, Flow, Broken, Fresh, Early,
                                   connVars
  <2>2. avail' = avail /\ wire' = wire /\ m_buffer' = m_buffer
    BY <1>40, <2>1 DEF FailDone, Goto, connVars
  <2>3. Handed' = Handed
    BY <1>40, <2>1, <1>p, <1>n, <1>h, <1>g DEF FailDone, Goto, Handed, connVars,
                                               localVars
  <2>4. Queued' = Queued
    BY <1>40, <2>1, <1>p, <1>n, <1>m DEF FailDone, Goto, Queued, queueVars,
                                         localVars, HandlerLocked
  <2> QED
    BY <1>k, <2>1, <2>2, <2>3, <2>4
<1>41. ASSUME NEW d \in Detached, FailNotify(d) PROVE Fifo'
  <2>1. connected /\ ~Broken(w)
    BY <1>41, <1>s, <1>p, <1>n DEF FailNotify, NotifyAll, Flow, Broken, Fresh,
                                   Early, connVars
  <2>2. avail' = avail /\ wire' = wire /\ m_buffer' = m_buffer
    BY <1>41, <2>1 DEF FailNotify, NotifyAll, connVars
  <2>3. Handed' = Handed
    BY <1>41, <2>1, <1>p, <1>n, <1>h, <1>g DEF FailNotify, NotifyAll, Handed,
                                               connVars, localVars
  <2>4. Queued' = Queued
    BY <1>41, <2>1, <1>p, <1>n, <1>m DEF FailNotify, NotifyAll, Queued,
                                         queueVars, localVars, HandlerLocked
  <2> QED
    BY <1>k, <2>1, <2>2, <2>3, <2>4
<1>42. CASE UNCHANGED vars
  <2>1. connected /\ ~Broken(w)
    BY <1>42, <1>s DEF vars, connVars, Broken
  <2>2. /\ avail' = avail /\ wire' = wire /\ m_buffer' = m_buffer
        /\ Queued' = Queued /\ Handed' = Handed
    BY <1>42 DEF vars, connVars, queueVars, localVars, Queued, Handed
  <2> QED
    BY <1>k, <2>1, <2>2
<1> QED
  BY GentleSteps, <1>1, <1>2, <1>3, <1>4, <1>5, <1>6, <1>7, <1>8, <1>9, <1>10,
     <1>11, <1>12, <1>13, <1>14, <1>15, <1>16, <1>17, <1>18, <1>19, <1>20,
     <1>21, <1>22, <1>23, <1>24, <1>25, <1>26, <1>27, <1>28, <1>29, <1>30,
     <1>31, <1>32, <1>33, <1>34, <1>35, <1>36, <1>37, <1>38, <1>39, <1>40,
     <1>41, <1>42
  DEF GentleNext, HandlerStep, DetachedStep

\* The receive handler has popped the command the reply in its hands answers.
LEMMA GentleMatched ==
  ASSUME NEW w, Gentle(w), TypeInv, MutexOwner, Flow(w), Intact(w), Matched,
         [Next]_vars
  PROVE  Matched'
<1>p. /\ pc \in [Threads -> UserLabels \cup WorkerLabels \cup DetachedLabels]
      /\ cur \in [Threads -> AllCmds \cup {None}]
      /\ rep \in [Workers -> AllCmds \cup {None}]
  BY DEF TypeInv, TypeOK, ControlOK, DataOK
<1>n. /\ w \in Workers /\ w \notin Users /\ Workers = {w} /\ w \in Threads
      /\ Users \subseteq Threads
      /\ \A d \in Detached : d # w /\ d \in Threads
  BY ThreadsAssumption DEF Gentle, Threads
<1>1. ASSUME NEW u \in Users, NEW c \in Cmds, Send(u, c) PROVE Matched'
  BY <1>1, <1>p, <1>n DEF Send, Begin, Goto, Matched, localVars
<1>2. ASSUME NEW u \in Users, NEW o \in {"commit", "sync", "timed"}, Commit(u, o)
      PROVE  Matched'
  BY <1>2, <1>p, <1>n DEF Commit, Begin, Goto, AfterCommit, Matched, localVars
<1>3. ASSUME NEW u \in Users, SendPush(u) PROVE Matched'
  BY <1>3, <1>p, <1>n DEF SendPush, Goto, Matched, localVars
<1>4. ASSUME NEW u \in Users, TryCommit(u) PROVE Matched'
  BY <1>4, <1>p, <1>n DEF TryCommit, Goto, AfterCommit, Matched, localVars
<1>5. ASSUME NEW u \in Users, ClearMove(u) PROVE Matched'
  BY <1>5, <1>p, <1>n DEF ClearMove, Goto, Matched, localVars
<1>6. ASSUME NEW u \in Users, ClearSpawn(u) PROVE Matched'
  BY <1>6, <1>p, <1>n DEF ClearSpawn, SpawnClear, Matched, localVars
<1>7. ASSUME NEW u \in Users, SyncLock(u) PROVE Matched'
  BY <1>7, <1>p, <1>n DEF SyncLock, Goto, Matched, localVars
<1>8. ASSUME NEW u \in Users, SyncBlock(u) PROVE Matched'
  BY <1>8, <1>p, <1>n DEF SyncBlock, Goto, Matched, localVars
<1>9. ASSUME NEW u \in Users, SyncReturn(u) PROVE Matched'
  BY <1>9, <1>p, <1>n DEF SyncReturn, Goto, Matched, localVars
<1>10. ASSUME NEW u \in Users, SyncTimeout(u) PROVE Matched'
  BY <1>10, <1>p, <1>n DEF SyncTimeout, Goto, Matched, localVars
<1>11. ASSUME NEW u \in Users, CancelReconnect(u) PROVE Matched'
  BY <1>11, <1>p, <1>n DEF CancelReconnect, Begin, Matched, localVars
<1>12. ASSUME ReadEvent(w) PROVE Matched'
  BY <1>12, <1>p, <1>n DEF ReadEvent, Goto, Matched, localVars
<1>13. ASSUME DropEvent(w) PROVE Matched'
  BY <1>13, <1>p, <1>n DEF DropEvent, Goto, Matched, localVars
<1>14. ASSUME MalformedEvent(w) PROVE Matched'
  BY <1>14, <1>p, <1>n DEF MalformedEvent, Goto, Matched, localVars
<1>15. ASSUME TakeReply(w) PROVE Matched'
  BY <1>15, <1>p, <1>n DEF TakeReply, Goto, Matched, localVars
<1>16. ASSUME EndRead(w) PROVE Matched'
  BY <1>16, <1>p, <1>n DEF EndRead, Goto, Matched, localVars
<1>17. ASSUME ReceiveLock(w) PROVE Matched'
  <2>1. connected /\ ~Broken(w)
    BY <1>17 DEF ReceiveLock, Goto, Flow, Broken, Receives, Fresh, Early
  <2>2. Attached /\ Fifo
    BY <1>n, <2>1 DEF Attached, Flow, Receives, Intact
  <2>3. CalmNext
    BY <1>17, <1>n DEF CalmNext
  <2> QED
    BY <2>2, <2>3, MatchedNext
<1>18. ASSUME ReceiveCall(w) PROVE Matched'
  BY <1>18, <1>p, <1>n DEF ReceiveCall, Goto, Matched, localVars
<1>19. ASSUME ReceiveDone(w) PROVE Matched'
  BY <1>19, <1>p, <1>n DEF ReceiveDone, NotifyAll, Matched, localVars
<1>20. ASSUME DropBuffers(w) PROVE Matched'
  BY <1>20, <1>p, <1>n DEF DropBuffers, Goto, Matched, localVars
<1>21. ASSUME DropCheck(w) PROVE Matched'
  BY <1>21, <1>p, <1>n DEF DropCheck, Goto, Matched, localVars
<1>22. ASSUME DropSet(w) PROVE Matched'
  BY <1>22, <1>p, <1>n DEF DropSet, Goto, Matched, localVars
<1>23. ASSUME DropLock(w) PROVE Matched'
  BY <1>23, <1>p, <1>n DEF DropLock, Goto, Matched, localVars
<1>24. ASSUME ReconnectSleep(w) PROVE Matched'
  BY <1>24, <1>p, <1>n DEF ReconnectSleep, Goto, Matched, localVars
<1>25. ASSUME ReconnectStart(w) PROVE Matched'
  BY <1>25, <1>p, <1>n DEF ReconnectStart, Goto, Matched, localVars
<1>26. ASSUME ConnectTcp(w) PROVE Matched'
  BY <1>26, <1>p, <1>n DEF ConnectTcp, Goto, AfterConnect, Matched, localVars
<1>27. ASSUME ConnectRead(w) PROVE Matched'
  BY <1>27, <1>p, <1>n DEF ConnectRead, Goto, AfterConnect, Matched, localVars
<1>28. ASSUME ConnectHandlers(w) PROVE Matched'
  BY <1>28, <1>p, <1>n DEF ConnectHandlers, Goto, AfterConnect, Matched, localVars
<1>29. ASSUME ReconnectCheck(w) PROVE Matched'
  BY <1>29, <1>p, <1>n DEF ReconnectCheck, Goto, Matched, localVars
<1>30. ASSUME ReAuth(w) PROVE Matched'
  BY <1>30, <1>p, <1>n DEF ReAuth, Goto, Matched, localVars
<1>31. ASSUME ReSelect(w) PROVE Matched'
  BY <1>31, <1>p, <1>n DEF ReSelect, Goto, Matched, localVars
<1>32. ASSUME ResendMove(w) PROVE Matched'
  BY <1>32, <1>p, <1>n DEF ResendMove, Goto, Matched, localVars
<1>33. ASSUME ResendOne(w) PROVE Matched'
  BY <1>33, <1>p, <1>n DEF ResendOne, Goto, Matched, localVars
<1>34. ASSUME ReconnectCommit(w) PROVE Matched'
  BY <1>34, <1>p, <1>n DEF ReconnectCommit, ClearLocked, SpawnClear, Matched,
                           localVars
<1>35. ASSUME ReconnectStop(w) PROVE Matched'
  BY <1>35, <1>p, <1>n DEF ReconnectStop, Goto, Matched, localVars
<1>36. ASSUME GiveUp(w) PROVE Matched'
  BY <1>36, <1>p, <1>n DEF GiveUp, ClearLocked, SpawnClear, Matched, localVars
<1>37. ASSUME DropEnd(w) PROVE Matched'
  BY <1>37, <1>p, <1>n DEF DropEnd, Goto, Matched, localVars
<1>38. ASSUME HandlerReturns(w) PROVE Matched'
  BY <1>38, <1>p, <1>n DEF HandlerReturns, Goto, Matched, localVars
<1>39. ASSUME NEW d \in Detached, FailCall(d) PROVE Matched'
  BY <1>39, <1>p, <1>n DEF FailCall, Goto, Matched, localVars
<1>40. ASSUME NEW d \in Detached, FailDone(d) PROVE Matched'
  BY <1>40, <1>p, <1>n DEF FailDone, Goto, Matched, localVars
<1>41. ASSUME NEW d \in Detached, FailNotify(d) PROVE Matched'
  BY <1>41, <1>p, <1>n DEF FailNotify, NotifyAll, Matched, localVars
<1>42. CASE UNCHANGED vars
  BY <1>42 DEF vars, localVars, Matched
<1> QED
  BY GentleSteps, <1>1, <1>2, <1>3, <1>4, <1>5, <1>6, <1>7, <1>8, <1>9, <1>10,
     <1>11, <1>12, <1>13, <1>14, <1>15, <1>16, <1>17, <1>18, <1>19, <1>20,
     <1>21, <1>22, <1>23, <1>24, <1>25, <1>26, <1>27, <1>28, <1>29, <1>30,
     <1>31, <1>32, <1>33, <1>34, <1>35, <1>36, <1>37, <1>38, <1>39, <1>40,
     <1>41, <1>42
  DEF GentleNext, HandlerStep, DetachedStep

\* Callbacks are called by connection_receive_handler and by the threads that
\* clear_callbacks detaches.
LEMMA CallsSteps ==
  ASSUME NEW w, Gentle(w), Flow(w), [Next]_vars
  PROVE  ReceiveCall(w) \/ (\E d \in Detached : FailCall(d)) \/ calls' = calls
<1> DEFINE Goal == ReceiveCall(w) \/ (\E d \in Detached : FailCall(d)) \/ calls' = calls
<1> SUFFICES Goal
  OBVIOUS
<1> USE DEF histVars
<1>1. ASSUME NEW u \in Users, NEW c \in Cmds, Send(u, c) PROVE Goal
  BY <1>1 DEF Send
<1>2. ASSUME NEW u \in Users, NEW o \in {"commit", "sync", "timed"}, Commit(u, o)
      PROVE  Goal
  BY <1>2 DEF Commit
<1>3. ASSUME NEW u \in Users, SendPush(u) PROVE Goal
  BY <1>3 DEF SendPush
<1>4. ASSUME NEW u \in Users, TryCommit(u) PROVE Goal
  BY <1>4 DEF TryCommit
<1>5. ASSUME NEW u \in Users, ClearMove(u) PROVE Goal
  BY <1>5 DEF ClearMove
<1>6. ASSUME NEW u \in Users, ClearSpawn(u) PROVE Goal
  BY <1>6 DEF ClearSpawn
<1>7. ASSUME NEW u \in Users, SyncLock(u) PROVE Goal
  BY <1>7 DEF SyncLock
<1>8. ASSUME NEW u \in Users, SyncBlock(u) PROVE Goal
  BY <1>8 DEF SyncBlock
<1>9. ASSUME NEW u \in Users, SyncReturn(u) PROVE Goal
  BY <1>9 DEF SyncReturn
<1>10. ASSUME NEW u \in Users, SyncTimeout(u) PROVE Goal
  BY <1>10 DEF SyncTimeout
<1>11. ASSUME NEW u \in Users, CancelReconnect(u) PROVE Goal
  BY <1>11 DEF CancelReconnect
<1>12. ASSUME ReadEvent(w) PROVE Goal
  BY <1>12 DEF ReadEvent
<1>13. ASSUME DropEvent(w) PROVE Goal
  BY <1>13 DEF DropEvent
<1>14. ASSUME MalformedEvent(w) PROVE Goal
  BY <1>14 DEF MalformedEvent
<1>15. ASSUME TakeReply(w) PROVE Goal
  BY <1>15 DEF TakeReply
<1>16. ASSUME EndRead(w) PROVE Goal
  BY <1>16 DEF EndRead
<1>17. ASSUME ReceiveLock(w) PROVE Goal
  BY <1>17 DEF ReceiveLock
<1>18. ASSUME ReceiveCall(w) PROVE Goal
  BY <1>18
<1>19. ASSUME ReceiveDone(w) PROVE Goal
  BY <1>19 DEF ReceiveDone
<1>20. ASSUME DropBuffers(w) PROVE Goal
  BY <1>20 DEF DropBuffers
<1>21. ASSUME DropCheck(w) PROVE Goal
  BY <1>21 DEF DropCheck
<1>22. ASSUME DropSet(w) PROVE Goal
  BY <1>22 DEF DropSet
<1>23. ASSUME DropLock(w) PROVE Goal
  BY <1>23 DEF DropLock
<1>24. ASSUME ReconnectSleep(w) PROVE Goal
  BY <1>24 DEF ReconnectSleep
<1>25. ASSUME ReconnectStart(w) PROVE Goal
  BY <1>25 DEF ReconnectStart
<1>26. ASSUME ConnectTcp(w) PROVE Goal
  BY <1>26 DEF ConnectTcp
<1>27. ASSUME ConnectRead(w) PROVE Goal
  BY <1>27 DEF ConnectRead
<1>28. ASSUME ConnectHandlers(w) PROVE Goal
  BY <1>28 DEF ConnectHandlers
<1>29. ASSUME ReconnectCheck(w) PROVE Goal
  BY <1>29 DEF ReconnectCheck
<1>30. ASSUME ReAuth(w) PROVE Goal
  BY <1>30 DEF ReAuth
<1>31. ASSUME ReSelect(w) PROVE Goal
  BY <1>31 DEF ReSelect
<1>32. ASSUME ResendMove(w) PROVE Goal
  BY <1>32 DEF ResendMove
<1>33. ASSUME ResendOne(w) PROVE Goal
  BY <1>33 DEF ResendOne
<1>34. ASSUME ReconnectCommit(w) PROVE Goal
  BY <1>34 DEF ReconnectCommit
<1>35. ASSUME ReconnectStop(w) PROVE Goal
  BY <1>35 DEF ReconnectStop
<1>36. ASSUME GiveUp(w) PROVE Goal
  BY <1>36 DEF GiveUp
<1>37. ASSUME DropEnd(w) PROVE Goal
  BY <1>37 DEF DropEnd
<1>38. ASSUME HandlerReturns(w) PROVE Goal
  BY <1>38 DEF HandlerReturns
<1>39. ASSUME NEW d \in Detached, FailCall(d) PROVE Goal
  BY <1>39
<1>40. ASSUME NEW d \in Detached, FailDone(d) PROVE Goal
  BY <1>40 DEF FailDone
<1>41. ASSUME NEW d \in Detached, FailNotify(d) PROVE Goal
  BY <1>41 DEF FailNotify
<1>42. CASE UNCHANGED vars
  BY <1>42 DEF vars
<1> HIDE DEF Goal
<1> QED
  BY GentleSteps, <1>1, <1>2, <1>3, <1>4, <1>5, <1>6, <1>7, <1>8, <1>9, <1>10,
     <1>11, <1>12, <1>13, <1>14, <1>15, <1>16, <1>17, <1>18, <1>19, <1>20,
     <1>21, <1>22, <1>23, <1>24, <1>25, <1>26, <1>27, <1>28, <1>29, <1>30,
     <1>31, <1>32, <1>33, <1>34, <1>35, <1>36, <1>37, <1>38, <1>39, <1>40,
     <1>41, <1>42
  DEF GentleNext, HandlerStep, DetachedStep

\* A detached thread gives the failure, the receive handler the reply to the
\* command it has popped.
LEMMA GentleReplies ==
  ASSUME NEW w, Gentle(w), TypeInv, Flow(w), Matched, ReplyMatches, [Next]_vars
  PROVE  ReplyMatches'
<1>1. CASE ReceiveCall(w)
  <2>1. CalmNext
    BY <1>1 DEF CalmNext, Gentle
  <2> QED
    BY <2>1, RepliesNext
<1>2. ASSUME NEW d \in Detached, FailCall(d) PROVE ReplyMatches'
  <2> DEFINE h == Head(job[d])
  <2>1. calls \in [Cmds -> Seq(AllCmds \cup {Failure})]
    BY DEF TypeInv, TypeOK, DataOK
  <2>2. calls' = IF h \in Cmds THEN [calls EXCEPT ![h] = Append(@, Failure)] ELSE calls
    BY <1>2 DEF FailCall, RunCallback
  <2> HIDE DEF h
  <2>3. ASSUME NEW c \in Cmds PROVE Range(calls'[c]) \subseteq {c, Failure}
    <3>1. Range(calls[c]) \subseteq {c, Failure}
      BY DEF ReplyMatches
    <3>2. CASE c = h
      <4>1. calls'[c] = Append(calls[c], Failure) /\ calls[c] \in Seq(AllCmds \cup {Failure})
        BY <2>1, <2>2, <3>2
      <4> QED
        BY <3>1, <4>1 DEF Range
    <3>3. CASE c # h
      <4>1. calls'[c] = calls[c]
        BY <2>1, <2>2, <3>3
      <4> QED
        BY <3>1, <4>1
    <3> QED
      BY <3>2, <3>3
  <2> QED
    BY <2>3 DEF ReplyMatches
<1>3. CASE calls' = calls
  BY <1>3 DEF ReplyMatches
<1> QED
  BY <1>1, <1>2, <1>3, CallsSteps

\* The inductive invariant of a client that reconnects.
Repairs(w) == Flow(w) /\ Drained(w) /\ Intact(w) /\ Matched /\ ReplyMatches

\* The connection is up, nothing is queued.
LEMMA RepairsInit == ASSUME NEW w, Gentle(w) PROVE Init => Repairs(w)
<1> SUFFICES ASSUME Init PROVE Repairs(w)
  OBVIOUS
<1>1. pc[w] = "idle" /\ \A u \in Users : pc[u] = "idle"
  BY DEF Init, Gentle, Threads
<1>2. connected /\ hset /\ ~m_reconnecting /\ reader = None /\ mutex = None
      /\ m_commands = <<>> /\ avail = <<>> /\ wire = <<>> /\ m_buffer = <<>>
  BY DEF Init, ConnInit, Gentle
<1>3. Flow(w)
  BY <1>1, <1>2 DEF Flow, Receives, Fresh, Early, Broken, Reconnecting,
                    HandlerLocked
<1>4. Drained(w)
  BY <1>1, <1>2 DEF Drained
<1>5. Queued = <<>> /\ Handed = <<>>
  BY <1>2, ThreadsAssumption DEF Queued, Handed, Threads
<1>6. Joined(<<>>, <<>>, <<>>, <<>>) = <<>>
  BY EmptySeq, CatFacts DEF Joined
<1>7. Intact(w)
  BY <1>2, <1>5, <1>6 DEF Intact, Fifo
<1>8. Matched
  BY DEF Init, Matched, Threads
<1>9. ReplyMatches
  BY DEF Init, ReplyMatches, Range
<1> QED
  BY <1>3, <1>4, <1>7, <1>8, <1>9 DEF Repairs

\* Everything the theorems below rest on.
LEMMA RepairsInv ==
  ASSUME NEW w, Gentle(w)
  PROVE  Spec => [](TypeInv /\ MutexOwner /\ Repairs(w))
<1>1. Init => Repairs(w)
  BY RepairsInit
<1>2. TypeInv /\ MutexOwner /\ Repairs(w) /\ [Next]_vars => Repairs(w)'
  BY FlowNext, DrainedNext, IntactNext, GentleMatched, GentleReplies DEF Repairs
<1>3. Spec => []TypeInv
  BY TypeInit, TypeNext, PTL DEF Spec
<1> QED
  BY <1>1, <1>2, <1>3, MutualExclusion, PTL DEF Spec

\* However often the connection is lost, refused or fed malformed replies, no
\* callback is called with the reply to another command: the buffers dropped on
\* disconnection, the queue sent again in order and m_callbacks_mutex held
\* meanwhile put the replies back in step with m_commands.
THEOREM ReconnectReplies ==
  ASSUME NEW w, Gentle(w)
  PROVE  Spec => []ReplyMatches
<1>1. Repairs(w) => ReplyMatches
  BY DEF Repairs
<1> QED
  BY <1>1, RepairsInv, PTL

\* commit() that skips the write because of m_reconnecting can rely on the
\* handler: the flag is set only while the handler is at work.
THEOREM ReconnectHandled ==
  ASSUME NEW w, Gentle(w)
  PROVE  Spec => []ReconnectingHandled
<1>1. Repairs(w) => ReconnectingHandled
  BY DEF Repairs, Flow, Gentle, ReconnectingHandled
<1> QED
  BY <1>1, RepairsInv, PTL

(***************************************************************************)
(* A client that never gives up: no limit on the attempts, and no          *)
(* cancel_reconnect().                                                     *)
(***************************************************************************)
Persistent == MaxReconnects = -1 /\ "cancel" \notin Ops

\* A lost connection stays with the handler until it is up again.
Persists(w) ==
  /\ ~m_cancel
  /\ ~connected => Broken(w)
  /\ pc[w] = "dfinal" => connected

\* The loop of the handler is only left with a connection.
LEMMA PersistsNext ==
  ASSUME NEW w, Gentle(w), Persistent, TypeInv, Flow(w), Persists(w), [Next]_vars
  PROVE  Persists(w)'
<1>p. /\ pc \in [Threads -> UserLabels \cup WorkerLabels \cup DetachedLabels]
      /\ pc[w] \in WorkerLabels /\ connected \in BOOLEAN
  BY DEF TypeInv, TypeOK, ControlOK, Gentle, ConnTypeOK, FlagsOK
<1>n. /\ w \in Workers /\ w \notin Users /\ w \in Threads /\ Users \subseteq Threads
      /\ \A d \in Detached : d # w /\ d \in Threads
  BY ThreadsAssumption DEF Gentle, Threads
<1> USE <1>p, <1>n
    DEF Flow, Persists, Broken, Receives, Fresh, Early, Reconnecting, HandlerLocked,
        connVars, reconVars
<1>1. ASSUME NEW u \in Users, NEW c \in Cmds, Send(u, c) PROVE Persists(w)'
  BY <1>1 DEF Send, Begin, Goto, BufferCommand, CallAllowed, DropWindow
<1>2. ASSUME NEW u \in Users, NEW o \in {"commit", "sync", "timed"}, Commit(u, o)
      PROVE  Persists(w)'
  BY <1>2 DEF Commit, Begin, Goto, AfterCommit, CallAllowed, DropWindow
<1>3. ASSUME NEW u \in Users, SendPush(u) PROVE Persists(w)'
  BY <1>3 DEF SendPush, Goto
<1>4. ASSUME NEW u \in Users, TryCommit(u) PROVE Persists(w)'
  <2>1. pc[u] = "write" /\ pc'[w] = pc[w] /\ connected' = connected /\ m_cancel' = m_cancel
    BY <1>4 DEF TryCommit, WriteBuffer, WriteFails, Goto
  <2> QED
    BY <2>1
<1>5. ASSUME NEW u \in Users, ClearMove(u) PROVE Persists(w)'
  BY <1>5 DEF ClearMove, Goto
<1>6. ASSUME NEW u \in Users, ClearSpawn(u) PROVE Persists(w)'
  BY <1>6 DEF ClearSpawn, SpawnClear
<1>7. ASSUME NEW u \in Users, SyncLock(u) PROVE Persists(w)'
  BY <1>7 DEF SyncLock, Goto
<1>8. ASSUME NEW u \in Users, SyncBlock(u) PROVE Persists(w)'
  BY <1>8 DEF SyncBlock, Goto
<1>9. ASSUME NEW u \in Users, SyncReturn(u) PROVE Persists(w)'
  BY <1>9 DEF SyncReturn, Goto
<1>10. ASSUME NEW u \in Users, SyncTimeout(u) PROVE Persists(w)'
  BY <1>10 DEF SyncTimeout, Goto
<1>11. ASSUME NEW u \in Users, CancelReconnect(u) PROVE Persists(w)'
  BY <1>11 DEF CancelReconnect, Begin, Persistent
<1>12. ASSUME ReadEvent(w) PROVE Persists(w)'
  BY <1>12 DEF ReadEvent, Goto, ReadReplies, Polled
<1>13. ASSUME DropEvent(w) PROVE Persists(w)'
  BY <1>13 DEF DropEvent, Goto, PeerDrop, Polled, DropAllowed
<1>14. ASSUME MalformedEvent(w) PROVE Persists(w)'
  BY <1>14 DEF MalformedEvent, Goto, ReadReplies, Polled
<1>15. ASSUME TakeReply(w) PROVE Persists(w)'
  BY <1>15 DEF TakeReply, Goto, PopReply
<1>16. ASSUME EndRead(w) PROVE Persists(w)'
  BY <1>16 DEF EndRead, Goto, NextRead, ReleaseFd
<1>17. ASSUME ReceiveLock(w) PROVE Persists(w)'
  BY <1>17 DEF ReceiveLock, Goto
<1>18. ASSUME ReceiveCall(w) PROVE Persists(w)'
  BY <1>18 DEF ReceiveCall, Goto
<1>19. ASSUME ReceiveDone(w) PROVE Persists(w)'
  BY <1>19 DEF ReceiveDone, NotifyAll
<1>20. ASSUME DropBuffers(w) PROVE Persists(w)'
  BY <1>20 DEF DropBuffers, Goto, ClearBuffers
<1>21. ASSUME DropCheck(w) PROVE Persists(w)'
  BY <1>21 DEF DropCheck, Goto
<1>22. ASSUME DropSet(w) PROVE Persists(w)'
  BY <1>22 DEF DropSet, Goto
<1>23. ASSUME DropLock(w) PROVE Persists(w)'
  BY <1>23 DEF DropLock, Goto
<1>24. ASSUME ReconnectSleep(w) PROVE Persists(w)'
  BY <1>24 DEF ReconnectSleep, Goto, should_reconnect
<1>25. ASSUME ReconnectStart(w) PROVE Persists(w)'
  BY <1>25 DEF ReconnectStart, Goto
<1>26. ASSUME ConnectTcp(w) PROVE Persists(w)'
  BY <1>26 DEF ConnectTcp, Goto, AfterConnect, TcpConnect
<1>27. ASSUME ConnectRead(w) PROVE Persists(w)'
  BY <1>27 DEF ConnectRead, Goto, AfterConnect, AsyncRead
<1>28. ASSUME ConnectHandlers(w) PROVE Persists(w)'
  BY <1>28 DEF ConnectHandlers, Goto, AfterConnect, SetHandlers
<1>29. ASSUME ReconnectCheck(w) PROVE Persists(w)'
  BY <1>29 DEF ReconnectCheck, Goto
<1>30. ASSUME ReAuth(w) PROVE Persists(w)'
  BY <1>30 DEF ReAuth, Goto
<1>31. ASSUME ReSelect(w) PROVE Persists(w)'
  BY <1>31 DEF ReSelect, Goto
<1>32. ASSUME ResendMove(w) PROVE Persists(w)'
  BY <1>32 DEF ResendMove, Goto
<1>33. ASSUME ResendOne(w) PROVE Persists(w)'
  BY <1>33 DEF ResendOne, Goto, unprotected_send, BufferCommand
<1>34. ASSUME ReconnectCommit(w) PROVE Persists(w)'
  BY <1>34 DEF ReconnectCommit, ClearLocked, SpawnClear, WriteBuffer, WriteFails
<1>35. ASSUME ReconnectStop(w) PROVE Persists(w)'
  BY <1>35 DEF ReconnectStop, should_reconnect, Goto, Persistent
<1>36. ASSUME GiveUp(w) PROVE Persists(w)'
  BY <1>36 DEF GiveUp, ClearLocked, SpawnClear
<1>37. ASSUME DropEnd(w) PROVE Persists(w)'
  BY <1>37 DEF DropEnd, Goto
<1>38. ASSUME HandlerReturns(w) PROVE Persists(w)'
  BY <1>38 DEF HandlerReturns, Goto, HandlerReturn, ReleaseFd
<1>39. ASSUME NEW d \in Detached, FailCall(d) PROVE Persists(w)'
  BY <1>39 DEF FailCall, Goto
<1>40. ASSUME NEW d \in Detached, FailDone(d) PROVE Persists(w)'
  BY <1>40 DEF FailDone, Goto
<1>41. ASSUME NEW d \in Detached, FailNotify(d) PROVE Persists(w)'
  BY <1>41 DEF FailNotify, NotifyAll
<1>42. CASE UNCHANGED vars
  BY <1>42 DEF vars, connVars, queueVars, reconVars, localVars, histVars
<1> HIDE DEF Flow, Persists
<1> QED
  BY GentleSteps, <1>1, <1>2, <1>3, <1>4, <1>5, <1>6, <1>7, <1>8, <1>9, <1>10,
     <1>11, <1>12, <1>13, <1>14, <1>15, <1>16, <1>17, <1>18, <1>19, <1>20,
     <1>21, <1>22, <1>23, <1>24, <1>25, <1>26, <1>27, <1>28, <1>29, <1>30,
     <1>31, <1>32, <1>33, <1>34, <1>35, <1>36, <1>37, <1>38, <1>39, <1>40,
     <1>41, <1>42
  DEF GentleNext, HandlerStep, DetachedStep

\* The invariant of a client that never gives up.
LEMMA PersistsInv ==
  ASSUME NEW w, Gentle(w), Persistent
  PROVE  Spec => []Persists(w)
<1>1. Init => Persists(w)
  BY DEF Init, ConnInit, Gentle, Persists, Threads
<1>2. TypeInv /\ Repairs(w) /\ Persists(w) /\ [Next]_vars => Persists(w)'
  BY PersistsNext DEF Repairs
<1> QED
  BY <1>1, <1>2, RepairsInv, PTL DEF Spec

\* Whenever no thread is inside send() or the handler, the callbacks queued are
\* in order those whose replies are to come, however often the client has had
\* to reconnect, for any number of threads.
THEOREM ReconnectQueues ==
  ASSUME NEW w, Gentle(w), Persistent
  PROVE  Spec => []QueuesAgree
<1>1. TypeInv /\ Repairs(w) /\ Persists(w) => QueuesAgree
  <2> SUFFICES ASSUME TypeInv, Repairs(w), Persists(w), QueuesAtRest
               PROVE  m_commands = InHand \o avail \o wire \o m_buffer
    BY DEF QueuesAgree
  <2>1. w \in Workers /\ Workers = {w}
    BY DEF Gentle
  <2>2. ~Broken(w)
    BY <2>1 DEF QueuesAtRest, Broken, Fresh, Early, DropWindow, HandlerLocked
  <2>3. Fifo
    BY <2>2 DEF Persists, Repairs, Intact
  <2>4. Attached
    BY <2>1, <2>2 DEF Persists, Repairs, Flow, Attached, Receives
  <2> QED
    BY <2>3, <2>4, QueuesFromFifo DEF QueuesAgree
<1> QED
  BY <1>1, RepairsInv, PersistsInv, PTL

\* sync_commit() returns with the callbacks of its caller called, however often
\* the connection is lost meanwhile and whatever other threads send.
THEOREM ReconnectSync ==
  ASSUME NEW w, Gentle(w), Persistent
  PROVE  Spec => []SyncComplete
<1>1. Repairs(w) /\ Persists(w) => NoClearAside
  BY DEF Repairs, Flow, Persists, Broken, Fresh, Early, NoClearAside
<1> QED
  BY <1>1, RepairsInv, PersistsInv, SyncWaits, PTL

\* The same on a connection that is neither lost nor closed, for any number of
\* workers.
THEOREM PipelineSync ==
  ASSUME FaultFree
  PROVE  Spec => []SyncComplete
<1>1. PipeInv => NoClearAside
  BY DEF PipeInv, CalmControl, NoClearAside
<1>2. Spec => []TypeInv
  BY TypeInit, TypeNext, PTL DEF Spec
<1>3. Init => PipeInv
  BY PipeInit
<1>4. TypeInv /\ MutexOwner /\ PipeInv /\ [Next]_vars => PipeInv'
  BY PipeNext
<1> QED
  BY <1>1, <1>2, <1>3, <1>4, MutualExclusion, SyncWaits, PTL DEF Spec

(***************************************************************************)
(* A single application thread, with a client that may give up.            *)
(***************************************************************************)
\* Once the client has given up, the queue holds what has been buffered since,
\* until a commit() that fails clears one, then the other.
Alone(w, u) ==
  /\ ~connected /\ ~Broken(w) /\ pc[u] # "clear" => Queued = m_buffer
  /\ pc[u] = "clear" => m_buffer = <<>>

\* The two are cleared by the same thread, and no other thread sends between.
LEMMA AloneNext ==
  ASSUME NEW w, Gentle(w), NEW u, Users = {u}, TypeInv, MutexOwner, Flow(w),
         Drained(w), Alone(w, u), [Next]_vars
  PROVE  Alone(w, u)'
<1>p. /\ pc \in [Threads -> UserLabels \cup WorkerLabels \cup DetachedLabels]
      /\ pc[w] \in WorkerLabels /\ connected \in BOOLEAN
      /\ cur \in [Threads -> AllCmds \cup {None}]
  BY DEF TypeInv, TypeOK, ControlOK, DataOK, Gentle, ConnTypeOK, FlagsOK
<1>n. /\ w \in Workers /\ w # u /\ w \in Threads /\ u \in Threads /\ None # u
      /\ \A d \in Detached : d # w /\ d # u /\ d \in Threads
  BY ThreadsAssumption DEF Gentle, Threads
<1>m. /\ pc[w] \in HandlerLocked => mutex = w
      /\ pc[u] = "push" => mutex = u
  BY <1>n DEF MutexOwner, Locked, UserLocked
<1> USE <1>p, <1>n
    DEF Queued, Alone, Broken, Receives, Fresh, Early, HandlerLocked,
        connVars, queueVars, localVars
<1>1. ASSUME NEW v \in Users, NEW c \in Cmds, Send(v, c) PROVE Alone(w, u)'
  BY <1>1, <1>m DEF Flow, Gentle, Drained, Send, Begin, Goto, BufferCommand,
                    CallAllowed, DropWindow
<1>2. ASSUME NEW v \in Users, NEW o \in {"commit", "sync", "timed"}, Commit(v, o)
      PROVE  Alone(w, u)'
  BY <1>2, <1>m DEF Flow, Gentle, Drained, Commit, Begin, Goto, AfterCommit,
                    CallAllowed, DropWindow
<1>3. ASSUME NEW v \in Users, SendPush(v) PROVE Alone(w, u)'
  BY <1>3, <1>m DEF Flow, Gentle, Drained, SendPush, Goto
<1>4. ASSUME NEW v \in Users, TryCommit(v) PROVE Alone(w, u)'
  BY <1>4, <1>m DEF Flow, Gentle, Drained, TryCommit, Goto, AfterCommit,
                    WriteBuffer, WriteFails
<1>5. ASSUME NEW v \in Users, ClearMove(v) PROVE Alone(w, u)'
  BY <1>5, <1>m DEF Flow, Gentle, Drained, ClearMove, Goto
<1>6. ASSUME NEW v \in Users, ClearSpawn(v) PROVE Alone(w, u)'
  BY <1>6, <1>m DEF Flow, Gentle, Drained, ClearSpawn, SpawnClear
<1>7. ASSUME NEW v \in Users, SyncLock(v) PROVE Alone(w, u)'
  BY <1>7, <1>m DEF Flow, Gentle, Drained, SyncLock, Goto
<1>8. ASSUME NEW v \in Users, SyncBlock(v) PROVE Alone(w, u)'
  BY <1>8, <1>m DEF Flow, Gentle, Drained, SyncBlock, Goto
<1>9. ASSUME NEW v \in Users, SyncReturn(v) PROVE Alone(w, u)'
  BY <1>9, <1>m DEF Flow, Gentle, Drained, SyncReturn, Goto
<1>10. ASSUME NEW v \in Users, SyncTimeout(v) PROVE Alone(w, u)'
  BY <1>10, <1>m DEF Flow, Gentle, Drained, SyncTimeout, Goto
<1>11. ASSUME NEW v \in Users, CancelReconnect(v) PROVE Alone(w, u)'
  BY <1>11, <1>m DEF Flow, Gentle, Drained, CancelReconnect, Begin
<1>12. ASSUME ReadEvent(w) PROVE Alone(w, u)'
  BY <1>12, <1>m DEF Flow, Gentle, Drained, ReadEvent, Goto, ReadReplies, Polled
<1>13. ASSUME DropEvent(w) PROVE Alone(w, u)'
  BY <1>13, <1>m DEF Flow, Gentle, Drained, DropEvent, Goto, PeerDrop, Polled,
                     DropAllowed
<1>14. ASSUME MalformedEvent(w) PROVE Alone(w, u)'
  BY <1>14, <1>m DEF Flow, Gentle, Drained, MalformedEvent, Goto, ReadReplies,
                     Polled
<1>15. ASSUME TakeReply(w) PROVE Alone(w, u)'
  BY <1>15, <1>m DEF Flow, Gentle, Drained, TakeReply, Goto, PopReply
<1>16. ASSUME EndRead(w) PROVE Alone(w, u)'
  BY <1>16, <1>m DEF Flow, Gentle, Drained, EndRead, Goto, NextRead, ReleaseFd
<1>17. ASSUME ReceiveLock(w) PROVE Alone(w, u)'
  BY <1>17, <1>m DEF Flow, Gentle, Drained, ReceiveLock, Goto
<1>18. ASSUME ReceiveCall(w) PROVE Alone(w, u)'
  BY <1>18, <1>m DEF Flow, Gentle, Drained, ReceiveCall, Goto
<1>19. ASSUME ReceiveDone(w) PROVE Alone(w, u)'
  BY <1>19, <1>m DEF Flow, Gentle, Drained, ReceiveDone, NotifyAll
<1>20. ASSUME DropBuffers(w) PROVE Alone(w, u)'
  BY <1>20, <1>m DEF Flow, Gentle, Drained, DropBuffers, Goto, ClearBuffers
<1>21. ASSUME DropCheck(w) PROVE Alone(w, u)'
  BY <1>21, <1>m DEF Flow, Reconnecting, DropCheck, Goto
<1>22. ASSUME DropSet(w) PROVE Alone(w, u)'
  BY <1>22, <1>m DEF Flow, Gentle, Drained, DropSet, Goto
<1>23. ASSUME DropLock(w) PROVE Alone(w, u)'
  BY <1>23, <1>m DEF Flow, Gentle, Drained, DropLock, Goto
<1>24. ASSUME ReconnectSleep(w) PROVE Alone(w, u)'
  BY <1>24, <1>m DEF Flow, Gentle, Drained, ReconnectSleep, Goto, should_reconnect
<1>25. ASSUME ReconnectStart(w) PROVE Alone(w, u)'
  BY <1>25, <1>m DEF Flow, Gentle, Drained, ReconnectStart, Goto
<1>26. ASSUME ConnectTcp(w) PROVE Alone(w, u)'
  BY <1>26, <1>m DEF Flow, Gentle, Drained, ConnectTcp, Goto, AfterConnect,
                     TcpConnect
<1>27. ASSUME ConnectRead(w) PROVE Alone(w, u)'
  BY <1>27, <1>m DEF Flow, Gentle, Drained, ConnectRead, Goto, AfterConnect,
                     AsyncRead
<1>28. ASSUME ConnectHandlers(w) PROVE Alone(w, u)'
  BY <1>28, <1>m DEF Flow, Gentle, Drained, ConnectHandlers, Goto, AfterConnect,
                     SetHandlers
<1>29. ASSUME ReconnectCheck(w) PROVE Alone(w, u)'
  BY <1>29, <1>m DEF Flow, Gentle, Drained, ReconnectCheck, Goto
<1>30. ASSUME ReAuth(w) PROVE Alone(w, u)'
  BY <1>30, <1>m DEF Flow, Gentle, Drained, ReAuth, Goto
<1>31. ASSUME ReSelect(w) PROVE Alone(w, u)'
  BY <1>31, <1>m DEF Flow, Gentle, Drained, ReSelect, Goto
<1>32. ASSUME ResendMove(w) PROVE Alone(w, u)'
  BY <1>32, <1>m DEF Flow, Gentle, Drained, ResendMove, Goto
<1>33. ASSUME ResendOne(w) PROVE Alone(w, u)'
  BY <1>33, <1>m DEF Flow, Gentle, Drained, ResendOne, Goto, unprotected_send,
                     BufferCommand
<1>34. ASSUME ReconnectCommit(w) PROVE Alone(w, u)'
  BY <1>34, <1>m DEF Flow, Gentle, Drained, ReconnectCommit, ClearLocked,
                     SpawnClear, WriteBuffer, WriteFails
<1>35. ASSUME ReconnectStop(w) PROVE Alone(w, u)'
  BY <1>35, <1>m DEF Flow, Gentle, Drained, ReconnectStop, Goto, should_reconnect
<1>36. ASSUME GiveUp(w) PROVE Alone(w, u)'
  BY <1>36, <1>m DEF Flow, Gentle, Drained, GiveUp, ClearLocked, SpawnClear
<1>37. ASSUME DropEnd(w) PROVE Alone(w, u)'
  BY <1>37, <1>m DEF Flow, Gentle, Drained, DropEnd, Goto
<1>38. ASSUME HandlerReturns(w) PROVE Alone(w, u)'
  BY <1>38, <1>m DEF Flow, Gentle, Drained, HandlerReturns, Goto, HandlerReturn,
                     ReleaseFd
<1>39. ASSUME NEW d \in Detached, FailCall(d) PROVE Alone(w, u)'
  BY <1>39, <1>m DEF Flow, Gentle, Drained, FailCall, Goto
<1>40. ASSUME NEW d \in Detached, FailDone(d) PROVE Alone(w, u)'
  BY <1>40, <1>m DEF Flow, Gentle, Drained, FailDone, Goto
<1>41. ASSUME NEW d \in Detached, FailNotify(d) PROVE Alone(w, u)'
  <2>1. UNCHANGED <<connVars, queueVars, mutex, localVars>> /\ pc'[w] = pc[w]
    BY <1>41 DEF FailNotify, NotifyAll, WorkerLabels
  <2>2. (pc'[u] = "push" <=> pc[u] = "push") /\ (pc'[u] = "clear" <=> pc[u] = "clear")
    BY <1>41 DEF FailNotify, NotifyAll
  <2> QED
    BY <2>1, <2>2
<1>42. CASE UNCHANGED vars
  BY <1>42 DEF vars, connVars, queueVars, reconVars, localVars, histVars
<1> HIDE DEF Alone
<1> QED
  BY GentleSteps, <1>1, <1>2, <1>3, <1>4, <1>5, <1>6, <1>7, <1>8, <1>9, <1>10,
     <1>11, <1>12, <1>13, <1>14, <1>15, <1>16, <1>17, <1>18, <1>19, <1>20,
     <1>21, <1>22, <1>23, <1>24, <1>25, <1>26, <1>27, <1>28, <1>29, <1>30,
     <1>31, <1>32, <1>33, <1>34, <1>35, <1>36, <1>37, <1>38, <1>39, <1>40,
     <1>41, <1>42
  DEF GentleNext, HandlerStep, DetachedStep

\* The queue of callbacks and the replies to come agree for an application of
\* one thread even after the client has given up.
THEOREM ReconnectQueuesAlone ==
  ASSUME NEW w, Gentle(w), NEW u, Users = {u}
  PROVE  Spec => []QueuesAgree
<1>1. Init => Alone(w, u)
  <2> SUFFICES ASSUME Init PROVE Alone(w, u)
    OBVIOUS
  <2>1. connected /\ pc[u] = "idle"
    BY DEF Init, ConnInit, Gentle, Threads
  <2> QED
    BY <2>1 DEF Alone
<1>2. TypeInv /\ MutexOwner /\ Repairs(w) /\ Alone(w, u) /\ [Next]_vars => Alone(w, u)'
  BY AloneNext DEF Repairs
<1>3. TypeInv /\ Repairs(w) /\ Alone(w, u) => QueuesAgree
  <2> SUFFICES ASSUME TypeInv, Repairs(w), Alone(w, u), QueuesAtRest
               PROVE  m_commands = InHand \o avail \o wire \o m_buffer
    BY DEF QueuesAgree
  <2>1. w \in Workers /\ Workers = {w}
    BY DEF Gentle
  <2>2. ~Broken(w) /\ pc[u] \notin {"clear", "push"}
    BY <2>1 DEF QueuesAtRest, Broken, Fresh, Early, DropWindow, HandlerLocked
  <2>3. CASE connected
    <3>1. Attached /\ Fifo
      BY <2>1, <2>2, <2>3 DEF Repairs, Intact, Flow, Attached, Receives
    <3> QED
      BY <3>1, QueuesFromFifo DEF QueuesAgree
  <2>4. CASE ~connected
    <3>1. avail = <<>> /\ wire = <<>>
      BY <2>4 DEF Repairs, Drained
    <3>2. InHand = <<>>
      BY <2>1, <2>4 DEF Repairs, Flow, Receives, InHand, Dispatching
    <3>3. m_commands = m_buffer
      BY <2>2, <2>4 DEF Alone, Queued
    <3>4. m_buffer \in Seq(AllCmds)
      BY DEF TypeInv, TypeOK, ConnTypeOK, QueuesOK
    <3>5. <<>> \o <<>> \o <<>> \o m_buffer = m_buffer
      BY <3>4, EmptySeq, ConcatEmptySeq
    <3> QED
      BY ONLY <3>1, <3>2, <3>3, <3>5
  <2> QED
    BY <2>3, <2>4
<1> QED
  BY <1>1, <1>2, <1>3, RepairsInv, PTL DEF Spec

(***************************************************************************)
(* What the connect callback is told.                                      *)
(***************************************************************************)
\* The last state notified, by where the handler is; and the reads, because a
\* connection that has delivered a malformed reply is never read again and can
\* announce no loss.
Announced(w) ==
  /\ pc[w] \in Receives \cup {"dropped", "dcheck", "dset", "rauth", "rselect", "rmove",
                              "resend", "rcommit"} => notified = "ok"
  /\ pc[w] = "dlock" => notified = "dropped"
  /\ pc[w] \in {"dloop", "dfinal"} /\ ~connected => notified \in {"dropped", "failed"}
  /\ pc[w] = "rstart" => notified \in {"dropped", "failed", "sleeping"}
  /\ pc[w] \in {"tcp", "aread", "handlers"} => notified = "start"
  /\ pc[w] = "rcheck" => notified = IF connected THEN "ok" ELSE "start"
  /\ pc[w] \in {"dropped", "dcheck", "dset", "dlock", "rstart", "tcp", "aread"} => ~rd
  /\ ~connected => ~rd
  /\ rd /\ pc[w] \in {"idle", "dloop", "dfinal", "dend", "ret"} => notified = "ok"

\* Each step of the handler announces what the next one expects, and nothing
\* is announced out of order.
LEMMA AnnouncedNext ==
  ASSUME NEW w, Gentle(w), TypeInv, Flow(w), Announced(w), [Next]_vars
  PROVE  /\ Announced(w)'
         /\ notified' = notified \/ notified' \in Follows[notified]
<1> DEFINE Goal == /\ Announced(w)'
                   /\ notified' = notified \/ notified' \in Follows[notified]
<1> SUFFICES Goal
  OBVIOUS
<1>p. /\ pc \in [Threads -> UserLabels \cup WorkerLabels \cup DetachedLabels]
      /\ pc[w] \in WorkerLabels /\ connected \in BOOLEAN /\ rd \in BOOLEAN
  BY DEF TypeInv, TypeOK, ControlOK, Gentle, ConnTypeOK, FlagsOK
<1>n. /\ w \in Workers /\ w \notin Users /\ w \in Threads /\ Users \subseteq Threads
      /\ \A d \in Detached : d # w /\ d \in Threads
  BY ThreadsAssumption DEF Gentle, Threads
<1>f. /\ Follows["ok"] = {"dropped", "start"}
      /\ Follows["start"] = {"ok", "failed", "dropped"}
      /\ Follows["dropped"] = {"sleeping", "start", "stopped"}
      /\ Follows["sleeping"] = {"start"}
      /\ Follows["failed"] = {"sleeping", "start", "stopped"}
  BY DEF Follows
<1> USE <1>p, <1>n
    DEF Announced, Receives, connVars, reconVars, WorkerLabels
<1>1. ASSUME NEW u \in Users, NEW c \in Cmds, Send(u, c) PROVE Goal
  BY <1>1 DEF Send, Begin, Goto, BufferCommand, CallAllowed, DropWindow
<1>2. ASSUME NEW u \in Users, NEW o \in {"commit", "sync", "timed"}, Commit(u, o)
      PROVE  Goal
  BY <1>2 DEF Commit, Begin, Goto, AfterCommit, CallAllowed, DropWindow
<1>3. ASSUME NEW u \in Users, SendPush(u) PROVE Goal
  BY <1>3 DEF SendPush, Goto
<1>4. ASSUME NEW u \in Users, TryCommit(u) PROVE Goal
  BY <1>4 DEF TryCommit, Goto, AfterCommit, WriteBuffer, WriteFails
<1>5. ASSUME NEW u \in Users, ClearMove(u) PROVE Goal
  BY <1>5 DEF ClearMove, Goto
<1>6. ASSUME NEW u \in Users, ClearSpawn(u) PROVE Goal
  BY <1>6 DEF ClearSpawn, SpawnClear
<1>7. ASSUME NEW u \in Users, SyncLock(u) PROVE Goal
  BY <1>7 DEF SyncLock, Goto
<1>8. ASSUME NEW u \in Users, SyncBlock(u) PROVE Goal
  BY <1>8 DEF SyncBlock, Goto
<1>9. ASSUME NEW u \in Users, SyncReturn(u) PROVE Goal
  BY <1>9 DEF SyncReturn, Goto
<1>10. ASSUME NEW u \in Users, SyncTimeout(u) PROVE Goal
  BY <1>10 DEF SyncTimeout, Goto
<1>11. ASSUME NEW u \in Users, CancelReconnect(u) PROVE Goal
  BY <1>11 DEF CancelReconnect, Begin
<1>12. ASSUME ReadEvent(w) PROVE Goal
  BY <1>12 DEF ReadEvent, Goto, ReadReplies, Polled
<1>13. ASSUME DropEvent(w) PROVE Goal
  BY <1>13 DEF DropEvent, Goto, PeerDrop, Polled, DropAllowed
<1>14. ASSUME MalformedEvent(w) PROVE Goal
  BY <1>14 DEF Flow, Fresh, MalformedEvent, Goto, ReadReplies, Polled
<1>15. ASSUME TakeReply(w) PROVE Goal
  BY <1>15 DEF TakeReply, Goto, PopReply
<1>16. ASSUME EndRead(w) PROVE Goal
  BY <1>16 DEF EndRead, Goto, NextRead, ReleaseFd
<1>17. ASSUME ReceiveLock(w) PROVE Goal
  BY <1>17 DEF ReceiveLock, Goto
<1>18. ASSUME ReceiveCall(w) PROVE Goal
  BY <1>18 DEF ReceiveCall, Goto
<1>19. ASSUME ReceiveDone(w) PROVE Goal
  BY <1>19 DEF ReceiveDone, NotifyAll
<1>20. ASSUME DropBuffers(w) PROVE Goal
  BY <1>20 DEF DropBuffers, Goto, ClearBuffers
<1>21. ASSUME DropCheck(w) PROVE Goal
  BY <1>21 DEF Flow, Reconnecting, HandlerLocked, DropCheck, Goto
<1>22. ASSUME DropSet(w) PROVE Goal
  BY <1>22, <1>f DEF Flow, Fresh, DropSet, Goto
<1>23. ASSUME DropLock(w) PROVE Goal
  BY <1>23 DEF DropLock, Goto
<1>24. ASSUME ReconnectSleep(w) PROVE Goal
  BY <1>24, <1>f DEF Flow, Fresh, ReconnectSleep, Goto, should_reconnect
<1>25. ASSUME ReconnectStart(w) PROVE Goal
  BY <1>25, <1>f DEF Flow, Fresh, ReconnectStart, Goto
<1>26. ASSUME ConnectTcp(w) PROVE Goal
  <2>1. pc[w] = "tcp" /\ ~connected /\ notified = "start" /\ notified' = notified
    BY <1>26 DEF ConnectTcp, Goto, Flow
  <2>2. \/ pc' = [pc EXCEPT ![w] = "aread"] /\ connected' /\ ~rd'
        \/ pc' = [pc EXCEPT ![w] = "rcheck"] /\ ~connected' /\ rd' = rd
    BY <1>26, <2>1 DEF ConnectTcp, TcpConnect, Goto, AfterConnect
  <2> QED
    BY <2>1, <2>2
<1>27. ASSUME ConnectRead(w) PROVE Goal
  BY <1>27 DEF Flow, Fresh, ConnectRead, Goto, AfterConnect, AsyncRead
<1>28. ASSUME ConnectHandlers(w) PROVE Goal
  BY <1>28, <1>f DEF Flow, Fresh, ConnectHandlers, Goto, AfterConnect, SetHandlers
<1>29. ASSUME ReconnectCheck(w) PROVE Goal
  BY <1>29, <1>f DEF Flow, Fresh, ReconnectCheck, Goto
<1>30. ASSUME ReAuth(w) PROVE Goal
  BY <1>30 DEF Gentle, ReAuth, Goto
<1>31. ASSUME ReSelect(w) PROVE Goal
  BY <1>31 DEF Gentle, ReSelect, Goto
<1>32. ASSUME ResendMove(w) PROVE Goal
  BY <1>32 DEF Flow, Fresh, ResendMove, Goto
<1>33. ASSUME ResendOne(w) PROVE Goal
  BY <1>33 DEF Flow, Fresh, ResendOne, Goto, unprotected_send, BufferCommand
<1>34. ASSUME ReconnectCommit(w) PROVE Goal
  BY <1>34 DEF Flow, ReconnectCommit, WriteBuffer, WriteFails
<1>35. ASSUME ReconnectStop(w) PROVE Goal
  BY <1>35 DEF ReconnectStop, Goto, should_reconnect
<1>36. ASSUME GiveUp(w) PROVE Goal
  <2>1. CASE connected /\ pc' = [pc EXCEPT ![w] = "dend"] /\ UNCHANGED notified
    BY <1>36, <2>1 DEF GiveUp
  <2>2. CASE ~connected /\ ClearLocked(w, "dend") /\ notified' = "stopped"
    <3>1. pc'[w] = "dend"
      BY <2>2 DEF ClearLocked, SpawnClear
    <3>2. notified \in {"dropped", "failed"} /\ ~rd' /\ ~connected'
      BY <1>36, <2>2 DEF GiveUp
    <3> QED
      BY <1>f, <2>2, <3>1, <3>2
  <2> QED
    BY <1>36, <2>1, <2>2 DEF GiveUp
<1>37. ASSUME DropEnd(w) PROVE Goal
  BY <1>37 DEF DropEnd, Goto
<1>38. ASSUME HandlerReturns(w) PROVE Goal
  BY <1>38 DEF HandlerReturns, Goto, HandlerReturn, ReleaseFd
<1>39. ASSUME NEW d \in Detached, FailCall(d) PROVE Goal
  BY <1>39 DEF FailCall, Goto
<1>40. ASSUME NEW d \in Detached, FailDone(d) PROVE Goal
  BY <1>40 DEF FailDone, Goto
<1>41. ASSUME NEW d \in Detached, FailNotify(d) PROVE Goal
  BY <1>41 DEF FailNotify, NotifyAll
<1>42. CASE UNCHANGED vars
  BY <1>42 DEF vars, connVars, queueVars, reconVars, localVars, histVars
<1> HIDE DEF Announced, Goal
<1> QED
  BY GentleSteps, <1>1, <1>2, <1>3, <1>4, <1>5, <1>6, <1>7, <1>8, <1>9, <1>10,
     <1>11, <1>12, <1>13, <1>14, <1>15, <1>16, <1>17, <1>18, <1>19, <1>20,
     <1>21, <1>22, <1>23, <1>24, <1>25, <1>26, <1>27, <1>28, <1>29, <1>30,
     <1>31, <1>32, <1>33, <1>34, <1>35, <1>36, <1>37, <1>38, <1>39, <1>40,
     <1>41, <1>42
  DEF GentleNext, HandlerStep, DetachedStep

\* The connect callback sees every loss, attempt and outcome in the order an
\* attempt to connect has them, however many attempts it takes.
THEOREM ReconnectNotifies ==
  ASSUME NEW w, Gentle(w)
  PROVE  Spec => NotifyOrder
<1>1. Init => Announced(w)
  BY DEF Init, ConnInit, Gentle, Announced, Threads, Receives
<1>2. TypeInv /\ Repairs(w) /\ Announced(w) /\ [Next]_vars => Announced(w)'
  BY AnnouncedNext DEF Repairs
<1>3. TypeInv /\ Repairs(w) /\ Announced(w) /\ [Next]_vars
      => [notified' \in Follows[notified]]_notified
  BY AnnouncedNext DEF Repairs
<1> QED
  BY <1>1, <1>2, <1>3, RepairsInv, PTL DEF Spec, NotifyOrder

(***************************************************************************)
(* The client implements Pipeline.                                         *)
(*                                                                         *)
(* The queue of the abstract pipeline is the command in the hands of the   *)
(* receive handler, then m_commands, then what resend_failed_commands has  *)
(* still to send again (PendingIs).  Most steps leave it alone; the        *)
(* others are taken one by one: a command is accepted when send() pushes   *)
(* its callback, answered when the receive handler calls it, given up when *)
(* clear_callbacks moves the queue out, and failed by the detached thread. *)
(***************************************************************************)

(***************************************************************************)
(* The steps of Pipeline, in terms of the mapped variables.                *)
(***************************************************************************)
\* The variables of Pipeline do not change.
Same == Pending' = Pending /\ Failing' = Failing /\ Outcome' = Outcome

\* One step of the client allows what the abstract action does.
LEMMA AcceptStep ==
  ASSUME NEW c \in Cmds, Outcome[c] = "none", c \notin Range(Pending) \cup Failing,
         Pending' = Append(Pending, c), Failing' = Failing, Outcome' = Outcome
  PROVE  P!Next
<1>1. P!Accept(c)
  BY DEF P!Accept, P!Range, Range
<1> QED
  BY <1>1 DEF P!Next

LEMMA ReplyStep ==
  ASSUME Pending # <<>>, Outcome' = [Outcome EXCEPT ![Head(Pending)] = "reply"],
         Pending' = Tail(Pending), Failing' = Failing
  PROVE  P!Next
<1>1. P!Reply
  BY DEF P!Reply
<1> QED
  BY <1>1 DEF P!Next

LEMMA GiveUpStep ==
  ASSUME NEW C, Pending \in Seq(C), Pending # <<>>, Pending' = <<>>,
         Failing' = Failing \cup Range(Pending), Outcome' = Outcome
  PROVE  P!Next
<1>1. 0 \in 0 .. Len(Pending) - 1
  BY EmptySeq
<1>2. SubSeq(Pending, 0 + 1, Len(Pending)) = Pending
  BY SubSeqFull
<1>3. SubSeq(Pending, 1, 0) = <<>>
  OBVIOUS
<1>4. P!GiveUp
  BY <1>1, <1>2, <1>3 DEF P!GiveUp, P!Range, Range
<1> QED
  BY <1>4 DEF P!Next

LEMMA FailStep ==
  ASSUME NEW c \in Cmds, c \in Failing, Failing' = Failing \ {c},
         Outcome' = [Outcome EXCEPT ![c] = "failure"], Pending' = Pending
  PROVE  P!Next
<1>1. P!Fail(c)
  BY DEF P!Fail
<1> QED
  BY <1>1 DEF P!Next

(***************************************************************************)
(* The state of a client that never sends on its own account.              *)
(***************************************************************************)
\* Without password and database every queue holds commands of the application.
Own ==
  /\ m_commands \in Seq(Cmds)
  /\ cur \in [Threads -> Cmds \cup {None}]
  /\ job \in [Threads -> Seq(Cmds)]

\* Commands move from queue to queue.
LEMMA OwnNext ==
  ASSUME NEW w, Gentle(w), TypeInv, Flow(w), Own, [Next]_vars
  PROVE  Own'
<1>n. /\ w \in Workers /\ w \in Threads /\ Users \subseteq Threads /\ Detached \subseteq Threads
      /\ \A d \in Detached : d # w /\ d \notin Users
  BY ThreadsAssumption DEF Gentle, Threads
<1>t. \A s \in Seq(Cmds) : s # <<>> => Head(s) \in Cmds /\ Tail(s) \in Seq(Cmds)
  BY HeadTailProperties
<1>a. \A s \in Seq(Cmds), c \in Cmds : Append(s, c) \in Seq(Cmds)
  OBVIOUS
<1>j. \A t \in Threads : pc[t] \in {"spawn", "resend", "fail", "dec"} => job[t] # <<>>
  BY DEF TypeInv, FrontDefined
<1>h. \A u \in Users : pc[u] = "push" => cur[u] \in Cmds
  BY <1>n, CommandsAssumption DEF TypeInv, Held, Own
<1>s. ASSUME NEW t \in Threads, NEW q \in Seq(Cmds), NEW l, SpawnClear(t, q, l)
      PROVE  job' \in [Threads -> Seq(Cmds)]
  <2>1. PICK d \in Detached : job' = [job EXCEPT ![t] = <<>>, ![d] = q]
    BY <1>s DEF SpawnClear
  <2>2. <<>> \in Seq(Cmds) /\ d \in Threads
    BY <1>n, EmptySeq
  <2> QED
    BY <2>1, <2>2 DEF Own
<1> USE <1>n DEF Own, localVars, queueVars
<1>1. ASSUME NEW u \in Users, NEW c \in Cmds, Send(u, c) PROVE Own'
  BY <1>1 DEF Send
<1>2. ASSUME NEW u \in Users, NEW o \in {"commit", "sync", "timed"}, Commit(u, o)
      PROVE  Own'
  BY <1>2 DEF Commit
<1>3. ASSUME NEW u \in Users, SendPush(u) PROVE Own'
  BY <1>3, <1>h, <1>a DEF SendPush, Goto
<1>4. ASSUME NEW u \in Users, TryCommit(u) PROVE Own'
  BY <1>4 DEF TryCommit
<1>5. ASSUME NEW u \in Users, ClearMove(u) PROVE Own'
  BY <1>5 DEF ClearMove
<1>6. ASSUME NEW u \in Users, ClearSpawn(u) PROVE Own'
  BY <1>6, <1>s DEF ClearSpawn
<1>7. ASSUME NEW u \in Users, SyncLock(u) PROVE Own'
  BY <1>7 DEF SyncLock
<1>8. ASSUME NEW u \in Users, SyncBlock(u) PROVE Own'
  BY <1>8 DEF SyncBlock
<1>9. ASSUME NEW u \in Users, SyncReturn(u) PROVE Own'
  BY <1>9 DEF SyncReturn
<1>10. ASSUME NEW u \in Users, SyncTimeout(u) PROVE Own'
  BY <1>10 DEF SyncTimeout
<1>11. ASSUME NEW u \in Users, CancelReconnect(u) PROVE Own'
  BY <1>11 DEF CancelReconnect
<1>12. ASSUME ReadEvent(w) PROVE Own'
  BY <1>12 DEF ReadEvent
<1>13. ASSUME DropEvent(w) PROVE Own'
  BY <1>13 DEF DropEvent
<1>14. ASSUME MalformedEvent(w) PROVE Own'
  BY <1>14 DEF MalformedEvent
<1>15. ASSUME TakeReply(w) PROVE Own'
  BY <1>15 DEF TakeReply
<1>16. ASSUME EndRead(w) PROVE Own'
  BY <1>16 DEF EndRead
<1>17. ASSUME ReceiveLock(w) PROVE Own'
  BY <1>17, <1>t DEF ReceiveLock
<1>18. ASSUME ReceiveCall(w) PROVE Own'
  BY <1>18 DEF ReceiveCall
<1>19. ASSUME ReceiveDone(w) PROVE Own'
  BY <1>19 DEF ReceiveDone
<1>20. ASSUME DropBuffers(w) PROVE Own'
  BY <1>20 DEF DropBuffers
<1>21. ASSUME DropCheck(w) PROVE Own'
  BY <1>21 DEF DropCheck
<1>22. ASSUME DropSet(w) PROVE Own'
  BY <1>22 DEF DropSet
<1>23. ASSUME DropLock(w) PROVE Own'
  BY <1>23 DEF DropLock
<1>24. ASSUME ReconnectSleep(w) PROVE Own'
  BY <1>24 DEF ReconnectSleep
<1>25. ASSUME ReconnectStart(w) PROVE Own'
  BY <1>25 DEF ReconnectStart
<1>26. ASSUME ConnectTcp(w) PROVE Own'
  BY <1>26 DEF ConnectTcp
<1>27. ASSUME ConnectRead(w) PROVE Own'
  BY <1>27 DEF ConnectRead
<1>28. ASSUME ConnectHandlers(w) PROVE Own'
  BY <1>28 DEF ConnectHandlers
<1>29. ASSUME ReconnectCheck(w) PROVE Own'
  BY <1>29 DEF ReconnectCheck
<1>30. ASSUME ReAuth(w) PROVE Own'
  BY <1>30 DEF ReAuth, Gentle
<1>31. ASSUME ReSelect(w) PROVE Own'
  BY <1>31 DEF ReSelect, Gentle
<1>32. ASSUME ResendMove(w) PROVE Own'
  BY <1>32 DEF ResendMove
<1>33. ASSUME ResendOne(w) PROVE Own'
  BY <1>33, <1>t, <1>a, <1>j DEF ResendOne, Goto, unprotected_send
<1>34. ASSUME ReconnectCommit(w) PROVE Own'
  <2>1. UNCHANGED <<queueVars, job>>
    BY <1>34 DEF ReconnectCommit, Flow, Fresh, WriteFails
  <2> QED
    BY <1>34, <2>1 DEF ReconnectCommit
<1>35. ASSUME ReconnectStop(w) PROVE Own'
  BY <1>35 DEF ReconnectStop
<1>36. ASSUME GiveUp(w) PROVE Own'
  <2>1. CASE UNCHANGED <<queueVars, job>>
    BY <1>36, <2>1 DEF GiveUp
  <2>2. CASE SpawnClear(w, m_commands, "dend") /\ m_commands' = <<>>
    BY <1>36, <2>2, <1>s DEF GiveUp
  <2> QED
    BY <1>36, <2>1, <2>2 DEF GiveUp, ClearLocked
<1>37. ASSUME DropEnd(w) PROVE Own'
  BY <1>37 DEF DropEnd
<1>38. ASSUME HandlerReturns(w) PROVE Own'
  BY <1>38 DEF HandlerReturns
<1>39. ASSUME NEW d \in Detached, FailCall(d) PROVE Own'
  BY <1>39 DEF FailCall
<1>40. ASSUME NEW d \in Detached, FailDone(d) PROVE Own'
  BY <1>40, <1>t, <1>j DEF FailDone, Goto
<1>41. ASSUME NEW d \in Detached, FailNotify(d) PROVE Own'
  BY <1>41 DEF FailNotify
<1>42. CASE UNCHANGED vars
  BY <1>42 DEF vars
<1> HIDE DEF Own
<1> QED
  BY GentleSteps, <1>1, <1>2, <1>3, <1>4, <1>5, <1>6, <1>7, <1>8, <1>9, <1>10,
     <1>11, <1>12, <1>13, <1>14, <1>15, <1>16, <1>17, <1>18, <1>19, <1>20,
     <1>21, <1>22, <1>23, <1>24, <1>25, <1>26, <1>27, <1>28, <1>29, <1>30,
     <1>31, <1>32, <1>33, <1>34, <1>35, <1>36, <1>37, <1>38, <1>39, <1>40,
     <1>41, <1>42
  DEF GentleNext, HandlerStep, DetachedStep

\* The front of the abstract queue, in the hands of the receive handler.
Front(x) == IF x = None THEN <<>> ELSE <<x>>

PendingIs(w) ==
  /\ Pending = Cat(Cat(Front(cur[w]), m_commands), Uncalled(w))
  /\ cur[w] = None => Pending = Cat(m_commands, Uncalled(w))
  /\ Uncalled(w) = <<>> => Pending = Cat(Front(cur[w]), m_commands)
  /\ cur[w] = None /\ Uncalled(w) = <<>> => Pending = m_commands
  /\ Pending \in Seq(Cmds)

\* The abstract queue, from the local variables of the worker.
LEMMA PendingForm ==
  ASSUME NEW w, Workers = {w}
  PROVE  TypeInv /\ Local /\ Own => PendingIs(w)
<1> SUFFICES ASSUME TypeInv, Local, Own PROVE PendingIs(w)
  OBVIOUS
<1>1. pc[w] \in WorkerLabels /\ w \in Threads
  BY DEF TypeInv, TypeOK, ControlOK, Threads
<1>2. Uncalled(w) = job[w]
  BY <1>1 DEF Uncalled, WorkerLabels
<1>3. (IF Calling = {} THEN <<>> ELSE <<cur[CHOOSE v \in Calling : TRUE]>>) = Front(cur[w])
  <2>1. CASE cur[w] # None
    <3>1. Calling = {w}
      BY <2>1 DEF Calling, Local
    <3>2. (CHOOSE v \in Calling : TRUE) = w
      BY <3>1
    <3> QED
      BY <2>1, <3>1, <3>2 DEF Front
  <2>2. CASE cur[w] = None
    <3>1. Calling = {}
      BY <2>2 DEF Calling
    <3> QED
      BY <2>2, <3>1 DEF Front
  <2> QED
    BY <2>1, <2>2
<1>4. (IF Resending = {} THEN <<>> ELSE job[CHOOSE v \in Resending : TRUE]) = job[w]
  <2>1. CASE pc[w] = "resend"
    <3>1. Resending = {w}
      BY <2>1 DEF Resending
    <3>2. (CHOOSE v \in Resending : TRUE) = w
      BY <3>1
    <3> QED
      BY <3>1, <3>2
  <2>2. CASE pc[w] # "resend"
    <3>1. Resending = {} /\ job[w] = <<>>
      BY <2>2 DEF Resending, Local
    <3> QED
      BY <3>1
  <2> QED
    BY <2>1, <2>2
<1>5. Pending = Cat(Cat(Front(cur[w]), m_commands), Uncalled(w))
  BY ONLY <1>2, <1>3, <1>4 DEF Pending, Cat
<1>6. Front(cur[w]) \in Seq(Cmds) /\ m_commands \in Seq(Cmds) /\ Uncalled(w) \in Seq(Cmds)
  BY <1>1, <1>2 DEF Own, Front
<1>7. cur[w] = None => Front(cur[w]) = <<>>
  BY DEF Front
<1>8. /\ Cat(Front(cur[w]), m_commands) \in Seq(Cmds)
      /\ Cat(<<>>, m_commands) = m_commands /\ Cat(m_commands, <<>>) = m_commands
  BY <1>6, CatFacts
<1>9. /\ Cat(Cat(Front(cur[w]), m_commands), Uncalled(w)) \in Seq(Cmds)
      /\ Cat(Cat(Front(cur[w]), m_commands), <<>>) = Cat(Front(cur[w]), m_commands)
  BY <1>6, <1>8, CatFacts
<1> QED
  BY ONLY <1>5, <1>7, <1>8, <1>9 DEF PendingIs

\* The same in the next state.
LEMMA PendingNext ==
  ASSUME NEW w, Workers = {w}
  PROVE  TypeInv' /\ Local' /\ Own' => PendingIs(w)'
BY PendingForm, PTL

(***************************************************************************)
(* What the steps below do to sequences.                                   *)
(***************************************************************************)
\* The commands of a sequence.
LEMMA RangeAbsent ==
  ASSUME NEW C, NEW s \in Seq(C), NEW c
  PROVE  Absent(c, s) <=> c \notin Range(s)
<1>1. DOMAIN s = 1 .. Len(s)
  OBVIOUS
<1> QED
  BY <1>1 DEF Absent, Range

\* The front joins the commands behind it.
LEMMA RangeFront ==
  ASSUME NEW C, NEW x \in C \cup {None}, NEW s \in Seq(C), NEW c, c # x, Absent(c, s)
  PROVE  c \notin Range(Cat(Front(x), s))
<1>1. CASE x = None
  <2>1. Cat(Front(x), s) = s
    BY <1>1, CatFacts DEF Front
  <2> QED
    BY <2>1, RangeAbsent
<1>2. CASE x # None
  <2>1. <<x>> \in Seq(C) /\ Len(<<x>>) = 1
    BY <1>2
  <2>2. Cat(<<x>>, s) \in Seq(C)
    BY <2>1, CatFacts
  <2>3. Absent(c, <<x>> \o s)
    <3> SUFFICES ASSUME NEW i \in 1 .. Len(<<x>> \o s) PROVE (<<x>> \o s)[i] # c
      BY DEF Absent
    <3>1. Len(<<x>> \o s) = Len(s) + 1 /\ Len(s) \in Nat
      BY <2>1
    <3>2. CASE i = 1
      BY <2>1, <3>2
    <3>3. CASE i # 1
      <4>1. (<<x>> \o s)[i] = s[i - 1] /\ i - 1 \in 1 .. Len(s)
        BY <2>1, <3>1, <3>3
      <4> QED
        BY <4>1 DEF Absent
    <3> QED
      BY <3>2, <3>3
  <2> QED
    BY <1>2, <2>2, <2>3, RangeAbsent DEF Front, Cat
<1> QED
  BY <1>1, <1>2

\* A queue without its front.
LEMMA RangeTail ==
  ASSUME NEW C, NEW s \in Seq(C), s # <<>>
  PROVE  /\ Head(s) \in C /\ Tail(s) \in Seq(C)
         /\ Range(s) = {Head(s)} \cup Range(Tail(s))
<1>1. Head(s) \in C /\ Tail(s) \in Seq(C)
  BY HeadTailProperties
<1>2. ASSUME NEW c PROVE c \in Range(s) <=> c \in {Head(s)} \cup Range(Tail(s))
  <2>1. Absent(c, s) <=> Head(s) # c /\ Absent(c, Tail(s))
    BY PopHolds
  <2> QED
    BY <1>1, <2>1, RangeAbsent
<1> QED
  BY <1>1, <1>2

\* resend_failed_commands takes the front of one queue to the end of the other.
LEMMA CatShift ==
  ASSUME NEW C, NEW s \in Seq(C), NEW t \in Seq(C), t # <<>>
  PROVE  Cat(Append(s, Head(t)), Tail(t)) = Cat(s, t)
<1>1. PICK x \in C, r \in Seq(C) : x = Head(t) /\ r = Tail(t)
  BY HeadTailProperties
<1>2. <<x>> \in Seq(C) /\ t = <<x>> \o r
  BY <1>1
<1>3. Append(s, x) = Cat(s, <<x>>)
  BY AppendIsConcat DEF Cat
<1>4. \A y \in Seq(C) : Cat(Cat(s, y), r) = Cat(s, Cat(y, r))
  BY CatAssociates
<1> QED
  BY <1>1, <1>2, <1>3, <1>4 DEF Cat

\* What the callback of a command was called with.
LEMMA OutcomeOf ==
  ASSUME NEW c \in Cmds, NEW r \in {c, Failure},
         calls \in [Cmds -> Seq(AllCmds \cup {Failure})], calls[c] = <<>>,
         calls' = [calls EXCEPT ![c] = Append(@, r)]
  PROVE  Outcome' = [Outcome EXCEPT ![c] = IF r = c THEN "reply" ELSE "failure"]
<1>1. c # Failure
  BY CommandsAssumption DEF AllCmds
<1>2. calls'[c] = <<r>>
  <2>1. Append(<<>>, r) = <<r>>
    OBVIOUS
  <2> QED
    BY <2>1
<1>3. \A e \in Cmds : e # c => calls'[e] = calls[e]
  OBVIOUS
<1>4. <<r>> # <<>> /\ (<<r>> = <<c>> <=> r = c) /\ (<<r>> = <<Failure>> <=> r = Failure)
  OBVIOUS
<1>5. Outcome'[c] = IF r = c THEN "reply" ELSE "failure"
  BY <1>1, <1>2, <1>4 DEF Outcome
<1>6. \A e \in Cmds : e # c => Outcome'[e] = Outcome[e]
  BY <1>3 DEF Outcome
<1>7. Outcome = [e \in Cmds |-> Outcome[e]] /\ Outcome' = [e \in Cmds |-> Outcome'[e]]
  BY DEF Outcome
<1> QED
  BY <1>5, <1>6, <1>7

\* A queue moved out joins the commands given up.
LEMMA FailingGrows ==
  ASSUME NEW t \in Users \cup Detached, Uncalled(t) = <<>>,
         \A x \in Users \cup Detached : x # t => Uncalled(x)' = Uncalled(x)
  PROVE  Failing' = Failing \cup Range(Uncalled(t)')
<1>1. Range(Uncalled(t)) = {}
  BY DEF Range
<1>2. ASSUME NEW c PROVE c \in Failing' <=> c \in Failing \cup Range(Uncalled(t)')
  <2>1. c \in Failing <=> \E x \in Users \cup Detached : x # t /\ c \in Range(Uncalled(x))
    BY <1>1 DEF Failing
  <2>2. c \in Failing' <=> \/ c \in Range(Uncalled(t)')
                           \/ \E x \in Users \cup Detached : x # t /\ c \in Range(Uncalled(x))
    BY DEF Failing
  <2> QED
    BY <2>1, <2>2
<1> QED
  BY <1>2

\* Every step of the client is a step of the pipeline, or none.
LEMMA StepRefines ==
  ASSUME NEW w, Gentle(w), TypeInv, MutexOwner, Repairs(w), Local, Placed, Own,
         TypeInv', Local', Own', [Next]_vars
  PROVE  Same \/ P!Next
<1>p. /\ pc \in [Threads -> UserLabels \cup WorkerLabels \cup DetachedLabels]
      /\ \A u \in Users : pc[u] \in UserLabels
      /\ pc[w] \in WorkerLabels
      /\ cur \in [Threads -> Cmds \cup {None}]
      /\ job \in [Threads -> Seq(Cmds)]
      /\ m_commands \in Seq(Cmds)
      /\ calls \in [Cmds -> Seq(AllCmds \cup {Failure})]
  BY DEF TypeInv, TypeOK, ControlOK, DataOK, Gentle, Own
<1>n. /\ Workers = {w} /\ w \in Threads /\ Users \subseteq Threads
      /\ Detached \subseteq Threads /\ w \notin Users \cup Detached
      /\ \A u \in Users : u \notin Detached
      /\ None \notin Threads /\ None \notin Cmds /\ None \notin AllCmds
  BY ThreadsAssumption, CommandsAssumption DEF Gentle, Threads, AllCmds
<1>f. PendingIs(w) /\ PendingIs(w)'
  BY <1>n, PendingForm, PendingNext
<1>l. /\ Uncalled(w) = job[w] /\ \A u \in Users : Uncalled(u) = job[u]
      /\ \A t \in Threads : pc[t] # "dec" => Uncalled(t) = job[t]
  BY <1>p DEF Uncalled, UserLabels, WorkerLabels
<1>x. /\ pc[w] # "call" => cur[w] = None
      /\ pc[w] # "resend" => Uncalled(w) = <<>>
      /\ \A u \in Users : pc[u] # "spawn" => Uncalled(u) = <<>>
      /\ \A d \in Detached : pc[d] = "idle" => Uncalled(d) = <<>>
  BY <1>n, <1>l DEF Local
<1>o. calls' = calls => Outcome' = Outcome
  BY DEF Outcome
<1>e. (\A t \in Users \cup Detached : Uncalled(t)' = Uncalled(t)) => Failing' = Failing
  BY DEF Failing
<1>q. cur'[w] = cur[w] /\ m_commands' = m_commands /\ Uncalled(w)' = Uncalled(w)
      => Pending' = Pending
  BY <1>f DEF PendingIs
<1>w. \A c \in Cmds : Whereabouts(c)
  BY DEF Placed
<1>1. CASE Settled
  BY <1>1, <1>n, <1>o, <1>e, <1>q DEF Settled, Same, Threads
<1>2. ASSUME NEW u \in Users, NEW c \in Cmds, Send(u, c) PROVE Same
  <2>1. \A t \in Threads : Uncalled(t)' = Uncalled(t)
    BY <1>2, <1>p, <1>n DEF Send, Goto, Uncalled
  <2>2. cur'[w] = cur[w] /\ m_commands' = m_commands /\ calls' = calls
    BY <1>2, <1>p, <1>n DEF Send, queueVars
  <2> QED
    BY <1>n, <1>o, <1>e, <1>q, <2>1, <2>2 DEF Same
<1>3. ASSUME NEW u \in Users, SendPush(u) PROVE P!Next
  <2>1. PICK c \in Cmds : c = cur[u]
    BY <1>3, <1>p, <1>n DEF SendPush, Goto, TypeInv, Held
  <2>2. \A t \in Threads : Uncalled(t)' = Uncalled(t)
    BY <1>3, <1>p, <1>n DEF SendPush, Goto, Uncalled
  <2>3. cur'[w] = cur[w] /\ m_commands' = Append(m_commands, c) /\ calls' = calls
    BY <1>3, <1>p, <1>n, <2>1 DEF SendPush, histVars
  <2>4. mutex = u /\ Uncalled(w) = <<>>
    BY <1>3, <1>n, <1>x DEF SendPush, Goto, MutexOwner, Locked, UserLocked,
                            HandlerLocked
  <2>5. /\ Absent(c, m_commands) /\ calls[c] = <<>>
        /\ \A t \in Threads : Absent(c, Uncalled(t)) /\ (t # u => cur[t] # c)
    BY <1>w, <1>n, <2>1 DEF Whereabouts, Free, HeldBy, Unmoved
  <2>6. Front(cur[w]) \in Seq(Cmds) /\ cur[w] \in Cmds \cup {None}
    BY <1>p, <1>n DEF Front
  <2>7. /\ Pending = Cat(Front(cur[w]), m_commands)
        /\ Pending' = Cat(Front(cur[w]), Append(m_commands, c))
    BY <1>f, <1>n, <2>2, <2>3, <2>4 DEF PendingIs
  <2>8. Pending' = Append(Pending, c)
    <3>1. PICK s \in Seq(Cmds), t \in Seq(Cmds) : s = Front(cur[w]) /\ t = m_commands
      BY <1>p, <2>6
    <3>2. Cat(s, Append(t, c)) = Append(Cat(s, t), c)
      BY CatAppend
    <3> QED
      BY <2>7, <3>1, <3>2, Zenon
  <2>9. c \notin Range(Pending)
    BY <1>p, <1>n, <2>5, <2>6, <2>7, RangeFront
  <2>10. c \notin Failing
    <3>1. ASSUME NEW t \in Users \cup Detached PROVE c \notin Range(Uncalled(t))
      <4>1. t \in Threads /\ Uncalled(t) \in Seq(Cmds)
        BY <1>p, <1>n DEF Uncalled, TypeInv, FrontDefined
      <4> QED
        BY <2>5, <4>1, RangeAbsent
    <3> QED
      BY <3>1 DEF Failing
  <2>11. Outcome[c] = "none"
    BY <2>5 DEF Outcome
  <2> QED
    BY <1>e, <1>n, <1>o, <2>2, <2>3, <2>8, <2>9, <2>10, <2>11, AcceptStep
<1>4. ASSUME NEW u \in Users, ClearMove(u) PROVE Same \/ P!Next
  <2>1. pc[u] = "clear" /\ pc[w] \in {"idle", "ret", "dend"}
    BY <1>4 DEF ClearMove, Goto, Repairs, Flow
  <2>2. cur' = cur /\ m_commands' = <<>> /\ calls' = calls
        /\ Uncalled(u) = <<>> /\ Uncalled(u)' = m_commands
        /\ \A t \in Threads : t # u => Uncalled(t)' = Uncalled(t)
    BY <1>4, <1>p, <1>n, <1>x DEF ClearMove, Goto, histVars, Uncalled
  <2>3. cur[w] = None /\ Uncalled(w) = <<>> /\ Uncalled(w)' = <<>>
    BY <1>x, <1>n, <2>1, <2>2
  <2>4. Pending = m_commands /\ Pending' = <<>>
    BY <1>f, <2>2, <2>3 DEF PendingIs
  <2>5. Failing' = Failing \cup Range(m_commands)
    BY <1>n, <2>2, FailingGrows
  <2>6. CASE m_commands = <<>>
    BY <1>o, <2>2, <2>4, <2>5, <2>6 DEF Same, Range
  <2>7. CASE m_commands # <<>>
    BY <1>p, <1>o, <2>2, <2>4, <2>5, <2>7, GiveUpStep
  <2> QED
    BY <2>6, <2>7
<1>5. ASSUME NEW u \in Users, ClearSpawn(u) PROVE Same
  <2>1. PICK d \in Detached : /\ pc[d] = "idle"
                              /\ job' = [job EXCEPT ![u] = <<>>, ![d] = job[u]]
                              /\ pc' = [pc EXCEPT ![u] = "idle", ![d] = "fail"]
    BY <1>5 DEF ClearSpawn, SpawnClear
  <2>2. UNCHANGED <<cur, m_commands, calls>>
    BY <1>5 DEF ClearSpawn, histVars
  <2>3. /\ Uncalled(u)' = <<>> /\ Uncalled(d)' = Uncalled(u) /\ Uncalled(d) = <<>>
        /\ \A t \in Threads : t # u /\ t # d => Uncalled(t)' = Uncalled(t)
    BY <1>p, <1>n, <1>x, <1>l, <2>1 DEF Uncalled
  <2>4. Failing' = Failing
    <3>1. Range(<<>>) = {}
      BY DEF Range
    <3>2. ASSUME NEW c PROVE c \in Failing' <=> c \in Failing
      BY <1>n, <2>3, <3>1 DEF Failing
    <3> QED
      BY <3>2
  <2> QED
    BY <1>n, <1>o, <1>q, <2>2, <2>3, <2>4 DEF Same
<1>6. CASE ReceiveLock(w)
  <2>1. pc[w] = "rlock"
    BY <1>6 DEF ReceiveLock, Goto
  <2>2. cur[w] = None /\ Uncalled(w) = <<>>
    BY <1>x, <2>1
  <2>3. \A t \in Threads : Uncalled(t)' = Uncalled(t)
    BY <1>6, <1>p, <1>n DEF ReceiveLock, Goto, Uncalled
  <2>4. /\ calls' = calls
        /\ cur'[w] = IF m_commands = <<>> THEN None ELSE Head(m_commands)
        /\ m_commands' = IF m_commands = <<>> THEN <<>> ELSE Tail(m_commands)
    BY <1>6, <1>p, <1>n DEF ReceiveLock, histVars
  <2>5. Uncalled(w)' = <<>>
    BY <1>n, <2>2, <2>3
  <2>6. Pending = m_commands /\ Pending' = Cat(Front(cur'[w]), m_commands')
    BY <1>f, <2>2, <2>5 DEF PendingIs
  <2>7. Pending' = m_commands
    <3>1. CASE m_commands = <<>>
      <4>1. Cat(<<>>, <<>>) = <<>>
        BY EmptySeq, CatFacts
      <4> QED
        BY <2>4, <2>6, <3>1, <4>1 DEF Front
    <3>2. CASE m_commands # <<>>
      <4>1. PICK c \in Cmds, r \in Seq(Cmds) : c = Head(m_commands) /\ r = Tail(m_commands)
        BY <1>p, <3>2, HeadTailProperties
      <4>2. m_commands = <<c>> \o r
        BY <1>p, <3>2, <4>1
      <4> QED
        BY <1>n, <2>4, <2>6, <3>2, <4>1, <4>2 DEF Front, Cat
    <3> QED
      BY <3>1, <3>2
  <2> QED
    BY <1>e, <1>n, <1>o, <2>3, <2>4, <2>6, <2>7 DEF Same
<1>7. CASE ReceiveCall(w)
  <2>1. pc[w] = "call" /\ cur[w] = rep[w] /\ rep[w] \in AllCmds
    BY <1>7, <1>n DEF ReceiveCall, Goto, Repairs, Matched, TypeInv, Held
  <2>2. PICK c \in Cmds : c = cur[w]
    BY <1>p, <1>n, <2>1
  <2>3. Uncalled(w) = <<>>
    BY <1>x, <2>1
  <2>4. \A t \in Threads : Uncalled(t)' = Uncalled(t)
    BY <1>7, <1>p, <1>n DEF ReceiveCall, Goto, Uncalled
  <2>5. /\ m_commands' = m_commands /\ cur'[w] = None
        /\ calls' = [calls EXCEPT ![c] = Append(@, c)]
    BY <1>7, <1>p, <1>n, <2>1, <2>2 DEF ReceiveCall, RunCallback, queueVars
  <2>6. calls[c] = <<>>
    BY <1>w, <1>n, <2>2 DEF Whereabouts, Free, HeldBy
  <2>7. Uncalled(w)' = <<>>
    BY <1>n, <2>3, <2>4
  <2>8. Pending = Cat(<<c>>, m_commands) /\ Pending' = m_commands
    BY <1>f, <1>n, <2>2, <2>3, <2>5, <2>7 DEF PendingIs, Front
  <2>9. Pending # <<>> /\ Head(Pending) = c /\ Tail(Pending) = Pending'
    BY <1>p, <2>8 DEF Cat
  <2>10. Outcome' = [Outcome EXCEPT ![c] = "reply"]
    BY <1>p, <2>5, <2>6, OutcomeOf
  <2> QED
    BY <1>e, <1>n, <2>4, <2>9, <2>10, ReplyStep
<1>8. CASE ReAuth(w) \/ ReSelect(w)
  <2>1. UNCHANGED <<m_commands, cur, calls>>
    BY <1>8 DEF ReAuth, ReSelect, Gentle, localVars, histVars
  <2>2. \A t \in Threads : Uncalled(t)' = Uncalled(t)
    BY <1>8, <1>p, <1>n DEF ReAuth, ReSelect, Goto, Uncalled, localVars
  <2> QED
    BY <1>n, <1>o, <1>e, <1>q, <2>1, <2>2 DEF Same
<1>9. CASE ResendMove(w)
  <2>1. pc[w] = "rmove"
    BY <1>9 DEF ResendMove, Goto
  <2>2. cur[w] = None /\ Uncalled(w) = <<>>
    BY <1>x, <2>1
  <2>3. /\ calls' = calls /\ cur' = cur /\ m_commands' = <<>>
        /\ Uncalled(w)' = m_commands
        /\ \A t \in Threads : t # w => Uncalled(t)' = Uncalled(t)
    BY <1>9, <1>p, <1>n DEF ResendMove, Goto, Uncalled, histVars
  <2>4. Pending = m_commands /\ Pending' = Cat(<<>>, m_commands)
    BY <1>f, <2>2, <2>3 DEF PendingIs
  <2>5. Cat(<<>>, m_commands) = m_commands
    BY <1>p, CatFacts
  <2> QED
    BY <1>e, <1>n, <1>o, <2>3, <2>4, <2>5 DEF Same
<1>10. CASE ResendOne(w)
  <2>1. pc[w] = "resend" /\ job[w] # <<>>
    BY <1>10, <1>n DEF ResendOne, Goto, TypeInv, FrontDefined
  <2>2. cur[w] = None
    BY <1>x, <2>1
  <2>3. /\ calls' = calls /\ cur' = cur
        /\ m_commands' = Append(m_commands, Head(job[w]))
        /\ Uncalled(w) = job[w] /\ Uncalled(w)' = Tail(job[w])
        /\ \A t \in Threads : t # w => Uncalled(t)' = Uncalled(t)
    BY <1>10, <1>p, <1>n, <1>l DEF ResendOne, Goto, unprotected_send, Uncalled,
                                   histVars
  <2>4. /\ Pending = Cat(m_commands, job[w])
        /\ Pending' = Cat(Append(m_commands, Head(job[w])), Tail(job[w]))
    BY <1>f, <2>2, <2>3 DEF PendingIs
  <2>5. Pending' = Pending
    BY <1>p, <1>n, <2>1, <2>4, CatShift
  <2> QED
    BY <1>e, <1>n, <1>o, <2>3, <2>5 DEF Same
<1>11. CASE ReconnectCommit(w)
  <2>1. pc' = [pc EXCEPT ![w] = "dloop"] /\ UNCHANGED <<queueVars, job, cur, calls>>
        /\ pc[w] = "rcommit"
    BY <1>11 DEF ReconnectCommit, Repairs, Flow, WriteFails, histVars
  <2>2. \A t \in Threads : Uncalled(t)' = Uncalled(t)
    BY <1>p, <1>n, <2>1 DEF Uncalled
  <2> QED
    BY <1>n, <1>o, <1>e, <1>q, <2>1, <2>2 DEF Same, queueVars
<1>12. CASE GiveUp(w)
  <2>1. pc[w] = "dfinal" /\ calls' = calls /\ cur' = cur
    BY <1>12 DEF GiveUp, histVars
  <2>2. CASE pc' = [pc EXCEPT ![w] = "dend"] /\ UNCHANGED <<queueVars, job>>
    <3>1. \A t \in Threads : Uncalled(t)' = Uncalled(t)
      BY <1>p, <1>n, <2>1, <2>2 DEF Uncalled
    <3> QED
      BY <1>n, <1>o, <1>e, <1>q, <2>1, <2>2, <3>1 DEF Same, queueVars
  <2>3. CASE m_commands # <<>> /\ SpawnClear(w, m_commands, "dend") /\ m_commands' = <<>>
    <3>1. cur[w] = None /\ Uncalled(w) = <<>>
      BY <1>x, <2>1
    <3>2. PICK d \in Detached : /\ pc[d] = "idle"
                                /\ job' = [job EXCEPT ![w] = <<>>, ![d] = m_commands]
                                /\ pc' = [pc EXCEPT ![w] = "dend", ![d] = "fail"]
      BY <2>3 DEF SpawnClear
    <3>3. /\ Uncalled(w)' = <<>> /\ Uncalled(d)' = m_commands /\ Uncalled(d) = <<>>
          /\ \A t \in Threads : t # w /\ t # d => Uncalled(t)' = Uncalled(t)
      BY <1>p, <1>n, <1>x, <3>2 DEF Uncalled
    <3>4. Pending = m_commands /\ Pending' = <<>>
      BY <1>f, <2>1, <2>3, <3>1, <3>3 DEF PendingIs
    <3>5. Failing' = Failing \cup Range(m_commands)
      BY <1>n, <3>3, FailingGrows
    <3> QED
      BY <1>p, <1>o, <2>1, <2>3, <3>4, <3>5, GiveUpStep
  <2> QED
    BY <1>12, <2>2, <2>3 DEF GiveUp, ClearLocked
<1>13. ASSUME NEW d \in Detached, FailCall(d) PROVE P!Next
  <2>1. pc[d] = "fail" /\ job[d] # <<>> /\ job[d] \in Seq(Cmds)
    BY <1>13, <1>p, <1>n DEF FailCall, Goto, TypeInv, FrontDefined
  <2>2. /\ Head(job[d]) \in Cmds /\ Tail(job[d]) \in Seq(Cmds)
        /\ Range(job[d]) = {Head(job[d])} \cup Range(Tail(job[d]))
    BY <2>1, RangeTail
  <2>3. PICK c \in Cmds : c = Head(job[d])
    BY <2>2
  <2>4. /\ UNCHANGED <<m_commands, cur>>
        /\ calls' = [calls EXCEPT ![c] = Append(@, Failure)]
    BY <1>13, <2>3 DEF FailCall, RunCallback, queueVars, localVars
  <2>5. /\ Uncalled(d) = job[d] /\ Uncalled(d)' = Tail(job[d])
        /\ \A t \in Threads : t # d => Uncalled(t)' = Uncalled(t)
    BY <1>13, <1>p, <1>n DEF FailCall, Goto, Uncalled, localVars
  <2>6. Absent(c, job[d]) <=> Head(job[d]) # c /\ Absent(c, Tail(job[d]))
    BY <2>1, PopHolds
  <2>7. Once(c, job[d]) => Absent(c, Tail(job[d]))
    BY <2>1, <2>3, PopHolds
  <2>8. MovedBy(c, d) /\ calls[c] = <<>>
    <3>1. ~Unmoved(c)
      BY <1>n, <2>3, <2>5, <2>6 DEF Unmoved
    <3>2. \A t \in Threads : MovedBy(c, t) => t = d
      BY <1>n, <2>3, <2>5, <2>6 DEF MovedBy
    <3> QED
      BY <1>w, <3>1, <3>2 DEF Whereabouts
  <2>9. c \in Range(job[d]) /\ c \notin Range(Tail(job[d]))
    BY <2>1, <2>2, <2>3, <2>5, <2>7, <2>8, RangeAbsent DEF MovedBy
  <2>10. \A t \in Users \cup Detached : t # d => c \notin Range(Uncalled(t))
    <3>1. ASSUME NEW t \in Users \cup Detached, t # d PROVE c \notin Range(Uncalled(t))
      <4>1. t \in Threads /\ Uncalled(t) \in Seq(Cmds)
        BY <1>p, <1>n DEF Uncalled, TypeInv, FrontDefined
      <4> QED
        BY <2>8, <3>1, <4>1, RangeAbsent DEF MovedBy
    <3> QED
      BY <3>1
  <2>11. c \in Failing /\ Failing' = Failing \ {c}
    <3>1. c \in Failing
      BY <2>5, <2>9 DEF Failing
    <3>2. \A t \in Users \cup Detached : Range(Uncalled(t)') = Range(Uncalled(t)) \ {c}
      BY <1>n, <2>2, <2>3, <2>5, <2>9, <2>10
    <3>3. ASSUME NEW e PROVE e \in Failing' <=> e \in Failing \ {c}
      BY <3>2 DEF Failing
    <3> QED
      BY <3>1, <3>3
  <2>12. Outcome' = [Outcome EXCEPT ![c] = "failure"]
    <3>1. c # Failure
      BY CommandsAssumption DEF AllCmds
    <3> QED
      BY <1>p, <2>4, <2>8, <3>1, OutcomeOf
  <2>13. Pending' = Pending
    BY <1>n, <1>q, <2>4, <2>5
  <2> QED
    BY <2>11, <2>12, <2>13, FailStep
<1> QED
  BY <1>n, <1>1, <1>2, <1>3, <1>4, <1>5, <1>6, <1>7, <1>8, <1>9, <1>10, <1>11,
     <1>12,
     <1>13, MovingSteps DEF Moving

\* connect() has returned and nothing has been sent.
LEMMA InitRefines == ASSUME NEW w, Gentle(w) PROVE Init => P!Init /\ Own
<1> SUFFICES ASSUME Init PROVE P!Init /\ Own
  OBVIOUS
<1>1. Own
  BY DEF Init, Own
<1>2. Calling = {} /\ Resending = {} /\ m_commands = <<>>
  BY DEF Init, Calling, Resending, Threads
<1>3. Pending = <<>>
  BY <1>2 DEF Pending
<1>4. Failing = {}
  BY DEF Init, Failing, Uncalled, Threads, Range
<1>5. Outcome = [c \in Cmds |-> "none"]
  BY DEF Init, Outcome
<1> QED
  BY <1>1, <1>3, <1>4, <1>5 DEF P!Init

\* The client behaves as a pipeline: every command sent is answered, in the
\* order of send(), with its own reply, or given up with all those behind it
\* and failed; each at most once.  Losing the connection, waiting for the next
\* attempt and sending the queue again are not visible in between.
THEOREM ClientRefinesPipeline ==
  ASSUME NEW w, Gentle(w)
  PROVE  Spec => Implements
<1>1. Init => P!Init /\ Own
  BY InitRefines
<1>2. TypeInv /\ Repairs(w) /\ Own /\ [Next]_vars => Own'
  BY OwnNext DEF Repairs
<1>3. /\ TypeInv /\ MutexOwner /\ Repairs(w) /\ Local /\ Placed /\ Own
      /\ TypeInv' /\ Local' /\ Own' /\ [Next]_vars
      => [P!Next]_<<Pending, Failing, Outcome>>
  BY StepRefines DEF Same
<1>4. Spec => [](TypeInv /\ MutexOwner /\ Repairs(w) /\ Local /\ Placed /\ Own)
  BY <1>1, <1>2, RepairsInv, PlaceInv, PTL DEF Spec
<1>5. Spec => P!Init /\ [][P!Next]_<<Pending, Failing, Outcome>>
  BY <1>1, <1>3, <1>4, PTL DEF Spec
<1> QED
  BY <1>5 DEF Implements, P!Spec, P!vars
=============================================================================
