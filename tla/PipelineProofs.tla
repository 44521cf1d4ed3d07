--------------------------- MODULE PipelineProofs ---------------------------
(***************************************************************************)
(* The pipeline proper: as long as the connection is neither lost nor      *)
(* closed, every callback is given the reply to its own command, for any   *)
(* number of application threads, workers and commands.                    *)
(*                                                                         *)
(* The argument is one equation between sequences.  The commands whose     *)
(* callback is queued, followed by the one a thread inside send() has      *)
(* buffered and not pushed yet, are at all times the replies still to be   *)
(* dispatched: the one in the hands of a worker, the available ones, those *)
(* on the wire and those in the send buffer, in this order.                *)
(***************************************************************************)
EXTENDS ClientProofs

\* The connection is established and nothing closes it.
FaultFree ==
  /\ StartConnected
  /\ MaxDrops = 0
  /\ MaxMalformed = 0
  /\ Ops \subseteq {"send", "commit", "sync", "timed"}

\* Where the threads can then be, and that the worker running the receive
\* handler is the one the io_service knows as the reader.
CalmControl ==
  /\ connected /\ hset /\ ~m_reconnecting
  /\ \A u \in Users : pc[u] \in {"idle", "push", "write", "slock", "sblock",
                                 "swait", "synced"}
  /\ \A w \in Workers : pc[w] \in {"idle", "loop", "rlock", "call", "rdone"}
  /\ \A d \in Detached : pc[d] = "idle"
  /\ \A w \in Workers : pc[w] # "idle" => reader = w
  /\ faults.drops = 0 /\ faults.malformed = 0

\* What the receive handler relies on.
Attached ==
  /\ connected /\ hset
  /\ \A w \in Workers : pc[w] \in {"loop", "rlock", "call", "rdone"} => reader = w

\* The command between the two halves of send(), and the reply between the
\* loop of tcp_client_receive_handler and connection_receive_handler.
Queued == IF mutex \in Users /\ pc[mutex] = "push"
          THEN Append(m_commands, cur[mutex]) ELSE m_commands
Handed == IF reader \in Workers /\ pc[reader] = "rlock" THEN <<rep[reader]>> ELSE <<>>

\* Operators on sequences that stay folded in the proofs below.
Cat(s, t) == s \o t
Joined(h, a, w, b) == Cat(h, Cat(a, Cat(w, b)))
Single(x) == <<x>>
Extend(s, x) == Append(s, x)
Splits(s, x, t) == s # <<>> /\ Head(s) = x /\ Tail(s) = t

Fifo == Queued = Joined(Handed, avail, wire, m_buffer)

Matched == \A w \in Workers : pc[w] = "call" => cur[w] = rep[w]

PipeInv == CalmControl /\ Fifo /\ Matched /\ ReplyMatches

\* The actions that remain possible.
CalmNext ==
  \/ \E u \in Users : \/ \E c \in Cmds : Send(u, c)
                      \/ SendPush(u)
                      \/ \E o \in {"commit", "sync", "timed"} : Commit(u, o)
                      \/ TryCommit(u)
                      \/ SyncLock(u) \/ SyncBlock(u) \/ SyncReturn(u) \/ SyncTimeout(u)
  \/ \E w \in Workers : \/ ReadEvent(w) \/ TakeReply(w) \/ EndRead(w)
                        \/ ReceiveLock(w) \/ ReceiveCall(w) \/ ReceiveDone(w)

\* Nothing else can happen while the connection is neither lost nor closed.
LEMMA CalmSteps ==
  ASSUME FaultFree, CalmControl, Next
  PROVE  CalmNext
<1>1. ASSUME NEW u \in Users, UserCall(u) \/ UserStep(u) \/ SyncTimeout(u)
      PROVE  CalmNext
  <2>1. ~Connect(u) /\ ~CancelReconnect(u)
    BY DEF FaultFree, Connect, CancelReconnect, Begin
  <2>2. \A o \in {"disconnect", "disconnect_wait"} : ~Disconnect(u, o)
    BY DEF FaultFree, Disconnect, Begin
  <2>3. ~ClearMove(u) /\ ~ClearSpawn(u) /\ ~DisconnectRemoved(u)
    BY DEF CalmControl, ClearMove, ClearSpawn, DisconnectRemoved, Goto
  <2>4. ~DisconnectBuffers(u) /\ ~ConnectHandlers(u)
    BY DEF CalmControl, DisconnectBuffers, ConnectHandlers, Goto
  <2>5. ~ConnectTcp(u) /\ ~ConnectRead(u)
    BY DEF CalmControl, ConnectTcp, ConnectRead, Goto
  <2> QED
    BY <1>1, <2>1, <2>2, <2>3, <2>4, <2>5 DEF UserCall, UserStep, CalmNext
<1>2. ASSUME NEW w \in Workers,
             ReadEvent(w) \/ DropEvent(w) \/ MalformedEvent(w) \/ HandlerStep(w)
      PROVE  CalmNext
  <2>1. ~DropEvent(w) /\ ~MalformedEvent(w)
    BY DEF FaultFree, CalmControl, DropEvent, MalformedEvent
  <2>2. /\ ~DropBuffers(w) /\ ~DropCheck(w) /\ ~DropSet(w) /\ ~DropLock(w)
        /\ ~ReconnectSleep(w) /\ ~ReconnectStart(w) /\ ~ReconnectCheck(w)
    BY DEF CalmControl, DropBuffers, DropCheck, DropSet, DropLock,
           ReconnectSleep, ReconnectStart, ReconnectCheck, Goto
  <2>3. /\ ~ReAuth(w) /\ ~ReSelect(w) /\ ~ResendMove(w) /\ ~ResendOne(w)
        /\ ~ReconnectCommit(w) /\ ~ReconnectStop(w) /\ ~GiveUp(w)
        /\ ~DropEnd(w) /\ ~HandlerReturns(w) /\ ~ConnectHandlers(w)
    BY DEF CalmControl, ReAuth, ReSelect, ResendMove, ResendOne, ReconnectCommit,
           ReconnectStop, GiveUp, DropEnd, HandlerReturns, ConnectHandlers, Goto
  <2>4. ~ConnectTcp(w) /\ ~ConnectRead(w)
    BY DEF CalmControl, ConnectTcp, ConnectRead, Goto
  <2> QED
    BY <1>2, <2>1, <2>2, <2>3, <2>4 DEF HandlerStep, CalmNext
<1>3. ASSUME NEW d \in Detached, DetachedStep(d) PROVE CalmNext
  BY <1>3 DEF CalmControl, DetachedStep, FailCall, FailDone, FailNotify, Goto
<1> QED
  BY <1>1, <1>2, <1>3 DEF Next

(***************************************************************************)
(* Facts about sequences, one per way a step rewrites the equation.  They  *)
(* are stated with Cat and Joined, which stay folded wherever a lemma is   *)
(* used: the provers rewrite \o too eagerly to instantiate facts about it. *)
(***************************************************************************)
\* Concatenation: type and units.
LEMMA CatFacts ==
  ASSUME NEW C, NEW s \in Seq(C), NEW t \in Seq(C)
  PROVE  /\ Cat(s, t) \in Seq(C)
         /\ Cat(s, <<>>) = s
         /\ Cat(<<>>, s) = s
BY ConcatProperties, ConcatEmptySeq DEF Cat

\* Concatenation associates.
LEMMA CatAssociates ==
  ASSUME NEW C, NEW s \in Seq(C), NEW t \in Seq(C), NEW u \in Seq(C)
  PROVE  Cat(Cat(s, t), u) = Cat(s, Cat(t, u))
BY ConcatAssociative DEF Cat

\* Appending to the second part appends to the whole.
LEMMA CatAppend ==
  ASSUME NEW C, NEW s \in Seq(C), NEW t \in Seq(C), NEW c \in C
  PROVE  Cat(s, Append(t, c)) = Append(Cat(s, t), c)
<1>1. <<c>> \in Seq(C) /\ Cat(s, t) \in Seq(C)
  BY CatFacts
<1>2. Append(t, c) = Cat(t, <<c>>) /\ Append(Cat(s, t), c) = Cat(Cat(s, t), <<c>>)
  BY <1>1, AppendIsConcat DEF Cat
<1>3. \A r \in Seq(C) : Cat(Cat(s, t), r) = Cat(s, Cat(t, r))
  BY CatAssociates
<1> QED
  BY ONLY <1>1, <1>2, <1>3

\* The replies to come are a sequence of commands.
LEMMA JoinedTyped ==
  ASSUME NEW C, NEW h \in Seq(C), NEW a \in Seq(C), NEW w \in Seq(C), NEW b \in Seq(C)
  PROVE  Joined(h, a, w, b) \in Seq(C)
BY CatFacts DEF Joined

\* send(): a command joins the end of the send buffer.
LEMMA JoinedBuffer ==
  ASSUME NEW C, NEW h \in Seq(C), NEW a \in Seq(C), NEW w \in Seq(C),
         NEW b \in Seq(C), NEW c \in C
  PROVE  Joined(h, a, w, Extend(b, c)) = Extend(Joined(h, a, w, b), c)
<1>1. Cat(w, b) \in Seq(C) /\ Cat(a, Cat(w, b)) \in Seq(C)
  BY CatFacts
<1>2. Cat(w, Append(b, c)) = Append(Cat(w, b), c)
  BY CatAppend
<1>3. Cat(a, Append(Cat(w, b), c)) = Append(Cat(a, Cat(w, b)), c)
  BY <1>1, CatAppend
<1>4. Cat(h, Append(Cat(a, Cat(w, b)), c)) = Append(Cat(h, Cat(a, Cat(w, b))), c)
  BY <1>1, CatAppend
<1> QED
  BY <1>2, <1>3, <1>4 DEF Joined, Extend

\* commit(): the send buffer moves to the wire.
LEMMA JoinedWrite ==
  ASSUME NEW C, NEW h \in Seq(C), NEW a \in Seq(C), NEW w \in Seq(C), NEW b \in Seq(C)
  PROVE  Joined(h, a, w \o b, <<>>) = Joined(h, a, w, b)
<1>1. Cat(w, b) \in Seq(C) /\ w \o b = Cat(w, b)
  BY CatFacts DEF Cat
<1>2. Cat(Cat(w, b), <<>>) = Cat(w, b)
  BY <1>1, CatFacts
<1> QED
  BY <1>1, <1>2 DEF Joined

\* A read moves the first n replies from the wire to the available ones.
LEMMA JoinedRead ==
  ASSUME NEW C, NEW h \in Seq(C), NEW a \in Seq(C), NEW w \in Seq(C),
         NEW b \in Seq(C), NEW n \in 0 .. Len(w)
  PROVE  Joined(h, a \o SubSeq(w, 1, n), SubSeq(w, n + 1, Len(w)), b)
           = Joined(h, a, w, b)
<1> SUFFICES ASSUME NEW x, NEW y, x = SubSeq(w, 1, n), y = SubSeq(w, n + 1, Len(w))
             PROVE  Joined(h, a \o x, y, b) = Joined(h, a, w, b)
  OBVIOUS
<1>1. x \in Seq(C) /\ y \in Seq(C)
  BY ReadSplits
<1>2. Cat(x, y) = w
  <2>1. Len(w) \in Nat /\ 1 \in 1 .. Len(w) + 1 /\ n \in 1 - 1 .. Len(w)
        /\ Len(w) \in n .. Len(w)
    OBVIOUS
  <2>2. x \o y = SubSeq(w, 1, Len(w))
    BY <2>1, ConcatAdjacentSubSeq
  <2> QED
    BY <2>2, SubSeqFull DEF Cat
<1>3. a \o x = Cat(a, x)
  BY DEF Cat
<1>4. a \in Seq(C) /\ b \in Seq(C)
  OBVIOUS
<1>5. Cat(y, b) \in Seq(C)
  BY ONLY <1>1, <1>4, CatFacts
<1>6. Cat(Cat(a, x), Cat(y, b)) = Cat(a, Cat(x, Cat(y, b)))
  BY ONLY <1>1, <1>4, <1>5, CatAssociates
<1>7. Cat(x, Cat(y, b)) = Cat(Cat(x, y), b)
  BY ONLY <1>1, <1>4, CatAssociates
<1> QED
  BY ONLY <1>2, <1>3, <1>6, <1>7 DEF Joined

\* The first available reply goes to the hands of the worker.
LEMMA JoinedTake ==
  ASSUME NEW C, NEW a \in Seq(C), a # <<>>, NEW w \in Seq(C), NEW b \in Seq(C)
  PROVE  Joined(<<Head(a)>>, Tail(a), w, b) = Joined(<<>>, a, w, b)
<1> SUFFICES ASSUME NEW x, NEW t, NEW r,
                    x = <<Head(a)>>, t = Tail(a), r = Cat(w, b)
             PROVE  Cat(x, Cat(t, r)) = Cat(<<>>, Cat(a, r))
  BY DEF Joined
<1>1. x \in Seq(C) /\ t \in Seq(C)
  BY HeadTailProperties
<1>2. Cat(x, t) = a
  BY DEF Cat
<1>3. r \in Seq(C)
  BY CatFacts
<1>4. Cat(x, Cat(t, r)) = Cat(Cat(x, t), r)
  BY ONLY <1>1, <1>3, CatAssociates
<1>5. Cat(a, r) \in Seq(C)
  BY <1>3, CatFacts
<1>6. Cat(<<>>, Cat(a, r)) = Cat(a, r)
  BY ONLY <1>5, CatFacts
<1> QED
  BY ONLY <1>2, <1>4, <1>6

\* connection_receive_handler: the front command is the one replied to.
LEMMA JoinedPop ==
  ASSUME NEW C, NEW x \in C, NEW a \in Seq(C), NEW w \in Seq(C), NEW b \in Seq(C)
  PROVE  Splits(Joined(Single(x), a, w, b), x, Joined(<<>>, a, w, b))
<1>1. ASSUME NEW r \in Seq(C)
      PROVE  Cat(<<x>>, r) # <<>> /\ Head(Cat(<<x>>, r)) = x /\ Tail(Cat(<<x>>, r)) = r
  BY DEF Cat
<1>2. Cat(a, Cat(w, b)) \in Seq(C)
  BY CatFacts
<1>3. Cat(<<>>, Cat(a, Cat(w, b))) = Cat(a, Cat(w, b))
  BY <1>2, CatFacts
<1> QED
  BY <1>1, <1>2, <1>3 DEF Joined, Single, Splits

(***************************************************************************)
(* Preservation, one lemma per conjunct.                                   *)
(***************************************************************************)
\* No step leaves the fault-free part of the program.
LEMMA CalmControlNext ==
  ASSUME FaultFree, TypeInv, CalmControl, CalmNext
  PROVE  CalmControl'
<1> USE ThreadsAssumption
    DEF CalmControl, Threads, TypeInv, TypeOK, ControlOK, reconVars, histVars,
        connVars
<1>1. ASSUME NEW u \in Users, NEW c \in Cmds, Send(u, c) PROVE CalmControl'
  BY <1>1 DEF Send, Goto, BufferCommand
<1>2. ASSUME NEW u \in Users, SendPush(u) PROVE CalmControl'
  BY <1>2 DEF SendPush, Goto
<1>3. ASSUME NEW u \in Users, NEW o \in {"commit", "sync", "timed"}, Commit(u, o)
      PROVE  CalmControl'
  BY <1>3 DEF Commit, Goto, AfterCommit
<1>4. ASSUME NEW u \in Users, TryCommit(u) PROVE CalmControl'
  BY <1>4 DEF TryCommit, WriteBuffer, WriteFails, Goto, AfterCommit
<1>5. ASSUME NEW u \in Users, SyncLock(u) PROVE CalmControl'
  BY <1>5 DEF SyncLock, Goto
<1>6. ASSUME NEW u \in Users, SyncBlock(u) PROVE CalmControl'
  BY <1>6 DEF SyncBlock, Goto
<1>7. ASSUME NEW u \in Users, SyncReturn(u) PROVE CalmControl'
  BY <1>7 DEF SyncReturn, Goto
<1>8. ASSUME NEW u \in Users, SyncTimeout(u) PROVE CalmControl'
  BY <1>8 DEF SyncTimeout, Goto
<1>9. ASSUME NEW w \in Workers, ReadEvent(w) PROVE CalmControl'
  BY <1>9 DEF ReadEvent, ReadReplies, Polled, Goto
<1>10. ASSUME NEW w \in Workers, TakeReply(w) PROVE CalmControl'
  BY <1>10 DEF TakeReply, PopReply, Goto
<1>11. ASSUME NEW w \in Workers, EndRead(w) PROVE CalmControl'
  BY <1>11 DEF EndRead, NextRead, ReleaseFd, Goto
<1>12. ASSUME NEW w \in Workers, ReceiveLock(w) PROVE CalmControl'
  BY <1>12 DEF ReceiveLock, Goto
<1>13. ASSUME NEW w \in Workers, ReceiveCall(w) PROVE CalmControl'
  BY <1>13 DEF ReceiveCall, Goto
<1>14. ASSUME NEW w \in Workers, ReceiveDone(w) PROVE CalmControl'
  BY <1>14 DEF ReceiveDone, NotifyAll
<1> QED
  BY <1>1, <1>2, <1>3, <1>4, <1>5, <1>6, <1>7, <1>8, <1>9, <1>10, <1>11, <1>12,
     <1>13, <1>14 DEF CalmNext

\* All parts of the equation are sequences of commands.
LEMMA FifoTypes ==
  ASSUME TypeInv
  PROVE  /\ m_commands \in Seq(AllCmds) /\ avail \in Seq(AllCmds)
         /\ wire \in Seq(AllCmds) /\ m_buffer \in Seq(AllCmds)
         /\ Handed \in Seq(AllCmds)
<1>1. /\ m_commands \in Seq(AllCmds) /\ avail \in Seq(AllCmds)
      /\ wire \in Seq(AllCmds) /\ m_buffer \in Seq(AllCmds)
  BY DEF TypeInv, TypeOK, DataOK, ConnTypeOK, QueuesOK
<1>2. Handed \in Seq(AllCmds)
  <2>1. CASE reader \in Workers /\ pc[reader] = "rlock"
    <3>1. rep[reader] \in AllCmds
      BY <2>1 DEF TypeInv, Held
    <3> QED
      BY <2>1, <3>1 DEF Handed
  <2> QED
    BY <2>1 DEF Handed
<1> QED
  BY <1>1, <1>2

\* Every step keeps the queue and the replies to come equal.
LEMMA FifoNext ==
  ASSUME TypeInv, MutexOwner, Attached, Fifo, CalmNext
  PROVE  Fifo'
<1> USE ThreadsAssumption
<1>t. /\ m_commands \in Seq(AllCmds) /\ avail \in Seq(AllCmds)
      /\ wire \in Seq(AllCmds) /\ m_buffer \in Seq(AllCmds)
      /\ Handed \in Seq(AllCmds)
  BY FifoTypes
<1>f. Queued = Joined(Handed, avail, wire, m_buffer)
  BY DEF Fifo
<1>p. pc \in [Threads -> UserLabels \cup WorkerLabels \cup DetachedLabels]
      /\ cur \in [Threads -> AllCmds \cup {None}]
      /\ rep \in [Workers -> AllCmds \cup {None}]
      /\ reader \in Workers \cup {None}
  BY DEF TypeInv, TypeOK, ControlOK, DataOK, ConnTypeOK, QueuesOK
<1>n. None \notin Users /\ None \notin Workers
  BY DEF Threads
<1>1. ASSUME NEW u \in Users, NEW c \in Cmds, Send(u, c) PROVE Fifo'
  <2>1. Handed' = Handed /\ avail' = avail /\ wire' = wire
        /\ m_buffer' = Append(m_buffer, c)
    BY <1>1, <1>p, <1>n DEF Send, BufferCommand, Goto, Handed, Threads
  <2>2. Queued = m_commands
    BY <1>1, <1>n DEF Send, Queued
  <2>3. Queued' = Append(m_commands, c)
    BY <1>1, <1>p DEF Send, Goto, Queued, Threads, queueVars
  <2>4. c \in AllCmds
    BY DEF AllCmds
  <2>5. Joined(Handed, avail, wire, m_buffer')
          = Append(Joined(Handed, avail, wire, m_buffer), c)
    <3>1. Joined(Handed, avail, wire, Extend(m_buffer, c))
            = Extend(Joined(Handed, avail, wire, m_buffer), c)
      BY <1>t, <2>4, JoinedBuffer
    <3> QED
      BY ONLY <2>1, <3>1 DEF Extend
  <2> QED
    BY ONLY <1>f, <2>1, <2>2, <2>3, <2>5 DEF Fifo
<1>2. ASSUME NEW u \in Users, SendPush(u) PROVE Fifo'
  <2>1. Handed' = Handed /\ avail' = avail /\ wire' = wire /\ m_buffer' = m_buffer
    BY <1>2, <1>p, <1>n DEF SendPush, connVars, Goto, Handed, Threads
  <2>2. mutex = u
    BY <1>2 DEF SendPush, Goto, MutexOwner, Locked, UserLocked, Threads
  <2>3. Queued = Append(m_commands, cur[u])
    BY <1>2, <2>2 DEF SendPush, Goto, Queued
  <2>4. Queued' = Append(m_commands, cur[u])
    BY <1>2, <1>n DEF SendPush, Queued
  <2> QED
    BY ONLY <1>f, <2>1, <2>3, <2>4 DEF Fifo
<1>3. ASSUME NEW u \in Users, NEW o \in {"commit", "sync", "timed"}, Commit(u, o)
      PROVE  Fifo'
  <2>1. Handed' = Handed /\ avail' = avail /\ wire' = wire /\ m_buffer' = m_buffer
    BY <1>3, <1>p, <1>n DEF Commit, connVars, Goto, Handed, Threads
  <2>2. Queued' = Queued
    BY <1>3, <1>p DEF Commit, Begin, Goto, Queued, AfterCommit, queueVars, Threads
  <2> QED
    BY ONLY <1>f, <2>1, <2>2 DEF Fifo
<1>4. ASSUME NEW u \in Users, TryCommit(u) PROVE Fifo'
  <2>1. Handed' = Handed /\ avail' = avail /\ wire' = wire \o m_buffer
        /\ m_buffer' = <<>>
    BY <1>4, <1>p, <1>n DEF TryCommit, WriteBuffer, WriteFails, Goto, Handed, Threads,
                localVars, Attached
  <2>2. Queued' = Queued
    BY <1>4, <1>p DEF TryCommit, Goto, Queued, AfterCommit, queueVars,
                            localVars, Threads
  <2>3. Joined(Handed, avail, wire \o m_buffer, <<>>)
          = Joined(Handed, avail, wire, m_buffer)
    BY <1>t, JoinedWrite
  <2> QED
    BY ONLY <1>f, <2>1, <2>2, <2>3 DEF Fifo
<1>5. ASSUME NEW u \in Users, SyncLock(u) \/ SyncBlock(u) \/ SyncReturn(u) \/ SyncTimeout(u)
      PROVE  Fifo'
  <2>1. Handed' = Handed /\ avail' = avail /\ wire' = wire /\ m_buffer' = m_buffer
    BY <1>5, <1>p, <1>n DEF SyncLock, SyncBlock, SyncReturn, SyncTimeout, connVars,
                                  localVars, Goto, Handed, Threads
  <2>2. CASE SyncLock(u)
    <3>1. Queued = m_commands /\ Queued' = m_commands
      BY <2>2, <1>p, <1>n DEF SyncLock, Goto, Queued, queueVars, Threads
    <3> QED
      BY ONLY <1>f, <2>1, <3>1 DEF Fifo
  <2>3. CASE SyncBlock(u)
    <3>1. mutex = u
      BY <2>3 DEF SyncBlock, Goto, MutexOwner, Locked, UserLocked, Threads
    <3>2. Queued = m_commands /\ Queued' = m_commands
      BY <2>3, <3>1, <1>n DEF SyncBlock, Goto, Queued, queueVars
    <3> QED
      BY ONLY <1>f, <2>1, <3>2 DEF Fifo
  <2>4. CASE SyncReturn(u)
    <3>1. Queued' = Queued
      BY <2>4, <1>p DEF SyncReturn, Goto, Queued, queueVars, localVars, Threads
    <3> QED
      BY ONLY <1>f, <2>1, <3>1 DEF Fifo
  <2>5. CASE SyncTimeout(u)
    <3>1. Queued' = Queued
      BY <2>5, <1>p DEF SyncTimeout, Goto, Queued, queueVars, localVars, Threads
    <3> QED
      BY ONLY <1>f, <2>1, <3>1 DEF Fifo
  <2> QED
    BY <1>5, <2>2, <2>3, <2>4, <2>5
<1>6. ASSUME NEW w \in Workers, ReadEvent(w) PROVE Fifo'
  <2>1. PICK n \in 1 .. Len(wire) : ReadReplies(w, n)
    BY <1>6 DEF ReadEvent
  <2>2. n \in 0 .. Len(wire)
    BY <1>t
  <2>3. Handed = <<>> /\ Handed' = <<>>
    BY <1>6, <2>1, <1>p, <1>n DEF ReadEvent, ReadReplies, Polled, Goto, Handed, Threads
  <2>4. /\ avail' = avail \o SubSeq(wire, 1, n)
        /\ wire' = SubSeq(wire, n + 1, Len(wire))
        /\ m_buffer' = m_buffer
    BY <2>1 DEF ReadReplies
  <2>5. Queued' = Queued
    BY <1>6, <1>p DEF ReadEvent, Goto, Queued, queueVars, localVars, Threads
  <2>6. Joined(Handed, avail \o SubSeq(wire, 1, n), SubSeq(wire, n + 1, Len(wire)),
               m_buffer) = Joined(Handed, avail, wire, m_buffer)
    BY <1>t, <2>2, JoinedRead
  <2> QED
    BY ONLY <1>f, <2>3, <2>4, <2>5, <2>6 DEF Fifo
<1>7. ASSUME NEW w \in Workers, TakeReply(w) PROVE Fifo'
  <2>1. reader = w
    BY <1>7 DEF TakeReply, Goto, Attached
  <2>2. Handed = <<>> /\ Handed' = <<Head(avail)>>
    BY <1>7, <2>1, <1>p DEF TakeReply, PopReply, Goto, Handed, Attached, Threads
  <2>3. avail # <<>> /\ avail' = Tail(avail) /\ wire' = wire /\ m_buffer' = m_buffer
    BY <1>7 DEF TakeReply, PopReply
  <2>4. Queued' = Queued
    BY <1>7, <1>p DEF TakeReply, Goto, Queued, queueVars, Threads
  <2>5. Joined(<<Head(avail)>>, Tail(avail), wire, m_buffer)
          = Joined(<<>>, avail, wire, m_buffer)
    BY <1>t, <2>3, JoinedTake
  <2> QED
    BY ONLY <1>f, <2>2, <2>3, <2>4, <2>5 DEF Fifo
<1>8. ASSUME NEW w \in Workers, EndRead(w) PROVE Fifo'
  <2>1. reader = w
    BY <1>8 DEF EndRead, Goto, Attached
  <2>2. Handed = <<>> /\ Handed' = <<>>
    BY <1>8, <2>1, <1>n DEF EndRead, NextRead, ReleaseFd, Goto, Handed
  <2>3. avail' = avail /\ wire' = wire /\ m_buffer' = m_buffer
    BY <1>8 DEF EndRead, NextRead
  <2>4. Queued' = Queued
    BY <1>8, <1>p DEF EndRead, Goto, Queued, queueVars, localVars, Threads
  <2> QED
    BY ONLY <1>f, <2>2, <2>3, <2>4 DEF Fifo
<1>9. ASSUME NEW w \in Workers, ReceiveLock(w) PROVE Fifo'
  <2>1. reader = w /\ rep[w] \in AllCmds
    BY <1>9 DEF ReceiveLock, Goto, Attached, TypeInv, Held
  <2>2. Handed = <<rep[w]>> /\ Handed' = <<>>
    BY <1>9, <2>1, <1>p DEF ReceiveLock, Goto, Handed, connVars, Threads
  <2>3. avail' = avail /\ wire' = wire /\ m_buffer' = m_buffer
    BY <1>9 DEF ReceiveLock, connVars
  <2>4. Queued = m_commands /\ Queued' = m_commands'
    BY <1>9, <1>n DEF ReceiveLock, Queued
  <2>5. m_commands' = IF m_commands = <<>> THEN <<>> ELSE Tail(m_commands)
    BY <1>9 DEF ReceiveLock
  <2>6. /\ Queued # <<>>
        /\ Tail(Queued) = Joined(<<>>, avail, wire, m_buffer)
    <3>1. Splits(Joined(Single(rep[w]), avail, wire, m_buffer), rep[w],
                 Joined(<<>>, avail, wire, m_buffer))
      BY <1>t, <2>1, JoinedPop
    <3> QED
      BY ONLY <1>f, <2>2, <3>1 DEF Single, Splits
  <2> QED
    BY ONLY <2>2, <2>3, <2>4, <2>5, <2>6 DEF Fifo
<1>10. ASSUME NEW w \in Workers, ReceiveCall(w) PROVE Fifo'
  <2>1. reader = w
    BY <1>10 DEF ReceiveCall, Goto, Attached
  <2>2. Handed = <<>> /\ Handed' = <<>>
    BY <1>10, <2>1, <1>p DEF ReceiveCall, Goto, Handed, connVars, Threads
  <2>3. avail' = avail /\ wire' = wire /\ m_buffer' = m_buffer
    BY <1>10 DEF ReceiveCall, connVars
  <2>4. Queued' = Queued
    BY <1>10, <1>p DEF ReceiveCall, Goto, Queued, queueVars, Threads
  <2> QED
    BY ONLY <1>f, <2>2, <2>3, <2>4 DEF Fifo
<1>11. ASSUME NEW w \in Workers, ReceiveDone(w) PROVE Fifo'
  <2>1. reader = w
    BY <1>11 DEF ReceiveDone, Attached
  <2>2. Handed = <<>> /\ Handed' = <<>>
    BY <1>11, <2>1, <1>p DEF ReceiveDone, NotifyAll, Handed, connVars, Threads
  <2>3. avail' = avail /\ wire' = wire /\ m_buffer' = m_buffer
    BY <1>11 DEF ReceiveDone, connVars
  <2>4. Queued = m_commands /\ Queued' = m_commands
    BY <1>11, <1>n DEF ReceiveDone, Queued
  <2> QED
    BY ONLY <1>f, <2>2, <2>3, <2>4 DEF Fifo
<1> QED
  BY <1>1, <1>2, <1>3, <1>4, <1>5, <1>6, <1>7, <1>8, <1>9, <1>10, <1>11 DEF CalmNext

\* The command popped is the one the reply answers.
LEMMA MatchedNext ==
  ASSUME TypeInv, MutexOwner, Attached, Fifo, Matched, CalmNext
  PROVE  Matched'
<1> USE ThreadsAssumption
<1>p. pc \in [Threads -> UserLabels \cup WorkerLabels \cup DetachedLabels]
      /\ cur \in [Threads -> AllCmds \cup {None}]
      /\ rep \in [Workers -> AllCmds \cup {None}]
  BY DEF TypeInv, TypeOK, ControlOK, DataOK
<1>1. ASSUME NEW u \in Users, NEW c \in Cmds, Send(u, c) PROVE Matched'
  BY <1>1, <1>p DEF Send, Goto, Matched, Threads
<1>2. ASSUME NEW u \in Users, SendPush(u) PROVE Matched'
  BY <1>2, <1>p DEF SendPush, Goto, Matched, Threads
<1>3. ASSUME NEW u \in Users, NEW o \in {"commit", "sync", "timed"}, Commit(u, o)
      PROVE  Matched'
  BY <1>3, <1>p DEF Commit, Goto, Matched, Threads
<1>4. ASSUME NEW u \in Users, TryCommit(u) PROVE Matched'
  BY <1>4, <1>p DEF TryCommit, Goto, Matched, Threads, localVars
<1>5. ASSUME NEW u \in Users, SyncLock(u) PROVE Matched'
  BY <1>5, <1>p DEF SyncLock, Goto, Matched, Threads, localVars
<1>6. ASSUME NEW u \in Users, SyncBlock(u) PROVE Matched'
  BY <1>6, <1>p DEF SyncBlock, Goto, Matched, Threads, localVars
<1>7. ASSUME NEW u \in Users, SyncReturn(u) PROVE Matched'
  BY <1>7, <1>p DEF SyncReturn, Goto, Matched, Threads, localVars
<1>8. ASSUME NEW u \in Users, SyncTimeout(u) PROVE Matched'
  BY <1>8, <1>p DEF SyncTimeout, Goto, Matched, Threads, localVars
<1>9. ASSUME NEW w \in Workers, ReadEvent(w) PROVE Matched'
  BY <1>9, <1>p DEF ReadEvent, Goto, Matched, Threads, localVars
<1>10. ASSUME NEW w \in Workers, TakeReply(w) PROVE Matched'
  <2>1. \A x \in Workers : pc'[x] = "call" => x # w /\ pc[x] = "call"
    BY <1>10, <1>p DEF TakeReply, Goto, Threads
  <2>2. cur' = cur /\ \A x \in Workers : x # w => rep'[x] = rep[x]
    BY <1>10, <1>p DEF TakeReply
  <2> QED
    BY <2>1, <2>2 DEF Matched
<1>11. ASSUME NEW w \in Workers, EndRead(w) PROVE Matched'
  BY <1>11, <1>p DEF EndRead, Goto, Matched, Threads, localVars
<1>12. ASSUME NEW w \in Workers, ReceiveLock(w) PROVE Matched'
  <2>1. reader = w /\ rep[w] \in AllCmds
    BY <1>12 DEF ReceiveLock, Goto, Attached, TypeInv, Held
  <2>2. Handed = <<rep[w]>>
    BY <1>12, <2>1 DEF ReceiveLock, Goto, Handed
  <2>3. Queued = m_commands
    BY <1>12 DEF ReceiveLock, Queued, Threads
  <2>4. Queued = Joined(Handed, avail, wire, m_buffer)
    BY DEF Fifo
  <2>5. avail \in Seq(AllCmds) /\ wire \in Seq(AllCmds) /\ m_buffer \in Seq(AllCmds)
    BY FifoTypes
  <2>6. Queued # <<>> /\ Head(Queued) = rep[w]
    <3>1. Splits(Joined(Single(rep[w]), avail, wire, m_buffer), rep[w],
                 Joined(<<>>, avail, wire, m_buffer))
      BY <2>1, <2>5, JoinedPop
    <3> QED
      BY ONLY <2>2, <2>4, <3>1 DEF Single, Splits
  <2>7. cur' = [cur EXCEPT ![w] = IF m_commands = <<>> THEN None ELSE Head(m_commands)]
    BY <1>12 DEF ReceiveLock
  <2>8. cur' = [cur EXCEPT ![w] = rep[w]]
    BY ONLY <2>3, <2>6, <2>7
  <2> QED
    BY <1>12, <1>p, <2>8 DEF ReceiveLock, Goto, Matched, Threads
<1>13. ASSUME NEW w \in Workers, ReceiveCall(w) PROVE Matched'
  BY <1>13, <1>p DEF ReceiveCall, Goto, Matched, Threads
<1>14. ASSUME NEW w \in Workers, ReceiveDone(w) PROVE Matched'
  BY <1>14, <1>p DEF ReceiveDone, NotifyAll, Matched, Threads, localVars
<1> QED
  BY <1>1, <1>2, <1>3, <1>4, <1>5, <1>6, <1>7, <1>8, <1>9, <1>10, <1>11, <1>12,
     <1>13, <1>14 DEF CalmNext

\* Only connection_receive_handler calls callbacks.
LEMMA RepliesNext ==
  ASSUME TypeInv, Matched, ReplyMatches, CalmNext
  PROVE  ReplyMatches'
<1>1. ASSUME NEW w \in Workers, ReceiveCall(w) PROVE ReplyMatches'
  <2>1. calls \in [Cmds -> Seq(AllCmds \cup {Failure})] /\ rep[w] \in AllCmds
    BY <1>1 DEF TypeInv, TypeOK, DataOK, Held, ReceiveCall, Goto
  <2>2. cur[w] = rep[w]
    BY <1>1 DEF ReceiveCall, Goto, Matched
  <2>3. calls' = IF rep[w] \in Cmds
                 THEN [calls EXCEPT ![rep[w]] = Append(@, rep[w])] ELSE calls
    BY <1>1, <2>2 DEF ReceiveCall, RunCallback
  <2>4. ASSUME NEW c \in Cmds PROVE Range(calls'[c]) \subseteq {c, Failure}
    <3>1. Range(calls[c]) \subseteq {c, Failure}
      BY DEF ReplyMatches
    <3>2. CASE c = rep[w]
      <4>1. calls'[c] = Append(calls[c], c) /\ calls[c] \in Seq(AllCmds \cup {Failure})
        BY <2>1, <2>3, <3>2
      <4> QED
        BY <3>1, <4>1 DEF Range
    <3>3. CASE c # rep[w]
      <4>1. calls'[c] = calls[c]
        BY <2>1, <2>3, <3>3
      <4> QED
        BY <3>1, <4>1
    <3> QED
      BY <3>2, <3>3
  <2> QED
    BY <2>4 DEF ReplyMatches
<1>2. ASSUME NEW u \in Users, NEW c \in Cmds, Send(u, c) PROVE calls' = calls
  BY <1>2 DEF Send
<1>3. ASSUME NEW u \in Users,
             \/ SendPush(u)
             \/ \E o \in {"commit", "sync", "timed"} : Commit(u, o)
             \/ TryCommit(u)
             \/ SyncLock(u) \/ SyncBlock(u) \/ SyncReturn(u) \/ SyncTimeout(u)
      PROVE  calls' = calls
  BY <1>3 DEF SendPush, Commit, TryCommit, SyncLock, SyncBlock, SyncReturn,
              SyncTimeout, histVars
<1>4. ASSUME NEW w \in Workers,
             ReadEvent(w) \/ TakeReply(w) \/ EndRead(w) \/ ReceiveLock(w) \/ ReceiveDone(w)
      PROVE  calls' = calls
  BY <1>4 DEF ReadEvent, TakeReply, EndRead, ReceiveLock, ReceiveDone, histVars
<1>5. calls' = calls => ReplyMatches'
  BY DEF ReplyMatches
<1> QED
  BY <1>1, <1>2, <1>3, <1>4, <1>5 DEF CalmNext

\* The invariant holds when connect() has returned.
LEMMA PipeInit == ASSUME FaultFree PROVE Init => PipeInv
<1> SUFFICES ASSUME Init PROVE PipeInv
  OBVIOUS
<1>1. CalmControl
  BY ThreadsAssumption DEF FaultFree, Init, ConnInit, CalmControl, Threads
<1>2. Matched
  BY DEF Init, Matched, Threads
<1>3. ReplyMatches
  BY DEF Init, ReplyMatches, Range
<1>4. Queued = <<>> /\ Handed = <<>> /\ avail = <<>> /\ wire = <<>> /\ m_buffer = <<>>
  BY ThreadsAssumption DEF Init, ConnInit, Queued, Handed, Threads
<1>5. Joined(<<>>, <<>>, <<>>, <<>>) = <<>>
  <2>1. <<>> \in Seq({})
    OBVIOUS
  <2> QED
    BY <2>1, CatFacts DEF Joined
<1> QED
  BY <1>1, <1>2, <1>3, <1>4, <1>5 DEF PipeInv, Fifo

\* The invariant is inductive, given the types and mutual exclusion.
LEMMA PipeNext ==
  ASSUME FaultFree
  PROVE  TypeInv /\ MutexOwner /\ PipeInv /\ [Next]_vars => PipeInv'
<1> SUFFICES ASSUME TypeInv, MutexOwner, PipeInv, [Next]_vars PROVE PipeInv'
  OBVIOUS
<1>1. CASE Next
  <2>1. CalmNext
    BY <1>1, CalmSteps DEF PipeInv
  <2>2. CalmControl'
    BY <2>1, CalmControlNext DEF PipeInv
  <2>a. Attached
    BY DEF PipeInv, CalmControl, Attached
  <2>3. Fifo'
    BY <2>1, <2>a, FifoNext DEF PipeInv
  <2>4. Matched'
    BY <2>1, <2>a, MatchedNext DEF PipeInv
  <2>5. ReplyMatches'
    BY <2>1, RepliesNext DEF PipeInv
  <2> QED
    BY <2>2, <2>3, <2>4, <2>5 DEF PipeInv
<1>2. CASE UNCHANGED vars
  BY <1>2 DEF PipeInv, CalmControl, Fifo, Queued, Handed, Matched, ReplyMatches,
              vars, connVars, queueVars, reconVars, localVars, histVars
<1> QED
  BY <1>1, <1>2

\* On a connection that is neither lost nor closed, and whatever the threads of
\* the application and of the io_service do, no callback is called with the
\* reply to another command: connection_receive_handler pops the command the
\* reply answers.
THEOREM PipelineReplies == ASSUME FaultFree PROVE Spec => []ReplyMatches
<1>1. PipeInv => ReplyMatches
  BY DEF PipeInv
<1>2. Spec => []TypeInv
  BY TypeInit, TypeNext, PTL DEF Spec
<1>3. Init => PipeInv
  BY PipeInit
<1>4. TypeInv /\ MutexOwner /\ PipeInv /\ [Next]_vars => PipeInv'
  BY PipeNext
<1> QED
  BY <1>1, <1>2, <1>3, <1>4, MutualExclusion, PTL DEF Spec

\* At rest, the equation is the one QueuesAgree states.
LEMMA QueuesFromFifo ==
  ASSUME TypeInv, Attached, Fifo
  PROVE  QueuesAgree
<1> SUFFICES ASSUME QueuesAtRest PROVE m_commands = InHand \o avail \o wire \o m_buffer
  BY DEF QueuesAgree
<1>t. /\ m_commands \in Seq(AllCmds) /\ avail \in Seq(AllCmds)
      /\ wire \in Seq(AllCmds) /\ m_buffer \in Seq(AllCmds)
      /\ Handed \in Seq(AllCmds)
  BY FifoTypes
<1>1. Queued = m_commands
  BY DEF QueuesAtRest, Queued
<1>2. Handed = InHand
  <2>1. CASE reader \in Workers /\ pc[reader] = "rlock"
    <3>1. Dispatching = {reader}
      BY <2>1 DEF Dispatching, Attached
    <3>2. (CHOOSE w \in Dispatching : TRUE) = reader
      BY <3>1
    <3> QED
      BY <2>1, <3>1, <3>2 DEF Handed, InHand
  <2>2. CASE ~(reader \in Workers /\ pc[reader] = "rlock")
    <3>1. Dispatching = {}
      BY <2>2 DEF Dispatching, Attached
    <3> QED
      BY <2>2, <3>1 DEF Handed, InHand
  <2> QED
    BY <2>1, <2>2
<1>3. Joined(Handed, avail, wire, m_buffer)
        = Cat(Cat(Cat(Handed, avail), wire), m_buffer)
  <2>1. Cat(wire, m_buffer) \in Seq(AllCmds) /\ Cat(Handed, avail) \in Seq(AllCmds)
    BY <1>t, CatFacts
  <2>2. Cat(Handed, Cat(avail, Cat(wire, m_buffer)))
          = Cat(Cat(Handed, avail), Cat(wire, m_buffer))
    BY <1>t, <2>1, CatAssociates
  <2>3. Cat(Cat(Handed, avail), Cat(wire, m_buffer))
          = Cat(Cat(Cat(Handed, avail), wire), m_buffer)
    BY <1>t, <2>1, CatAssociates
  <2> QED
    BY ONLY <2>2, <2>3 DEF Joined
<1>4. Queued = Joined(Handed, avail, wire, m_buffer)
  BY DEF Fifo
<1> QED
  BY ONLY <1>1, <1>2, <1>3, <1>4 DEF Cat

\* On a connection that is neither lost nor closed the queue of callbacks and
\* the replies to come agree, in order, whenever no thread is inside send().
THEOREM PipelineQueues == ASSUME FaultFree PROVE Spec => []QueuesAgree
<1>1. TypeInv /\ PipeInv => QueuesAgree
  BY QueuesFromFifo DEF PipeInv, CalmControl, Attached
<1>2. Spec => []TypeInv
  BY TypeInit, TypeNext, PTL DEF Spec
<1>3. Init => PipeInv
  BY PipeInit
<1>4. TypeInv /\ MutexOwner /\ PipeInv /\ [Next]_vars => PipeInv'
  BY PipeNext
<1> QED
  BY <1>1, <1>2, <1>3, <1>4, MutualExclusion, PTL DEF Spec
=============================================================================
