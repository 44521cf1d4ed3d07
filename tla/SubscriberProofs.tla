-------------------------- MODULE SubscriberProofs --------------------------
(***************************************************************************)
(* Theorems about Subscriber for any number of application threads,        *)
(* workers and names, any use of the operations and any number of lost     *)
(* connections, refusals and messages.                                     *)
(*                                                                         *)
(* That a callback only runs while its subscription exists rests on the    *)
(* mutex of its map: whoever changes the map takes it.  That the mutex of  *)
(* a running callback is the worker's rests in turn on the label of each   *)
(* worker saying what it holds.  The conjunction of the three invariants   *)
(* is inductive.                                                           *)
(***************************************************************************)
EXTENDS SubscriberProperties, TLAPS

SubscriberInv == TypeOK /\ MutexOwner /\ CallbackSubscribed

\* What a thread may do without a mutex changing hands: go to a label of its
\* own at which it holds what it held.
SameHold(l, m) ==
  /\ l \in BothLocked <=> m \in BothLocked
  /\ l = "lock2" <=> m = "lock2"
  /\ l # "callback" /\ m # "callback"

\* Most steps only move a thread between labels that hold the same mutexes.
LEMMA Move ==
  ASSUME SubscriberInv, NEW t \in Threads, NEW l,
         pc' = [pc EXCEPT ![t] = l],
         UNCHANGED <<m_subscribed, mutex, cb>>,
         t \in Users => l \in UserLabels,
         t \in Workers => l \in WorkerLabels /\ SameHold(pc[t], l)
  PROVE  SubscriberInv'
<1> USE SubscriberAssumption DEF SubscriberInv, Threads
<1>1. TypeOK'
  BY DEF TypeOK
<1>2. \A w \in Workers : /\ w # t => pc'[w] = pc[w]
                         /\ w = t => pc'[w] = l
  BY DEF TypeOK
<1>3. ASSUME NEW w \in Workers, NEW k \in Kinds
      PROVE  Holds(w, k)' <=> Holds(w, k)
  BY <1>2 DEF Holds, SameHold
<1>4. MutexOwner'
  BY <1>3 DEF MutexOwner
<1>5. CallbackSubscribed'
  BY <1>2 DEF CallbackSubscribed, SameHold
<1> QED
  BY <1>1, <1>4, <1>5

\* Steps that move nobody.
LEMMA Stay ==
  ASSUME SubscriberInv, UNCHANGED <<m_subscribed, mutex, cb, pc>>
  PROVE  SubscriberInv'
BY DEF SubscriberInv, TypeOK, MutexOwner, CallbackSubscribed, Holds

\* The maps are only changed under their mutex, which no callback of that map
\* can hold meanwhile.
LEMMA ChangeSubscriptions ==
  ASSUME SubscriberInv, UNCHANGED <<mutex, cb, pc>>,
         NEW k \in Kinds, mutex[k] = None,
         NEW S \in SUBSET Names,
         m_subscribed' = [m_subscribed EXCEPT ![k] = S]
  PROVE  SubscriberInv'
<1> USE SubscriberAssumption DEF SubscriberInv, Threads
<1>1. TypeOK'
  BY DEF TypeOK
<1>2. MutexOwner'
  BY DEF MutexOwner, Holds
<1>3. ASSUME NEW w \in Workers, pc'[w] = "callback"
      PROVE  cb'[w] # None /\ cb'[w][2] \in m_subscribed'[cb'[w][1]]
  <2>1. cb[w] \in Kinds \X Names /\ cb[w][2] \in m_subscribed[cb[w][1]]
    BY <1>3 DEF TypeOK, CallbackSubscribed
  <2>2. Holds(w, cb[w][1])
    BY <2>1, <1>3 DEF Holds, CallbackSubscribed
  <2>3. mutex[cb[w][1]] = w
    BY <2>1, <2>2 DEF MutexOwner
  <2>4. cb[w][1] # k
    BY <2>3, <1>3
  <2> QED
    BY <2>1, <2>4, <1>3 DEF TypeOK, CallbackSubscribed
<1>4. CallbackSubscribed'
  BY <1>3 DEF CallbackSubscribed
<1> QED
  BY <1>1, <1>2, <1>4

(***************************************************************************)
(* The steps in which a mutex changes hands, or the handler clears the     *)
(* maps.                                                                   *)
(***************************************************************************)
LEMMA LookupInv ==
  ASSUME SubscriberInv, NEW w \in Workers, NEW t \in Kinds \X Names, Lookup(w, t)
  PROVE  SubscriberInv'
<1> USE SubscriberAssumption DEF SubscriberInv, Threads
<1>1. /\ pc[w] = "dispatch"
      /\ mutex[t[1]] = None
      /\ UNCHANGED m_subscribed
      /\ t[1] \in Kinds
  BY DEF Lookup, Found, NotFound, Goto
<1>2. CASE /\ t[2] \notin m_subscribed[t[1]]
           /\ NotFound(w)
           /\ UNCHANGED mutex
  BY <1>1, <1>2, Move DEF NotFound, Goto, WorkerLabels, SameHold, BothLocked
<1>3. CASE /\ t[2] \in m_subscribed[t[1]]
           /\ Found(w, t)
           /\ mutex' = [mutex EXCEPT ![t[1]] = w]
  <2>1. /\ pc' = [pc EXCEPT ![w] = "callback"]
        /\ cb' = [cb EXCEPT ![w] = t]
    BY <1>3 DEF Found, Goto
  <2>2. TypeOK'
    BY <1>1, <1>3, <2>1 DEF TypeOK, WorkerLabels
  <2>3. t # None
    OBVIOUS
  <2>4. \A v \in Workers \ {w} : pc'[v] = pc[v] /\ cb'[v] = cb[v]
    BY <2>1 DEF TypeOK
  <2>5. pc'[w] = "callback" /\ cb'[w] = t
    BY <2>1 DEF TypeOK
  <2>6. \A k \in Kinds : ~Holds(w, k)
    BY <1>1 DEF Holds, BothLocked
  <2>7. \A k \in Kinds : Holds(w, k)' <=> k = t[1]
    BY <2>3, <2>5 DEF Holds, BothLocked
  <2>8. ASSUME NEW v \in Workers \ {w}, NEW k \in Kinds
        PROVE  Holds(v, k)' <=> Holds(v, k)
    BY <2>4 DEF Holds
  <2>9. ASSUME NEW v \in Workers, NEW k \in Kinds
        PROVE  Holds(v, k)' <=> mutex'[k] = v
    <3>1. CASE v = w
      BY <1>1, <1>3, <2>6, <2>7, <3>1 DEF MutexOwner, TypeOK
    <3>2. CASE v # w
      BY <1>1, <1>3, <2>8, <3>2 DEF MutexOwner, TypeOK
    <3> QED
      BY <3>1, <3>2
  <2>10. MutexOwner'
    BY <2>9 DEF MutexOwner
  <2>11. CallbackSubscribed'
    BY <1>1, <1>3, <2>3, <2>4, <2>5 DEF CallbackSubscribed
  <2> QED
    BY <2>2, <2>10, <2>11
<1> QED
  BY <1>2, <1>3 DEF Lookup

LEMMA CallbackReturnInv ==
  ASSUME SubscriberInv, NEW w \in Workers, CallbackReturn(w)
  PROVE  SubscriberInv'
<1> USE SubscriberAssumption DEF SubscriberInv, Threads
<1>1. /\ pc[w] = "callback"
      /\ pc' = [pc EXCEPT ![w] = "loop"]
      /\ mutex' = [mutex EXCEPT ![cb[w][1]] = None]
      /\ cb' = [cb EXCEPT ![w] = None]
      /\ UNCHANGED m_subscribed
  BY DEF CallbackReturn, Goto
<1>2. cb[w] # None /\ cb[w] \in Kinds \X Names
  BY <1>1 DEF CallbackSubscribed, TypeOK
<1>3. \A k \in Kinds : Holds(w, k) <=> k = cb[w][1]
  BY <1>1, <1>2 DEF Holds, BothLocked
<1>4. TypeOK'
  BY <1>1, <1>2 DEF TypeOK, WorkerLabels
<1>5. \A v \in Workers \ {w} : pc'[v] = pc[v] /\ cb'[v] = cb[v]
  BY <1>1 DEF TypeOK
<1>6. pc'[w] = "loop"
  BY <1>1 DEF TypeOK
<1>7. ASSUME NEW v \in Workers, NEW k \in Kinds
      PROVE  Holds(v, k)' <=> mutex'[k] = v
  <2>1. CASE v = w
    BY <1>1, <1>2, <1>3, <1>6, <2>1 DEF MutexOwner, TypeOK, Holds, BothLocked
  <2>2. CASE v # w
    <3>1. Holds(v, k)' <=> Holds(v, k)
      BY <1>5, <2>2 DEF Holds
    <3> QED
      BY <1>1, <1>2, <1>3, <2>2, <3>1 DEF MutexOwner, TypeOK
  <2> QED
    BY <2>1, <2>2
<1>8. MutexOwner'
  BY <1>7 DEF MutexOwner
<1>9. CallbackSubscribed'
  BY <1>1, <1>5, <1>6 DEF CallbackSubscribed
<1> QED
  BY <1>4, <1>8, <1>9

LEMMA DropLockInv ==
  ASSUME SubscriberInv, NEW w \in Workers, NEW k \in Kinds, DropLock(w, k)
  PROVE  SubscriberInv'
<1> USE SubscriberAssumption DEF SubscriberInv, Threads
<1> DEFINE from == IF k = "channel" THEN "lock1" ELSE "lock2"
           to == IF k = "channel" THEN "lock2" ELSE "dloop"
<1>1. /\ pc[w] = from
      /\ pc' = [pc EXCEPT ![w] = to]
      /\ mutex[k] = None
      /\ mutex' = [mutex EXCEPT ![k] = w]
      /\ UNCHANGED <<m_subscribed, cb>>
  BY DEF DropLock, Goto, localVars
<1>2. TypeOK'
  BY <1>1 DEF TypeOK, WorkerLabels
<1>3. \A v \in Workers \ {w} : pc'[v] = pc[v]
  BY <1>1 DEF TypeOK
<1>4. pc'[w] = to
  BY <1>1 DEF TypeOK
<1>5. \A j \in Kinds : Holds(w, j)' <=> Holds(w, j) \/ j = k
  BY <1>1, <1>4 DEF Holds, BothLocked, Kinds
<1>6. ASSUME NEW v \in Workers, NEW j \in Kinds
      PROVE  Holds(v, j)' <=> mutex'[j] = v
  <2>1. CASE v = w
    BY <1>1, <1>5, <2>1 DEF MutexOwner, TypeOK
  <2>2. CASE v # w
    <3>1. Holds(v, j)' <=> Holds(v, j)
      BY <1>1, <1>3, <2>2 DEF Holds
    <3> QED
      BY <1>1, <2>2, <3>1 DEF MutexOwner, TypeOK
  <2> QED
    BY <2>1, <2>2
<1>7. MutexOwner'
  BY <1>6 DEF MutexOwner
<1>8. CallbackSubscribed'
  BY <1>1, <1>3, <1>4 DEF CallbackSubscribed
<1> QED
  BY <1>2, <1>7, <1>8

\* The handler leaves the scope of its two lock_guards.
LEMMA Release ==
  ASSUME SubscriberInv, NEW w \in Workers, pc[w] \in BothLocked,
         pc' = [pc EXCEPT ![w] = "ret"], mutex' = Released,
         UNCHANGED <<m_subscribed, cb>>
  PROVE  SubscriberInv'
<1> USE SubscriberAssumption DEF SubscriberInv, Threads
<1>1. TypeOK'
  BY DEF TypeOK, WorkerLabels, Released
<1>2. \A k \in Kinds : mutex[k] = w
  BY DEF MutexOwner, Holds
<1>3. \A v \in Workers \ {w} : pc'[v] = pc[v]
  BY DEF TypeOK
<1>4. pc'[w] = "ret"
  BY DEF TypeOK
<1>5. ASSUME NEW v \in Workers, NEW k \in Kinds
      PROVE  ~Holds(v, k)' /\ mutex'[k] # v
  <2>1. mutex'[k] # v
    BY DEF Released
  <2>2. CASE v = w
    BY <1>4, <2>1, <2>2 DEF Holds, BothLocked
  <2>3. CASE v # w
    <3>1. ~Holds(v, k)
      BY <1>2, <2>3 DEF MutexOwner
    <3>2. Holds(v, k)' <=> Holds(v, k)
      BY <1>3, <2>3 DEF Holds
    <3> QED
      BY <2>1, <3>1, <3>2
  <2> QED
    BY <2>2, <2>3
<1>6. MutexOwner'
  BY <1>5 DEF MutexOwner
<1>7. CallbackSubscribed'
  BY <1>3, <1>4 DEF CallbackSubscribed
<1> QED
  BY <1>1, <1>6, <1>7

\* While the handler holds both mutexes, no callback runs.
LEMMA GiveUpInv ==
  ASSUME SubscriberInv, NEW w \in Workers, GiveUp(w)
  PROVE  SubscriberInv'
<1> USE SubscriberAssumption DEF SubscriberInv, Threads
<1>1. /\ pc[w] = "dfinal"
      /\ pc' = [pc EXCEPT ![w] = "dend"]
      /\ UNCHANGED <<mutex, cb>>
      /\ m_subscribed' \in [Kinds -> SUBSET Names]
  BY DEF GiveUp, Goto, TypeOK, localVars
<1>2. TypeOK'
  BY <1>1 DEF TypeOK, WorkerLabels
<1>3. \A v \in Workers \ {w} : pc'[v] = pc[v]
  BY <1>1 DEF TypeOK
<1>4. pc'[w] = "dend"
  BY <1>1 DEF TypeOK
<1>5. ASSUME NEW v \in Workers, NEW k \in Kinds
      PROVE  Holds(v, k)' <=> Holds(v, k)
  BY <1>1, <1>3, <1>4 DEF Holds, BothLocked
<1>6. MutexOwner'
  BY <1>1, <1>5 DEF MutexOwner
<1>7. ASSUME NEW v \in Workers, pc'[v] = "callback" PROVE FALSE
  <2>1. v # w /\ pc[v] = "callback"
    BY <1>3, <1>4, <1>7
  <2>2. cb[v] # None /\ cb[v][1] \in Kinds
    BY <2>1 DEF CallbackSubscribed, TypeOK
  <2>3. mutex[cb[v][1]] = v
    BY <2>1, <2>2 DEF MutexOwner, Holds
  <2>4. mutex[cb[v][1]] = w
    BY <1>1, <2>2 DEF MutexOwner, Holds, BothLocked
  <2> QED
    BY <2>1, <2>3, <2>4
<1>8. CallbackSubscribed'
  BY <1>7 DEF CallbackSubscribed
<1> QED
  BY <1>2, <1>6, <1>8

(***************************************************************************)
(* Every step.                                                             *)
(***************************************************************************)
LEMMA UserNext ==
  ASSUME SubscriberInv, NEW u \in Users, UserCall(u) \/ UserStep(u)
  PROVE  SubscriberInv'
<1> USE SubscriberAssumption
    DEF Threads, localVars, mapVars, UserLabels, AfterConnect
<1>1. u \in Threads /\ u \notin Workers
  OBVIOUS
<1>2. ASSUME NEW k \in Kinds, NEW x \in Names, Subscribe(u, k, x) PROVE SubscriberInv'
  <2> DEFINE S == m_subscribed[k] \cup {x}
  <2>1. S \in SUBSET Names
    BY DEF SubscriberInv, TypeOK
  <2>2. /\ UNCHANGED <<mutex, cb, pc>>
        /\ mutex[k] = None
        /\ m_subscribed' = [m_subscribed EXCEPT ![k] = S]
    BY <1>2 DEF Subscribe
  <2> HIDE DEF S
  <2> QED
    BY <2>1, <2>2, ChangeSubscriptions
<1>3. ASSUME NEW k \in Kinds, NEW x \in Names, Unsubscribe(u, k, x) PROVE SubscriberInv'
  <2> DEFINE S == m_subscribed[k] \ {x}
  <2>1. S \in SUBSET Names
    BY DEF SubscriberInv, TypeOK
  <2>2. /\ UNCHANGED <<mutex, cb, pc>>
        /\ mutex[k] = None
        /\ m_subscribed' = [m_subscribed EXCEPT ![k] = S]
    BY <1>3 DEF Unsubscribe
  <2> HIDE DEF S
  <2> QED
    BY <2>1, <2>2, ChangeSubscriptions
<1>4. ASSUME Auth(u) PROVE SubscriberInv'
  BY <1>4, Stay DEF Auth, Begin
<1>5. ASSUME Commit(u) PROVE SubscriberInv'
  BY <1>5, Stay DEF Commit
<1>6. ASSUME CancelReconnect(u) PROVE SubscriberInv'
  BY <1>6, Stay DEF CancelReconnect, Begin
<1>7. ASSUME NEW wait \in BOOLEAN, Disconnect(u, wait) PROVE SubscriberInv'
  BY <1>7, <1>1, Move DEF Disconnect, Goto, Begin
<1>8. ASSUME Connect(u) PROVE SubscriberInv'
  BY <1>8, <1>1, Move DEF Connect, Goto, Begin
<1>9. ASSUME DisconnectRemoved(u) PROVE SubscriberInv'
  BY <1>9, <1>1, Move DEF DisconnectRemoved, Goto
<1>10. ASSUME DisconnectBuffers(u) PROVE SubscriberInv'
  BY <1>10, <1>1, Move DEF DisconnectBuffers, Goto
<1>11. ASSUME ConnectTcp(u) PROVE SubscriberInv'
  BY <1>11, <1>1, Move DEF ConnectTcp, Goto
<1>12. ASSUME ConnectRead(u) PROVE SubscriberInv'
  BY <1>12, <1>1, Move DEF ConnectRead, Goto
<1>13. ASSUME ConnectHandlers(u) PROVE SubscriberInv'
  BY <1>13, <1>1, Move DEF ConnectHandlers, Goto
<1> QED
  BY <1>2, <1>3, <1>4, <1>5, <1>6, <1>7, <1>8, <1>9, <1>10, <1>11, <1>12, <1>13
     DEF UserCall, UserStep

LEMMA WorkerNext ==
  ASSUME SubscriberInv, NEW w \in Workers,
         ReadEvent(w) \/ DropEvent(w) \/ ReceiveStep(w) \/ DropStep(w)
  PROVE  SubscriberInv'
<1> USE SubscriberAssumption
    DEF Threads, localVars, mapVars, WorkerLabels, SameHold, BothLocked,
        AfterConnect
<1>1. w \in Threads /\ w \notin Users
  OBVIOUS
<1>2. ASSUME ReadEvent(w) PROVE SubscriberInv'
  BY <1>2, <1>1, Move DEF ReadEvent, Goto
<1>3. ASSUME DropEvent(w) PROVE SubscriberInv'
  BY <1>3, <1>1, Move DEF DropEvent, Goto
<1>4. ASSUME TakeReply(w) PROVE SubscriberInv'
  BY <1>4, <1>1, Move DEF TakeReply, Goto
<1>5. ASSUME EndRead(w) PROVE SubscriberInv'
  BY <1>5, <1>1, Move DEF EndRead, Goto
<1>6. ASSUME DispatchAuth(w) PROVE SubscriberInv'
  BY <1>6, <1>1, Move DEF DispatchAuth, Goto
<1>7. ASSUME AuthCall(w) PROVE SubscriberInv'
  BY <1>7, <1>1, Move DEF AuthCall, Goto
<1>8. ASSUME AuthForget(w) PROVE SubscriberInv'
  BY <1>8, <1>1, Move DEF AuthForget, Goto
<1>9. ASSUME DispatchNothing(w) PROVE SubscriberInv'
  BY <1>9, <1>1, Move DEF DispatchNothing, Goto
<1>10. ASSUME NEW t \in Kinds \X Names, Lookup(w, t) PROVE SubscriberInv'
  BY <1>10, LookupInv
<1>11. ASSUME CallbackReturn(w) PROVE SubscriberInv'
  BY <1>11, CallbackReturnInv
<1>12. ASSUME DropBuffers(w) PROVE SubscriberInv'
  BY <1>12, <1>1, Move DEF DropBuffers, Goto
<1>13. ASSUME DropCheck(w) PROVE SubscriberInv'
  BY <1>13, <1>1, Move DEF DropCheck, Goto
<1>14. ASSUME DropSet(w) PROVE SubscriberInv'
  BY <1>14, <1>1, Move DEF DropSet, Goto
<1>15. ASSUME NEW k \in Kinds, DropLock(w, k) PROVE SubscriberInv'
  BY <1>15, DropLockInv
<1>16. ASSUME ReconnectStart(w) PROVE SubscriberInv'
  BY <1>16, <1>1, Move DEF ReconnectStart, Goto
<1>17. ASSUME ConnectTcp(w) PROVE SubscriberInv'
  BY <1>17, <1>1, Move DEF ConnectTcp, Goto
<1>18. ASSUME ConnectRead(w) PROVE SubscriberInv'
  BY <1>18, <1>1, Move DEF ConnectRead, Goto
<1>19. ASSUME ConnectHandlers(w) PROVE SubscriberInv'
  BY <1>19, <1>1, Move DEF ConnectHandlers, Goto
<1>20. ASSUME ReconnectCheck(w) PROVE SubscriberInv'
  BY <1>20, <1>1, Move DEF ReconnectCheck, Goto
<1>21. ASSUME ReAuth(w) PROVE SubscriberInv'
  BY <1>21, <1>1, Move DEF ReAuth, Goto
<1>22. ASSUME ReSubscribe(w) PROVE SubscriberInv'
  BY <1>22, <1>1, Move DEF ReSubscribe, Goto
<1>23. ASSUME ReconnectCommit(w) PROVE SubscriberInv'
  <2>1. CASE Goto(w, "rcommit", "dloop") /\ UNCHANGED mutex
    BY <1>23, <1>1, <2>1, Move DEF ReconnectCommit, Goto
  <2>2. CASE Goto(w, "rcommit", "ret") /\ mutex' = Released
    BY <1>23, <2>2, Release DEF ReconnectCommit, Goto
  <2> QED
    BY <1>23, <2>1, <2>2 DEF ReconnectCommit
<1>27. ASSUME ReconnectStop(w) PROVE SubscriberInv'
  BY <1>27, <1>1, Move DEF ReconnectStop, Goto
<1>28. ASSUME GiveUp(w) PROVE SubscriberInv'
  BY <1>28, GiveUpInv
<1>24. ASSUME DropEnd(w) PROVE SubscriberInv'
  BY <1>24, <1>1, Move DEF DropEnd, Goto
<1>25. ASSUME DropUnlock(w) PROVE SubscriberInv'
  BY <1>25, Release DEF DropUnlock, Goto
<1>26. ASSUME HandlerReturns(w) PROVE SubscriberInv'
  BY <1>26, <1>1, Move DEF HandlerReturns, Goto
<1> QED
  BY <1>2, <1>3, <1>4, <1>5, <1>6, <1>7, <1>8, <1>9, <1>10, <1>11, <1>12, <1>13, <1>14, <1>15, <1>16, <1>17, <1>18, <1>19, <1>20, <1>21, <1>22, <1>23, <1>24, <1>25, <1>26, <1>27, <1>28
     DEF ReceiveStep, DropStep

LEMMA SubscriberInit == Init => SubscriberInv
BY SubscriberAssumption
   DEF Init, SubscriberInv, TypeOK, MutexOwner, CallbackSubscribed, Holds,
       Released, Threads, UserLabels, WorkerLabels, BothLocked

LEMMA SubscriberNext == SubscriberInv /\ [Next]_vars => SubscriberInv'
<1> SUFFICES ASSUME SubscriberInv, [Next]_vars PROVE SubscriberInv'
  OBVIOUS
<1>1. CASE \E u \in Users : UserCall(u) \/ UserStep(u)
  BY <1>1, UserNext
<1>2. CASE \E w \in Workers : ReadEvent(w) \/ DropEvent(w) \/ ReceiveStep(w)
                              \/ DropStep(w)
  BY <1>2, WorkerNext
<1>3. CASE \E c \in Names : Publish(c)
  BY <1>3, Stay DEF Publish, mapVars, localVars
<1>4. CASE UNCHANGED vars
  BY <1>4, Stay DEF vars, mapVars, localVars
<1> QED
  BY <1>1, <1>2, <1>3, <1>4 DEF Next

LEMMA SubscriberInvariant == Spec => []SubscriberInv
BY SubscriberInit, SubscriberNext, PTL DEF Spec

\* Threads stay within their labels, and the maps and mutexes keep their
\* types.
THEOREM TypeCorrect == Spec => []TypeOK
<1>1. SubscriberInv => TypeOK
  BY DEF SubscriberInv
<1> QED
  BY <1>1, SubscriberInvariant, PTL

\* The disconnection handler and the callbacks of the subscriber exclude each
\* other as the mutexes of the two maps say, on every path, the exception
\* that leaves reconnect() included.
THEOREM MutexesHeld == Spec => []MutexOwner
<1>1. SubscriberInv => MutexOwner
  BY DEF SubscriberInv
<1> QED
  BY <1>1, SubscriberInvariant, PTL

\* unsubscribe(), and the clearing of the subscriptions when reconnection is
\* given up, wait for a running callback: no callback runs without its
\* subscription.
THEOREM CallbackHasSubscription == Spec => []CallbackSubscribed
<1>1. SubscriberInv => CallbackSubscribed
  BY DEF SubscriberInv
<1> QED
  BY <1>1, SubscriberInvariant, PTL
=============================================================================
