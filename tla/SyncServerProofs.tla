-------------------------- MODULE SyncServerProofs --------------------------
(***************************************************************************)
(* CSyncServer with any number of connections: the queues and their        *)
(* semaphores agree, every connection object has one holder, a served one  *)
(* is in m_setConnected, and ShutDown leaves nobody behind.                *)
(***************************************************************************)
EXTENDS SyncServer, FiniteSetTheorems, SequenceTheorems, TLAPS

\* How far ShutDown has come tells which threads have ended.
Stages ==
  /\ m_bContinueLoop => main \in {"starting", "up"}
  /\ main \in {"joinReturner", "joinPool", "done"} => listen = "ended"
  /\ main \in {"joinPool", "done"} => returner = "ended"
  /\ main = "done" => IsEmpty(m_queReady) /\ \A w \in Workers : worker[w] = "ended"

N(b) == IF b THEN 1 ELSE 0
Posting == {w \in Workers : worker[w] = "post"}

\* A semaphore is never ahead of the items: every one it counts, every one a wait
\* has taken and every one about to be posted is in the queue.
ReadyCounted ==
  main # "done" =>
    Len(m_queReady.items) >= m_queReady.count + N(listen = "pop") + N(listen = "post")
                             + N(returner = "post")

DisconnectedCounted ==
  Len(m_queDisconnected.items) >=
    m_queDisconnected.count + N(returner = "pop") + Cardinality(Posting)

\* Who has a connection in its hands, by its label.
Carried ==
  /\ newConnection \in Connections <=> listen \in {"assign", "create", "retry", "insert"}
  /\ returner \in {"test", "erase", "push"} => returned \in Connections
  /\ returner \in {"wait", "pop", "post"} => returned = NoConnection
  /\ \A w \in Workers :
       running[w] \in Connections
         <=> worker[w] \in {"given", "session", "broadcast", "served", "closing"}

CountInv == TypeOK /\ Carried /\ Stages /\ ReadyCounted /\ DisconnectedCounted

-----------------------------------------------------------------------------
(* Types and counts                                                        *)

\* SetToSeq enumerates the connections without repetition.
LEMMA Enumeration ==
  /\ SetToSeq(Connections) \in Seq(Connections)
  /\ \A i, j \in 1 .. Len(SetToSeq(Connections)) :
       SetToSeq(Connections)[i] = SetToSeq(Connections)[j] => i = j
  /\ \A c \in Connections : \E i \in 1 .. Len(SetToSeq(Connections)) : SetToSeq(Connections)[i] = c
<1> DEFINE n == Cardinality(Connections)
           q == SetToSeq(Connections)
<1>1. n \in Nat /\ ExistsBijection(1 .. n, Connections)
  BY FS_CardinalityType, ServerAssumption
<1>2. PICK f \in Bijection(1 .. n, Connections) : TRUE
  BY <1>1 DEF ExistsBijection
<1>3. f \in [1 .. n -> Connections] /\ IsInjective(f)
  BY <1>2 DEF Bijection, Injection, IsInjective
<1>4. q \in [1 .. n -> Connections] /\ IsInjective(q)
  BY <1>3 DEF SetToSeq
<1>5. q \in Seq(Connections) /\ Len(q) = n
  BY <1>1, <1>4
<1>6. \A i, j \in 1 .. n : q[i] = q[j] => i = j
  BY <1>4 DEF IsInjective
<1>7. \A c \in Connections : \E i \in 1 .. n : q[i] = c
  <2>1. q \in Injection(1 .. n, Connections)
    BY <1>4, <1>6 DEF Injection, IsInjective
  <2>2. Cardinality(1 .. n) = n /\ IsFiniteSet(1 .. n)
    BY <1>1, FS_Interval
  <2>3. q \in Surjection(1 .. n, Connections)
    BY <1>1, <2>1, <2>2, FS_Injection, ServerAssumption
  <2> QED BY <2>3 DEF Surjection
<1> QED BY <1>5, <1>6, <1>7

\* What the steps of Push and Pop do to a queue.
LEMMA QueueOps ==
  ASSUME NEW q \in Queues(Connections)
  PROVE  /\ q.items \in Seq(Connections) /\ q.count \in Nat /\ Len(q.items) \in Nat
         /\ \A x \in Connections :
              /\ PushItem(q, x) \in Queues(Connections)
              /\ PushItem(q, x).items = Append(q.items, x)
              /\ Len(PushItem(q, x).items) = Len(q.items) + 1
              /\ PushItem(q, x).count = q.count
         /\ /\ PushPost(q) \in Queues(Connections) /\ PushPost(q).items = q.items
            /\ PushPost(q).count <= q.count + 1
         /\ CanWait(q) => /\ PopWait(q) \in Queues(Connections) /\ PopWait(q).items = q.items
                          /\ PopWait(q).count = q.count - 1
         /\ ~IsEmpty(q) => /\ PopFirst(q) \in Connections /\ PopRest(q) \in Queues(Connections)
                           /\ PopRest(q).items = Tail(q.items)
                           /\ Len(PopRest(q).items) = Len(q.items) - 1
                           /\ PopRest(q).count = q.count
         /\ IsEmpty(q) <=> Len(q.items) = 0
         /\ Destroy(q) \in Queues(Connections) /\ Destroy(q).items = q.items
         /\ Destroy(q).count = q.count
<1> USE DEF Queues
<1>1. q.items \in Seq(Connections) /\ q.count \in Nat /\ Len(q.items) \in Nat
  BY LenProperties
<1>2. \A x \in Connections : Append(q.items, x) \in Seq(Connections)
                          /\ Len(Append(q.items, x)) = Len(q.items) + 1
  BY <1>1, AppendProperties
<1>3. ~IsEmpty(q) => /\ Head(q.items) \in Connections /\ Tail(q.items) \in Seq(Connections)
                     /\ Len(Tail(q.items)) = Len(q.items) - 1
  BY <1>1, HeadTailProperties DEF IsEmpty
<1>4. \A s \in Seq(Connections) :
        LET r == [q EXCEPT !.items = s]
        IN  r \in Queues(Connections) /\ r.items = s /\ r.count = q.count
  OBVIOUS
<1>5. \A n \in Nat :
        LET r == [q EXCEPT !.count = n]
        IN  r \in Queues(Connections) /\ r.items = q.items /\ r.count = n
  OBVIOUS
<1> HIDE DEF Queues
<1>8. IsEmpty(q) <=> Len(q.items) = 0
  BY <1>1, EmptySeq DEF IsEmpty
<1>11. \A x \in Connections :
              /\ PushItem(q, x) \in Queues(Connections)
              /\ PushItem(q, x).items = Append(q.items, x)
              /\ Len(PushItem(q, x).items) = Len(q.items) + 1
              /\ PushItem(q, x).count = q.count
  BY <1>2, <1>4 DEF PushItem
<1>12. PushPost(q) \in Queues(Connections) /\ PushPost(q).items = q.items
       /\ PushPost(q).count <= q.count + 1
  BY <1>1, <1>5 DEF PushPost
<1>13. CanWait(q) => /\ PopWait(q) \in Queues(Connections) /\ PopWait(q).items = q.items
                     /\ PopWait(q).count = q.count - 1
  BY <1>1, <1>5 DEF PopWait, CanWait
<1>14. ~IsEmpty(q) => /\ PopFirst(q) \in Connections /\ PopRest(q) \in Queues(Connections)
                      /\ PopRest(q).items = Tail(q.items)
                      /\ Len(PopRest(q).items) = Len(q.items) - 1
                      /\ PopRest(q).count = q.count
  BY <1>3, <1>4 DEF PopRest, PopFirst
<1>15. Destroy(q) \in Queues(Connections) /\ Destroy(q).items = q.items /\ Destroy(q).count = q.count
  BY DEF Destroy, Queues
<1> QED BY <1>1, <1>8, <1>11, <1>12, <1>13, <1>14, <1>15

\* A thread that has waited finds an item.
LEMMA FoundItem == CountInv => PopFindsItem
<1> SUFFICES ASSUME CountInv PROVE PopFindsItem
  OBVIOUS
<1> USE DEF CountInv
<1>1. listen = "pop" => ~IsEmpty(m_queReady)
  <2> SUFFICES ASSUME listen = "pop" PROVE ~IsEmpty(m_queReady)
    OBVIOUS
  <2>1. main # "done"
    BY DEF Stages
  <2> QED BY <2>1, QueueOps DEF ReadyCounted, N, TypeOK
<1>2. returner = "pop" => ~IsEmpty(m_queDisconnected)
  <2>1. IsFiniteSet(Posting)
    BY ServerAssumption, FS_Subset DEF Posting
  <2>2. Cardinality(Posting) \in Nat
    BY <2>1, FS_CardinalityType
  <2> QED BY <2>2, QueueOps DEF DisconnectedCounted, N, TypeOK
<1> QED BY <1>1, <1>2 DEF PopFindsItem

\* Initially the queues hold what their semaphores count, and nobody has ended.
LEMMA InitCount == Init => CountInv
<1> SUFFICES ASSUME Init PROVE CountInv
  OBVIOUS
<1> DEFINE q == SetToSeq(Connections)
<1>1. q \in Seq(Connections) /\ Len(q) \in Nat
  BY Enumeration, LenProperties
<1>2. <<>> \in Seq(Connections) /\ Len(<<>>) = 0
  BY EmptySeq
<1>3. Filled(q) \in Queues(Connections) /\ Filled(<<>>) \in Queues(Connections)
  BY <1>1, <1>2 DEF Filled, Queues
<1> HIDE DEF q
<1>4. TypeOK
  BY <1>3, ServerAssumption DEF Init, TypeOK, q
<1>5. Posting = {} /\ Cardinality(Posting) = 0
  BY FS_EmptySet DEF Init, Posting
<1>6. ReadyCounted /\ DisconnectedCounted
  BY <1>1, <1>2, <1>5 DEF Init, ReadyCounted, DisconnectedCounted, Filled, N, q
<1> QED BY <1>4, <1>6, ServerAssumption DEF CountInv, Stages, Carried, Init

\* The steps of the listen thread keep the types.
LEMMA ListenTypes ==
  ASSUME CountInv, Listen \/ Accept \/ AcceptFails
  PROVE  TypeOK' /\ Carried'
<1>1. PopFindsItem
  BY FoundItem
<1>2. m_queReady \in Queues(Connections) /\ m_queDisconnected \in Queues(Connections)
  BY DEF CountInv, TypeOK
<1> USE ServerAssumption
    DEF CountInv, TypeOK, Carried, queues, shutting, init, listener, giveback, pool, GotoListen, GotoWorker
<1>3. CASE ReadyWait
  BY <1>2, <1>3, QueueOps DEF ReadyWait
<1>4. CASE ReadyPop
  BY <1>1, <1>2, <1>4, QueueOps DEF ReadyPop, PopFindsItem
<1>5. CASE AssignFails
  BY <1>2, <1>5, QueueOps DEF AssignFails
<1>6. CASE AssignFailsPost
  BY <1>2, <1>6, QueueOps DEF AssignFailsPost
<1>7. CASE CreateConnectionThread
  BY <1>7 DEF CreateConnectionThread
<1>8. CASE Insert
  BY <1>8 DEF Insert
<1>9. CASE \/ ListenLoop \/ Refuse \/ Allocate \/ Assign \/ NoThread
           \/ SkipThread \/ SkipConnection \/ Accept \/ AcceptFails
  BY <1>9 DEF ListenLoop, Refuse, Allocate, Assign, NoThread, SkipThread, SkipConnection,
              Accept, AcceptFails
<1> QED BY <1>3, <1>4, <1>5, <1>6, <1>7, <1>8, <1>9 DEF Listen

\* The steps of the disconnect thread keep the types.
LEMMA ReturnerTypes ==
  ASSUME CountInv, Disconnect
  PROVE  TypeOK' /\ Carried'
<1>1. PopFindsItem
  BY FoundItem
<1>2. m_queReady \in Queues(Connections) /\ m_queDisconnected \in Queues(Connections)
  BY DEF CountInv, TypeOK
<1> USE ServerAssumption
    DEF CountInv, TypeOK, Carried, queues, shutting, init, listener, giveback, pool, GotoReturner
<1>3. CASE DisconnectWait
  BY <1>2, <1>3, QueueOps DEF DisconnectWait
<1>4. CASE DisconnectPop
  BY <1>1, <1>2, <1>4, QueueOps DEF DisconnectPop, PopFindsItem
<1>5. CASE ReturnPush
  BY <1>2, <1>5, QueueOps DEF ReturnPush
<1>6. CASE ReturnPost
  BY <1>2, <1>6, QueueOps DEF ReturnPost
<1>7. CASE DisconnectWaitFails \/ DisconnectTest \/ Erase
  BY <1>7 DEF DisconnectWaitFails, DisconnectTest, Erase
<1> QED BY <1>3, <1>4, <1>5, <1>6, <1>7 DEF Disconnect

\* The steps of a worker keep the types.
LEMMA WorkerTypes ==
  ASSUME CountInv, NEW w \in Workers, Work(w) \/ LeaveSession(w) \/ Broadcast(w)
  PROVE  TypeOK' /\ Carried'
<1>1. m_queReady \in Queues(Connections) /\ m_queDisconnected \in Queues(Connections)
  BY DEF CountInv, TypeOK
<1> USE ServerAssumption
    DEF CountInv, TypeOK, Carried, queues, shutting, init, listener, giveback, pool, GotoWorker
<1>2. CASE ClosePush(w)
  <2>1. running[w] \in Connections
    BY <1>2 DEF ClosePush
  <2>2. m_queDisconnected' \in Queues(Connections)
    BY <1>1, <1>2, <2>1, QueueOps DEF ClosePush
  <2> QED BY <1>2, <2>2 DEF ClosePush
<1>3. CASE ClosePost(w)
  BY <1>1, <1>3, QueueOps DEF ClosePost
<1>4. CASE Escape(w)
  BY <1>4 DEF Escape
<1>5. CASE Start(w) \/ BroadcastEnds(w) \/ ReturnThread(w) \/ LeaveSession(w) \/ Broadcast(w)
  BY <1>5 DEF Start, BroadcastEnds, ReturnThread, LeaveSession, Broadcast
<1> QED BY <1>2, <1>3, <1>4, <1>5 DEF Work

\* The steps of StartUp and ShutDown keep the types.
LEMMA MainTypes ==
  ASSUME CountInv, StartUpReturns \/ ShutDown \/ Shut
  PROVE  TypeOK' /\ Carried'
<1>1. m_queReady \in Queues(Connections) /\ m_queDisconnected \in Queues(Connections)
  BY DEF CountInv, TypeOK
<1> USE DEF CountInv, TypeOK, Carried, queues, shutting, init, listener, giveback, pool, GotoMain
<1>2. CASE StartUpReturns \/ ShutDown \/ CloseListenSocket \/ JoinReturner
  BY <1>2 DEF StartUpReturns, ShutDown, CloseListenSocket, JoinReturner
<1>3. CASE JoinListen
  BY <1>1, <1>3, QueueOps DEF JoinListen
<1>4. CASE DeleteConnections
  <2>1. m_queReady' \in Queues(Connections)
    BY <1>1, <1>4, EmptySeq DEF DeleteConnections, Queues
  <2> QED BY <1>4, <2>1 DEF DeleteConnections
<1> QED BY <1>2, <1>3, <1>4 DEF Shut

\* Every step keeps the types.
LEMMA TypeStep == CountInv /\ [Next]_vars => TypeOK' /\ Carried'
<1> SUFFICES ASSUME CountInv, [Next]_vars PROVE TypeOK' /\ Carried'
  OBVIOUS
<1>1. CASE UNCHANGED vars
  BY <1>1 DEF vars, CountInv, TypeOK, Carried
<1> QED BY <1>1, ListenTypes, ReturnerTypes, WorkerTypes, MainTypes DEF Next

\* Each thread ends before ShutDown goes on, and stays so.
LEMMA StageStep == CountInv /\ [Next]_vars => Stages'
<1> SUFFICES ASSUME CountInv, [Next]_vars PROVE Stages'
  OBVIOUS
<1> USE DEF CountInv, Stages, queues, shutting, init, listener, giveback, pool,
            GotoListen, GotoReturner, GotoMain, GotoWorker
<1>1. CASE UNCHANGED vars
  BY <1>1 DEF vars
<1>2. CASE Listen \/ Accept \/ AcceptFails
  <2>1. UNCHANGED <<main, m_bContinueLoop, returner>> /\ listen # "ended"
    BY <1>2 DEF Listen, Accept, AcceptFails, ListenLoop, Refuse, Allocate, ReadyWait, ReadyPop,
                AssignFails, AssignFailsPost, Assign, CreateConnectionThread, NoThread,
                SkipThread, SkipConnection, Insert
  <2> QED BY <2>1
<1>3. CASE Disconnect
  <2>1. UNCHANGED <<main, m_bContinueLoop, listen>> /\ returner # "ended"
    BY <1>3 DEF Disconnect, DisconnectWait, DisconnectWaitFails, DisconnectPop, DisconnectTest,
                Erase, ReturnPush, ReturnPost
  <2> QED BY <2>1
<1>4. ASSUME NEW w \in Workers, Work(w) \/ LeaveSession(w) \/ Broadcast(w) PROVE Stages'
  <2>1. UNCHANGED <<main, m_bContinueLoop, listen, returner>> /\ worker[w] # "ended"
    BY <1>4 DEF Work, Start, BroadcastEnds, ClosePush, ClosePost, ReturnThread, Escape,
                LeaveSession, Broadcast
  <2> QED BY <2>1
<1>5. CASE StartUpReturns \/ ShutDown \/ Shut
  <2>1. DeleteConnections => IsEmpty(m_queReady')
    BY DEF DeleteConnections, IsEmpty, TypeOK, Queues
  <2> QED BY <1>5, <2>1 DEF StartUpReturns, ShutDown, Shut, CloseListenSocket, JoinListen,
                            JoinReturner, DeleteConnections
<1> QED BY <1>1, <1>2, <1>3, <1>4, <1>5 DEF Next

\* What m_queReady's semaphore counts stays covered by its items.
LEMMA ReadyStep == CountInv /\ [Next]_vars => ReadyCounted'
<1> SUFFICES ASSUME CountInv, [Next]_vars PROVE ReadyCounted'
  OBVIOUS
<1> DEFINE q == m_queReady
<1>1. PopFindsItem
  BY FoundItem
<1>2. q \in Queues(Connections) /\ q.count \in Nat /\ Len(q.items) \in Nat
  BY QueueOps DEF CountInv, TypeOK
<1> USE DEF CountInv, ReadyCounted, N, queues, shutting, init, listener, giveback, pool,
            GotoListen, GotoReturner, GotoMain, GotoWorker
<1>3. CASE UNCHANGED vars
  BY <1>3 DEF vars
<1>4. CASE Listen \/ Accept \/ AcceptFails
  <2>1. UNCHANGED <<main, returner>> /\ main # "done"
    BY <1>4 DEF Listen, Accept, AcceptFails, ListenLoop, Refuse, Allocate, ReadyWait, ReadyPop,
                AssignFails, AssignFailsPost, Assign, CreateConnectionThread, NoThread,
                SkipThread, SkipConnection, Insert, Stages
  <2>2. CASE ReadyWait
    BY <1>2, <2>1, <2>2, QueueOps DEF ReadyWait
  <2>3. CASE ReadyPop
    BY <1>1, <1>2, <2>1, <2>3, QueueOps DEF ReadyPop, PopFindsItem
  <2>4. CASE AssignFails
    <3>1. newConnection \in Connections
      BY <2>4 DEF AssignFails, Carried
    <3> QED BY <1>2, <2>1, <2>4, <3>1, QueueOps DEF AssignFails
  <2>5. CASE AssignFailsPost
    BY <1>2, <2>1, <2>5, QueueOps DEF AssignFailsPost
  <2>6. CASE \/ ListenLoop \/ Refuse \/ Allocate \/ Assign \/ CreateConnectionThread
             \/ NoThread \/ SkipThread \/ SkipConnection \/ Insert \/ Accept \/ AcceptFails
    <3>1. UNCHANGED m_queReady /\ listen \notin {"pop", "post"} /\ listen' \notin {"pop", "post"}
      BY <2>6 DEF Accept, AcceptFails, ListenLoop, Refuse, Allocate, Assign,
                  CreateConnectionThread, NoThread, SkipThread, SkipConnection, Insert
    <3> QED BY <2>1, <3>1
  <2> QED BY <1>4, <2>2, <2>3, <2>4, <2>5, <2>6 DEF Listen
<1>5. CASE Disconnect
  <2>1. UNCHANGED <<main, listen>> /\ main # "done"
    BY <1>5 DEF Disconnect, DisconnectWait, DisconnectWaitFails, DisconnectPop, DisconnectTest,
                Erase, ReturnPush, ReturnPost, Stages
  <2>2. CASE ReturnPush
    <3>1. returned \in Connections
      BY <2>2 DEF ReturnPush, Carried
    <3> QED BY <1>2, <2>1, <2>2, <3>1, QueueOps DEF ReturnPush
  <2>3. CASE ReturnPost
    BY <1>2, <2>1, <2>3, QueueOps DEF ReturnPost
  <2>4. CASE DisconnectWait \/ DisconnectWaitFails \/ DisconnectPop \/ DisconnectTest \/ Erase
    <3>1. UNCHANGED m_queReady /\ returner # "post" /\ returner' # "post"
      BY <2>4 DEF DisconnectWait, DisconnectWaitFails, DisconnectPop, DisconnectTest, Erase
    <3> QED BY <2>1, <3>1
  <2> QED BY <1>5, <2>2, <2>3, <2>4 DEF Disconnect
<1>6. ASSUME NEW w \in Workers, Work(w) \/ LeaveSession(w) \/ Broadcast(w) PROVE ReadyCounted'
  <2>1. UNCHANGED <<main, listen, returner, m_queReady>>
    BY <1>6 DEF Work, Start, BroadcastEnds, ClosePush, ClosePost, ReturnThread, Escape,
                LeaveSession, Broadcast
  <2> QED BY <2>1
<1>7. CASE StartUpReturns \/ ShutDown \/ Shut
  <2>1. UNCHANGED <<listen, returner>> /\ main # "done" /\ (UNCHANGED m_queReady \/ main' = "done")
    BY <1>7 DEF StartUpReturns, ShutDown, Shut, CloseListenSocket, JoinListen, JoinReturner,
                DeleteConnections
  <2> QED BY <2>1
<1> QED BY <1>3, <1>4, <1>5, <1>6, <1>7 DEF Next

\* Workers enter and leave the set of those about to post one at a time.
LEMMA PostingChange ==
  ASSUME NEW w \in Workers
  PROVE  /\ IsFiniteSet(Posting) /\ Cardinality(Posting) \in Nat
         /\ w \notin Posting /\ Posting' = Posting \cup {w}
              => Cardinality(Posting') = Cardinality(Posting) + 1
         /\ w \in Posting /\ Posting' = Posting \ {w}
              => Cardinality(Posting') = Cardinality(Posting) - 1
<1>1. IsFiniteSet(Posting)
  BY ServerAssumption, FS_Subset DEF Posting
<1> QED BY <1>1, FS_CardinalityType, FS_AddElement, FS_RemoveElement

\* What m_queDisconnected's semaphore counts stays covered by its items; a post that
\* comes after Destroy is lost, the other way round never happens.
LEMMA DisconnectedStep == CountInv /\ [Next]_vars => DisconnectedCounted'
<1> SUFFICES ASSUME CountInv, [Next]_vars PROVE DisconnectedCounted'
  OBVIOUS
<1> DEFINE q == m_queDisconnected
<1>1. PopFindsItem
  BY FoundItem
<1>2. q \in Queues(Connections) /\ q.count \in Nat /\ Len(q.items) \in Nat
  BY QueueOps DEF CountInv, TypeOK
<1>3. Cardinality(Posting) \in Nat
  <2>1. IsFiniteSet(Posting)
    BY ServerAssumption, FS_Subset DEF Posting
  <2> QED BY <2>1, FS_CardinalityType
<1> USE DEF CountInv, DisconnectedCounted, N, queues, shutting, init, listener, giveback, pool,
            GotoListen, GotoReturner, GotoMain, GotoWorker
<1>4. CASE UNCHANGED vars
  BY <1>4 DEF vars, Posting
<1>5. CASE Listen \/ Accept \/ AcceptFails
  <2>1. UNCHANGED <<returner, m_queDisconnected>>
    BY <1>5 DEF Listen, Accept, AcceptFails, ListenLoop, Refuse, Allocate, ReadyWait, ReadyPop,
                AssignFails, AssignFailsPost, Assign, CreateConnectionThread, NoThread,
                SkipThread, SkipConnection, Insert
  <2>2. Posting' = Posting
    BY <1>5 DEF Listen, Accept, AcceptFails, ListenLoop, Refuse, Allocate, ReadyWait, ReadyPop,
                AssignFails, AssignFailsPost, Assign, CreateConnectionThread, NoThread,
                SkipThread, SkipConnection, Insert, Posting, TypeOK
  <2> QED BY <2>1, <2>2
<1>6. CASE Disconnect
  <2>1. Posting' = Posting
    BY <1>6 DEF Disconnect, DisconnectWait, DisconnectWaitFails, DisconnectPop, DisconnectTest,
                Erase, ReturnPush, ReturnPost, Posting
  <2>2. CASE DisconnectWait
    BY <1>2, <1>3, <2>1, <2>2, QueueOps DEF DisconnectWait
  <2>3. CASE DisconnectPop
    BY <1>1, <1>2, <1>3, <2>1, <2>3, QueueOps DEF DisconnectPop, PopFindsItem
  <2>4. CASE DisconnectWaitFails \/ DisconnectTest \/ Erase \/ ReturnPush \/ ReturnPost
    <3>1. UNCHANGED m_queDisconnected /\ returner # "pop" /\ returner' # "pop"
      BY <2>4 DEF DisconnectWaitFails, DisconnectTest, Erase, ReturnPush, ReturnPost
    <3> QED BY <2>1, <3>1
  <2> QED BY <1>6, <2>2, <2>3, <2>4 DEF Disconnect
<1>7. ASSUME NEW w \in Workers, Work(w) \/ LeaveSession(w) \/ Broadcast(w)
      PROVE  DisconnectedCounted'
  <2>1. UNCHANGED returner
    BY <1>7 DEF Work, Start, BroadcastEnds, ClosePush, ClosePost, ReturnThread, Escape,
                LeaveSession, Broadcast
  <2>2. CASE ClosePush(w)
    <3>1. running[w] \in Connections /\ w \notin Posting /\ Posting' = Posting \cup {w}
      BY <2>2 DEF ClosePush, Carried, Posting, TypeOK
    <3>2. Cardinality(Posting') = Cardinality(Posting) + 1
      BY <3>1, PostingChange
    <3> QED BY <1>2, <1>3, <2>1, <2>2, <3>1, <3>2, QueueOps DEF ClosePush
  <2>3. CASE ClosePost(w)
    <3>1. w \in Posting /\ Posting' = Posting \ {w}
      BY <2>3 DEF ClosePost, Posting, TypeOK
    <3>2. Cardinality(Posting') = Cardinality(Posting) - 1
      BY <3>1, PostingChange
    <3>3. /\ PushPost(q) \in Queues(Connections) /\ PushPost(q).items = q.items
          /\ PushPost(q).count <= q.count + 1 /\ PushPost(q).count \in Nat
      BY <1>2, QueueOps
    <3> QED BY <1>2, <1>3, <2>1, <2>3, <3>2, <3>3 DEF ClosePost
  <2>4. CASE \/ Start(w) \/ BroadcastEnds(w) \/ ReturnThread(w) \/ Escape(w)
             \/ LeaveSession(w) \/ Broadcast(w)
    <3>1. UNCHANGED m_queDisconnected /\ Posting' = Posting
      BY <2>4 DEF Start, BroadcastEnds, ReturnThread, Escape, LeaveSession, Broadcast,
                  Posting, TypeOK
    <3> QED BY <2>1, <3>1
  <2> QED BY <1>7, <2>2, <2>3, <2>4 DEF Work
<1>8. CASE StartUpReturns \/ ShutDown \/ Shut
  <2>1. UNCHANGED returner /\ Posting' = Posting
        /\ m_queDisconnected' \in {m_queDisconnected, Destroy(m_queDisconnected)}
    BY <1>8 DEF StartUpReturns, ShutDown, Shut, CloseListenSocket, JoinListen, JoinReturner,
                DeleteConnections, Posting
  <2> QED BY <1>2, <2>1, QueueOps
<1> QED BY <1>4, <1>5, <1>6, <1>7, <1>8 DEF Next

\* CountInv is an invariant of the server.
LEMMA CountInvariant == Spec => []CountInv
<1>1. CountInv /\ [Next]_vars => CountInv'
  BY TypeStep, StageStep, ReadyStep, DisconnectedStep DEF CountInv
<1> QED BY InitCount, <1>1, PTL DEF Spec

-----------------------------------------------------------------------------
(* One holder                                                              *)

In(s, c) == \E i \in 1 .. Len(s) : s[i] = c
NoRepeat(s) == \A i, j \in 1 .. Len(s) : s[i] = s[j] => i = j

\* The five places a connection object can be in.
InReady(c) == In(m_queReady.items, c)
InDisconnected(c) == In(m_queDisconnected.items, c)
Offered(c) == newConnection = c /\ listen # "insert"
Returned(c) == returned = c
Served(c) == \E w \in Workers : running[w] = c

NotTwice ==
  /\ NoRepeat(m_queReady.items) /\ NoRepeat(m_queDisconnected.items)
  /\ \A v, w \in Workers : running[v] = running[w] /\ running[v] \in Connections => v = w

OnePlace ==
  \A c \in Connections :
    /\ InReady(c) => ~InDisconnected(c) /\ ~Offered(c) /\ ~Returned(c) /\ ~Served(c)
    /\ InDisconnected(c) => ~Offered(c) /\ ~Returned(c) /\ ~Served(c)
    /\ Offered(c) => ~Returned(c) /\ ~Served(c)
    /\ Returned(c) => ~Served(c)

SomePlace ==
  m_bContinueLoop =>
    \A c \in Connections :
      InReady(c) \/ InDisconnected(c) \/ Offered(c) \/ Returned(c) \/ Served(c)

\* A connection being served is in m_setConnected, or the listen thread is about to
\* enter it.
HandInv == NotTwice /\ OnePlace /\ SomePlace /\ ServedConnectionsAreListed

ServerInv == CountInv /\ HandInv

\* Membership in a queue after Push and after Pop.
LEMMA InAppend ==
  ASSUME NEW s \in Seq(Connections), NEW x \in Connections
  PROVE  /\ \A c : In(Append(s, x), c) <=> In(s, c) \/ c = x
         /\ NoRepeat(s) /\ ~In(s, x) => NoRepeat(Append(s, x))
<1>1. /\ Len(s) \in Nat /\ Len(Append(s, x)) = Len(s) + 1
      /\ \A i \in 1 .. Len(s) : Append(s, x)[i] = s[i]
      /\ Append(s, x)[Len(s) + 1] = x
  BY LenProperties, AppendProperties
<1>2. \A c : In(Append(s, x), c) <=> In(s, c) \/ c = x
  BY <1>1 DEF In
<1>3. NoRepeat(s) /\ ~In(s, x) => NoRepeat(Append(s, x))
  BY <1>1 DEF In, NoRepeat
<1> QED BY <1>2, <1>3

LEMMA InTail ==
  ASSUME NEW s \in Seq(Connections), s # <<>>, NoRepeat(s)
  PROVE  /\ In(s, Head(s)) /\ NoRepeat(Tail(s))
         /\ \A c : In(Tail(s), c) <=> In(s, c) /\ c # Head(s)
<1>1. /\ Len(s) \in Nat /\ Len(s) >= 1 /\ Len(Tail(s)) = Len(s) - 1 /\ Head(s) = s[1]
      /\ \A i \in 1 .. Len(Tail(s)) : Tail(s)[i] = s[i + 1]
  BY LenProperties, HeadTailProperties, EmptySeq
<1>2. In(s, Head(s))
  BY <1>1 DEF In
<1>3. NoRepeat(Tail(s))
  BY <1>1 DEF NoRepeat
<1>4. ASSUME NEW c PROVE In(Tail(s), c) <=> In(s, c) /\ c # Head(s)
  <2>1. ASSUME NEW i \in 1 .. Len(Tail(s)), Tail(s)[i] = c PROVE In(s, c) /\ c # Head(s)
    BY <1>1, <2>1 DEF In, NoRepeat
  <2>2. ASSUME NEW i \in 1 .. Len(s), s[i] = c, c # Head(s) PROVE In(Tail(s), c)
    <3>1. i - 1 \in 1 .. Len(Tail(s)) /\ s[(i - 1) + 1] = c
      BY <1>1, <2>2
    <3> QED BY <1>1, <3>1 DEF In
  <2> QED BY <2>1, <2>2 DEF In
<1> QED BY <1>2, <1>3, <1>4

\* A step after which every connection is where it was.
LEMMA PlacesSame ==
  ASSUME NotTwice, OnePlace, SomePlace,
         m_queReady'.items = m_queReady.items,
         m_queDisconnected'.items = m_queDisconnected.items,
         UNCHANGED <<newConnection, returned, running>>,
         (listen = "insert") <=> (listen' = "insert"),
         m_bContinueLoop' => m_bContinueLoop
  PROVE  NotTwice' /\ OnePlace' /\ SomePlace'
<1>1. NotTwice'
  BY DEF NotTwice
<1>2. \A c : /\ InReady(c)' <=> InReady(c)
             /\ InDisconnected(c)' <=> InDisconnected(c)
             /\ Offered(c)' <=> Offered(c)
             /\ Returned(c)' <=> Returned(c)
             /\ Served(c)' <=> Served(c)
  BY DEF InReady, InDisconnected, Offered, Returned, Served
<1> QED BY <1>1, <1>2 DEF OnePlace, SomePlace

\* The listen thread takes connections from m_queReady and gives them to workers, or
\* back when the socket cannot be assigned.
LEMMA ListenPlaces ==
  ASSUME CountInv, NotTwice, OnePlace, SomePlace, Listen \/ Accept \/ AcceptFails
  PROVE  NotTwice' /\ OnePlace' /\ SomePlace'
<1>1. PopFindsItem
  BY FoundItem
<1>2. m_queReady \in Queues(Connections) /\ m_queReady.items \in Seq(Connections)
  BY QueueOps DEF CountInv, TypeOK
<1> USE DEF queues, shutting, init, listener, giveback, pool, GotoListen, GotoWorker
<1>3. CASE ReadyPop
  <2> DEFINE c0 == Head(m_queReady.items)
  <2>1. ~IsEmpty(m_queReady) /\ m_queReady.items # <<>>
    BY <1>1, <1>3 DEF ReadyPop, PopFindsItem, IsEmpty
  <2>2. /\ m_queReady'.items = Tail(m_queReady.items) /\ newConnection' = c0
        /\ listen' = "assign" /\ newConnection \notin Connections
        /\ UNCHANGED <<m_queDisconnected, returned, running, m_bContinueLoop>>
    BY <1>2, <1>3, <2>1, QueueOps DEF ReadyPop, PopFirst, CountInv, Carried
  <2>3. InReady(c0) /\ NoRepeat(m_queReady'.items)
        /\ \A c : InReady(c)' <=> InReady(c) /\ c # c0
    BY <1>2, <2>1, <2>2, InTail DEF NotTwice, InReady
  <2>4. \A c \in Connections :
          /\ InDisconnected(c)' <=> InDisconnected(c)
          /\ Offered(c)' <=> c = c0
          /\ ~Offered(c)
          /\ Returned(c)' <=> Returned(c)
          /\ Served(c)' <=> Served(c)
    BY <2>2 DEF InDisconnected, Offered, Returned, Served
  <2> HIDE DEF c0
  <2>5. NotTwice'
    BY <2>2, <2>3 DEF NotTwice
  <2> QED BY <2>2, <2>3, <2>4, <2>5 DEF OnePlace, SomePlace
<1>4. CASE AssignFails
  <2> DEFINE c0 == newConnection
  <2>1. /\ c0 \in Connections /\ m_queReady'.items = Append(m_queReady.items, c0)
        /\ newConnection' \notin Connections /\ listen = "assign"
        /\ UNCHANGED <<m_queDisconnected, returned, running, m_bContinueLoop>>
    BY <1>2, <1>4, QueueOps, ServerAssumption DEF AssignFails, CountInv, Carried
  <2>2. Offered(c0)
    BY <2>1 DEF Offered
  <2>3. ~In(m_queReady.items, c0)
    BY <2>1, <2>2 DEF OnePlace, InReady
  <2>4. NoRepeat(m_queReady'.items) /\ \A c : InReady(c)' <=> InReady(c) \/ c = c0
    BY <1>2, <2>1, <2>3, InAppend DEF NotTwice, InReady
  <2>5. \A c \in Connections :
          /\ InDisconnected(c)' <=> InDisconnected(c)
          /\ ~Offered(c)' /\ (Offered(c) <=> c = c0)
          /\ Returned(c)' <=> Returned(c)
          /\ Served(c)' <=> Served(c)
    BY <2>1 DEF InDisconnected, Offered, Returned, Served
  <2> HIDE DEF c0
  <2>6. NotTwice'
    BY <2>1, <2>4 DEF NotTwice
  <2> QED BY <2>1, <2>2, <2>4, <2>5, <2>6 DEF OnePlace, SomePlace
<1>5. CASE CreateConnectionThread
  <2> DEFINE c0 == newConnection
  <2>1. PICK w \in Workers : worker[w] = "free" /\ running' = [running EXCEPT ![w] = c0]
    BY <1>5 DEF CreateConnectionThread
  <2>2. /\ c0 \in Connections /\ running[w] \notin Connections
        /\ listen \in {"create", "retry"} /\ listen' = "insert"
        /\ UNCHANGED <<m_queReady, m_queDisconnected, returned, newConnection, m_bContinueLoop>>
    BY <1>5, <2>1 DEF CreateConnectionThread, CountInv, Carried
  <2>3. Offered(c0)
    BY <2>2 DEF Offered
  <2>4. \A c \in Connections :
          /\ InReady(c)' <=> InReady(c)
          /\ InDisconnected(c)' <=> InDisconnected(c)
          /\ ~Offered(c)' /\ (Offered(c) <=> c = c0)
          /\ Returned(c)' <=> Returned(c)
    BY <2>2 DEF InReady, InDisconnected, Offered, Returned
  <2>5. \A c \in Connections : Served(c)' <=> Served(c) \/ c = c0
    BY <2>1, <2>2 DEF Served, CountInv, TypeOK
  <2>6. ~Served(c0)
    BY <2>2, <2>3 DEF OnePlace
  <2>7. NotTwice'
    BY <2>1, <2>2, <2>6 DEF NotTwice, Served, CountInv, TypeOK
  <2> HIDE DEF c0
  <2> QED BY <2>2, <2>3, <2>4, <2>5, <2>7 DEF OnePlace, SomePlace
<1>6. CASE SkipThread \/ SkipConnection
  <2>1. /\ ~m_bContinueLoop' /\ newConnection' \in {newConnection, NoConnection}
        /\ listen' \in {"insert", "ended"}
        /\ (listen' = "ended" => newConnection' = NoConnection)
        /\ UNCHANGED <<m_queReady, m_queDisconnected, returned, running>>
    BY <1>6 DEF SkipThread, SkipConnection
  <2>2. \A c \in Connections :
          /\ InReady(c)' <=> InReady(c)
          /\ InDisconnected(c)' <=> InDisconnected(c)
          /\ ~Offered(c)'
          /\ Returned(c)' <=> Returned(c)
          /\ Served(c)' <=> Served(c)
    BY <2>1, ServerAssumption DEF InReady, InDisconnected, Offered, Returned, Served
  <2>3. NotTwice'
    BY <2>1 DEF NotTwice
  <2> QED BY <2>1, <2>2, <2>3 DEF OnePlace, SomePlace
<1>7. CASE Insert
  <2>1. /\ listen = "insert" /\ listen' = "loop" /\ newConnection' = NoConnection
        /\ UNCHANGED <<m_queReady, m_queDisconnected, returned, running, m_bContinueLoop>>
    BY <1>7 DEF Insert
  <2>2. \A c \in Connections :
          /\ InReady(c)' <=> InReady(c)
          /\ InDisconnected(c)' <=> InDisconnected(c)
          /\ ~Offered(c)' /\ ~Offered(c)
          /\ Returned(c)' <=> Returned(c)
          /\ Served(c)' <=> Served(c)
    BY <2>1, ServerAssumption DEF InReady, InDisconnected, Offered, Returned, Served
  <2>3. NotTwice'
    BY <2>1 DEF NotTwice
  <2> QED BY <2>1, <2>2, <2>3 DEF OnePlace, SomePlace
<1>8. CASE \/ ListenLoop \/ Refuse \/ Allocate \/ Assign \/ NoThread \/ Accept \/ AcceptFails
           \/ ReadyWait \/ AssignFailsPost
  <2>1. /\ UNCHANGED <<m_queDisconnected, newConnection, returned, running, m_bContinueLoop>>
        /\ listen # "insert" /\ listen' # "insert"
        /\ \/ UNCHANGED m_queReady
           \/ CanWait(m_queReady) /\ m_queReady' = PopWait(m_queReady)
           \/ m_queReady' = PushPost(m_queReady)
    BY <1>8 DEF ListenLoop, Refuse, Allocate, Assign, NoThread, Accept, AcceptFails, ReadyWait,
                AssignFailsPost
  <2>2. m_queReady'.items = m_queReady.items
    BY <1>2, <2>1, QueueOps
  <2> QED BY <2>1, <2>2, PlacesSame
<1> QED BY <1>3, <1>4, <1>5, <1>6, <1>7, <1>8 DEF Listen

\* The disconnect thread carries connections from one queue to the other.
LEMMA ReturnerPlaces ==
  ASSUME CountInv, NotTwice, OnePlace, SomePlace, Disconnect
  PROVE  NotTwice' /\ OnePlace' /\ SomePlace'
<1>1. PopFindsItem
  BY FoundItem
<1>2. /\ m_queReady \in Queues(Connections) /\ m_queReady.items \in Seq(Connections)
      /\ m_queDisconnected \in Queues(Connections) /\ m_queDisconnected.items \in Seq(Connections)
  BY QueueOps DEF CountInv, TypeOK
<1> USE DEF queues, shutting, init, listener, giveback, pool, GotoReturner
<1>3. CASE DisconnectPop
  <2> DEFINE c0 == Head(m_queDisconnected.items)
  <2>1. ~IsEmpty(m_queDisconnected) /\ m_queDisconnected.items # <<>>
    BY <1>1, <1>3 DEF DisconnectPop, PopFindsItem, IsEmpty
  <2>2. /\ m_queDisconnected'.items = Tail(m_queDisconnected.items) /\ returned' = c0
        /\ returned \notin Connections
        /\ UNCHANGED <<m_queReady, newConnection, listen, running, m_bContinueLoop>>
    BY <1>2, <1>3, <2>1, QueueOps, ServerAssumption DEF DisconnectPop, PopFirst, CountInv, Carried
  <2>3. InDisconnected(c0) /\ NoRepeat(m_queDisconnected'.items)
        /\ \A c : InDisconnected(c)' <=> InDisconnected(c) /\ c # c0
    BY <1>2, <2>1, <2>2, InTail DEF NotTwice, InDisconnected
  <2>4. \A c \in Connections :
          /\ InReady(c)' <=> InReady(c)
          /\ Offered(c)' <=> Offered(c)
          /\ ~Returned(c)
          /\ Returned(c)' <=> c = c0
          /\ Served(c)' <=> Served(c)
    BY <2>2 DEF InReady, Offered, Returned, Served
  <2> HIDE DEF c0
  <2>5. NotTwice'
    BY <2>2, <2>3 DEF NotTwice
  <2> QED BY <2>2, <2>3, <2>4, <2>5 DEF OnePlace, SomePlace
<1>4. CASE ReturnPush
  <2> DEFINE c0 == returned
  <2>1. /\ c0 \in Connections /\ m_queReady'.items = Append(m_queReady.items, c0)
        /\ returned' \notin Connections
        /\ UNCHANGED <<m_queDisconnected, newConnection, listen, running, m_bContinueLoop>>
    BY <1>2, <1>4, QueueOps, ServerAssumption DEF ReturnPush, CountInv, Carried
  <2>2. ~In(m_queReady.items, c0)
    BY <2>1 DEF OnePlace, InReady, Returned
  <2>3. NoRepeat(m_queReady'.items) /\ \A c : InReady(c)' <=> InReady(c) \/ c = c0
    BY <1>2, <2>1, <2>2, InAppend DEF NotTwice, InReady
  <2>4. \A c \in Connections :
          /\ InDisconnected(c)' <=> InDisconnected(c)
          /\ Offered(c)' <=> Offered(c)
          /\ ~Returned(c)' /\ (Returned(c) <=> c = c0)
          /\ Served(c)' <=> Served(c)
    BY <2>1 DEF InDisconnected, Offered, Returned, Served
  <2> HIDE DEF c0
  <2>5. NotTwice'
    BY <2>1, <2>3 DEF NotTwice
  <2> QED BY <2>1, <2>3, <2>4, <2>5 DEF OnePlace, SomePlace
<1>5. CASE DisconnectWait \/ DisconnectWaitFails \/ DisconnectTest \/ Erase \/ ReturnPost
  <2>1. /\ UNCHANGED <<newConnection, listen, returned, running, m_bContinueLoop>>
        /\ \/ UNCHANGED <<m_queReady, m_queDisconnected>>
           \/ /\ CanWait(m_queDisconnected) /\ m_queDisconnected' = PopWait(m_queDisconnected)
              /\ UNCHANGED m_queReady
           \/ m_queReady' = PushPost(m_queReady) /\ UNCHANGED m_queDisconnected
    BY <1>5 DEF DisconnectWait, DisconnectWaitFails, DisconnectTest, Erase, ReturnPost
  <2>2. /\ m_queReady'.items = m_queReady.items
        /\ m_queDisconnected'.items = m_queDisconnected.items
    BY <1>2, <2>1, QueueOps
  <2> QED BY <2>1, <2>2, PlacesSame
<1> QED BY <1>3, <1>4, <1>5 DEF Disconnect

\* A worker hands its connection to m_queDisconnected; one that escapes before it has
\* begun loses it, after the server was shut down.
LEMMA WorkerPlaces ==
  ASSUME CountInv, NotTwice, OnePlace, SomePlace,
         NEW w \in Workers, Work(w) \/ LeaveSession(w) \/ Broadcast(w)
  PROVE  NotTwice' /\ OnePlace' /\ SomePlace'
<1>1. m_queDisconnected \in Queues(Connections) /\ m_queDisconnected.items \in Seq(Connections)
  BY QueueOps DEF CountInv, TypeOK
<1> USE DEF queues, shutting, init, listener, giveback, pool, GotoWorker
<1>2. CASE ClosePush(w)
  <2> DEFINE c0 == running[w]
  <2>1. /\ c0 \in Connections /\ m_queDisconnected'.items = Append(m_queDisconnected.items, c0)
        /\ running' = [running EXCEPT ![w] = NoConnection]
        /\ UNCHANGED <<m_queReady, newConnection, listen, returned, m_bContinueLoop>>
    BY <1>1, <1>2, QueueOps DEF ClosePush, CountInv, Carried
  <2>2. Served(c0)
    BY DEF Served
  <2>3. ~In(m_queDisconnected.items, c0)
    BY <2>1, <2>2 DEF OnePlace, InDisconnected
  <2>4. /\ NoRepeat(m_queDisconnected'.items)
        /\ \A c : InDisconnected(c)' <=> InDisconnected(c) \/ c = c0
    BY <1>1, <2>1, <2>3, InAppend DEF NotTwice, InDisconnected
  <2>5. \A c \in Connections : Served(c)' <=> Served(c) /\ c # c0
    BY <2>1, ServerAssumption DEF Served, NotTwice, CountInv, TypeOK
  <2>6. \A c \in Connections :
          /\ InReady(c)' <=> InReady(c)
          /\ Offered(c)' <=> Offered(c)
          /\ Returned(c)' <=> Returned(c)
    BY <2>1 DEF InReady, Offered, Returned
  <2>7. NotTwice'
    BY <2>1, <2>4, ServerAssumption DEF NotTwice, CountInv, TypeOK
  <2> HIDE DEF c0
  <2> QED BY <2>1, <2>2, <2>4, <2>5, <2>6, <2>7 DEF OnePlace, SomePlace
<1>3. CASE Escape(w)
  <2>1. /\ running' = [running EXCEPT ![w] = NoConnection] /\ ~m_bContinueLoop'
        /\ UNCHANGED <<m_queReady, m_queDisconnected, newConnection, listen, returned>>
    BY <1>3 DEF Escape, CountInv, Stages
  <2>2. \A c \in Connections :
          /\ InReady(c)' <=> InReady(c)
          /\ InDisconnected(c)' <=> InDisconnected(c)
          /\ Offered(c)' <=> Offered(c)
          /\ Returned(c)' <=> Returned(c)
    BY <2>1 DEF InReady, InDisconnected, Offered, Returned
  <2>3. \A c \in Connections : Served(c)' => Served(c)
    BY <2>1, ServerAssumption DEF Served, CountInv, TypeOK
  <2>4. NotTwice'
    BY <2>1, ServerAssumption DEF NotTwice, CountInv, TypeOK
  <2> QED BY <2>1, <2>2, <2>3, <2>4 DEF OnePlace, SomePlace
<1>4. CASE \/ Start(w) \/ BroadcastEnds(w) \/ ClosePost(w) \/ ReturnThread(w)
           \/ LeaveSession(w) \/ Broadcast(w)
  <2>1. /\ UNCHANGED <<m_queReady, newConnection, listen, returned, running, m_bContinueLoop>>
        /\ m_queDisconnected' \in {m_queDisconnected, PushPost(m_queDisconnected)}
    BY <1>4 DEF Start, BroadcastEnds, ClosePost, ReturnThread, LeaveSession, Broadcast
  <2>2. m_queDisconnected'.items = m_queDisconnected.items
    BY <1>1, <2>1, QueueOps
  <2> QED BY <2>1, <2>2, PlacesSame
<1> QED BY <1>2, <1>3, <1>4 DEF Work

\* StartUp and ShutDown leave the connections where they are, until all are deleted.
LEMMA MainPlaces ==
  ASSUME CountInv, NotTwice, OnePlace, SomePlace, StartUpReturns \/ ShutDown \/ Shut
  PROVE  NotTwice' /\ OnePlace' /\ SomePlace'
<1>1. m_queReady \in Queues(Connections) /\ m_queDisconnected \in Queues(Connections)
  BY DEF CountInv, TypeOK
<1> USE DEF queues, shutting, init, listener, giveback, pool, GotoMain
<1>2. CASE DeleteConnections
  <2>1. /\ m_queReady'.items = <<>> /\ ~m_bContinueLoop'
        /\ UNCHANGED <<m_queDisconnected, newConnection, listen, returned, running>>
    BY <1>1, <1>2 DEF DeleteConnections, CountInv, Stages, Queues
  <2>2. \A c : ~InReady(c)' /\ NoRepeat(m_queReady'.items)
    BY <2>1 DEF InReady, In, NoRepeat
  <2>3. \A c \in Connections :
          /\ InDisconnected(c)' <=> InDisconnected(c)
          /\ Offered(c)' <=> Offered(c)
          /\ Returned(c)' <=> Returned(c)
          /\ Served(c)' <=> Served(c)
    BY <2>1 DEF InDisconnected, Offered, Returned, Served
  <2>4. NotTwice'
    BY <2>1, <2>2 DEF NotTwice
  <2> QED BY <2>1, <2>2, <2>3, <2>4 DEF OnePlace, SomePlace
<1>3. CASE StartUpReturns \/ ShutDown \/ CloseListenSocket \/ JoinListen \/ JoinReturner
  <2>1. /\ UNCHANGED <<m_queReady, newConnection, listen, returned, running>>
        /\ m_queDisconnected' \in {m_queDisconnected, Destroy(m_queDisconnected)}
        /\ m_bContinueLoop' => m_bContinueLoop
    BY <1>3 DEF StartUpReturns, ShutDown, CloseListenSocket, JoinListen, JoinReturner
  <2>2. m_queDisconnected'.items = m_queDisconnected.items
    BY <1>1, <2>1, QueueOps
  <2> QED BY <2>1, <2>2, PlacesSame
<1> QED BY <1>2, <1>3 DEF Shut

\* Only the disconnect thread takes a connection out of m_setConnected, and not one
\* that is being served.
LEMMA ListedStep ==
  ASSUME CountInv, HandInv, [Next]_vars
  PROVE  ServedConnectionsAreListed'
<1> DEFINE Active == {"given", "session", "broadcast", "served", "closing"}
<1> USE DEF queues, shutting, init, listener, giveback, pool, GotoListen, GotoReturner,
            GotoMain, GotoWorker
<1>1. \A w \in Workers : worker[w] \in Active =>
        running[w] \in m_setConnected \/ (listen = "insert" /\ newConnection = running[w])
  BY DEF HandInv, ServedConnectionsAreListed
<1>2. CASE UNCHANGED vars
  BY <1>1, <1>2 DEF vars, ServedConnectionsAreListed
<1>3. CASE CreateConnectionThread
  <2>1. PICK w \in Workers : /\ worker[w] = "free" /\ worker' = [worker EXCEPT ![w] = "given"]
                             /\ running' = [running EXCEPT ![w] = newConnection]
    BY <1>3 DEF CreateConnectionThread
  <2>2. /\ listen # "insert" /\ listen' = "insert" /\ UNCHANGED <<newConnection, m_setConnected>>
    BY <1>3 DEF CreateConnectionThread
  <2> QED BY <1>1, <2>1, <2>2 DEF ServedConnectionsAreListed, CountInv, TypeOK
<1>4. CASE Insert
  <2>1. /\ m_setConnected' = m_setConnected \cup {newConnection}
        /\ UNCHANGED <<worker, running>>
    BY <1>4 DEF Insert
  <2> QED BY <1>1, <2>1 DEF ServedConnectionsAreListed
<1>5. CASE \/ ListenLoop \/ Refuse \/ Allocate \/ ReadyWait \/ ReadyPop \/ AssignFails
           \/ AssignFailsPost \/ Assign \/ NoThread \/ SkipThread \/ SkipConnection
           \/ Accept \/ AcceptFails
  <2>1. UNCHANGED <<worker, running, m_setConnected>> /\ listen # "insert"
    BY <1>5 DEF ListenLoop, Refuse, Allocate, ReadyWait, ReadyPop, AssignFails, AssignFailsPost,
                Assign, NoThread, SkipThread, SkipConnection, Accept, AcceptFails
  <2> QED BY <1>1, <2>1 DEF ServedConnectionsAreListed
<1>6. CASE Erase
  <2>1. /\ returned \in Connections /\ m_setConnected' = m_setConnected \ {returned}
        /\ UNCHANGED <<worker, running, listen, newConnection>>
    BY <1>6 DEF Erase, CountInv, Carried
  <2>2. \A w \in Workers : running[w] # returned
    BY <2>1 DEF HandInv, OnePlace, Returned, Served
  <2> QED BY <1>1, <2>1, <2>2 DEF ServedConnectionsAreListed
<1>7. CASE \/ DisconnectWait \/ DisconnectWaitFails \/ DisconnectPop \/ DisconnectTest
           \/ ReturnPush \/ ReturnPost
  <2>1. UNCHANGED <<worker, running, listen, newConnection, m_setConnected>>
    BY <1>7 DEF DisconnectWait, DisconnectWaitFails, DisconnectPop, DisconnectTest, ReturnPush,
                ReturnPost
  <2> QED BY <1>1, <2>1 DEF ServedConnectionsAreListed
<1>8. ASSUME NEW w \in Workers, Work(w) \/ LeaveSession(w) \/ Broadcast(w)
      PROVE  ServedConnectionsAreListed'
  <2>1. UNCHANGED <<listen, newConnection, m_setConnected>>
    BY <1>8 DEF Work, Start, BroadcastEnds, ClosePush, ClosePost, ReturnThread, Escape,
                LeaveSession, Broadcast
  <2>2. \A v \in Workers :
          worker'[v] \in Active => worker[v] \in Active /\ running'[v] = running[v]
    BY <1>8 DEF Work, Start, BroadcastEnds, ClosePush, ClosePost, ReturnThread, Escape,
                LeaveSession, Broadcast, CountInv, TypeOK
  <2> QED BY <1>1, <2>1, <2>2 DEF ServedConnectionsAreListed
<1>9. CASE DeleteConnections
  <2>1. \A w \in Workers : worker'[w] = "ended"
    BY <1>9 DEF DeleteConnections
  <2> QED BY <2>1 DEF ServedConnectionsAreListed
<1>10. CASE StartUpReturns \/ ShutDown \/ CloseListenSocket \/ JoinListen \/ JoinReturner
  <2>1. UNCHANGED <<worker, running, listen, newConnection, m_setConnected>>
    BY <1>10 DEF StartUpReturns, ShutDown, CloseListenSocket, JoinListen, JoinReturner
  <2> QED BY <1>1, <2>1 DEF ServedConnectionsAreListed
<1> QED BY <1>2, <1>3, <1>4, <1>5, <1>6, <1>7, <1>8, <1>9, <1>10
        DEF Next, Listen, Disconnect, Shut

\* Initially every connection is in m_queReady, once.
LEMMA InitHands == Init => HandInv
<1> SUFFICES ASSUME Init PROVE HandInv
  OBVIOUS
<1> DEFINE q == SetToSeq(Connections)
<1>1. m_queReady.items = q /\ m_queDisconnected.items = <<>>
  BY DEF Init, Filled
<1>2. NoRepeat(q) /\ \A c \in Connections : In(q, c)
  BY Enumeration DEF NoRepeat, In
<1>3. NoRepeat(<<>>) /\ \A c : ~In(<<>>, c)
  BY DEF NoRepeat, In
<1> HIDE DEF q
<1>4. NotTwice
  BY <1>1, <1>2, <1>3, ServerAssumption DEF Init, NotTwice
<1>5. \A c \in Connections : InReady(c) /\ ~InDisconnected(c) /\ ~Offered(c) /\ ~Returned(c)
                              /\ ~Served(c)
  BY <1>1, <1>2, <1>3, ServerAssumption
     DEF Init, InReady, InDisconnected, Offered, Returned, Served
<1>6. ServedConnectionsAreListed
  BY DEF Init, ServedConnectionsAreListed
<1> QED BY <1>4, <1>5, <1>6 DEF HandInv, OnePlace, SomePlace

\* Every step keeps the connections apart.
LEMMA HandStep == ServerInv /\ [Next]_vars => HandInv'
<1> SUFFICES ASSUME CountInv, HandInv, [Next]_vars PROVE HandInv'
  BY DEF ServerInv
<1>1. NotTwice' /\ OnePlace' /\ SomePlace'
  <2>1. CASE UNCHANGED vars
    BY <2>1, PlacesSame DEF vars, HandInv
  <2> QED BY <2>1, ListenPlaces, ReturnerPlaces, WorkerPlaces, MainPlaces DEF HandInv, Next
<1> QED BY <1>1, ListedStep DEF HandInv

\* ServerInv is an invariant of the server.
LEMMA ServerInvariant == Spec => []ServerInv
<1>1. Init => ServerInv
  BY InitCount, InitHands DEF ServerInv
<1>2. ServerInv /\ [Next]_vars => ServerInv'
  BY TypeStep, StageStep, ReadyStep, DisconnectedStep, HandStep DEF ServerInv, CountInv
<1> QED BY <1>1, <1>2, PTL DEF Spec

-----------------------------------------------------------------------------
(* The properties                                                          *)

\* The variables keep their types for any number of connections.
THEOREM ServerTypes == Spec => []TypeOK
<1>1. ServerInv => TypeOK
  BY DEF ServerInv, CountInv
<1> QED BY ServerInvariant, <1>1, PTL

\* Pop of either queue never takes the front of an empty one.
THEOREM ServerPopFindsItem == Spec => []PopFindsItem
<1>1. ServerInv => PopFindsItem
  BY FoundItem DEF ServerInv
<1> QED BY ServerInvariant, <1>1, PTL

\* When ShutDown deletes the connections, all threads that could use one have ended.
THEOREM ServerDeletedUnused == Spec => []DeletedConnectionsAreUnused
<1>1. ServerInv => DeletedConnectionsAreUnused
  BY DEF ServerInv, CountInv, Stages, DeletedConnectionsAreUnused
<1> QED BY ServerInvariant, <1>1, PTL

\* The disconnect of an earlier client never hides a served connection from Broadcast.
THEOREM ServerServedListed == Spec => []ServedConnectionsAreListed
<1>1. ServerInv => ServedConnectionsAreListed
  BY DEF ServerInv, HandInv
<1> QED BY ServerInvariant, <1>1, PTL

\* A queue without repetitions has each connection once or not at all.
LEMMA OccurrencesOnce ==
  ASSUME NEW q \in Queues(Connections), NEW c, NoRepeat(q.items)
  PROVE  Occurrences(q, c) = IF In(q.items, c) THEN 1 ELSE 0
<1>1. q.items \in Seq(Connections) /\ DOMAIN q.items = 1 .. Len(q.items)
  BY QueueOps, LenProperties
<1>2. CASE In(q.items, c)
  <2>1. PICK i \in 1 .. Len(q.items) : q.items[i] = c
    BY <1>2 DEF In
  <2>2. {j \in DOMAIN q.items : q.items[j] = c} = {i}
    BY <1>1, <2>1 DEF NoRepeat
  <2> QED BY <1>2, <2>2, FS_Singleton DEF Occurrences
<1>3. CASE ~In(q.items, c)
  <2>1. {j \in DOMAIN q.items : q.items[j] = c} = {}
    BY <1>1, <1>3 DEF In
  <2> QED BY <1>3, <2>1, FS_EmptySet DEF Occurrences
<1> QED BY <1>2, <1>3

\* A connection object is never in two hands, and none is lost while the server runs,
\* for any number of connections.
THEOREM ServerOneHolder == Spec => []ConnectionsHaveOneHolder
<1>1. ServerInv => ConnectionsHaveOneHolder
  <2> SUFFICES ASSUME ServerInv, NEW c \in Connections
               PROVE  Holders(c) <= 1 /\ (m_bContinueLoop => Holders(c) = 1)
    BY DEF ConnectionsHaveOneHolder
  <2> USE DEF ServerInv, CountInv, HandInv
  <2>1. /\ Occurrences(m_queReady, c) = IF InReady(c) THEN 1 ELSE 0
        /\ Occurrences(m_queDisconnected, c) = IF InDisconnected(c) THEN 1 ELSE 0
    BY OccurrencesOnce DEF TypeOK, NotTwice, InReady, InDisconnected
  <2>2. Cardinality({w \in Workers : running[w] = c}) = IF Served(c) THEN 1 ELSE 0
    <3>1. CASE Served(c)
      <4>1. PICK w \in Workers : running[w] = c
        BY <3>1 DEF Served
      <4>2. {v \in Workers : running[v] = c} = {w}
        BY <4>1 DEF NotTwice
      <4> QED BY <3>1, <4>2, FS_Singleton
    <3>2. CASE ~Served(c)
      <4>1. {v \in Workers : running[v] = c} = {}
        BY <3>2 DEF Served
      <4> QED BY <3>2, <4>1, FS_EmptySet
    <3> QED BY <3>1, <3>2
  <2>3. Holders(c) = (IF InReady(c) THEN 1 ELSE 0) + (IF InDisconnected(c) THEN 1 ELSE 0)
                     + (IF Offered(c) THEN 1 ELSE 0) + (IF Returned(c) THEN 1 ELSE 0)
                     + (IF Served(c) THEN 1 ELSE 0)
    BY <2>1, <2>2 DEF Holders, Offered, Returned
  <2> QED BY <2>3 DEF OnePlace, SomePlace
<1> QED BY ServerInvariant, <1>1, PTL
=============================================================================
