----------------------------- MODULE SyncServer -----------------------------
(***************************************************************************)
(* CSyncServer (Src/400_Server/SyncServer.cpp), from the moment StartUp    *)
(* has created its threads until ShutDown has deleted the connections.     *)
(*                                                                         *)
(* The connection objects travel: m_queReady, the listen thread, a worker  *)
(* of the thread pool, m_queDisconnected, the disconnect thread, and back  *)
(* to m_queReady.  The thread pool is that of ThreadPool.tla: a worker is  *)
(* free, or runs ConnectionThreadCaller for one connection.                *)
(***************************************************************************)
EXTENDS Naturals, FiniteSets, SequencesExt, SyncQueue

CONSTANTS Connections,      (* stInit.Connections                            *)
          NoConnection,
          Workers,          (* instances of m_ThreadPool                     *)
          DisconnectTypes   (* values of nDisconnectType considered          *)

ASSUME ServerAssumption ==
  /\ IsFiniteSet(Connections) /\ NoConnection \notin Connections
  /\ IsFiniteSet(Workers)
  /\ Cardinality(Workers) = Cardinality(Connections)   \* m_ThreadPool.Init

NoResponse == "no response on connect"          \* the value m_stInit starts with
ConnectedNoResponse == "connected and no response"

VARIABLES m_queReady, m_queDisconnected, m_setConnected,
          m_bContinueLoop,
          listening,        (* m_hListenSocket is open                       *)
          nDisconnectType,  (* of m_stInit                                   *)
          stInit,           (* the type StartUp was called with              *)
          main,             (* where StartUp or ShutDown is                  *)
          listen, newConnection,   (* where ListenThread is, its pNewConnection *)
          returner, returned,      (* DisconnectThread, its pConnection      *)
          worker, running   (* of each worker: where it is, its connection   *)

queues == <<m_queReady, m_queDisconnected>>
shutting == <<m_bContinueLoop, listening, main>>
init == <<nDisconnectType, stInit>>
listener == <<listen, newConnection>>
giveback == <<returner, returned>>
pool == <<worker, running>>
vars == <<m_queReady, m_queDisconnected, m_setConnected, m_bContinueLoop, listening,
          nDisconnectType, stInit, main, listen, newConnection, returner, returned,
          worker, running>>

\* StartUp has filled m_queReady and created the threads; m_stInit is still to be set.
Init == /\ m_queReady = Filled(SetToSeq(Connections))
        /\ m_queDisconnected = Filled(<<>>)
        /\ m_setConnected = {}
        /\ m_bContinueLoop = TRUE
        /\ listening = TRUE
        /\ nDisconnectType = NoResponse
        /\ stInit \in DisconnectTypes
        /\ main = "starting"
        /\ listen = "loop" /\ newConnection = NoConnection
        /\ returner = "wait" /\ returned = NoConnection
        /\ worker = [w \in Workers |-> "free"]
        /\ running = [w \in Workers |-> NoConnection]

GotoListen(from, to) == listen = from /\ listen' = to
GotoReturner(from, to) == returner = from /\ returner' = to
GotoMain(from, to) == main = from /\ main' = to
GotoWorker(w, from, to) == worker[w] = from /\ worker' = [worker EXCEPT ![w] = to]

\* m_csConnected is taken for one step by the threads that change m_setConnected, and
\* for as long as the sends take by a worker in Broadcast.
ConnectedFree == \A w \in Workers : worker[w] # "broadcast"

-----------------------------------------------------------------------------
(* ListenThread                                                            *)

\* The head of the loop; without a connection to offer it sleeps if it is told so.
ListenLoop ==
  /\ ~(m_bContinueLoop /\ nDisconnectType = ConnectedNoResponse /\ IsEmpty(m_queReady))
  /\ GotoListen("loop", IF m_bContinueLoop THEN "accept" ELSE "ended")
  /\ UNCHANGED <<queues, m_setConnected, shutting, init, newConnection, giveback, pool>>

Accept ==
  /\ listening
  /\ GotoListen("accept", "accepted")
  /\ UNCHANGED <<queues, m_setConnected, shutting, init, newConnection, giveback, pool>>

\* The socket was closed by ShutDown, or accept failed for another reason: the
\* thread ends either way.
AcceptFails ==
  /\ GotoListen("accept", "ended")
  /\ UNCHANGED <<queues, m_setConnected, shutting, init, newConnection, giveback, pool>>

Refuse ==
  /\ IsEmpty(m_queReady)
  /\ GotoListen("accepted", "loop")
  /\ UNCHANGED <<queues, m_setConnected, shutting, init, newConnection, giveback, pool>>

Allocate ==
  /\ ~IsEmpty(m_queReady)
  /\ GotoListen("accepted", "wait")
  /\ UNCHANGED <<queues, m_setConnected, shutting, init, newConnection, giveback, pool>>

ReadyWait ==
  /\ CanWait(m_queReady)
  /\ GotoListen("wait", "pop")
  /\ m_queReady' = PopWait(m_queReady)
  /\ UNCHANGED <<m_queDisconnected, m_setConnected, shutting, init, newConnection,
                 giveback, pool>>

ReadyPop ==
  /\ GotoListen("pop", "assign")
  /\ newConnection' = PopFirst(m_queReady)
  /\ m_queReady' = PopRest(m_queReady)
  /\ UNCHANGED <<m_queDisconnected, m_setConnected, shutting, init, giveback, pool>>

\* (Variants named Bug... are what a slip in the definition after them would be.)
\* The connection is dropped.
BugAssignFails ==
  /\ GotoListen("assign", "post")
  /\ newConnection' = NoConnection
  /\ UNCHANGED <<queues, m_setConnected, shutting, init, giveback, pool>>

\* SetAcceptedSocket fails: the connection goes back.
AssignFails ==
  /\ GotoListen("assign", "post")
  /\ m_queReady' = PushItem(m_queReady, newConnection)
  /\ newConnection' = NoConnection
  /\ UNCHANGED <<m_queDisconnected, m_setConnected, shutting, init, giveback, pool>>

AssignFailsPost ==
  /\ GotoListen("post", "loop")
  /\ m_queReady' = PushPost(m_queReady)
  /\ UNCHANGED <<m_queDisconnected, m_setConnected, shutting, init, newConnection,
                 giveback, pool>>

Assign ==
  /\ GotoListen("assign", "create")
  /\ UNCHANGED <<queues, m_setConnected, shutting, init, newConnection, giveback, pool>>

CreateConnectionThread ==
  /\ m_bContinueLoop
  /\ listen \in {"create", "retry"}
  /\ \E w \in Workers :
       /\ GotoWorker(w, "free", "given")
       /\ running' = [running EXCEPT ![w] = newConnection]
  /\ listen' = "insert"
  /\ UNCHANGED <<queues, m_setConnected, shutting, init, newConnection, giveback>>

\* No worker is free: nRet keeps the error, and the loop tries again.
NoThread ==
  /\ m_bContinueLoop
  /\ \A w \in Workers : worker[w] # "free"
  /\ GotoListen("create", "retry")
  /\ UNCHANGED <<queues, m_setConnected, shutting, init, newConnection, giveback, pool>>

\* Shut down before the first try, nRet is still that of SetAcceptedSocket.
SkipThread ==
  /\ ~m_bContinueLoop
  /\ GotoListen("create", "insert")
  /\ UNCHANGED <<queues, m_setConnected, shutting, init, newConnection, giveback, pool>>

SkipConnection ==
  /\ ~m_bContinueLoop
  /\ GotoListen("retry", "ended")
  /\ newConnection' = NoConnection
  /\ UNCHANGED <<queues, m_setConnected, shutting, init, giveback, pool>>

\* pNewConnection is cleared too early.
BugInsert ==
  /\ ConnectedFree
  /\ GotoListen("insert", "loop")
  /\ newConnection' = NoConnection
  /\ m_setConnected' = m_setConnected \cup {newConnection'}
  /\ UNCHANGED <<queues, shutting, init, giveback, pool>>

Insert ==
  /\ ConnectedFree
  /\ GotoListen("insert", "loop")
  /\ m_setConnected' = m_setConnected \cup {newConnection}
  /\ newConnection' = NoConnection
  /\ UNCHANGED <<queues, shutting, init, giveback, pool>>

-----------------------------------------------------------------------------
(* DisconnectThread                                                        *)

DisconnectWait ==
  /\ CanWait(m_queDisconnected)
  /\ GotoReturner("wait", "pop")
  /\ m_queDisconnected' = PopWait(m_queDisconnected)
  /\ UNCHANGED <<m_queReady, m_setConnected, shutting, init, listener, returned, pool>>

DisconnectWaitFails ==
  /\ WaitFails(m_queDisconnected)
  /\ GotoReturner("wait", "ended")
  /\ UNCHANGED <<queues, m_setConnected, shutting, init, listener, returned, pool>>

DisconnectPop ==
  /\ GotoReturner("pop", "test")
  /\ returned' = PopFirst(m_queDisconnected)
  /\ m_queDisconnected' = PopRest(m_queDisconnected)
  /\ UNCHANGED <<m_queReady, m_setConnected, shutting, init, listener, pool>>

DisconnectTest ==
  /\ GotoReturner("test", IF m_bContinueLoop THEN "erase" ELSE "ended")
  /\ UNCHANGED <<queues, m_setConnected, shutting, init, listener, returned, pool>>

\* Any member of the set may be taken out.
BugErase ==
  /\ ConnectedFree
  /\ GotoReturner("erase", "push")
  /\ \E c \in m_setConnected \cup {returned} : m_setConnected' = m_setConnected \ {c}
  /\ UNCHANGED <<queues, shutting, init, listener, returned, pool>>

Erase ==
  /\ ConnectedFree
  /\ GotoReturner("erase", "push")
  /\ m_setConnected' = m_setConnected \ {returned}
  /\ UNCHANGED <<queues, shutting, init, listener, returned, pool>>

ReturnPush ==
  /\ GotoReturner("push", "post")
  /\ m_queReady' = PushItem(m_queReady, returned)
  /\ returned' = NoConnection
  /\ UNCHANGED <<m_queDisconnected, m_setConnected, shutting, init, listener, pool>>

ReturnPost ==
  /\ GotoReturner("post", "wait")
  /\ m_queReady' = PushPost(m_queReady)
  /\ UNCHANGED <<m_queDisconnected, m_setConnected, shutting, init, listener, returned, pool>>

-----------------------------------------------------------------------------
(* ConnectionThread on a worker of the pool                                *)

\* The worker takes the job and calls OnConnect.
Start(w) ==
  /\ GotoWorker(w, "given", "session")
  /\ UNCHANGED <<queues, m_setConnected, shutting, init, listener, giveback, running>>

\* OnConnect or OnRecv calls Broadcast (in the model once in a session): it walks
\* through m_setConnected and sends to each member, for 5 seconds at most.
Broadcast(w) ==
  /\ ConnectedFree
  /\ GotoWorker(w, "session", "broadcast")
  /\ UNCHANGED <<queues, m_setConnected, shutting, init, listener, giveback, running>>

BroadcastEnds(w) ==
  /\ GotoWorker(w, "broadcast", "served")
  /\ UNCHANGED <<queues, m_setConnected, shutting, init, listener, giveback, running>>

\* The loop of Peek and OnRecv ends: shut down, disconnected or timed out.
LeaveSession(w) ==
  /\ GotoWorker(w, "session", "closing") \/ GotoWorker(w, "served", "closing")
  /\ UNCHANGED <<queues, m_setConnected, shutting, init, listener, giveback, running>>

\* OnClose, then m_queDisconnected.Push.
ClosePush(w) ==
  /\ GotoWorker(w, "closing", "post")
  /\ m_queDisconnected' = PushItem(m_queDisconnected, running[w])
  /\ running' = [running EXCEPT ![w] = NoConnection]
  /\ UNCHANGED <<m_queReady, m_setConnected, shutting, init, listener, giveback>>

\* ReleaseSemaphore is forgotten.
BugClosePost(w) ==
  /\ GotoWorker(w, "post", "return")
  /\ UNCHANGED <<queues, m_setConnected, shutting, init, listener, giveback, running>>

ClosePost(w) ==
  /\ GotoWorker(w, "post", "return")
  /\ m_queDisconnected' = PushPost(m_queDisconnected)
  /\ UNCHANGED <<m_queReady, m_setConnected, shutting, init, listener, giveback, running>>

ReturnThread(w) ==
  /\ GotoWorker(w, "return", "free")
  /\ UNCHANGED <<queues, m_setConnected, shutting, init, listener, giveback, running>>

\* m_ThreadPool.Destroy has set m_bEscapeFlag: a free worker ends, and one that has
\* just been given a job may not look at it any more.
Escape(w) ==
  /\ main \in {"joinPool", "done"}
  /\ \/ GotoWorker(w, "free", "ended")
     \/ GotoWorker(w, "given", "ended")
  /\ running' = [running EXCEPT ![w] = NoConnection]
  /\ UNCHANGED <<queues, m_setConnected, shutting, init, listener, giveback>>

-----------------------------------------------------------------------------
(* The end of StartUp, and ShutDown                                        *)

StartUpReturns ==
  /\ GotoMain("starting", "up")
  /\ nDisconnectType' = stInit
  /\ UNCHANGED <<queues, m_setConnected, m_bContinueLoop, listening, stInit, listener,
                 giveback, pool>>

ShutDown ==
  /\ GotoMain("up", "close")
  /\ m_bContinueLoop' = FALSE
  /\ UNCHANGED <<queues, m_setConnected, listening, init, listener, giveback, pool>>

CloseListenSocket ==
  /\ GotoMain("close", "joinListen")
  /\ listening' = FALSE
  /\ UNCHANGED <<queues, m_setConnected, m_bContinueLoop, init, listener, giveback, pool>>

\* The queue is left open.
BugJoinListen ==
  /\ listen = "ended"
  /\ GotoMain("joinListen", "joinReturner")
  /\ UNCHANGED <<queues, m_setConnected, m_bContinueLoop, listening, init, listener,
                 giveback, pool>>

\* JoinThread(m_hListenThread), m_queDisconnected.Destroy.
JoinListen ==
  /\ listen = "ended"
  /\ GotoMain("joinListen", "joinReturner")
  /\ m_queDisconnected' = Destroy(m_queDisconnected)
  /\ UNCHANGED <<m_queReady, m_setConnected, m_bContinueLoop, listening, init, listener,
                 giveback, pool>>

\* JoinThread(m_hDisconnectThread); m_ThreadPool.Destroy sets m_bEscapeFlag.
JoinReturner ==
  /\ returner = "ended"
  /\ GotoMain("joinReturner", "joinPool")
  /\ UNCHANGED <<queues, m_setConnected, m_bContinueLoop, listening, init, listener,
                 giveback, pool>>

\* The connections are deleted without waiting for the pool.
BugDeleteConnections ==
  /\ GotoMain("joinPool", "done")
  /\ m_setConnected' = {}
  /\ m_queReady' = [m_queReady EXCEPT !.items = <<>>]
  /\ UNCHANGED <<m_queDisconnected, m_bContinueLoop, listening, init, listener, giveback, pool>>

\* Destroy has joined all workers; the connections are deleted, the set and the
\* queue of ready ones cleared.
DeleteConnections ==
  /\ \A w \in Workers : worker[w] = "ended"
  /\ GotoMain("joinPool", "done")
  /\ m_setConnected' = {}
  /\ m_queReady' = [m_queReady EXCEPT !.items = <<>>]
  /\ UNCHANGED <<m_queDisconnected, m_bContinueLoop, listening, init, listener, giveback, pool>>

-----------------------------------------------------------------------------
Listen == \/ ListenLoop \/ Refuse \/ Allocate \/ ReadyWait \/ ReadyPop
          \/ AssignFails \/ AssignFailsPost \/ Assign
          \/ CreateConnectionThread \/ NoThread \/ SkipThread \/ SkipConnection \/ Insert

Disconnect == \/ DisconnectWait \/ DisconnectWaitFails \/ DisconnectPop \/ DisconnectTest
              \/ Erase \/ ReturnPush \/ ReturnPost

Work(w) == Start(w) \/ BroadcastEnds(w) \/ ClosePush(w) \/ ClosePost(w) \/ ReturnThread(w) \/ Escape(w)

Shut == CloseListenSocket \/ JoinListen \/ JoinReturner \/ DeleteConnections

Next == \/ Listen \/ Accept \/ AcceptFails
        \/ Disconnect
        \/ \E w \in Workers : Work(w) \/ LeaveSession(w) \/ Broadcast(w)
        \/ StartUpReturns \/ ShutDown \/ Shut

Spec == Init /\ [][Next]_vars

\* Threads that can run are scheduled; accept returns once its socket is closed; Peek
\* comes back every second and sees m_bContinueLoop; the callbacks return.  Nobody
\* is assumed to connect, to disconnect or to call ShutDown.
FairSpec == /\ Spec
            /\ WF_vars(Listen) /\ WF_vars(~listening /\ AcceptFails)
            /\ WF_vars(Disconnect)
            /\ \A w \in Workers : WF_vars(Work(w))
            /\ \A w \in Workers : WF_vars(~m_bContinueLoop /\ LeaveSession(w))
            /\ WF_vars(StartUpReturns) /\ WF_vars(Shut)

-----------------------------------------------------------------------------
(* Properties                                                              *)

\* Types.
TypeOK ==
  /\ m_queReady \in Queues(Connections) /\ m_queDisconnected \in Queues(Connections)
  /\ m_setConnected \subseteq Connections
  /\ m_bContinueLoop \in BOOLEAN /\ listening \in BOOLEAN
  /\ nDisconnectType \in DisconnectTypes \cup {NoResponse} /\ stInit \in DisconnectTypes
  /\ main \in {"starting", "up", "close", "joinListen", "joinReturner", "joinPool", "done"}
  /\ listen \in {"loop", "accept", "accepted", "wait", "pop", "assign", "post", "create",
                 "retry", "insert", "ended"}
  /\ newConnection \in Connections \cup {NoConnection}
  /\ returner \in {"wait", "pop", "test", "erase", "push", "post", "ended"}
  /\ returned \in Connections \cup {NoConnection}
  /\ worker \in [Workers -> {"free", "given", "session", "broadcast", "served", "closing",
                           "post", "return", "ended"}]
  /\ running \in [Workers -> Connections \cup {NoConnection}]

\* How often a connection object is held: by the queues, by the listen thread until it
\* hands it to a worker, by the workers and by the disconnect thread.
Occurrences(q, c) == Cardinality({i \in DOMAIN q.items : q.items[i] = c})

Holders(c) ==
  Occurrences(m_queReady, c) + Occurrences(m_queDisconnected, c)
  + (IF newConnection = c /\ listen # "insert" THEN 1 ELSE 0)
  + (IF returned = c THEN 1 ELSE 0)
  + Cardinality({w \in Workers : running[w] = c})

\* No connection object is in two hands at any time, and none is lost while the
\* server runs: the pool of connections never shrinks.
ConnectionsHaveOneHolder ==
  \A c \in Connections : Holders(c) <= 1 /\ (m_bContinueLoop => Holders(c) = 1)

\* Pop takes an item only when there is one: the semaphore never runs ahead of the
\* items, although the two are changed in separate steps by several threads.
PopFindsItem ==
  /\ listen = "pop" => ~IsEmpty(m_queReady)
  /\ returner = "pop" => ~IsEmpty(m_queDisconnected)

\* Broadcast reaches every connection that is served: the disconnect of an earlier
\* client never takes a connection out of m_setConnected that is in use again.
\* (Between CreateThread and the insertion the newest one may be missing.)
ServedConnectionsAreListed ==
  \A w \in Workers : worker[w] \in {"given", "session", "broadcast", "served", "closing"} =>
    running[w] \in m_setConnected \/ (listen = "insert" /\ newConnection = running[w])

\* Nothing is left that could use a connection when ShutDown has deleted them.
DeletedConnectionsAreUnused ==
  main = "done" =>
    /\ listen = "ended" /\ returner = "ended" /\ IsEmpty(m_queReady)
    /\ \A w \in Workers : worker[w] = "ended"

\* ShutDown comes back: no thread it joins waits for another one, or for a queue.
ShutDownEnds == main = "close" ~> main = "done"

\* A connection whose session ended becomes ready for another client, unless the
\* server is shut down.
ClosedConnectionsReturn ==
  \A c \in Connections :
    (\E w \in Workers : worker[w] = "closing" /\ running[w] = c)
      ~> Occurrences(m_queReady, c) = 1 \/ ~m_bContinueLoop
=============================================================================
