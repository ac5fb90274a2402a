---------------------------- MODULE MCNamedMutex ----------------------------
(* The creator's process has two threads, the others one.                    *)
EXTENDS NamedMutex, TLC

CONSTANTS c1, c2, t1, t2, pc0, p1, p2

MCThreads == {c1, c2, t1, t2}
MCPidOf == (c1 :> pc0) @@ (c2 :> pc0) @@ (t1 :> p1) @@ (t2 :> p2)

\* Exits with the mutex free, or held and marked, or while waiting for it.
CleanExits == {"idle", "enter", "release", "repair"}
Others == {c2, t1, t2}
=============================================================================
