---------------------------- MODULE SemaphoreMap ----------------------------
(***************************************************************************)
(* CGlobalSemaphoreMap (Src/100_System/GlobalSemaphoreMap.cpp): the table  *)
(* in shared memory that counts, per name and process, the open handles of *)
(* named semaphores and mutexes, and the calls that drive it: CreateMutex, *)
(* OpenMutex and CloseMutex on Linux.                                      *)
(*                                                                         *)
(*   sem[i]  an entry: a name, the first block of its list, its owner mark *)
(*   ref[k]  a block (index -k in the code): the count of one process,     *)
(*           linked to the other processes of the same name                *)
(*                                                                         *)
(* The table operations run under the Owner lock (module OwnerLock), one   *)
(* action per helper the code calls; Refresh runs without it.  A process   *)
(* has one thread, and process ids are not reused.                         *)
(***************************************************************************)
EXTENDS Integers, FiniteSets, FiniteSetsExt

CONSTANTS Procs, Names, NoPid, NoName,
          MaxOpen,    (* handles open or being opened at a time (bound)      *)
          Regimes     (* which of the environments below are considered      *)

ASSUME BoundAssumption == MaxOpen \in Nat \ {0}
ASSUME FinitenessAssumption == IsFiniteSet(Procs) /\ IsFiniteSet(Names)
ASSUME NullAssumption == NoPid \notin Procs /\ NoName \notin Names

(* "concurrent": calls of two processes interleave, no process dies.         *)
(* "mortal":     processes die at any step, but one process at a time is     *)
(*               inside CreateMutex, OpenMutex or CloseMutex.                *)
ASSUME RegimeAssumption == Regimes \subseteq {"concurrent", "mortal"}

VARIABLES regime,
          sem, ref,   (* m_pSemDataArr, m_pRefCountArr                       *)
          lock,       (* nEnterPID                                           *)
          linked,     (* the kernel semaphore each name is linked to         *)
          gone,       (* processes that died                                 *)
          torn,       (* whether one of them died inside the table           *)
          handles,    (* open handles: pHandleData and pSem of each process  *)
          pc, call    (* where each process is, and the locals of its call   *)

table == <<sem, ref>>
vars == <<regime, sem, ref, lock, linked, gone, torn, handles, pc, call>>

NoEntry == [szName |-> NoName, nFirst |-> 0, nOwnerPID |-> NoPid]
NoRef == [nPID |-> NoPid, nValue |-> 0, nPrev |-> 0, nNext |-> 0]
LastEntry == Cardinality(Names)
Blocks == 1 .. (Cardinality(Procs) * Cardinality(Names))

\* Kernel semaphores of a name: one for each handle, open or being opened, and
\* the one it is linked to.
NoObject == 0
Objects == 1 .. (MaxOpen + 2)

NoCall == [name |-> NoName, create |-> FALSE, obj |-> NoObject, entry |-> 0,
           block |-> 0, victim |-> NoPid, then |-> "idle"]

-----------------------------------------------------------------------------
(* The helpers, as functions of the table.                                  *)

Entries == {i \in 0 .. LastEntry : \A j \in 0 .. i : sem[j].szName # NoName}

FindSemData(n) == {i \in Entries : sem[i].szName = n /\ \A j \in 0 .. (i - 1) : sem[j].szName # n}

EndIndex == Cardinality(Entries)

\* The blocks met from block k on, by distance; 0 past the end of the list.
Walk(k) ==
  LET at[d \in 0 .. Cardinality(Blocks)] ==
        IF d = 0 THEN k ELSE IF at[d - 1] = 0 THEN 0 ELSE ref[at[d - 1]].nNext
  IN at

Chain(k) == {Walk(k)[d] : d \in 0 .. Cardinality(Blocks)} \ {0}

FindRefCount(first, p) ==
  LET at == Walk(first)
      met == {d \in DOMAIN at : at[d] # 0 /\ ref[at[d]].nPID = p}
  IN IF met = {} THEN 0 ELSE at[Min(met)]

\* The last block of a list, and the first block nobody counts in.
LastBlock(first) == CHOOSE k \in Chain(first) : ref[k].nNext = 0
FreeBlock == Min({k \in Blocks : ref[k].nValue <= 0})

NewBlock(p, prev) == [nPID |-> p, nValue |-> 0, nPrev |-> prev, nNext |-> 0]

\* (Variants named Bug... are what a slip in the definition after them would be.)
\* The next block keeps its link back.
BugRefWithout(k) ==
  [j \in Blocks |-> IF j = k THEN NoRef
                    ELSE IF j = ref[k].nPrev THEN [ref[j] EXCEPT !.nNext = ref[k].nNext]
                    ELSE ref[j]]

\* DeleteRefCount(&sem[i], &ref[k])
RefWithout(k) ==
  LET next == ref[k].nNext
      prev == ref[k].nPrev
  IN [j \in Blocks |->
        IF j = k THEN NoRef
        ELSE [ref[j] EXCEPT !.nPrev = IF j = next THEN prev ELSE @,
                            !.nNext = IF j = prev THEN next ELSE @]]

\* The list is cut also when a block before this one stays.
BugFirstWithout(i, k) == ref[k].nNext

FirstWithout(i, k) == IF ref[k].nPrev = 0 THEN ref[k].nNext ELSE sem[i].nFirst

\* The mark of the entry that moves is lost.
BugSemWithout(i) ==
  LET last == EndIndex - 1
  IN [j \in 0 .. LastEntry |->
        IF j = last THEN NoEntry
        ELSE IF j = i THEN [sem[last] EXCEPT !.nOwnerPID = sem[i].nOwnerPID] ELSE sem[j]]

\* DeleteSemData(&sem[i]): the last entry moves into the hole.  (The mark the
\* code leaves behind is written again before anything reads it.)
SemWithout(i) ==
  LET last == EndIndex - 1
  IN [j \in 0 .. LastEntry |->
        IF j = last THEN NoEntry
        ELSE IF j = i THEN sem[last] ELSE sem[j]]

-----------------------------------------------------------------------------
Init == /\ regime \in Regimes
        /\ sem = [i \in 0 .. LastEntry |-> NoEntry]
        /\ ref = [k \in Blocks |-> NoRef]
        /\ lock = NoPid
        /\ linked = [n \in Names |-> NoObject]
        /\ gone = {}
        /\ torn = FALSE
        /\ handles = [p \in Procs |-> {}]
        /\ pc = [p \in Procs |-> "idle"]
        /\ call = [p \in Procs |-> NoCall]

OpenLabels == {"refresh", "scan", "removeFind", "removeBlock", "removeEntry", "unlinkOld",
               "open", "create", "first", "append", "count"}

Goto(p, from, to) == pc[p] = from /\ pc' = [pc EXCEPT ![p] = to]
Become(p, c) == call' = [call EXCEPT ![p] = c]

\* Entering a call: up to MaxBusy processes at a time are in one.
MaxBusy == IF regime = "mortal" THEN 1 ELSE 2
MayBegin(p) == Cardinality({q \in Procs : pc[q] \notin {"idle", "dead"}}) < MaxBusy

HandlesOn(p, n) == {h \in handles[p] : h.name = n}

\* Handles that are open, and processes that are opening one.
OpenHandles == UNION {{<<p, h>> : h \in handles[p]} : p \in Procs}
Opening == {p \in Procs : pc[p] \in OpenLabels \/ call[p].then = "create"}
Opened == Cardinality(OpenHandles) + Cardinality(Opening)

\* Semaphores of a name still referred to by it, by a handle or by a call.
InUse(n) == {linked[n]} \cup {call[p].obj : p \in {q \in Procs : call[q].name = n}}
            \cup UNION {{h.obj : h \in HandlesOn(p, n)} : p \in Procs}
NewObject(n) == Min(Objects \ InUse(n))

-----------------------------------------------------------------------------
(* CreateMutex and OpenMutex with a name: Refresh, sem_open, Create.        *)

Open(p, n, create) ==
  /\ Opened < MaxOpen
  /\ MayBegin(p)
  /\ Goto(p, "idle", "refresh")
  /\ Become(p, [NoCall EXCEPT !.name = n, !.create = create])
  /\ UNCHANGED <<regime, table, lock, linked, gone, torn, handles>>

RefreshFind(p) ==
  /\ \/ /\ FindSemData(call[p].name) = {}
        /\ Goto(p, "refresh", "open")
        /\ UNCHANGED call
     \/ \E i \in FindSemData(call[p].name) :
          /\ Goto(p, "refresh", "scan")
          /\ Become(p, [call[p] EXCEPT !.entry = i, !.block = sem[i].nFirst])
  /\ UNCHANGED <<regime, table, lock, linked, gone, torn, handles>>

RefreshScan(p) ==
  LET k == call[p].block
      next == IF k = 0 THEN 0 ELSE ref[k].nNext
  IN /\ IF k # 0 /\ ref[k].nPID \in gone
        THEN /\ Goto(p, "scan", "removeFind")
             /\ Become(p, [call[p] EXCEPT !.victim = ref[k].nPID])
        ELSE /\ Goto(p, "scan", IF next = 0 THEN "open" ELSE "scan")
             /\ Become(p, [call[p] EXCEPT !.block = next])
     /\ UNCHANGED <<regime, table, lock, linked, gone, torn, handles>>

RefreshRemoveFind(p) ==
  LET k == FindRefCount(sem[call[p].entry].nFirst, call[p].victim)
  IN /\ Goto(p, "removeFind", IF k = 0 THEN "scan" ELSE "removeBlock")
     /\ Become(p, [call[p] EXCEPT
                     !.block = IF k = 0 THEN sem[call[p].entry].nFirst ELSE k,
                     !.victim = NoPid])
     /\ UNCHANGED <<regime, table, lock, linked, gone, torn, handles>>

RefreshRemoveBlock(p) ==
  LET i == call[p].entry
      first == FirstWithout(i, call[p].block)
  IN /\ Goto(p, "removeBlock", IF first = 0 THEN "removeEntry" ELSE "scan")
     /\ ref' = RefWithout(call[p].block)
     /\ sem' = [sem EXCEPT ![i].nFirst = first]
     /\ Become(p, [call[p] EXCEPT !.block = first])
     /\ UNCHANGED <<regime, lock, linked, gone, torn, handles>>

RefreshRemoveEntry(p) ==
  /\ Goto(p, "removeEntry", "unlinkOld")
  /\ sem' = IF EndIndex = 0 THEN sem ELSE SemWithout(call[p].entry)
  /\ UNCHANGED <<regime, ref, lock, linked, gone, torn, handles, call>>

UnlinkOld(p) ==
  /\ Goto(p, "unlinkOld", "open")
  /\ linked' = [linked EXCEPT ![call[p].name] = NoObject]
  /\ UNCHANGED <<regime, table, lock, gone, torn, handles, call>>

\* sem_open with O_CREAT makes a semaphore when the name has none; without it
\* the call fails.
SemOpen(p) ==
  LET n == call[p].name
      found == linked[n]
      obj == IF found = NoObject THEN NewObject(n) ELSE found
  IN /\ pc[p] = "open"
     /\ \/ /\ found = NoObject /\ ~call[p].create
           /\ Goto(p, "open", "idle")
           /\ Become(p, NoCall)
           /\ UNCHANGED linked
        \/ /\ found # NoObject \/ call[p].create
           /\ Goto(p, "open", "lock")
           /\ Become(p, [NoCall EXCEPT !.name = n, !.obj = obj, !.then = "create"])
           /\ linked' = [linked EXCEPT ![n] = obj]
     /\ UNCHANGED <<regime, table, lock, gone, torn, handles>>

\* Create(pszName, nPID), under the lock.
CreateEntry(p) ==
  LET n == call[p].name
      i == IF FindSemData(n) = {} THEN EndIndex ELSE CHOOSE j \in FindSemData(n) : TRUE
  IN /\ Goto(p, "create", "first")
     /\ sem' = IF FindSemData(n) # {} THEN sem
               ELSE [sem EXCEPT ![i].szName = n, ![i].nOwnerPID = p]
     /\ Become(p, [call[p] EXCEPT !.entry = i])
     /\ UNCHANGED <<regime, ref, lock, linked, gone, torn, handles>>

CreateFirst(p) ==
  LET i == call[p].entry
  IN /\ Goto(p, "first", "append")
     /\ IF sem[i].nFirst # 0 THEN UNCHANGED table
        ELSE /\ ref' = [ref EXCEPT ![FreeBlock] = NewBlock(p, 0)]
             /\ sem' = [sem EXCEPT ![i].nFirst = FreeBlock]
     /\ UNCHANGED <<regime, lock, linked, gone, torn, handles, call>>

CreateAppend(p) ==
  LET first == sem[call[p].entry].nFirst
      found == FindRefCount(first, p)
      last == LastBlock(first)
      k == IF found # 0 THEN found ELSE FreeBlock
  IN /\ Goto(p, "append", "count")
     /\ ref' = IF found # 0 THEN ref
               ELSE [ref EXCEPT ![k] = NewBlock(p, last), ![last].nNext = k]
     /\ Become(p, [call[p] EXCEPT !.block = k])
     /\ UNCHANGED <<regime, sem, lock, linked, gone, torn, handles>>

\* A handle that is not counted.
BugCreateCount(p) ==
  LET c == call[p]
  IN /\ Goto(p, "count", "unlock")
     /\ handles' = [handles EXCEPT ![p] = @ \cup {[id |-> 1, name |-> c.name, obj |-> c.obj, block |-> c.block]}]
     /\ Become(p, NoCall)
     /\ UNCHANGED <<regime, table, lock, linked, gone, torn>>

CreateCount(p) ==
  LET c == call[p]
  IN /\ Goto(p, "count", "unlock")
     /\ ref' = [ref EXCEPT ![c.block].nValue = @ + 1]
     /\ handles' = [handles EXCEPT ![p] =
          @ \cup {[id |-> Min(1 .. MaxOpen \ {h.id : h \in HandlesOn(p, c.name)}),
                   name |-> c.name, obj |-> c.obj, block |-> c.block]}]
     /\ Become(p, NoCall)
     /\ UNCHANGED <<regime, sem, lock, linked, gone, torn>>

-----------------------------------------------------------------------------
(* CloseMutex: Destroy and, for the last handle of the name, sem_unlink.    *)

Close(p, h) ==
  /\ MayBegin(p)
  /\ Goto(p, "idle", "lock")
  /\ handles' = [handles EXCEPT ![p] = @ \ {h}]
  /\ Become(p, [NoCall EXCEPT !.name = h.name, !.block = h.block, !.then = "uncount"])
  /\ UNCHANGED <<regime, table, lock, linked, gone, torn>>

\* The block outlives its last handle.
BugDestroyUncount(p) ==
  /\ Goto(p, "uncount", "unlock")
  /\ ref' = [ref EXCEPT ![call[p].block].nValue = @ - 1]
  /\ Become(p, NoCall)
  /\ UNCHANGED <<regime, sem, lock, linked, gone, torn, handles>>

DestroyUncount(p) ==
  LET k == call[p].block
  IN /\ Goto(p, "uncount", IF ref[k].nValue > 1 THEN "unlock" ELSE "dropBlock")
     /\ ref' = [ref EXCEPT ![k].nValue = @ - 1]
     /\ Become(p, IF ref[k].nValue > 1 THEN NoCall ELSE call[p])
     /\ UNCHANGED <<regime, sem, lock, linked, gone, torn, handles>>

DestroyBlock(p) ==
  LET k == call[p].block
  IN /\ \/ /\ FindSemData(call[p].name) = {}
           /\ Goto(p, "dropBlock", "unlock")
           /\ Become(p, NoCall)
           /\ UNCHANGED table
        \/ \E i \in FindSemData(call[p].name) :
             /\ Goto(p, "dropBlock", IF FirstWithout(i, k) = 0 THEN "dropEntry" ELSE "unlock")
             /\ ref' = RefWithout(k)
             /\ sem' = [sem EXCEPT ![i].nFirst = FirstWithout(i, k)]
             /\ Become(p, IF FirstWithout(i, k) = 0 THEN [call[p] EXCEPT !.entry = i] ELSE NoCall)
     /\ UNCHANGED <<regime, lock, linked, gone, torn, handles>>

DestroyEntry(p) ==
  /\ Goto(p, "dropEntry", "unlock")
  /\ sem' = SemWithout(call[p].entry)
  /\ Become(p, [NoCall EXCEPT !.name = call[p].name, !.then = "unlinkLast"])
  /\ UNCHANGED <<regime, ref, lock, linked, gone, torn, handles>>

\* The kernel semaphore keeps its name.
BugUnlinkLast(p) ==
  /\ Goto(p, "unlinkLast", "idle")
  /\ Become(p, NoCall)
  /\ UNCHANGED <<regime, table, lock, linked, gone, torn, handles>>

UnlinkLast(p) ==
  /\ Goto(p, "unlinkLast", "idle")
  /\ linked' = [linked EXCEPT ![call[p].name] = NoObject]
  /\ Become(p, NoCall)
  /\ UNCHANGED <<regime, table, lock, gone, torn, handles>>

-----------------------------------------------------------------------------
(* MarkOwner and UnmarkOwner.                                               *)

\* One action for the whole call, made while nobody holds the lock (bound: and
\* only in the regime where processes die).
Mark(p, h, owner) ==
  /\ pc[p] = "idle"
  /\ regime = "mortal"
  /\ MayBegin(p)
  /\ lock = NoPid
  /\ sem' = [i \in 0 .. LastEntry |->
               IF i \in FindSemData(h.name) THEN [sem[i] EXCEPT !.nOwnerPID = owner] ELSE sem[i]]
  /\ UNCHANGED <<regime, ref, lock, linked, gone, torn, handles, pc, call>>

-----------------------------------------------------------------------------
(* The lock around each of them.                                            *)

LockFree(p) ==
  /\ lock = NoPid
  /\ Goto(p, "lock", call[p].then)
  /\ lock' = p
  /\ Become(p, [call[p] EXCEPT !.then = "idle"])
  /\ UNCHANGED <<regime, table, linked, gone, torn, handles>>

LockOfDead(p) ==
  /\ lock \in gone
  /\ Goto(p, "lock", "remove")
  /\ lock' = p
  /\ Become(p, [call[p] EXCEPT !.victim = lock])
  /\ UNCHANGED <<regime, table, linked, gone, torn, handles>>

\* Remove(nCleanupPid): the dead holder's blocks, entry by entry, up to the first
\* entry without a list.
RemoveNext(p) ==
  LET c == call[p]
      first == sem[c.entry].nFirst
      k == FindRefCount(first, c.victim)
  IN \/ /\ first = 0
        /\ Goto(p, "remove", c.then)
        /\ Become(p, [c EXCEPT !.entry = 0, !.victim = NoPid, !.then = "idle"])
        /\ UNCHANGED <<regime, table, lock, linked, gone, torn, handles>>
     \/ /\ first # 0 /\ k = 0
        /\ Goto(p, "remove", "remove")
        /\ Become(p, [c EXCEPT !.entry = @ + 1])
        /\ UNCHANGED <<regime, table, lock, linked, gone, torn, handles>>
     \/ /\ first # 0 /\ k # 0
        /\ Goto(p, "remove", IF FirstWithout(c.entry, k) = 0 THEN "removeLast" ELSE "remove")
        /\ ref' = RefWithout(k)
        /\ sem' = [sem EXCEPT ![c.entry].nFirst = FirstWithout(c.entry, k)]
        /\ Become(p, IF FirstWithout(c.entry, k) = 0 THEN c ELSE [c EXCEPT !.entry = @ + 1])
        /\ UNCHANGED <<regime, lock, linked, gone, torn, handles>>

RemoveLast(p) ==
  /\ Goto(p, "removeLast", "remove")
  /\ sem' = SemWithout(call[p].entry)
  /\ UNCHANGED <<regime, ref, lock, linked, gone, torn, handles, call>>

Unlock(p) ==
  /\ Goto(p, "unlock", call[p].then)
  /\ lock' = IF lock = p THEN NoPid ELSE lock
  /\ Become(p, [call[p] EXCEPT !.then = "idle"])
  /\ UNCHANGED <<regime, table, linked, gone, torn, handles>>

-----------------------------------------------------------------------------
\* Between two writes to the table: under the lock, or in Refresh's removal.
InTable(p) == lock = p \/ pc[p] \in {"removeFind", "removeBlock", "removeEntry", "unlinkOld"}

\* A process is killed or exits without closing its handles, at any step, but at
\* most once inside the table (bound: a second such death can meet what the first
\* left half done).
Die(p) == /\ regime = "mortal"
          /\ pc[p] # "dead"
          /\ InTable(p) => ~torn
          /\ torn' = (torn \/ InTable(p))
          /\ pc' = [pc EXCEPT ![p] = "dead"]
          /\ gone' = gone \cup {p}
          /\ handles' = [handles EXCEPT ![p] = {}]
          /\ Become(p, NoCall)
          /\ UNCHANGED <<regime, table, lock, linked>>

Begin(p) == \/ \E n \in Names, create \in BOOLEAN : Open(p, n, create)
            \/ \E h \in handles[p] : Close(p, h) \/ Mark(p, h, p) \/ Mark(p, h, NoPid)

Step(p) == \/ RefreshFind(p) \/ RefreshScan(p) \/ RefreshRemoveFind(p)
           \/ RefreshRemoveBlock(p) \/ RefreshRemoveEntry(p) \/ UnlinkOld(p)
           \/ SemOpen(p) \/ CreateEntry(p) \/ CreateFirst(p) \/ CreateAppend(p)
           \/ CreateCount(p) \/ DestroyUncount(p) \/ DestroyBlock(p)
           \/ DestroyEntry(p) \/ UnlinkLast(p)
           \/ LockFree(p) \/ LockOfDead(p) \/ RemoveNext(p) \/ RemoveLast(p)
           \/ Unlock(p)

Next == \E p \in Procs : Begin(p) \/ Step(p) \/ Die(p)

Spec == Init /\ [][Next]_vars

-----------------------------------------------------------------------------
(* Properties                                                              *)

Block == [nPID : Procs \cup {NoPid}, nValue : 0 .. MaxOpen,
          nPrev : Blocks \cup {0}, nNext : Blocks \cup {0}]

\* Types; in particular a block's count never leaves 0 .. MaxOpen.
TypeOK == /\ sem \in [0 .. LastEntry -> [szName : Names \cup {NoName},
                                         nFirst : Blocks \cup {0},
                                         nOwnerPID : Procs \cup {NoPid}]]
          /\ ref \in [Blocks -> Block]
          /\ lock \in Procs \cup {NoPid}
          /\ linked \in [Names -> Objects \cup {NoObject}]
          /\ gone \subseteq Procs

\* The lists are doubly linked, end, and do not share a block, and no name has
\* two entries.
ListsSound ==
  /\ \A i \in Entries :
       /\ sem[i].nFirst # 0 => ref[sem[i].nFirst].nPrev = 0
       /\ \A k \in Chain(sem[i].nFirst) :
            ref[k].nNext # 0 => ref[ref[k].nNext].nPrev = k
  /\ \A i, j \in Entries : i # j =>
       /\ sem[i].szName # sem[j].szName
       /\ Chain(sem[i].nFirst) \cap Chain(sem[j].nFirst) = {}

\* A live process that is not in a call has exactly one block in the list of
\* each name it has open, all its handles point to that block, and the block
\* counts them; it has none in the other lists.
CountsMatch ==
  \A p \in Procs, n \in Names :
    pc[p] = "idle" =>
      LET chain == UNION {Chain(sem[i].nFirst) : i \in FindSemData(n)}
          mine == {k \in chain : ref[k].nPID = p}
      IN /\ mine = {h.block : h \in HandlesOn(p, n)}
         /\ \A k \in mine : ref[k].nValue = Cardinality(HandlesOn(p, n))
         /\ Cardinality(mine) <= 1

\* All live handles of one name are handles on one kernel semaphore, the one a
\* further CreateMutex or OpenMutex of that name gets.
SameSemaphore ==
  \A p \in Procs : \A h \in handles[p] : linked[h.name] = h.obj

\* With one process in a call at a time, deaths do not break that.
OneSemaphore == regime = "mortal" => SameSemaphore

\* When nobody died, no handle is open and no call is in progress, the table is
\* empty and no name is linked: nothing is left behind for the next run.
NothingLeft ==
  /\ gone = {}
  /\ \A p \in Procs : pc[p] = "idle" /\ handles[p] = {}
  => Entries = {} /\ \A n \in Names : linked[n] = NoObject

\* The owner mark of a name changes only through MarkOwner and UnmarkOwner on
\* that name, however the entries are moved about.
MarkOf(n) == {sem[i].nOwnerPID : i \in FindSemData(n)}

MarksStay ==
  [][\A n \in Names :
       MarkOf(n) # {} /\ MarkOf(n)' # {} /\ MarkOf(n)' # MarkOf(n)
       => \E p \in Procs : \E h \in HandlesOn(p, n) : Mark(p, h, p) \/ Mark(p, h, NoPid)]_vars
=============================================================================
