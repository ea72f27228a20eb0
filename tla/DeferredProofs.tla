--------------------------- MODULE DeferredProofs ---------------------------
(***************************************************************************)
(* Proofs about Deferred, for every set of tasks and commands, every       *)
(* finite set of threads and every bound on the entries: what is left when *)
(* the module is unloaded, and the references on the monitored tasks.      *)
(***************************************************************************)
EXTENDS Deferred, FiniteSetTheorems, TLAPS

-----------------------------------------------------------------------------
(* The invariant.                                                          *)

\* A thread on its way through get_proc and the insertion has a task.
ArgInv ==
  \A t \in Threads :
    pc[t] \in {"lookup", "found", "add", "add_stale"} => arg[t] \in Tasks

\* While deferred_exit runs, and after it, no thread is in the device.
IdleInv ==
  mod \notin {"loading", "live"} => \A t \in Threads : pc[t] \in {"closed", "killed"}

\* What the steps of deferred_exit have stopped stays stopped; before
\* timer_setup nothing has been started.
StoppedInv ==
  /\ mod \in {"none", "loading", "exit_work", "exit_list"} => timer # "pending" /\ tpc = "off"
  /\ mod \in {"none", "loading", "exit_list"} => work = NoWork
  /\ mod = "loading" => timer = "unset"
  /\ mod = "none" => \A p \in Tasks : mon[p] = 0 /\ stale[p] = 0

\* The reference that get_proc has taken keeps the task from being freed.
AddingNotFreed ==
  \A t \in Threads : pc[t] = "add" => task[arg[t]] # "freed"

TypeInv == TypeOK /\ ArgInv
StageInv == IdleInv /\ StoppedInv
FreedInv == AddingNotFreed /\ MonitoredNotFreed

DeferredInv == TypeInv /\ StageInv /\ RefsMatchList /\ FreedInv

-----------------------------------------------------------------------------
(* Counting the references of threads that are adding an entry.            *)

LEMMA AddingFinite == \A p \in Tasks : IsFiniteSet(Adding(p))
<1>1. \A p \in Tasks : Adding(p) \subseteq Threads
  BY DEF Adding
<1> QED BY <1>1, FiniteAssumption, FS_Subset

LEMMA AddingCount == \A p \in Tasks : Cardinality(Adding(p)) \in Nat
  BY AddingFinite, FS_CardinalityType

\* Nobody is counted who is not there.
LEMMA NobodyAdding ==
  ASSUME NEW p \in Tasks, Cardinality(Adding(p)) = 0
  PROVE  \A t \in Threads : ~(pc[t] = "add" /\ arg[t] = p)
<1>1. Adding(p) = {}
  BY AddingFinite, FS_EmptySet
<1> QED BY <1>1 DEF Adding

\* A step of a thread that neither is adding nor begins to.
LEMMA OthersAdding ==
  ASSUME NEW t \in Threads, NEW next, TypeOK, pc[t] # "add", next # "add",
         pc' = [pc EXCEPT ![t] = next],
         \A u \in Threads \ {t} : arg'[u] = arg[u]
  PROVE  \A p \in Tasks : Adding(p)' = Adding(p)
<1> TAKE p \in Tasks
<1>1. \A u \in Threads : (pc'[u] = "add" /\ arg'[u] = p) <=> (pc[u] = "add" /\ arg[u] = p)
  BY DEF TypeOK
<1> QED BY <1>1 DEF Adding

\* get_proc hands an entry out.
LEMMA StartsAdding ==
  ASSUME NEW t \in Threads, TypeOK, pc[t] = "found", arg[t] \in Tasks,
         pc' = [pc EXCEPT ![t] = "add"], arg' = arg, NEW p \in Tasks
  PROVE  Cardinality(Adding(p)') = Cardinality(Adding(p)) + (IF p = arg[t] THEN 1 ELSE 0)
<1>1. CASE p = arg[t]
  <2>1. Adding(p)' = Adding(p) \cup {t} /\ t \notin Adding(p)
    BY <1>1 DEF Adding, TypeOK
  <2> QED BY <1>1, <2>1, AddingFinite, AddingCount, FS_AddElement
<1>2. CASE p # arg[t]
  <2>1. Adding(p)' = Adding(p)
    BY <1>2 DEF Adding, TypeOK
  <2> QED BY <1>2, <2>1, AddingCount
<1> QED BY <1>1, <1>2

\* The entry is put on the list.
LEMMA EndsAdding ==
  ASSUME NEW t \in Threads, TypeOK, pc[t] = "add", arg[t] \in Tasks,
         NEW next, next # "add", pc' = [pc EXCEPT ![t] = next],
         \A u \in Threads \ {t} : arg'[u] = arg[u], NEW p \in Tasks
  PROVE  Cardinality(Adding(p)') = Cardinality(Adding(p)) - (IF p = arg[t] THEN 1 ELSE 0)
<1>1. CASE p = arg[t]
  <2>1. Adding(p)' = Adding(p) \ {t} /\ t \in Adding(p)
    BY <1>1 DEF Adding, TypeOK
  <2> QED BY <1>1, <2>1, AddingFinite, AddingCount, FS_RemoveElement
<1>2. CASE p # arg[t]
  <2>1. Adding(p)' = Adding(p)
    BY <1>2 DEF Adding, TypeOK
  <2> QED BY <1>2, <2>1, AddingCount
<1> QED BY <1>1, <1>2

-----------------------------------------------------------------------------
(* The initial states.                                                     *)

LEMMA InitInv == Init => DeferredInv
<1> SUFFICES ASSUME Init PROVE DeferredInv
  OBVIOUS
<1>1. TypeInv
  BY DEF Init, TypeInv, TypeOK, ArgInv, NoWork
<1>2. StageInv
  BY DEF Init, StageInv, IdleInv, StoppedInv
<1>3. RefsMatchList
  <2> SUFFICES ASSUME NEW p \in Tasks PROVE usage[p] = mon[p] + Cardinality(Adding(p))
    BY DEF RefsMatchList
  <2>1. Adding(p) = {}
    BY DEF Init, Adding
  <2>2. Cardinality(Adding(p)) = 0
    BY <2>1, FS_EmptySet
  <2> QED BY <2>2 DEF Init
<1>4. FreedInv
  BY DEF Init, FreedInv, AddingNotFreed, MonitoredNotFreed
<1> QED BY <1>1, <1>2, <1>3, <1>4 DEF DeferredInv

-----------------------------------------------------------------------------
(* The actions, by whom they are of.                                       *)

Process == \E p \in Tasks : Die(p) \/ Reap(p) \/ FreeTask(p)

Machine == LoadDevice \/ TimerSetup \/ Fire \/ Handler \/ StartWork \/ EndWork

Caller(t) ==
  \/ Open(t) \/ Release(t)
  \/ \E cmd \in Commands : IoctlFlag(t, cmd)
  \/ IoctlCancelBegin(t)
  \/ \E p \in Tasks : IoctlMonBegin(t, p)
  \/ Ioctl(t)

LEMMA Actions ==
  Next <=> Process \/ Machine \/ (\E t \in Threads : Caller(t)) \/ UnloadBegin \/ Exit
  BY DEF Next, Process, Machine, Caller

\* What is left of the references when those of the list are dropped.
LEMMA DropListed ==
  ASSUME TypeOK, RefsMatchList, NEW p \in Tasks
  PROVE  /\ usage[p] - mon[p] = Cardinality(Adding(p))
         /\ usage[p] - mon[p] \in Nat
<1>1. usage[p] = mon[p] + Cardinality(Adding(p))
  BY DEF RefsMatchList
<1>2. mon[p] \in Nat /\ usage[p] \in Nat
  BY DEF TypeOK
<1> QED BY <1>1, <1>2, AddingCount

-----------------------------------------------------------------------------
(* Types.                                                                  *)

LEMMA TypeProcess == TypeInv /\ Process => TypeInv'
<1> SUFFICES ASSUME TypeInv, NEW p \in Tasks, Die(p) \/ Reap(p) \/ FreeTask(p)
             PROVE  TypeInv'
  BY DEF Process
<1> USE DEF TypeInv, TypeOK, ArgInv, data, thr
<1>1. CASE Die(p)
  BY <1>1 DEF Die
<1>2. CASE Reap(p)
  BY <1>2 DEF Reap
<1>3. CASE FreeTask(p)
  BY <1>3 DEF FreeTask
<1> QED BY <1>1, <1>2, <1>3

LEMMA TypeMachine == TypeInv /\ RefsMatchList /\ Machine => TypeInv'
<1> SUFFICES ASSUME TypeInv, RefsMatchList, Machine PROVE TypeInv'
  OBVIOUS
<1> USE DEF TypeInv, TypeOK, ArgInv, env, thr, NoWork
<1>1. CASE LoadDevice
  BY <1>1 DEF LoadDevice
<1>2. CASE TimerSetup
  BY <1>2 DEF TimerSetup
<1>3. CASE Fire
  BY <1>3 DEF Fire
<1>4. CASE Beep
  BY <1>4 DEF Beep
<1>5. CASE ScheduleWork
  BY <1>5 DEF ScheduleWork
<1>6. CASE Sweep
  <2>1. \A p \in Tasks : usage[p] - mon[p] \in Nat
    BY DropListed
  <2>2. usage' \in [Tasks -> Nat]
    BY <1>6, <2>1 DEF Sweep
  <2>3. mon' \in [Tasks -> Nat]
    BY <1>6 DEF Sweep
  <2>4. stale' \in [Tasks -> Nat]
    BY <1>6, DeferredAssumption DEF Sweep
  <2> QED BY <1>6, <2>2, <2>3, <2>4 DEF Sweep
<1>7. CASE Rearm
  BY <1>7 DEF Rearm, ModTimer
<1>8. CASE StartWork
  BY <1>8 DEF StartWork
<1>9. CASE EndWork
  BY <1>9 DEF EndWork
<1> QED BY <1>1, <1>2, <1>3, <1>4, <1>5, <1>6, <1>7, <1>8, <1>9 DEF Machine, Handler

LEMMA TypeCaller ==
  ASSUME TypeInv, NEW t \in Threads, Caller(t)
  PROVE  TypeInv'
<1> USE DEF TypeInv, TypeOK, ArgInv, data, env, Goto
<1>1. CASE Open(t)
  BY <1>1 DEF Open
<1>2. CASE Release(t)
  BY <1>2 DEF Release
<1>3. ASSUME NEW cmd \in Commands, IoctlFlag(t, cmd) PROVE TypeInv'
  BY <1>3 DEF IoctlFlag
<1>4. CASE IoctlCancelBegin(t)
  BY <1>4 DEF IoctlCancelBegin
<1>5. ASSUME NEW p \in Tasks, IoctlMonBegin(t, p) PROVE TypeInv'
  BY <1>5 DEF IoctlMonBegin
<1>6. CASE IoctlArm(t)
  BY <1>6 DEF IoctlArm, ModTimer
<1>7. CASE IoctlOops(t)
  BY <1>7 DEF IoctlOops
<1>8. CASE IoctlCancel(t)
  BY <1>8 DEF IoctlCancel, DelTimerSync
<1>9. CASE GetProcLookup(t)
  BY <1>9 DEF GetProcLookup, MonReturn
<1>10. CASE GetProcNoMemory(t)
  BY <1>10 DEF GetProcNoMemory, MonReturn
<1>11. CASE GetProcTake(t)
  <2>1. arg[t] \in Tasks
    BY <1>11 DEF GetProcTake
  <2> QED BY <1>11, <2>1 DEF GetProcTake
<1>12. CASE IoctlAdd(t)
  <2>1. arg[t] \in Tasks
    BY <1>12 DEF IoctlAdd
  <2>2. mon' \in [Tasks -> Nat] /\ stale' \in [Tasks -> Nat]
    BY <1>12, <2>1 DEF IoctlAdd
  <2> QED BY <1>12, <2>2 DEF IoctlAdd, MonReturn
<1>13. CASE IoctlMonFlag(t)
  BY <1>13 DEF IoctlMonFlag
<1> QED BY <1>1, <1>2, <1>3, <1>4, <1>5, <1>6, <1>7, <1>8, <1>9, <1>10, <1>11, <1>12, <1>13
        DEF Caller, Ioctl

LEMMA TypeExit == TypeInv /\ RefsMatchList /\ (UnloadBegin \/ Exit) => TypeInv'
<1> SUFFICES ASSUME TypeInv, RefsMatchList, UnloadBegin \/ Exit PROVE TypeInv'
  OBVIOUS
<1> USE DEF TypeInv, TypeOK, ArgInv, data, env, thr, NoWork
<1>1. CASE UnloadBegin
  BY <1>1 DEF UnloadBegin
<1>2. CASE ExitTimer
  BY <1>2 DEF ExitTimer, DelTimerSync
<1>3. CASE ExitWork
  BY <1>3 DEF ExitWork
<1>4. CASE ExitList
  <2>1. \A p \in Tasks : usage[p] - mon[p] \in Nat
    BY DropListed
  <2> QED BY <1>4, <2>1 DEF ExitList
<1> QED BY <1>1, <1>2, <1>3, <1>4 DEF Exit

-----------------------------------------------------------------------------
(* The stages of unloading.                                                *)

LEMMA StageMachine == TypeInv /\ StageInv /\ Machine => StageInv'
<1> SUFFICES ASSUME TypeInv, StageInv, Machine PROVE StageInv'
  OBVIOUS
<1> USE DEF TypeInv, TypeOK, StageInv, IdleInv, StoppedInv, env, thr, NoWork
<1>1. CASE LoadDevice
  BY <1>1 DEF LoadDevice
<1>2. CASE TimerSetup
  BY <1>2 DEF TimerSetup
<1>3. CASE Fire
  BY <1>3 DEF Fire
<1>4. CASE Beep
  BY <1>4 DEF Beep
<1>5. CASE ScheduleWork
  BY <1>5 DEF ScheduleWork
<1>6. CASE Sweep
  BY <1>6 DEF Sweep
<1>7. CASE Rearm
  BY <1>7 DEF Rearm, ModTimer
<1>8. CASE StartWork
  BY <1>8 DEF StartWork
<1>9. CASE EndWork
  BY <1>9 DEF EndWork
<1> QED BY <1>1, <1>2, <1>3, <1>4, <1>5, <1>6, <1>7, <1>8, <1>9 DEF Machine, Handler

\* A thread is in the device, or opens it, only while it is loading or live; then
\* what has been stopped is what has not been started: its timer is not set up.
LEMMA StageCaller ==
  ASSUME TypeInv, StageInv, NEW t \in Threads, Caller(t)
  PROVE  StageInv'
<1> USE DEF TypeInv, TypeOK, StageInv, IdleInv, StoppedInv, data, env, Goto
<1>1. mod \in {"loading", "live"}
  <2>1. pc[t] \notin {"closed", "killed"} \/ Open(t)
    BY DEF Caller, Ioctl, Release, IoctlFlag, IoctlCancelBegin, IoctlMonBegin, IoctlArm,
           IoctlOops, IoctlCancel, GetProcLookup, GetProcNoMemory, GetProcTake, IoctlAdd,
           IoctlMonFlag
  <2> QED BY <2>1 DEF Open
<1>2. mod' = mod
  BY DEF Caller, Ioctl, Open, Release, IoctlFlag, IoctlCancelBegin, IoctlMonBegin, IoctlArm,
         IoctlOops, IoctlCancel, GetProcLookup, GetProcNoMemory, GetProcTake, IoctlAdd,
         IoctlMonFlag
<1>3. tpc' = tpc /\ work' = work
  BY DEF Caller, Ioctl, Open, Release, IoctlFlag, IoctlCancelBegin, IoctlMonBegin, IoctlArm,
         IoctlOops, IoctlCancel, GetProcLookup, GetProcNoMemory, GetProcTake, IoctlAdd,
         IoctlMonFlag
<1>4. timer = "unset" => timer' = "unset"
  BY DEF Caller, Ioctl, Open, Release, IoctlFlag, IoctlCancelBegin, IoctlMonBegin, IoctlArm,
         IoctlOops, IoctlCancel, GetProcLookup, GetProcNoMemory, GetProcTake, IoctlAdd,
         IoctlMonFlag, DelTimerSync
<1> QED BY <1>1, <1>2, <1>3, <1>4

LEMMA StageExit == TypeInv /\ StageInv /\ (UnloadBegin \/ Exit) => StageInv'
<1> SUFFICES ASSUME TypeInv, StageInv, UnloadBegin \/ Exit PROVE StageInv'
  OBVIOUS
<1> USE DEF TypeInv, TypeOK, StageInv, IdleInv, StoppedInv, data, env, thr, NoWork
<1>1. CASE UnloadBegin
  BY <1>1 DEF UnloadBegin
<1>2. CASE ExitTimer
  BY <1>2 DEF ExitTimer, DelTimerSync
<1>3. CASE ExitWork
  BY <1>3 DEF ExitWork
<1>4. CASE ExitList
  BY <1>4 DEF ExitList
<1> QED BY <1>1, <1>2, <1>3, <1>4 DEF Exit

-----------------------------------------------------------------------------
(* The references.                                                         *)

\* Steps that touch neither the list, nor the references, nor the threads.
LEMMA RefsKept == RefsMatchList /\ UNCHANGED <<mon, usage, pc, arg>> => RefsMatchList'
<1> SUFFICES ASSUME RefsMatchList, UNCHANGED <<mon, usage, pc, arg>>, NEW p \in Tasks
             PROVE  usage'[p] = mon'[p] + Cardinality(Adding(p)')
  BY DEF RefsMatchList
<1>1. Adding(p)' = Adding(p)
  BY DEF Adding
<1> QED BY <1>1 DEF RefsMatchList

\* Those that drop entries with as many references.
LEMMA RefsDropped ==
  ASSUME TypeOK, RefsMatchList, NEW S \in SUBSET Tasks, UNCHANGED <<pc, arg>>,
         mon' = [p \in Tasks |-> IF p \in S THEN 0 ELSE mon[p]],
         usage' = [p \in Tasks |-> IF p \in S THEN usage[p] - mon[p] ELSE usage[p]]
  PROVE  RefsMatchList'
<1> SUFFICES ASSUME NEW p \in Tasks
             PROVE  usage'[p] = mon'[p] + Cardinality(Adding(p)')
  BY DEF RefsMatchList
<1>1. Adding(p)' = Adding(p)
  BY DEF Adding
<1>2. CASE p \in S
  BY <1>1, <1>2, DropListed, AddingCount
<1>3. CASE p \notin S
  BY <1>1, <1>3 DEF RefsMatchList
<1> QED BY <1>2, <1>3

\* A thread that neither is adding an entry nor begins to.
LEMMA RefsOther ==
  ASSUME NEW t \in Threads, NEW next, TypeOK, RefsMatchList, pc[t] # "add", next # "add",
         pc' = [pc EXCEPT ![t] = next], \A u \in Threads \ {t} : arg'[u] = arg[u],
         UNCHANGED <<mon, usage>>
  PROVE  RefsMatchList'
<1>1. \A p \in Tasks : Adding(p)' = Adding(p)
  BY OthersAdding
<1> QED BY <1>1 DEF RefsMatchList

LEMMA RefsMachine == TypeInv /\ RefsMatchList /\ StageInv /\ Machine => RefsMatchList'
<1> SUFFICES ASSUME TypeInv, RefsMatchList, StageInv, Machine PROVE RefsMatchList'
  OBVIOUS
<1>1. CASE LoadDevice
  <2>1. UNCHANGED <<mon, usage, pc, arg>>
    BY <1>1 DEF LoadDevice, StageInv, StoppedInv, TypeInv, TypeOK, env, thr
  <2> QED BY <2>1, RefsKept
<1>2. CASE Sweep
  <2> DEFINE S == {p \in Tasks : Dead(p)}
  <2>1. /\ mon' = [p \in Tasks |-> IF p \in S THEN 0 ELSE mon[p]]
        /\ usage' = [p \in Tasks |-> IF p \in S THEN usage[p] - mon[p] ELSE usage[p]]
    BY <1>2 DEF Sweep
  <2>2. UNCHANGED <<pc, arg>>
    BY <1>2 DEF Sweep, thr
  <2>3. S \in SUBSET Tasks
    OBVIOUS
  <2> HIDE DEF S
  <2> QED BY <2>1, <2>2, <2>3, RefsDropped DEF TypeInv
<1>3. CASE TimerSetup \/ Fire \/ Beep \/ ScheduleWork \/ Rearm \/ StartWork \/ EndWork
  <2>1. UNCHANGED <<mon, usage, pc, arg>>
    BY <1>3 DEF TimerSetup, Fire, Beep, ScheduleWork, Rearm, StartWork, EndWork, env, thr
  <2> QED BY <2>1, RefsKept
<1> QED BY <1>1, <1>2, <1>3 DEF Machine, Handler

LEMMA RefsCaller ==
  ASSUME TypeInv, RefsMatchList, NEW t \in Threads, Caller(t)
  PROVE  RefsMatchList'
<1>1. CASE GetProcTake(t) /\ task[arg[t]] # "freed"
  <2> SUFFICES ASSUME NEW p \in Tasks
               PROVE  usage'[p] = mon'[p] + Cardinality(Adding(p)')
    BY DEF RefsMatchList
  <2>1. pc[t] = "found" /\ arg[t] \in Tasks
    BY <1>1 DEF GetProcTake, TypeInv, ArgInv
  <2>2. pc' = [pc EXCEPT ![t] = "add"] /\ arg' = arg
    BY <1>1 DEF GetProcTake, Goto
  <2>3. Cardinality(Adding(p)') = Cardinality(Adding(p)) + (IF p = arg[t] THEN 1 ELSE 0)
    BY <2>1, <2>2, StartsAdding DEF TypeInv
  <2>4. usage'[p] = usage[p] + (IF p = arg[t] THEN 1 ELSE 0)
    BY <1>1, <2>1 DEF GetProcTake, TypeInv, TypeOK
  <2>5. mon' = mon
    BY <1>1 DEF GetProcTake, data
  <2>6. usage[p] = mon[p] + Cardinality(Adding(p)) /\ mon[p] \in Nat /\ usage[p] \in Nat
    BY DEF RefsMatchList, TypeInv, TypeOK
  <2> QED BY <2>3, <2>4, <2>5, <2>6, AddingCount
<1>2. CASE IoctlAdd(t) /\ pc[t] = "add"
  <2> SUFFICES ASSUME NEW p \in Tasks
               PROVE  usage'[p] = mon'[p] + Cardinality(Adding(p)')
    BY DEF RefsMatchList
  <2>1. arg[t] \in Tasks
    BY <1>2 DEF TypeInv, ArgInv
  <2>2. /\ pc' = [pc EXCEPT ![t] = "mon_flag"]
        /\ \A u \in Threads \ {t} : arg'[u] = arg[u]
    BY <1>2 DEF IoctlAdd, MonReturn, Goto, TypeInv, TypeOK
  <2>3. Cardinality(Adding(p)') = Cardinality(Adding(p)) - (IF p = arg[t] THEN 1 ELSE 0)
    BY <1>2, <2>1, <2>2, EndsAdding DEF TypeInv
  <2>4. mon'[p] = mon[p] + (IF p = arg[t] THEN 1 ELSE 0)
    BY <1>2, <2>1 DEF IoctlAdd, TypeInv, TypeOK
  <2>5. usage' = usage
    BY <1>2 DEF IoctlAdd, env
  <2>6. usage[p] = mon[p] + Cardinality(Adding(p)) /\ mon[p] \in Nat /\ usage[p] \in Nat
    BY DEF RefsMatchList, TypeInv, TypeOK
  <2> QED BY <2>3, <2>4, <2>5, <2>6, AddingCount
<1>3. CASE ~(GetProcTake(t) /\ task[arg[t]] # "freed") /\ ~(IoctlAdd(t) /\ pc[t] = "add")
  <2>1. PICK next : next # "add" /\ pc' = [pc EXCEPT ![t] = next]
    BY <1>3 DEF Caller, Ioctl, Open, Release, IoctlFlag, IoctlCancelBegin, IoctlMonBegin,
                IoctlArm, IoctlOops, IoctlCancel, GetProcLookup, GetProcNoMemory,
                GetProcTake, IoctlAdd, IoctlMonFlag, MonReturn, Goto
  <2>2. pc[t] # "add"
    BY <1>3 DEF Caller, Ioctl, Open, Release, IoctlFlag, IoctlCancelBegin, IoctlMonBegin,
                IoctlArm, IoctlOops, IoctlCancel, GetProcLookup, GetProcNoMemory,
                GetProcTake, IoctlMonFlag
  <2>3. \A u \in Threads \ {t} : arg'[u] = arg[u]
    BY DEF Caller, Ioctl, Open, Release, IoctlFlag, IoctlCancelBegin, IoctlMonBegin,
           IoctlArm, IoctlOops, IoctlCancel, GetProcLookup, GetProcNoMemory,
           GetProcTake, IoctlAdd, IoctlMonFlag, MonReturn, TypeInv, TypeOK
  <2>4. UNCHANGED <<mon, usage>>
    BY <1>3 DEF Caller, Ioctl, Open, Release, IoctlFlag, IoctlCancelBegin, IoctlMonBegin,
                IoctlArm, IoctlOops, IoctlCancel, GetProcLookup, GetProcNoMemory,
                GetProcTake, IoctlAdd, IoctlMonFlag, data, env
  <2> QED BY <2>1, <2>2, <2>3, <2>4, RefsOther DEF TypeInv
<1> QED BY <1>1, <1>2, <1>3

LEMMA RefsExit == TypeInv /\ RefsMatchList /\ (UnloadBegin \/ Exit) => RefsMatchList'
<1> SUFFICES ASSUME TypeInv, RefsMatchList, UnloadBegin \/ Exit PROVE RefsMatchList'
  OBVIOUS
<1>1. CASE ExitList
  <2>1. /\ mon' = [p \in Tasks |-> IF p \in Tasks THEN 0 ELSE mon[p]]
        /\ usage' = [p \in Tasks |-> IF p \in Tasks THEN usage[p] - mon[p] ELSE usage[p]]
        /\ UNCHANGED <<pc, arg>>
    BY <1>1 DEF ExitList, thr
  <2> QED BY <2>1, RefsDropped DEF TypeInv
<1>2. CASE UnloadBegin \/ ExitTimer \/ ExitWork
  <2>1. UNCHANGED <<mon, usage, pc, arg>>
    BY <1>2 DEF UnloadBegin, ExitTimer, ExitWork, data, env, thr
  <2> QED BY <2>1, RefsKept
<1> QED BY <1>1, <1>2 DEF Exit

-----------------------------------------------------------------------------
(* The tasks that entries are on.                                          *)

\* FreeTask needs a count of zero, so that neither the list nor a thread has an
\* entry on the task.
LEMMA FreedProcess == TypeInv /\ RefsMatchList /\ FreedInv /\ Process => FreedInv'
<1> SUFFICES ASSUME TypeInv, RefsMatchList, FreedInv,
                    NEW p \in Tasks, Die(p) \/ Reap(p) \/ FreeTask(p)
             PROVE  FreedInv'
  BY DEF Process
<1> USE DEF FreedInv, AddingNotFreed, MonitoredNotFreed, TypeInv, TypeOK, ArgInv, data, thr
<1>1. CASE Die(p) \/ Reap(p)
  BY <1>1 DEF Die, Reap
<1>2. CASE FreeTask(p)
  <2>1. mon[p] = 0 /\ Cardinality(Adding(p)) = 0
    <3>1. usage[p] = 0 /\ usage[p] = mon[p] + Cardinality(Adding(p)) /\ mon[p] \in Nat
      BY <1>2 DEF FreeTask, RefsMatchList
    <3> QED BY <3>1, AddingCount
  <2>2. \A t \in Threads : ~(pc[t] = "add" /\ arg[t] = p)
    BY <2>1, NobodyAdding
  <2> QED BY <1>2, <2>1, <2>2 DEF FreeTask
<1> QED BY <1>1, <1>2

LEMMA FreedMachine == TypeInv /\ StageInv /\ FreedInv /\ Machine => FreedInv'
<1> SUFFICES ASSUME TypeInv, StageInv, FreedInv, Machine PROVE FreedInv'
  OBVIOUS
<1> USE DEF FreedInv, AddingNotFreed, MonitoredNotFreed, TypeInv, TypeOK, env, thr
<1>1. task' = task /\ pc' = pc /\ arg' = arg
  BY DEF Machine, Handler, LoadDevice, TimerSetup, Fire, Beep, ScheduleWork, Sweep, Rearm,
         StartWork, EndWork
<1>2. \A p \in Tasks : mon'[p] > 0 => mon[p] > 0
  BY DEF Machine, Handler, LoadDevice, TimerSetup, Fire, Beep, ScheduleWork, Sweep, Rearm,
         StartWork, EndWork
<1> QED BY <1>1, <1>2

LEMMA FreedCaller ==
  ASSUME TypeInv, FreedInv, NEW t \in Threads, Caller(t)
  PROVE  FreedInv'
<1> USE DEF FreedInv, AddingNotFreed, MonitoredNotFreed, TypeInv, TypeOK, ArgInv, data, env, Goto
<1>1. CASE Open(t)
  BY <1>1 DEF Open
<1>2. CASE Release(t)
  BY <1>2 DEF Release
<1>3. ASSUME NEW cmd \in Commands, IoctlFlag(t, cmd) PROVE FreedInv'
  BY <1>3 DEF IoctlFlag
<1>4. CASE IoctlCancelBegin(t)
  BY <1>4 DEF IoctlCancelBegin
<1>5. ASSUME NEW p \in Tasks, IoctlMonBegin(t, p) PROVE FreedInv'
  BY <1>5 DEF IoctlMonBegin
<1>6. CASE IoctlArm(t)
  BY <1>6 DEF IoctlArm
<1>7. CASE IoctlOops(t)
  BY <1>7 DEF IoctlOops
<1>8. CASE IoctlCancel(t)
  BY <1>8 DEF IoctlCancel
<1>9. CASE GetProcLookup(t)
  BY <1>9 DEF GetProcLookup, MonReturn
<1>10. CASE GetProcNoMemory(t)
  BY <1>10 DEF GetProcNoMemory, MonReturn
<1>11. CASE GetProcTake(t)
  BY <1>11 DEF GetProcTake
<1>12. CASE IoctlAdd(t)
  BY <1>12 DEF IoctlAdd, MonReturn
<1>13. CASE IoctlMonFlag(t)
  BY <1>13 DEF IoctlMonFlag
<1> QED BY <1>1, <1>2, <1>3, <1>4, <1>5, <1>6, <1>7, <1>8, <1>9, <1>10, <1>11, <1>12, <1>13
        DEF Caller, Ioctl

LEMMA FreedExit == TypeInv /\ FreedInv /\ (UnloadBegin \/ Exit) => FreedInv'
<1> SUFFICES ASSUME TypeInv, FreedInv, UnloadBegin \/ Exit PROVE FreedInv'
  OBVIOUS
<1> USE DEF FreedInv, AddingNotFreed, MonitoredNotFreed, TypeInv, TypeOK, data, env, thr
<1>1. task' = task /\ pc' = pc /\ arg' = arg
  BY DEF Exit, UnloadBegin, ExitTimer, ExitWork, ExitList
<1>2. \A p \in Tasks : mon'[p] > 0 => mon[p] > 0
  BY DEF Exit, UnloadBegin, ExitTimer, ExitWork, ExitList
<1> QED BY <1>1, <1>2

-----------------------------------------------------------------------------
(* The steps together, and the theorems.                                   *)

LEMMA ProcessInv == DeferredInv /\ Process => DeferredInv'
<1> SUFFICES ASSUME DeferredInv, Process PROVE DeferredInv'
  OBVIOUS
<1>1. UNCHANGED <<mod, data, usage, thr>>
  BY DEF Process, Die, Reap, FreeTask
<1>2. StageInv'
  BY <1>1 DEF DeferredInv, StageInv, IdleInv, StoppedInv, data, thr
<1>3. RefsMatchList'
  BY <1>1, RefsKept DEF DeferredInv, data, thr
<1> QED BY <1>2, <1>3, TypeProcess, FreedProcess DEF DeferredInv

LEMMA StepInv == DeferredInv /\ [Next]_vars => DeferredInv'
<1> SUFFICES ASSUME DeferredInv, [Next]_vars PROVE DeferredInv'
  OBVIOUS
<1>1. CASE Process
  BY <1>1, ProcessInv
<1>2. CASE Machine
  BY <1>2, TypeMachine, StageMachine, RefsMachine, FreedMachine DEF DeferredInv
<1>3. ASSUME NEW t \in Threads, Caller(t) PROVE DeferredInv'
  BY <1>3, TypeCaller, StageCaller, RefsCaller, FreedCaller DEF DeferredInv
<1>4. CASE UnloadBegin \/ Exit
  BY <1>4, TypeExit, StageExit, RefsExit, FreedExit DEF DeferredInv
<1>5. CASE UNCHANGED vars
  <2>1. RefsMatchList'
    BY <1>5, RefsKept DEF DeferredInv, vars, data, env, thr
  <2>2. TypeInv' /\ StageInv' /\ FreedInv'
    BY <1>5 DEF DeferredInv, TypeInv, TypeOK, ArgInv, StageInv, IdleInv, StoppedInv, FreedInv,
                AddingNotFreed, MonitoredNotFreed, vars, data, env, thr
  <2> QED BY <2>1, <2>2 DEF DeferredInv
<1> QED BY <1>1, <1>2, <1>3, <1>4, <1>5, Actions

LEMMA AlwaysInv == Spec => []DeferredInv
  BY InitInv, StepInv, PTL DEF Spec

\* Every variable of deferred.c's model has its type; none of the counts is
\* ever below zero.
THEOREM TypeCorrect == Spec => []TypeOK
<1>1. DeferredInv => TypeOK
  BY DEF DeferredInv, TypeInv
<1> QED BY <1>1, AlwaysInv, PTL

\* One task_struct reference per monitor entry, whatever ioctls, the sweep and
\* the exit function do at once: none is lost and none is dropped twice.
THEOREM ReferencesExact == Spec => []RefsMatchList
<1>1. DeferredInv => RefsMatchList
  BY DEF DeferredInv
<1> QED BY <1>1, AlwaysInv, PTL

\* The sweep never looks at a task_struct that was freed while its entry was on
\* the list.
THEOREM MonitoredTasksStay == Spec => []MonitoredNotFreed
<1>1. DeferredInv => MonitoredNotFreed
  BY DEF DeferredInv, FreedInv
<1> QED BY <1>1, AlwaysInv, PTL

\* deferred_exit leaves no timer, handler, work item, entry or reference behind.
THEOREM UnloadLeavesNothing == Spec => []UnloadClean
<1>1. DeferredInv => UnloadClean
  <2> SUFFICES ASSUME DeferredInv, mod = "none" PROVE UnloadClean
    BY DEF UnloadClean
  <2>1. timer # "pending" /\ tpc = "off" /\ work = NoWork
    BY DEF DeferredInv, StageInv, StoppedInv
  <2>2. ASSUME NEW p \in Tasks PROVE mon[p] = 0 /\ stale[p] = 0 /\ usage[p] = 0
    <3>1. mon[p] = 0 /\ stale[p] = 0
      BY DEF DeferredInv, StageInv, StoppedInv
    <3>2. Adding(p) = {}
      BY DEF DeferredInv, StageInv, IdleInv, Adding
    <3>3. Cardinality(Adding(p)) = 0
      BY <3>2, FS_EmptySet
    <3> QED BY <3>1, <3>3 DEF DeferredInv, RefsMatchList
  <2> QED BY <2>1, <2>2 DEF UnloadClean
<1> QED BY <1>1, AlwaysInv, PTL
=============================================================================
