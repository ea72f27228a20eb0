------------------------------ MODULE Deferred ------------------------------
(***************************************************************************)
(* The deferred work device of src/deferred_work/3-4-5-deferred: ioctls    *)
(* arm one timer, whose handler beeps, schedules a work item or sweeps a   *)
(* list of monitored processes, depending on one flag.  The module is      *)
(* loaded and unloaded any number of times.                                *)
(*                                                                         *)
(* Time is left out: a pending timer may fire at any moment.  plist is     *)
(* only touched under plist_lock, taken with bottom halves off, so each of *)
(* those critical sections is one step.                                    *)
(***************************************************************************)
EXTENDS Integers, FiniteSets

CONSTANTS
  Threads,      \* the threads that may open the device
  Tasks,        \* the processes that may be monitored
  Commands,     \* the ioctls they issue, of "set", "cancel", "alloc", "mon"
  EarlyOpen,    \* whether they open the device while deferred_init still runs
  MaxEntries,   \* bound: the monitor entries that may exist at once
  NoTask

ASSUME DeferredAssumption ==
  /\ Commands \subseteq {"set", "cancel", "alloc", "mon"}
  /\ EarlyOpen \in BOOLEAN
  /\ MaxEntries \in Nat
  /\ NoTask \notin Tasks

ASSUME FiniteAssumption == IsFiniteSet(Threads)

VARIABLES
  mod,          \* the life of the module
  flag,         \* dev.flag
  timer,        \* dev.timer: "unset" before timer_setup, "idle" or "pending"
  tpc,          \* timer_handler: "off", or the step it is at
  work,         \* dev.work: [pending, running]
  mon, stale,   \* dev.plist: entries per task, and those on a freed task
  task,         \* the life of each process and of its task_struct
  usage,        \* the references the module holds on each task_struct
  pc, arg       \* each thread: its step, the task it wants to monitor

data == <<flag, timer, tpc, work, mon, stale>>
env  == <<task, usage>>
thr  == <<pc, arg>>
vars == <<mod, data, env, thr>>

NoWork == [pending |-> FALSE, running |-> FALSE]
Dead(p) == task[p] # "running"

\* The threads that hold, in get_proc's result, an entry not yet on the list.
Adding(p) == {t \in Threads : pc[t] = "add" /\ arg[t] = p}

Entries(p) == mon[p] + stale[p] +
  Cardinality({t \in Threads : pc[t] \in {"lookup", "found", "add", "add_stale"} /\ arg[t] = p})

-----------------------------------------------------------------------------
Init ==
  /\ mod = "none"
  /\ flag = "none" /\ timer = "unset" /\ tpc = "off" /\ work = NoWork
  /\ mon = [p \in Tasks |-> 0] /\ stale = [p \in Tasks |-> 0]
  /\ task = [p \in Tasks |-> "running"] /\ usage = [p \in Tasks |-> 0]
  /\ pc = [t \in Threads |-> "closed"] /\ arg = [t \in Threads |-> NoTask]

-----------------------------------------------------------------------------
(* The processes: one dies, stays a zombie until its parent reaps it, and  *)
(* its task_struct is freed once nobody holds a reference.                 *)

Die(p) ==
  /\ task[p] = "running"
  /\ task' = [task EXCEPT ![p] = "zombie"]
  /\ UNCHANGED <<mod, data, usage, thr>>

Reap(p) ==
  /\ task[p] = "zombie"
  /\ task' = [task EXCEPT ![p] = "reaped"]
  /\ UNCHANGED <<mod, data, usage, thr>>

FreeTask(p) ==
  /\ task[p] = "reaped" /\ usage[p] = 0
  /\ task' = [task EXCEPT ![p] = "freed"]
  /\ UNCHANGED <<mod, data, usage, thr>>

-----------------------------------------------------------------------------
(* Load.  The device can be opened from cdev_add on, which deferred_init   *)
(* calls before timer_setup.                                               *)

LoadDevice ==
  /\ mod = "none"
  /\ mod' = "loading"
  /\ flag' = "none" /\ work' = NoWork /\ timer' = "unset"
  /\ mon' = [p \in Tasks |-> 0] /\ stale' = [p \in Tasks |-> 0]
  /\ UNCHANGED <<tpc, env, thr>>

TimerSetup ==
  /\ mod = "loading"
  /\ mod' = "live" /\ timer' = "idle"
  /\ UNCHANGED <<flag, tpc, work, mon, stale, env, thr>>

-----------------------------------------------------------------------------
(* The timer.  One handler at a time: the timer base never runs a timer    *)
(* twice at once.                                                          *)

ModTimer == timer' = "pending"

Fire ==
  /\ timer = "pending" /\ tpc = "off"
  /\ timer' = "idle" /\ tpc' = "run"
  /\ UNCHANGED <<mod, flag, work, mon, stale, env, thr>>

\* TIMER_TYPE_SET, or a flag that no branch knows.
Beep ==
  /\ tpc = "run" /\ flag \in {"set", "none"}
  /\ tpc' = "off"
  /\ UNCHANGED <<mod, flag, timer, work, mon, stale, env, thr>>

\* schedule_work does nothing when the item is already pending.
ScheduleWork ==
  /\ tpc = "run" /\ flag = "alloc"
  /\ work' = [work EXCEPT !.pending = TRUE]
  /\ tpc' = "off"
  /\ UNCHANGED <<mod, flag, timer, mon, stale, env, thr>>

Sweep_NoPut ==                  \* mutant: put_task_struct forgotten
  /\ tpc = "run" /\ flag = "mon"
  /\ mon' = [p \in Tasks |-> IF Dead(p) THEN 0 ELSE mon[p]]
  /\ \E s \in [Tasks -> 0..MaxEntries] :
       /\ \A p \in Tasks : s[p] <= stale[p]
       /\ stale' = s
  /\ tpc' = "rearm"
  /\ UNCHANGED <<mod, flag, timer, work, task, usage, thr>>

\* Drops every entry whose task is dead, with its reference.  Of the entries on
\* a freed task_struct it drops any number: their state is not defined.
Sweep ==
  /\ tpc = "run" /\ flag = "mon"
  /\ mon'   = [p \in Tasks |-> IF Dead(p) THEN 0 ELSE mon[p]]
  /\ usage' = [p \in Tasks |-> IF Dead(p) THEN usage[p] - mon[p] ELSE usage[p]]
  /\ \E s \in [Tasks -> 0..MaxEntries] :
       /\ \A p \in Tasks : s[p] <= stale[p]
       /\ stale' = s
  /\ tpc' = "rearm"
  /\ UNCHANGED <<mod, flag, timer, work, task, thr>>

Rearm_Forgotten ==              \* mutant: the sweep does not arm the timer again
  /\ tpc = "rearm"
  /\ tpc' = "off"
  /\ UNCHANGED <<mod, flag, timer, work, mon, stale, env, thr>>

Rearm ==
  /\ tpc = "rearm"
  /\ ModTimer
  /\ tpc' = "off"
  /\ UNCHANGED <<mod, flag, work, mon, stale, env, thr>>

-----------------------------------------------------------------------------
(* The work item: a kernel worker runs it, one execution at a time.        *)

StartWork ==
  /\ work.pending /\ ~work.running
  /\ work' = [pending |-> FALSE, running |-> TRUE]
  /\ UNCHANGED <<mod, flag, timer, tpc, mon, stale, env, thr>>

EndWork ==
  /\ work.running
  /\ work' = [work EXCEPT !.running = FALSE]
  /\ UNCHANGED <<mod, flag, timer, tpc, mon, stale, env, thr>>

-----------------------------------------------------------------------------
(* The file operations.                                                    *)

Goto(t, next) == pc' = [pc EXCEPT ![t] = next]

Open(t) ==
  /\ pc[t] = "closed"
  /\ mod = "live" \/ (EarlyOpen /\ mod = "loading")
  /\ Goto(t, "open")
  /\ UNCHANGED <<mod, data, env, arg>>

Release(t) ==
  /\ pc[t] = "open"
  /\ Goto(t, "closed")
  /\ UNCHANGED <<mod, data, env, arg>>

\* MY_IOCTL_TIMER_SET and MY_IOCTL_TIMER_ALLOC write the flag first ...
IoctlFlag(t, cmd) ==
  /\ pc[t] = "open" /\ cmd \in Commands \cap {"set", "alloc"}
  /\ flag' = cmd
  /\ Goto(t, "arm")
  /\ UNCHANGED <<mod, timer, tpc, work, mon, stale, env, arg>>

\* ... and arm the timer afterwards.
IoctlArm(t) ==
  /\ pc[t] = "arm" /\ timer # "unset"
  /\ ModTimer
  /\ Goto(t, "open")
  /\ UNCHANGED <<mod, flag, tpc, work, mon, stale, env, arg>>

\* mod_timer on a timer that has no function yet: a BUG, which kills the caller.
IoctlOops(t) ==
  /\ pc[t] = "arm" /\ timer = "unset"
  /\ Goto(t, "killed")
  /\ UNCHANGED <<mod, data, env, arg>>

IoctlCancelBegin(t) ==
  /\ pc[t] = "open" /\ "cancel" \in Commands
  /\ Goto(t, "cancel")
  /\ UNCHANGED <<mod, data, env, arg>>

\* del_timer_sync: waits for the handler, and leaves the timer not pending.
DelTimerSync ==
  /\ tpc = "off"
  /\ timer' = IF timer = "pending" THEN "idle" ELSE timer

IoctlCancel(t) ==
  /\ pc[t] = "cancel"
  /\ DelTimerSync
  /\ Goto(t, "open")
  /\ UNCHANGED <<mod, flag, tpc, work, mon, stale, env, arg>>

IoctlMonBegin(t, p) ==
  /\ pc[t] = "open" /\ "mon" \in Commands
  /\ Entries(p) < MaxEntries
  /\ arg' = [arg EXCEPT ![t] = p]
  /\ Goto(t, "lookup")
  /\ UNCHANGED <<mod, data, env>>

MonReturn(t, next) ==
  /\ Goto(t, next)
  /\ arg' = [arg EXCEPT ![t] = NoTask]

\* get_proc looks the pid up under RCU: a reaped process has no pid any more.
GetProcLookup(t) ==
  /\ pc[t] = "lookup"
  /\ \/ task[arg[t]] \in {"running", "zombie"} /\ Goto(t, "found") /\ UNCHANGED arg
     \/ task[arg[t]] \in {"reaped", "freed"} /\ MonReturn(t, "open")
  /\ UNCHANGED <<mod, data, env>>

GetProcNoMemory(t) ==
  /\ pc[t] = "found"
  /\ MonReturn(t, "open")
  /\ UNCHANGED <<mod, data, env>>

GetProcTake_NoGet(t) ==         \* mutant: get_task_struct forgotten
  /\ pc[t] = "found"
  /\ Goto(t, "add")
  /\ UNCHANGED <<mod, data, env, arg>>

\* get_proc takes its reference after rcu_read_unlock: by then the
\* task_struct may have been freed, and the entry will point to free memory.
GetProcTake(t) ==
  /\ pc[t] = "found"
  /\ \/ /\ task[arg[t]] # "freed"
        /\ usage' = [usage EXCEPT ![arg[t]] = @ + 1]
        /\ Goto(t, "add")
     \/ /\ task[arg[t]] = "freed"
        /\ Goto(t, "add_stale")
        /\ UNCHANGED usage
  /\ UNCHANGED <<mod, data, task, arg>>

IoctlAdd(t) ==
  /\ \/ /\ pc[t] = "add"
        /\ mon' = [mon EXCEPT ![arg[t]] = @ + 1]
        /\ UNCHANGED stale
     \/ /\ pc[t] = "add_stale"
        /\ stale' = [stale EXCEPT ![arg[t]] = @ + 1]
        /\ UNCHANGED mon
  /\ MonReturn(t, "mon_flag")
  /\ UNCHANGED <<mod, flag, timer, tpc, work, env>>

IoctlMonFlag(t) ==
  /\ pc[t] = "mon_flag"
  /\ flag' = "mon"
  /\ Goto(t, "arm")
  /\ UNCHANGED <<mod, timer, tpc, work, mon, stale, env, arg>>

-----------------------------------------------------------------------------
(* Unload: only while no file is open, and none can be opened from then on.*)

UnloadBegin ==
  /\ mod = "live"
  /\ \A t \in Threads : pc[t] \in {"closed", "killed"}
  /\ mod' = "exit_timer"
  /\ UNCHANGED <<data, env, thr>>

ExitTimer_NoSync ==             \* mutant: del_timer for del_timer_sync
  /\ mod = "exit_timer"
  /\ timer' = IF timer = "pending" THEN "idle" ELSE timer
  /\ mod' = "exit_work"
  /\ UNCHANGED <<flag, tpc, work, mon, stale, env, thr>>

ExitTimer_AwaitExpiry ==        \* mutant: waits for the timer to stop by itself
  /\ mod = "exit_timer"
  /\ tpc = "off" /\ timer # "pending"
  /\ mod' = "exit_work"
  /\ UNCHANGED <<data, env, thr>>

ExitTimer ==
  /\ mod = "exit_timer"
  /\ DelTimerSync
  /\ mod' = "exit_work"
  /\ UNCHANGED <<flag, tpc, work, mon, stale, env, thr>>

\* cancel_work_sync: drops a pending execution and waits for a running one.
ExitWork ==
  /\ mod = "exit_work"
  /\ ~work.running
  /\ work' = NoWork
  /\ mod' = "exit_list"
  /\ UNCHANGED <<flag, timer, tpc, mon, stale, env, thr>>

ExitList ==
  /\ mod = "exit_list"
  /\ usage' = [p \in Tasks |-> usage[p] - mon[p]]
  /\ mon' = [p \in Tasks |-> 0] /\ stale' = [p \in Tasks |-> 0]
  /\ mod' = "none"
  /\ UNCHANGED <<flag, timer, tpc, work, task, thr>>

-----------------------------------------------------------------------------
Handler == Beep \/ ScheduleWork \/ Sweep \/ Rearm

Ioctl(t) ==
  \/ IoctlArm(t) \/ IoctlOops(t) \/ IoctlCancel(t)
  \/ GetProcLookup(t) \/ GetProcNoMemory(t) \/ GetProcTake(t)
  \/ IoctlAdd(t) \/ IoctlMonFlag(t)

Exit == ExitTimer \/ ExitWork \/ ExitList

Next ==
  \/ \E p \in Tasks : Die(p) \/ Reap(p) \/ FreeTask(p)
  \/ LoadDevice \/ TimerSetup
  \/ Fire \/ Handler
  \/ StartWork \/ EndWork
  \/ \E t \in Threads :
       \/ Open(t) \/ Release(t)
       \/ \E cmd \in Commands : IoctlFlag(t, cmd)
       \/ IoctlCancelBegin(t)
       \/ \E p \in Tasks : IoctlMonBegin(t, p)
       \/ Ioctl(t)
  \/ UnloadBegin \/ Exit

Spec == Init /\ [][Next]_vars

(***************************************************************************)
(* Timers expire, handlers, workers and system calls go on.  Strong        *)
(* fairness for what waits for the handler to be off: del_timer_sync polls *)
(* and the handler is off between two expiries.                            *)
(***************************************************************************)
Fairness ==
  /\ WF_vars(Fire) /\ WF_vars(Handler)
  /\ WF_vars(StartWork) /\ WF_vars(EndWork)
  /\ WF_vars(TimerSetup)
  /\ \A t \in Threads : SF_vars(Ioctl(t))
  /\ SF_vars(Exit)

FairSpec == Spec /\ Fairness

-----------------------------------------------------------------------------
(* Properties.                                                             *)

TypeOK ==
  /\ mod \in {"none", "loading", "live", "exit_timer", "exit_work", "exit_list"}
  /\ flag \in {"none", "set", "alloc", "mon"}
  /\ timer \in {"unset", "idle", "pending"}
  /\ tpc \in {"off", "run", "rearm"}
  /\ work \in [pending : BOOLEAN, running : BOOLEAN]
  /\ mon \in [Tasks -> Nat] /\ stale \in [Tasks -> Nat]
  /\ task \in [Tasks -> {"running", "zombie", "reaped", "freed"}]
  /\ usage \in [Tasks -> Nat]
  /\ pc \in [Threads -> {"closed", "open", "arm", "cancel", "lookup", "found", "add",
                         "add_stale", "mon_flag", "killed"}]
  /\ arg \in [Threads -> Tasks \cup {NoTask}]

\* Once deferred_exit is over nothing of the module is left to run, and no
\* memory or reference is left behind: no timer pending or handler running, no
\* work pending or running, no monitor entry, no task_struct reference.
UnloadClean ==
  mod = "none" =>
    /\ timer # "pending" /\ tpc = "off" /\ work = NoWork
    /\ \A p \in Tasks : mon[p] = 0 /\ stale[p] = 0 /\ usage[p] = 0

\* The module holds one reference on a task_struct per monitor entry, the
\* entries that an ioctl has not yet put on the list included.
RefsMatchList ==
  \A p \in Tasks : usage[p] = mon[p] + Cardinality(Adding(p))

\* The task of an entry on the list is not freed while the entry is there:
\* what the sweep's look at its state relies on.
MonitoredNotFreed == \A p \in Tasks : mon[p] > 0 => task[p] # "freed"

\* A monitored process that dies while the timer is armed to look for it, or
\* the handler is running, is eventually taken off the list, unless a command
\* writes another flag or takes the timer away: whatever the interleaving of
\* ioctls that write the flag and arm the one timer in two steps
\* (deferred.c:151), the sweep goes on.
DeadRemoved ==
  \A p \in Tasks :
    (mon[p] > 0 /\ Dead(p) /\ flag = "mon" /\ (timer = "pending" \/ tpc # "off"))
      ~> (mon[p] = 0 \/ flag # "mon" \/ \E t \in Threads : pc[t] = "cancel")

\* rmmod ends, although the handler keeps arming the timer again.
UnloadEnds == (mod = "exit_timer") ~> (mod = "none")

\* get_proc hands out an entry that holds its task (deferred.c:166 "Use
\* get_proc() and add task to list"): no entry is on a freed task_struct.
NoStaleEntry == \A p \in Tasks : stale[p] = 0
=============================================================================
