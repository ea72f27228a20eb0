------------------------------ MODULE ListSync ------------------------------
(***************************************************************************)
(* The task list of src/kernel_api/6-list-sync/list-sync.c and the modules *)
(* that use it through its exported functions, as 7-list-test does: each   *)
(* adds to the list and prints it in its init function, removes what has   *)
(* expired and prints it in its exit function.                             *)
(*                                                                         *)
(* What is done under write_lock is one step; read_lock is held over the   *)
(* steps of a walk through the list.  The lock is given up between the     *)
(* search for a pid and the insertion of a new entry.                      *)
(***************************************************************************)
EXTENDS Integers, Sequences, FiniteSets, Functions

CONSTANTS
  Clients,      \* the modules that use the exported functions
  Owner,        \* list_sync itself
  Pids,
  Nodes,        \* bound: the struct task_info that kmalloc can hand out
  Adds,         \* how many pids task_info_add_for_current adds: 4 in the code
  KeepCount,    \* the count from which an entry does not expire: 5 in the code
  NoPid,
  End, Freed    \* the end of a walk, the content of freed memory

ASSUME NameAssumption ==
  /\ Owner \notin Clients /\ End \notin Nodes /\ NoPid \notin Pids
  /\ Adds \in Nat /\ KeepCount \in Nat /\ IsFiniteSet(Clients)

Modules == Clients \cup {Owner}

VARIABLES
  list,         \* the nodes from head.next on
  info,         \* struct task_info: node -> pid, whether expired, count
  pc,           \* each module: out, or the step of its init or exit, or live
  left,         \* how many pids its call has yet to add
  want,         \* the pid it has not found
  cur           \* where its walk through the list is

vars == <<list, info, pc, left, want, cur>>

TaskInfo == [pid : Pids, old : BOOLEAN, count : 0..KeepCount]

ASSUME FreedAssumption == Freed \notin TaskInfo

Listed(n)   == \E i \in DOMAIN list : list[i] = n
Walking(a)  == pc[a] \in {"walk_in", "walk_out"}
WriteLock   == \A a \in Modules : ~Walking(a)      \* nobody holds read_lock

Holds(pid) == {i \in DOMAIN list : info[list[i]].pid = pid}

\* task_info_find_pid returns n: the first entry with the pid.
find_pid(pid, n) == \E i \in Holds(pid) : list[i] = n /\ \A j \in Holds(pid) : i <= j

Init ==
  /\ list = <<>>
  /\ info = [n \in Nodes |-> Freed]
  /\ pc = [a \in Modules |-> "out"]
  /\ left = [a \in Modules |-> 0]
  /\ want = [a \in Modules |-> NoPid]
  /\ cur = [a \in Modules |-> End]

Goto(a, step) == pc' = [pc EXCEPT ![a] = step]

-----------------------------------------------------------------------------
(* insmod: the module of the exported functions has to be loaded first.    *)

Insmod(a) ==
  /\ pc[a] = "out"
  /\ a # Owner => pc[Owner] = "live"
  /\ Goto(a, "add")
  /\ left' = [left EXCEPT ![a] = Adds]
  /\ UNCHANGED <<list, info, want, cur>>

\* task_info_add_to_list: the pid is there.
AddFound(a, pid) ==
  /\ pc[a] = "add" /\ left[a] > 0
  /\ WriteLock
  /\ \E n \in Nodes :
       /\ find_pid(pid, n)
       /\ info' = [info EXCEPT ![n].old = FALSE,
                               ![n].count = IF @ < KeepCount THEN @ + 1 ELSE @]
  /\ left' = [left EXCEPT ![a] = @ - 1]
  /\ UNCHANGED <<list, pc, want, cur>>

AddMissing_FirstOnly(a, pid) == \* mutant: the search ends after one entry
  /\ pc[a] = "add" /\ left[a] > 0
  /\ WriteLock
  /\ 1 \notin Holds(pid)
  /\ Goto(a, "insert")
  /\ want' = [want EXCEPT ![a] = pid]
  /\ UNCHANGED <<list, info, left, cur>>

\* It is not there: the lock is given up before the entry is made.
AddMissing(a, pid) ==
  /\ pc[a] = "add" /\ left[a] > 0
  /\ WriteLock
  /\ Holds(pid) = {}
  /\ Goto(a, "insert")
  /\ want' = [want EXCEPT ![a] = pid]
  /\ UNCHANGED <<list, info, left, cur>>

\* task_info_alloc and list_add.
AddInsert(a, n) ==
  /\ pc[a] = "insert"
  /\ WriteLock
  /\ info[n] = Freed
  /\ info' = [info EXCEPT ![n] = [pid |-> want[a], old |-> FALSE, count |-> 0]]
  /\ list' = <<n>> \o list
  /\ Goto(a, "add")
  /\ left' = [left EXCEPT ![a] = @ - 1]
  /\ want' = [want EXCEPT ![a] = NoPid]
  /\ UNCHANGED cur

-----------------------------------------------------------------------------
(* task_info_print_list.                                                   *)

WalkBegin(a) ==
  /\ \/ pc[a] = "add" /\ left[a] = 0 /\ Goto(a, "walk_in")
     \/ pc[a] = "print_out" /\ Goto(a, "walk_out")
  /\ cur' = [cur EXCEPT ![a] = IF 1 \in DOMAIN list THEN list[1] ELSE End]
  /\ UNCHANGED <<list, info, left, want>>

Next_(n) ==
  LET after == {i \in DOMAIN list : i > 1 /\ list[i - 1] = n}
  IN  IF after = {} THEN End ELSE list[CHOOSE i \in after : TRUE]

WalkStep(a) ==
  /\ Walking(a) /\ cur[a] # End
  /\ cur' = [cur EXCEPT ![a] = Next_(@)]
  /\ UNCHANGED <<list, info, pc, left, want>>

\* read_unlock, and what comes after the call: list_sync sleeps in its init,
\* and its exit goes on to the purge.
WalkEnd(a) ==
  /\ Walking(a) /\ cur[a] = End
  /\ Goto(a, CASE pc[a] = "walk_in" -> IF a = Owner THEN "sleep" ELSE "live"
               [] pc[a] = "walk_out" -> IF a = Owner THEN "purge" ELSE "out")
  /\ UNCHANGED <<list, info, left, want, cur>>

\* The timeout of 5 seconds is over, or a signal ends it.
Wake(a) ==
  /\ pc[a] = "sleep" /\ Goto(a, "live")
  /\ UNCHANGED <<list, info, left, want, cur>>

\* More than 3 seconds since the entry's timestamp.
Age(n) ==
  /\ Listed(n) /\ ~info[n].old
  /\ info' = [info EXCEPT ![n].old = TRUE]
  /\ UNCHANGED <<list, pc, left, want, cur>>

-----------------------------------------------------------------------------
(* rmmod: list_sync goes only when no module uses its functions.           *)

Rmmod_InUse(a) ==               \* mutant: list_sync goes whoever uses it
  /\ pc[a] = "live"
  /\ Goto(a, "expire")
  /\ UNCHANGED <<list, info, left, want, cur>>

Rmmod(a) ==
  /\ pc[a] = "live"
  /\ a = Owner => \A c \in Clients : pc[c] = "out"
  /\ Goto(a, "expire")
  /\ UNCHANGED <<list, info, left, want, cur>>

Expired(n) == info[n].old /\ info[n].count < KeepCount

\* list_del of every expired entry: the others stay, in their order.
DelExpired ==
  LET kept == {i \in DOMAIN list : ~Expired(list[i])}
  IN  \E f \in Bijection(1..Cardinality(kept), kept) :
        /\ \A i, j \in DOMAIN f : i < j => f[i] < f[j]
        /\ list' = [i \in DOMAIN f |-> list[f[i]]]

RemoveExpired_NoDel(a) ==       \* mutant: kfree without list_del
  /\ pc[a] = "expire"
  /\ WriteLock
  /\ info' = [n \in Nodes |-> IF Listed(n) /\ Expired(n) THEN Freed ELSE info[n]]
  /\ Goto(a, "print_out")
  /\ UNCHANGED <<list, left, want, cur>>

RemoveExpired_NoLock(a) ==      \* mutant: without write_lock
  /\ pc[a] = "expire"
  /\ DelExpired
  /\ info' = [n \in Nodes |-> IF Listed(n) /\ Expired(n) THEN Freed ELSE info[n]]
  /\ Goto(a, "print_out")
  /\ UNCHANGED <<left, want, cur>>

\* task_info_remove_expired.
RemoveExpired(a) ==
  /\ pc[a] = "expire"
  /\ WriteLock
  /\ DelExpired
  /\ info' = [n \in Nodes |-> IF Listed(n) /\ Expired(n) THEN Freed ELSE info[n]]
  /\ Goto(a, "print_out")
  /\ UNCHANGED <<left, want, cur>>

\* task_info_purge_list; list_sync is gone.
Purge(a) ==
  /\ pc[a] = "purge"
  /\ WriteLock
  /\ list' = <<>>
  /\ info' = [n \in Nodes |-> IF Listed(n) THEN Freed ELSE info[n]]
  /\ Goto(a, "out")
  /\ UNCHANGED <<left, want, cur>>

-----------------------------------------------------------------------------
Call(a) ==
  \/ \E pid \in Pids : AddFound(a, pid) \/ AddMissing(a, pid)
  \/ \E n \in Nodes : AddInsert(a, n)
  \/ WalkBegin(a) \/ WalkStep(a) \/ WalkEnd(a) \/ Wake(a)
  \/ RemoveExpired(a) \/ Purge(a)

Next ==
  \/ \E a \in Modules : Insmod(a) \/ Call(a) \/ Rmmod(a)
  \/ \E n \in Nodes : Age(n)

Spec == Init /\ [][Next]_vars

-----------------------------------------------------------------------------
(* Properties.                                                             *)

\* Every variable keeps its type: whatever is on the list is a task_info.
TypeOK ==
  /\ list \in Seq(Nodes)
  /\ info \in [Nodes -> TaskInfo \cup {Freed}]
  /\ \A i \in DOMAIN list : info[list[i]] # Freed
  /\ pc \in [Modules -> {"out", "add", "insert", "walk_in", "sleep", "live",
                         "expire", "print_out", "walk_out", "purge"}]
  /\ left \in [Modules -> 0..Adds]
  /\ want \in [Modules -> Pids \cup {NoPid}]
  /\ cur \in [Modules -> Nodes \cup {End}]

Adding(pid) == {a \in Modules : pc[a] = "insert" /\ want[a] = pid}

\* A pid is on the list at most once per module that adds at the same time:
\* once with list_test alone, although find and insert are two sections, and
\* whatever has expired and been added again in between.
FewDuplicates ==
  \A pid \in Pids :
    LET most == IF Clients = {} THEN 1 ELSE Cardinality(Clients)
    IN  Cardinality(Holds(pid)) + Cardinality(Adding(pid)) <= most

\* A walk stands on an entry of the list, never on one that has been freed.
WalkSafe == \A a \in Modules : Walking(a) /\ cur[a] # End => Listed(cur[a])

\* The list and all its memory are gone when list_sync is, and until it is
\* loaded again: no module that uses it puts anything back.
NothingLeft == pc[Owner] = "out" => list = <<>> /\ \A n \in Nodes : info[n] = Freed
=============================================================================
