----------------------------- MODULE Lifecycle -----------------------------
(***************************************************************************)
(* Loading and unloading the modules of src/ side by side, each by its     *)
(* script in Drivers.  Most of them claim the same names: six character    *)
(* drivers the major number 42, two the same proc entry.                   *)
(*                                                                         *)
(* A claim of a name that is taken fails, and any claim may fail for lack  *)
(* of memory.  What an error path or an exit function gives back is given  *)
(* back whoever has claimed it, as unregister_chrdev_region, release_region*)
(* and remove_proc_entry do, which go by the name.                         *)
(***************************************************************************)
EXTENDS Drivers, FiniteSets, Integers

CONSTANTS
  Loadable,     \* the modules that may be loaded
  MaxLoaded,    \* bound: how many of them at a time
  None          \* the holder of what nobody holds

ASSUME LoadableAssumption == Loadable \subseteq AllDrivers /\ None \notin AllDrivers

VARIABLES
  st,           \* each module's state
  pos,          \* the claim its init function is at
  todo,         \* what its error path or its exit function has yet to give back
  holder,       \* resource -> the module that has claimed it
  given,        \* what each module has given back since it was loaded,
  twice,        \* and what a second time
  used          \* whether a process has it open

vars == <<st, pos, todo, holder, given, twice, used>>

Held(d) == {r \in Resources : holder[r] = d}

Dependents(d) == {e \in Loadable : d \in Script[e].deps /\ st[e] # "out"}

Loaded == {d \in Loadable : st[d] # "out"}

Init ==
  /\ st = [d \in Loadable |-> "out"]
  /\ pos = [d \in Loadable |-> 1]
  /\ todo = [d \in Loadable |-> <<>>]
  /\ holder = [r \in Resources |-> None]
  /\ given = [d \in Loadable |-> {}]
  /\ used = [d \in Loadable |-> FALSE]
  /\ twice = [d \in Loadable |-> {}]

-----------------------------------------------------------------------------
(* insmod: the init function.                                              *)

Load(d) ==
  /\ st[d] = "out"
  /\ \A e \in Script[d].deps : st[e] = "live"
  /\ st' = [st EXCEPT ![d] = "init"]
  /\ UNCHANGED <<pos, todo, holder, given, twice, used>>

AtClaim(d) == st[d] = "init" /\ pos[d] <= Len(Script[d].init)
Step(d)    == Script[d].init[pos[d]]

\* Memory a module has leaked does not keep it from getting other memory.
Free(d, step) ==
  \/ holder[step.claim] = None
  \/ holder[step.claim] = d /\ (step.fails = "never" \/ step.claim \in Memory)

Claim(d) ==
  /\ AtClaim(d)
  /\ Free(d, Step(d))
  /\ holder' = [holder EXCEPT ![Step(d).claim] = d]
  /\ pos' = [pos EXCEPT ![d] = @ + 1]
  /\ UNCHANGED <<st, todo, given, twice, used>>

FailIgnored(d) ==
  /\ AtClaim(d) /\ Step(d).fails = "next"
  /\ pos' = [pos EXCEPT ![d] = @ + 1]
  /\ UNCHANGED <<st, todo, holder, given, twice, used>>

\* To the error path, which ends in the state the step names.
FailUndo(d) ==
  /\ AtClaim(d) /\ Step(d).fails \in {"error", "loaded"}
  /\ st' = [st EXCEPT ![d] = Step(d).fails]
  /\ todo' = [todo EXCEPT ![d] = Step(d).undo]
  /\ UNCHANGED <<pos, holder, given, twice, used>>

\* insmod is killed; the module is neither loaded nor unloaded for ever.
FailOops(d) ==
  /\ AtClaim(d) /\ Step(d).fails = "oops"
  /\ st' = [st EXCEPT ![d] = "stuck"]
  /\ UNCHANGED <<pos, todo, holder, given, twice, used>>

InitReturns(d) ==
  /\ st[d] = "init" /\ pos[d] > Len(Script[d].init)
  /\ st' = [st EXCEPT ![d] = "live"]
  /\ UNCHANGED <<pos, todo, holder, given, twice, used>>

-----------------------------------------------------------------------------
(* The error paths, and rmmod: the exit function.                          *)

Unload(d) ==
  /\ st[d] = "live"
  /\ Script[d].pinned => ~used[d] /\ Dependents(d) = {}
  /\ st' = [st EXCEPT ![d] = "exit"]
  /\ todo' = [todo EXCEPT ![d] = Script[d].exit]
  /\ UNCHANGED <<pos, holder, given, twice, used>>

\* Giving back what was never claimed changes nothing: cdev_del of a device
\* never added, driver_unregister, NULL pointers in delete_block_device.
GiveBack(d) ==
  /\ todo[d] # <<>>
  /\ LET r == Head(todo[d])
     IN  /\ holder' = [holder EXCEPT ![r] = None]
         /\ given' = [given EXCEPT ![d] = @ \cup (Held(d) \cap {r})]
         /\ twice' = IF holder[r] = None /\ r \in given[d]
                     THEN [twice EXCEPT ![d] = @ \cup {r}] ELSE twice
  /\ todo' = [todo EXCEPT ![d] = Tail(@)]
  /\ UNCHANGED <<st, pos, used>>

\* The memory of the module goes, with all that is its own.
Leave(d) ==
  /\ st[d] \in {"error", "exit"} /\ todo[d] = <<>>
  /\ st' = [st EXCEPT ![d] = "out"]
  /\ holder' = [r \in Resources |->
                  IF holder[r] = d /\ r \in Own(d) THEN None ELSE holder[r]]
  /\ pos' = [pos EXCEPT ![d] = 1]
  /\ given' = [given EXCEPT ![d] = {}]
  /\ twice' = [twice EXCEPT ![d] = {}]
  /\ UNCHANGED <<todo, used>>

\* The init function returns 0 although it has gone through an error path.
StayAnyway(d) ==
  /\ st[d] = "loaded" /\ todo[d] = <<>>
  /\ st' = [st EXCEPT ![d] = "live"]
  /\ UNCHANGED <<pos, todo, holder, given, twice, used>>

-----------------------------------------------------------------------------
(* Processes that open the device: at once when the entry point is there,  *)
(* not only when init has returned.                                        *)

Open(d) ==
  /\ ~used[d]
  /\ \E r \in Script[d].opens : holder[r] = d
  /\ Script[d].pinned => st[d] # "exit"
  /\ used' = [used EXCEPT ![d] = TRUE]
  /\ UNCHANGED <<st, pos, todo, holder, given, twice>>

Close(d) ==
  /\ used[d]
  /\ used' = [used EXCEPT ![d] = FALSE]
  /\ UNCHANGED <<st, pos, todo, holder, given, twice>>

-----------------------------------------------------------------------------
Next ==
  \/ Cardinality(Loaded) < MaxLoaded /\ \E d \in Loadable : Load(d)
  \/ \E d \in Loaded :
       \/ Claim(d) \/ FailIgnored(d) \/ FailUndo(d) \/ FailOops(d)
       \/ InitReturns(d) \/ StayAnyway(d)
       \/ Unload(d) \/ GiveBack(d) \/ Leave(d)
  \/ \E d \in Loadable : Open(d) \/ Close(d)

Spec == Init /\ [][Next]_vars

-----------------------------------------------------------------------------
(* Properties, each but for the modules and resources it names: there the  *)
(* code breaks it.                                                         *)

\* vmmap.c:183 removes the proc entry that only kmmap makes.
KnownThefts == {<<"vmmap", "proc_my_proc_entry">>}

Moves(d) == st'[d] # st[d] \/ todo'[d] # todo[d]

\* No module loses what it holds by the doing of another, whose claims have
\* failed because it holds them: the error paths give back what is theirs.
Undisturbed ==
  [][\A r \in Resources :
       holder[r] # None /\ holder'[r] # holder[r] =>
         \/ Moves(holder[r])
         \/ \E d \in Loadable : Moves(d) /\ <<d, r>> \in KnownThefts]_vars

\* bex.c:221 leaves the device of bex.c:208 behind, and bex.c:208 what bex_add_dev
\* has allocated for it when it cannot be registered; kmmap.c:196 and vmmap.c:178
\* free the pages they have reserved and leave them marked; minfs.c:462 does not
\* free what minfs.c:490 has allocated.
KnownLeaks ==
  {<<"bex", "bex_device">>, <<"bex", "bex_device_memory">>,
   <<"kmmap", "kmmap_reserved_pages">>, <<"vmmap", "vmmap_reserved_pages">>,
   <<"minfs_mount", "minfs_sbi">>}

\* A module that is not loaded, because it was unloaded or because its init
\* failed at whatever step, holds nothing.
NothingLeft ==
  \A r \in Resources :
    LET d == holder[r]
    IN  d # None /\ st[d] = "out" => <<d, r>> \in KnownLeaks

\* delete_block_device frees what the error path of create_block_device has
\* freed (ram-disk.c:185, 187 and 221, 223); d_make_root has put the inode that
\* minfs.c:544 and myfs.c:165 put when it has failed.
KnownTwice == {"ram_disk_queue", "ram_disk_data", "minfs_root_inode", "myfs_root_inode"}

\* Nothing is given back twice in one life of a module.
NotTwice == \A d \in Loadable : twice[d] \subseteq KnownTwice

\* deferred.c:218 adds the device before it sets up the timer.
KnownUnready == {"deferred_cdev"}

\* Whatever an interrupt, a packet, a timer or a process can enter is claimed
\* after all that it uses, and given back before it.
EntryReady ==
  \A d \in Loadable : \A e \in Script[d].needs :
    holder[e.entry] = d /\ e.entry \notin KnownUnready => e.uses \subseteq Held(d)

\* myfs_fs_type has no owner (myfs.c:180); filter adds its device before the
\* hook, whose failure makes its init fail with the device open (filter.c:133).
KnownUnpinned == {"myfs", "filter"}

\* No process has a file of a module open, nor a file system mounted, nor is a
\* module loaded that calls it, when its code and data are gone.
UsersSafe ==
  /\ \A d \in Loadable \ KnownUnpinned : used[d] => st[d] # "out"
  /\ \A e \in Loaded : \A d \in (Script[e].deps \cap Loadable) \ KnownUnpinned : st[d] # "out"

\* A module that is loaded has all that its exit function gives back: in case
\* of an error its init function has undone its claims (ram-disk.c:209).
LoadedComplete ==
  \A d \in Loadable :
    st[d] = "live" => \A i \in DOMAIN Script[d].exit : holder[Script[d].exit[i]] = d
=============================================================================
