------------------------------- MODULE BexBus -------------------------------
(***************************************************************************)
(* The bex bus of src/device_model/bex.c while it is loaded, and the       *)
(* bex_misc driver: processes add devices to the bus and delete them       *)
(* through its two attributes while bex_misc is loaded and unloaded and    *)
(* its misc devices are opened.  The driver core is external: it calls     *)
(* match and probe for each pair of a device and a driver, under the lock  *)
(* of the device, and remove before either goes; device_register refuses a *)
(* name that is taken.  Probes of different devices overlap.               *)
(***************************************************************************)
EXTENDS Integers, FiniteSets

CONSTANTS
  Devs,         \* bound: the struct bex_device that kzalloc can hand out
  Names,
  Types,        \* device types
  MiscTypes,    \* those bex_match takes for the driver's type "misc"
  Versions,
  Adders,       \* processes that write to the attribute add
  Deleters,     \* processes that write to the attribute del
  CountMod,     \* bound: how many values bex_misc_count has, 2^32 in the code
  NoDev

ASSUME BexAssumption ==
  /\ MiscTypes \subseteq Types /\ Versions \subseteq Int
  /\ CountMod \in Nat \ {0} /\ NoDev \notin Devs

ASSUME FiniteAssumption == IsFiniteSet(Deleters)

VARIABLES
  dev,          \* struct bex_device: its state, name, type and version
  refs,         \* its reference count
  drv,          \* bex_misc: none, attaching, on or detaching
  todo,         \* the devices the walk of driver_register has not done with
  probe,        \* where in bex_misc_probe a device is
  num,          \* the number in the name of its misc device
  bound,        \* the devices bound to bex_misc, with a misc device each
  failed,       \* the devices whose last probe failed
  bex_misc_count,
  miscounted,   \* whether bex_misc_count has gone back: an increment was lost, or it wrapped
  files,        \* the devices whose misc device a process has open
  new,          \* what an adder has allocated and not yet registered, or probes
  found         \* what a deleter has found and not yet unregistered

misc == <<probe, num, bound, failed, bex_misc_count, miscounted>>
vars == <<dev, refs, drv, todo, misc, files, new, found>>

Free == [st |-> "free"]
Device == [st : {"new", "on", "off", "lost", "broken"}, name : Names, type : Types, version : Versions]

On == {d \in Devs : dev[d].st = "on"}

\* The devices whose lock a probe holds; those the walk of driver_register probes.
Probing == {d \in Devs : probe[d] # "idle"}
Walked == {d \in Probing : \A a \in Adders : new[a] # d}

Unnamed == -1   \* no misc device, or one that kstrdup left without a name

Init ==
  /\ dev = [d \in Devs |-> Free]
  /\ refs = [d \in Devs |-> 0]
  /\ drv = "none" /\ todo = {}
  /\ probe = [d \in Devs |-> "idle"] /\ num = [d \in Devs |-> Unnamed]
  /\ bound = {} /\ failed = {}
  /\ bex_misc_count = 0 /\ miscounted = FALSE
  /\ files = {}
  /\ new = [a \in Adders |-> NoDev]
  /\ found = [w \in Deleters |-> NoDev]

-----------------------------------------------------------------------------
(* Match and probe.                                                        *)

bex_match(d) == dev[d].type \in MiscTypes

bex_misc_probe_NoVersion(d) ==  \* mutant: newer devices are not refused
  /\ \/ failed' = failed \cup {d} /\ UNCHANGED probe
     \/ probe' = [probe EXCEPT ![d] = "load"] /\ failed' = failed \ {d}
  /\ UNCHANGED <<num, bound, bex_misc_count, miscounted>>

\* bex_misc_probe as far as kzalloc: the version is too new, there is no
\* memory, or the probe goes on.
bex_misc_probe(d) ==
  /\ \/ failed' = failed \cup {d} /\ UNCHANGED probe
     \/ dev[d].version <= 1 /\ probe' = [probe EXCEPT ![d] = "load"] /\ failed' = failed \ {d}
  /\ UNCHANGED <<num, bound, bex_misc_count, miscounted>>

\* What the driver core does with a device and the driver.
Attach(d) ==
  IF bex_match(d) /\ d \notin bound THEN bex_misc_probe(d) ELSE UNCHANGED misc

\* bex_misc_count++, which no lock guards, in its two halves.
ProbeLoad(d) ==
  /\ probe[d] = "load"
  /\ probe' = [probe EXCEPT ![d] = "store"]
  /\ num' = [num EXCEPT ![d] = bex_misc_count]
  /\ UNCHANGED <<dev, refs, drv, todo, bound, failed, bex_misc_count, miscounted,
                 files, new, found>>

ProbeStore(d) ==
  /\ probe[d] = "store"
  /\ probe' = [probe EXCEPT ![d] = "register"]
  /\ bex_misc_count' = (num[d] + 1) % CountMod
  /\ miscounted' = (miscounted \/ bex_misc_count # num[d] \/ bex_misc_count' = 0)
  /\ \E name \in {num[d], Unnamed} : num' = [num EXCEPT ![d] = name]
  /\ UNCHANGED <<dev, refs, drv, todo, bound, failed, files, new, found>>

\* misc_register: a name that another misc device has is refused, and there may
\* be no minor or no memory for it.
misc_register(d) ==
  \/ /\ \A e \in bound : num[e] # num[d]
     /\ bound' = bound \cup {d} /\ UNCHANGED <<num, failed>>
  \/ /\ failed' = failed \cup {d} /\ num' = [num EXCEPT ![d] = Unnamed]
     /\ UNCHANGED bound

\* The probe ends, and lets its adder or the walk of driver_register go on.
ProbeRegister(d) ==
  /\ probe[d] = "register"
  /\ misc_register(d)
  /\ probe' = [probe EXCEPT ![d] = "idle"]
  /\ todo' = todo \ (Walked \cap {d})
  /\ new' = [a \in Adders |-> IF new[a] = d THEN NoDev ELSE new[a]]
  /\ UNCHANGED <<dev, refs, drv, bex_misc_count, miscounted, files, found>>

bex_misc_remove_CountsDown(d) ==        \* mutant: bex_misc_count counts the misc devices
  /\ bound' = bound \ {d} /\ num' = [num EXCEPT ![d] = Unnamed]
  /\ bex_misc_count' = (bex_misc_count - 1) % CountMod

bex_misc_remove(d) ==
  /\ bound' = bound \ {d} /\ num' = [num EXCEPT ![d] = Unnamed]
  /\ UNCHANGED bex_misc_count

-----------------------------------------------------------------------------
(* The attribute add: bex_add_dev.  Memory that an open file still points  *)
(* to is not handed out again, so that the file stays told apart.          *)

AddAlloc(a, d, name, type, version) ==
  /\ new[a] = NoDev /\ dev[d] = Free /\ d \notin files
  /\ dev' = [dev EXCEPT ![d] = [st |-> "new", name |-> name, type |-> type,
                                version |-> version]]
  /\ refs' = [refs EXCEPT ![d] = 1]
  /\ new' = [new EXCEPT ![a] = d]
  /\ UNCHANGED <<drv, todo, misc, files, found>>

Taken(name) == \E d \in On : dev[d].name = name

\* device_register: the device is on the bus, where a walk that has not ended
\* meets it too, and is probed if a driver is there.
AddRegister(a) ==
  LET d == new[a]
  IN  /\ d # NoDev /\ dev[d].st = "new" /\ ~Taken(dev[d].name)
      /\ dev' = [dev EXCEPT ![d].st = "on"]
      /\ IF drv \in {"attaching", "on"} THEN Attach(d) ELSE UNCHANGED misc
      /\ new' = [new EXCEPT ![a] = IF probe' = probe THEN NoDev ELSE d]
      /\ todo' = IF todo = {} THEN {} ELSE todo \cup {d}
      /\ UNCHANGED <<refs, drv, files, found>>

\* device_register fails, as it must if the name is taken: the result of
\* bex_add_dev is not looked at, nobody puts the device, and its memory is lost.
AddRefused(a) ==
  LET d == new[a]
  IN  /\ d # NoDev /\ dev[d].st = "new"
      /\ dev' = [dev EXCEPT ![d].st = "lost"]
      /\ new' = [new EXCEPT ![a] = NoDev]
      /\ UNCHANGED <<refs, drv, todo, misc, files, found>>

-----------------------------------------------------------------------------
(* The attribute del: bex_del_dev.                                         *)

DelFind(w, d) ==
  /\ found[w] = NoDev /\ d \in On
  /\ found' = [found EXCEPT ![w] = d]
  /\ refs' = [refs EXCEPT ![d] = @ + 1]
  /\ UNCHANGED <<dev, drv, todo, misc, files, new>>

\* The driver lets go of a device that leaves the bus.
Detach(d) ==
  /\ IF d \in bound THEN bex_misc_remove(d) ELSE UNCHANGED <<bound, num, bex_misc_count>>
  /\ failed' = failed \ {d} /\ todo' = todo \ {d}

DelUnregister_KeepsFound(w) ==  \* mutant: the reference of the search is kept
  LET d == found[w]
  IN  /\ d # NoDev /\ dev[d].st = "on" /\ d \notin Probing
      /\ found' = [found EXCEPT ![w] = NoDev]
      /\ Detach(d)
      /\ refs' = [refs EXCEPT ![d] = @ - 1]
      /\ dev' = [dev EXCEPT ![d].st = "off"]
      /\ UNCHANGED <<drv, probe, miscounted, files, new>>

\* device_unregister, which waits for a probe of the device and has
\* bex_misc_remove called if it is bound, and put_device; bex_dev_release frees
\* the device with its last reference.
DelUnregister(w) ==
  LET d == found[w]
  IN  /\ d # NoDev /\ dev[d].st = "on" /\ d \notin Probing
      /\ found' = [found EXCEPT ![w] = NoDev]
      /\ Detach(d)
      /\ refs' = [refs EXCEPT ![d] = @ - 2]
      /\ dev' = [dev EXCEPT ![d] = IF refs[d] = 2 THEN Free ELSE [@ EXCEPT !.st = "off"]]
      /\ UNCHANGED <<drv, probe, miscounted, files, new>>

\* Another process has unregistered the device since it was found: it is
\* unregistered twice and put once too often, and nothing is known of it then.
DelAgain(w) ==
  LET d == found[w]
  IN  /\ d # NoDev /\ dev[d].st \in {"off", "broken"}
      /\ found' = [found EXCEPT ![w] = NoDev]
      /\ dev' = [dev EXCEPT ![d].st = "broken"]
      /\ refs' = [refs EXCEPT ![d] = 0]
      /\ UNCHANGED <<drv, todo, misc, files, new>>

-----------------------------------------------------------------------------
(* bex_misc: insmod and rmmod, an open file keeping it loaded.             *)

DriverRegister ==
  /\ drv = "none"
  /\ drv' = "attaching" /\ todo' = On
  /\ UNCHANGED <<dev, refs, misc, files, new, found>>

\* The walk of driver_register over the bus, which waits for each probe and for
\* the probe an adder has under way; what an adder's probe failed it tries again.
DriverAttach(d) ==
  /\ drv = "attaching" /\ d \in todo \ Probing /\ Walked = {}
  /\ Attach(d)
  /\ todo' = IF probe' = probe THEN todo \ {d} ELSE todo
  /\ UNCHANGED <<dev, refs, drv, files, new, found>>

DriverReady ==
  /\ drv = "attaching" /\ todo = {}
  /\ drv' = "on"
  /\ UNCHANGED <<dev, refs, todo, misc, files, new, found>>

DriverUnregister_InUse ==       \* mutant: .owner missing in bex_misc_fops
  /\ drv = "on"
  /\ drv' = "detaching"
  /\ UNCHANGED <<dev, refs, todo, misc, files, new, found>>

\* No device is matched with the driver any more; probes under way go on.
DriverUnregister ==
  /\ drv = "on" /\ files = {}
  /\ drv' = "detaching"
  /\ UNCHANGED <<dev, refs, todo, misc, files, new, found>>

DriverDetach(d) ==
  /\ drv = "detaching" /\ Probing = {} /\ d \in bound
  /\ bex_misc_remove(d)
  /\ UNCHANGED <<dev, refs, drv, todo, probe, failed, miscounted, files, new, found>>

\* The module is gone, and bex_misc_count with it.
DriverGone ==
  /\ drv = "detaching" /\ Probing = {} /\ bound = {}
  /\ drv' = "none" /\ failed' = {}
  /\ bex_misc_count' = 0 /\ miscounted' = FALSE
  /\ UNCHANGED <<dev, refs, todo, probe, num, bound, files, new, found>>

\* A process opens and closes the misc device; not once the module is going.
Open(d) ==
  /\ d \in bound \ files /\ drv # "detaching"
  /\ files' = files \cup {d}
  /\ UNCHANGED <<dev, refs, drv, todo, misc, new, found>>

Close(d) ==
  /\ d \in files
  /\ files' = files \ {d}
  /\ UNCHANGED <<dev, refs, drv, todo, misc, new, found>>

-----------------------------------------------------------------------------
Next ==
  \/ \E a \in Adders :
       \/ \E d \in Devs, name \in Names, type \in Types, version \in Versions :
            AddAlloc(a, d, name, type, version)
       \/ AddRegister(a) \/ AddRefused(a)
  \/ \E w \in Deleters : DelUnregister(w) \/ DelAgain(w) \/ \E d \in Devs : DelFind(w, d)
  \/ DriverRegister \/ DriverReady \/ DriverUnregister \/ DriverGone
  \/ \E d \in Devs :
       \/ ProbeLoad(d) \/ ProbeStore(d) \/ ProbeRegister(d)
       \/ DriverAttach(d) \/ DriverDetach(d) \/ Open(d) \/ Close(d)

Spec == Init /\ [][Next]_vars

-----------------------------------------------------------------------------
(* Properties.                                                             *)

\* A device has one reference for being registered, or for not being so yet,
\* and one per process that has found it and not put it: it is freed with the
\* last of them, unless two processes have unregistered it (bex.c:167).
RefsExact ==
  \A d \in Devs :
    LET finders == {w \in Deleters : found[w] = d}
    IN  CASE dev[d].st \in {"new", "on", "lost"} -> refs[d] = 1 + Cardinality(finders)
          [] dev[d].st = "off"  -> refs[d] = Cardinality(finders) /\ refs[d] > 0
          [] dev[d].st = "free" -> refs[d] = 0 /\ finders = {}
          [] OTHER -> TRUE

\* The driver is bound only to devices whose type fits and whose version is 1,
\* and once it is registered it has tried each of those, whichever of the two
\* came first and whatever came and went meanwhile: it misses a device only
\* because a probe of it failed, for memory or in misc_register
\* (bex_misc.c:91-107), or has not ended.
BoundExactly ==
  \A d \in On :
    LET fits == dev[d].type \in MiscTypes /\ dev[d].version <= 1
    IN  /\ d \in bound => fits
        /\ drv = "on" /\ fits => d \in bound \cup failed \cup Probing

\* No probe is refused because of its name (bex_misc.c:96-104), whatever comes
\* and goes, as long as no two probes have met at bex_misc_count++ and it has
\* not wrapped: no two misc devices have, or ask for, the same number.
NamesApart ==
  LET named == {d \in bound \cup Probing : probe[d] # "store" /\ num[d] # Unnamed}
  IN  miscounted \/ \A d, e \in named : num[d] = num[e] => d = e

\* An open misc device keeps its memory as long as its device is on the bus,
\* rmmod or not; a delete takes it from under the file (bex_misc.c:121).
FilesSafe == \A d \in files : dev[d].st = "on" => d \in bound
=============================================================================
