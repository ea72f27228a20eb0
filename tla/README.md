# TLA+ models of the Linux kernel labs

The repository under `src/` is a set of small, independent Linux kernel
modules, each written for one lab: an interrupt driven keyboard driver, a
timer/work queue device, a file system on one directory block, a linked list
shared between modules, a bus with a driver, block, network and memory mapping
drivers, and a number of one-shot exercises.  The modules are short, and what is
hard about them is what is around them: interrupts, timers, workers, several
processes, crashes, failing calls, and `insmod`/`rmmod` in any order.  That is
what these models are about.

Contents: [inventory](#inventory), [modules](#the-modules),
[runs](#the-runs), [proofs](#the-proofs), [known
disagreements](#what-the-code-does-that-its-text-does-not-say),
[what is left out](#what-is-not-modelled), [plan](#plan).

To check: `tlc -config KbdSingle.cfg MCKbd` (and so on, see the table of runs),
`tlapm KbdProofs.tla` (and so on, for the modules named `...Proofs`).

## Inventory

Each part with its state, its operations, what makes it hard, and what makes it
correct.  The parts share no code.  They interact through the kernel: the
character drivers want the same major number, `kmmap` and `vmmap` the same proc
entry, `7-list-test` calls functions that `6-list-sync` exports, `bex_misc`
registers itself on the bus of `bex`.

| Part (`src/`) | State | Operations | Hard | Correct if |
|---|---|---|---|---|
| keyboard driver `interrupts/kbd.c` | ring buffer, two indices, a count, `buf_lock` | interrupt handler, `read`, `write` (reset), init, exit | handler and readers on several CPUs; fill level tested outside the lock; lock shared with the handler | it is a bounded FIFO queue; no deadlock with the handler; count and indices agree |
| deferred work device `deferred_work/3-4-5-deferred` | one timer, one flag, one work item, list of monitored processes | four ioctls, timer handler, work item, open, release, init, exit | timer arms itself; handler against ioctl and exit; processes die and are reaped meanwhile; references | nothing runs after unload; one reference per entry; dead processes are removed |
| kernel thread `deferred_work/6-kthread` | two flags, two wait queues | thread, init, exit | two sleeps on each other's flags; a thread that never starts; a signal; exit waits for a thread that still has code to run | the thread has said it is over before its code is gone; `rmmod` ends |
| timer `deferred_work/1-2-timer` | a timer | handler, init, exit | arms itself | stopped at exit |
| minfs `filesystems/minfs` | bitmap, inode block, directory block on disk; their buffers, `sbi->imap`, inodes and dentries in memory | mount, unmount, lookup, create, readdir, write_inode; `mkfs.minfs` | order of writeback; crash; failed reads; an inode whose write fails; full bitmap; listing against create, and what `dir_emit` refuses | names are unique and survive an unmount; entries have filled inodes; listings are complete |
| myfs `filesystems/myfs` | inodes in memory, link counts | mount, mknod, mkdir, create | links counted here and in the kernel's library; failing mount; module and mount lifetimes | link counts exact; code there while mounted |
| task list `kernel_api/6-list-sync`, user `7-list-test` | list under a reader/writer lock | add, remove expired, print, purge, the init and exit that call them | two modules add, walk and free at once; lock given up between search and insert | no freed entry walked; few duplicates; nothing left |
| unsynchronised lists `kernel_api/4-list`, `5-list-full` | list, counter | the same, from init and exit only | sequential | as above |
| memory and locking exercises `kernel_api/1-mem`, `2-sched-spin`, `3-memory` | none to speak of | init, exit | - | - |
| so2_cdev `device_drivers/kernel` | buffer, size, open flag | exclusive open, release, read, write, ioctl | compare and exchange against release, with files that are inherited; size and position changed by calls that overlap, offsets of the caller's | one open file; no position past the size |
| driver stub `device_drivers/extra` | none | empty | - | - |
| RAM disk `block_device_drivers/1-2-3-6-ram-disk` | queue, gendisk, memory | request, bio, create, delete | bios merged into requests; transfer at the end of the disk; failing init | every sector of a bio is transferred, to the right place; every bio is ended; exit undoes init |
| relay disk `block_device_drivers/4-5-relay-disk` | a block device | read one sector, write one at exit | missing disk | - |
| netfilter `networking/1-2-netfilter` | a flag, an address, a hook | hook, ioctl, init, exit | hook against ioctl and init | matching packets reported, and only those |
| sockets `networking/3-4-tcp-sock`, `5-udp-sock` | sockets | init (all of it), exit | failing init | init undoes what it did |
| bex bus `device_model/bex.c`, `bex_misc.c` | devices and driver on the bus, misc devices, references | attributes add and del, match, probe, remove, release, load and unload | two deletes of one name; driver attached and detached meanwhile; probes that fail; probes that overlap at an unlocked count; open files | bound exactly if matching; references exact; no two misc devices of one name |
| memory mapping `memory_mapping/kmmap`, `vmmap` | 16 reserved pages | read, write, mmap, init, exit | failing init; reserved pages; shared proc entry | init undoes what it did, and only that |
| first modules `kernel_modules/*` | none | print, or fault on purpose | - | - |

`PROJECT.json` lists the same parts under `components`, and under `hazards` the
lines at which things can go wrong, each with the properties that would show it.

## The modules

| Module | Models | Remarks |
|---|---|---|
| `KbdQueue` | what the keyboard device promises | abstract: a FIFO queue, one step per operation |
| `Kbd` | `interrupts/kbd.c` at run time | implements `KbdQueue` |
| `Deferred` | `deferred.c` | |
| `MinfsStore` | what minfs promises of names | abstract |
| `Minfs` | `minfs.c`, and `mkfs.minfs.c` as initial disk | implements `MinfsStore` |
| `ListSync` | `list-sync.c` and its users | |
| `BexBus` | `bex.c` while loaded, `bex_misc.c` | |
| `Kthread` | `kthread.c` | |
| `DiskStore` | what a disk promises to bios | abstract |
| `RamDisk` | the requests of `ram-disk.c` | implements `DiskStore` |
| `So2Cdev` | open, release, read and write of `so2_cdev.c` | |
| `Filter` | hook and ioctl of `filter.c` | |
| `Myfs` | the directory operations of `myfs.c` | |
| `MCLabs` | - | `Kthread`, `RamDisk`, `So2Cdev`, `Filter` and `Myfs` side by side, for one run |
| `Drivers` | init and exit of 15 modules and 2 mounts, as scripts | data for `Lifecycle` |
| `Lifecycle` | loading, failing, unloading them side by side | composes the scripts |
| `KbdProofs`, `DeferredProofs`, `MinfsProofs`, `ListSyncProofs`, `BexBusProofs`, `LifecycleProofs`, `MyfsProofs` | - | theorems about the module of that name |
| `LabsProofs` | - | theorems about the five modules of `MCLabs`, each under the name it has there |
| `MC...` | - | symmetry and small inputs for TLC |

An operator whose comment says "mutant" is a plausible bug that the
specification does not use.  Each property was checked to fail when the
operator takes the place of the one it is named after.

### Kbd

`buf`, `put_idx`, `get_idx`, `count` are the fields of `struct kbd`; `count` is
a `size_t` and wraps modulo `SizeMod`.  `hpc`, `hcpu`, `val` are the interrupt
handler: where it is, on which CPU, which scancode.  Each thread has `pc`, `op`
(`read` or `write`), the CPU it holds, and the loop variables of `kbd_read`.

| Action | Code |
|---|---|
| `KeyIrq` | the interrupt, and `i8042_read_data` |
| `IgnoreRelease` | `is_key_press` is false |
| `DropChar`, `AdmitChar` | the test of `put_char`, before the lock |
| `HandlerLock`, `StoreChar` | its critical section |
| `BeginRead`, `SeeChar`, `EndRead` | `kbd_read` and the test of `get_char`, before the lock |
| `BeginWrite` | `kbd_write` |
| `IrqSave`, `Lock` | `spin_lock_irqsave`, in its two steps |
| `TakeChar`, `ResetBuffer` | the critical sections of `get_char` and `reset_buffer` |

A critical section is one step because the only thing read outside the lock is
the count.  A thread that spins with interrupts off occupies its CPU; the
handler occupies the CPU it has interrupted and can only interrupt one whose
interrupts are on.  This is what makes `NoSelfDeadlock` a statement about
`spin_lock_irqsave` and not about the model.

### Deferred

`timer`, `tpc` (the handler's step), `work`, `flag`, `mon` (entries on the list
per process) and `usage` (the `task_struct` references the module holds) are the
module's; `task` is the life of each process (running, zombie, reaped, freed);
`pc`, `arg` are the threads in an ioctl.  Every section under `plist_lock` is a
step.  `stale` counts entries on a `task_struct` that was freed before
`get_task_struct` was called on it; what the sweep does with such an entry is
left open.  Time is left out: a pending timer may fire at any moment, which
includes every expiry the code may compute.  `EarlyOpen` lets threads use the
device between `cdev_add` and `timer_setup`.

### Minfs

Three copies of the metadata: `disk`, the buffers `buf` with `dirty`, and the
in-memory `imap`, `idirty` (inodes) and `dcache`.  `minfs_create` is three steps
(`NewInode`, `AddLink`, `Instantiate`), between which blocks are written back or
the machine crashes; the VFS holds the directory's lock, so lookups and other
creates are excluded.  The kernel clears the dirty state of an inode before it
calls `minfs_write_inode`: if that cannot read the block (`WriteInodeFails`, and
the inodes that fail in `Umount`), nobody writes the inode again.  It is then in
`lost`, with the inodes that a crash found unwritten (`Unwritten`); the create
that fills an inode takes it out.  `minfs_readdir` lists one entry per call, as
`dir_emit` makes it return; the entries that `dir_emit` does not take are passed
over, since the loop advances `ctx->pos` all the same.  `missing` is what a
listing has not shown of the names that were there when it began, `refused` what
it has passed over.  `NewInodeFull` is the case of a full bitmap, in
which `find_first_zero_bit` returns `MINFS_NUM_INODES` and the test `idx < 0`
does not see it.  `crashed`, `ioerr` and `lost` are history variables: most
promises about names end with a failed read of the directory, `InodesDistinct`
also with a crash, and `InodesFilled` only for the inodes that are lost.

### ListSync

`list` is the chain from `head`, `info` the memory of each `task_info` (or
`Freed`).  A module goes through `add`/`insert`, `walk_in`, (`sleep` for
`list_sync`), `live`, `expire`, `print_out`, `walk_out`, (`purge`).  Sections
under `write_lock` are one step; `read_lock` is held over the steps of a walk,
and a writer waits for `WriteLock`.  `rmmod list_sync` needs all users gone:
the kernel refuses to unload a module whose symbols are in use.

### BexBus

`dev` is the memory of each `struct bex_device`, `refs` its reference count,
`drv` the driver's life, `bound` the devices with a misc device, `new` and
`found` the steps of `bex_add_dev` and `bex_del_dev`.  A probe is several steps,
so that the probes of two devices overlap: `bex_misc_probe` as far as the
allocation, the load and the store of `bex_misc_count++` (`ProbeLoad`,
`ProbeStore`), and `misc_register` (`ProbeRegister`), which refuses a name that
another misc device has and may fail for want of a minor or of memory.  `num` is
the number in a misc device's name, `failed` the devices whose last probe
failed.  `miscounted` is the history of `bex_misc_count`: two probes have met
there, or it has wrapped.  The driver core is external: it calls match and probe
for each pair once both are there, under the lock of the device, so that a
delete waits for a probe; it removes before either goes, and refuses a name that
is taken.  `device_register` may also fail for memory (`AddRefused`): nobody puts
the device then, and its memory is lost.  `DelAgain` is a device
found by two deleters and unregistered by both; it is then `broken` and nothing
is claimed of it.

### Kthread

`module` is where `kthread_exit` is (or that the module is out or live),
`thread` where `my_thread_f` is.  `wait_event` puts its caller on the queue
before it tests the condition, so that a wake-up after the test is not lost:
`WaitStop` and `WaitTerminated` test and go to sleep in one step, `WakeThread`
and `WakeExit` send a sleeper back to its test.  Setting a flag and waking up are
two steps (`SetStop` and `WakeThread`, `SetTerminated` and `WakeExit`).
`KthreadInit` may leave the module without a thread, `Interrupted` is a signal to
`rmmod`; `Oops` is the end of a thread whose code has gone.

### RamDisk and DiskStore

A bio asks for one or two consecutive sectors, a segment each.  The block layer
(external) refuses bios past the `Capacity` it was told, and queues them, alone
or merged before or behind a request they are adjacent to.  `my_block_request`
is `FetchRequest`, `XferSegment` for each segment in the order of
`rq_for_each_segment`, `EndRequest`, and `ReturnRequest` when nothing is left.  It
runs with the queue's lock held, so nothing is queued meanwhile.  `DiskStore` is
the promise: the sectors of a bio are transferred in any order, each once, and
the bio ends when none is left.  The refinement maps a bio's untransferred
segments (`Left`) out of the request at work and the position `at` in it.  Were
`Capacity` more than `Size`, or a segment taken from the wrong sector,
`my_block_transfer` would drop it in silence: that is what the refinement is for.

### So2Cdev

`accessed` and `size` are the device's, `holders` the processes that share an
open file, `pos` its position.  A read or write works on a copy of the position
(`call[u].offset`) and stores it when it ends, as `ksys_write` does; nothing
locks the position of a device's file.  `so2_fops` sets neither `llseek` nor
`nonseekable_open`, so that no process can move the position and every process
can give an offset of its own, any of `Offsets`, with `pread64` and `pwrite64`
(`from` is then `"caller"`), which leave the position alone.  `data->size += to_write` is a load
(`Write`) and a store (`AddSize`).  The device has an invariant that its code
nowhere states and that a `read` from the position of its file needs,
`OffsetInSize`: were a position past the size, their unsigned difference would
wrap.  A `pread64` past the size makes it wrap at once, which the model has
(`ToRead`) and the property does not deny.  Two writers that share a file can
break it by losing an addition; so can a file read to the end of a size that has
outgrown the buffer.  `astray` is the history of these two, and the property
says there is no other way.

### Filter

One packet at a time goes through the hook (`Packet`, `TestFlag`, `TestAddress`,
`TestHeader`, `Accept`), while processes go through the ioctl (`CallIoctl`,
`CopyAddress`, `SetFlag`).  `asked` is the history of addresses, `faulted` that a
copy has failed, which the code does not look at.

### Myfs

`nlink` is what `myfs_get_inode` and `myfs_mkdir` count and what the library's
functions (external) count on top of it; `child` is the tree of dentries.  Each
operation runs under the VFS's directory locks and is one step; the VFS refuses
names that exist, cycles and removed directories, which are the guards.

### Drivers and Lifecycle

A script in `Drivers` is the init function as a sequence of claims, each with
what happens when it fails (error path with the list of what that gives back;
ignored; loaded anyway; oops), and the exit function as what it gives back in
order.  `Lifecycle` runs the scripts: any claim may fail, a claim fails when
somebody holds the name.  `unregister_chrdev_region`, `release_region` and
`remove_proc_entry` go by the name and not by who claimed it, so `GiveBack`
takes a resource from whoever has it.  A mount is a script of its own that depends
on the module of its file system: `minfs_fill_super` with its five labels and
`minfs_put_super`, `myfs_fill_super` and the library's unmount.  Processes open a device as soon as it is
there, and an open file keeps the module loaded if its operations name an
owner.

The code breaks each of the properties of `Lifecycle` somewhere.  Each property
names those cases in a set of its own (`KnownThefts`, `KnownLeaks`,
`KnownTwice`, `KnownUnready`, `KnownUnpinned`) and states that there are no
others:

| Set | Case |
|---|---|
| `KnownThefts` | `vmmap`'s error path removes the proc entry that only `kmmap` makes |
| `KnownLeaks` | `bex` leaves the device of its init on a bus that is gone, and its memory when `device_register` has refused it; `kmmap` and `vmmap` free pages that are still marked reserved when `cdev_add` fails; unmounting minfs keeps its `minfs_sb_info` |
| `KnownTwice` | the RAM disk's exit frees again what the error path of `create_block_device` freed; both file systems put the root inode again that `d_make_root` has put when it failed |
| `KnownUnready` | `deferred` adds its device before it sets up the timer |
| `KnownUnpinned` | `myfs` names no owner; `filter` can be opened before the hook that may still fail |

Each member is there because the run fails without it: the sets hide nothing
that does not happen.

## The runs

| Run | Question | Instance | Distinct states |
|---|---|---|---|
| `kbd_single` | Is the driver a FIFO queue? Do calls return? | 1 thread, 2 CPUs, buffer 3, reads of up to 3 | 125,828 |
| `kbd_multi` | No deadlock with the handler; count and indices | 2 threads, 2 CPUs, buffer 2, `size_t` of 2 bits | 79,450 |
| `kbd_two_readers` | Does a read ever take from an empty buffer? | 2 threads, 2 CPUs, buffer 2 | violated |
| `deferred` | What is left after unload; are references exact; are dead processes removed; does unload end? | 2 threads, 1 process, all ioctls, early open, 2 entries | 47,891 |
| `deferred_stale` | Can an entry point to a freed `task_struct`? | 2 threads, 1 process | violated |
| `minfs` | Do names behave as `MinfsStore` says? | 3 names, 3 inodes, 3 entries | 2,099,076 |
| `minfs_remount` | Does every file have an inode of its own? | the same | violated |
| `lifecycle` | Do modules and mounts disturb one another, leak, free twice? | all 15 and 2 mounts, two at a time | 1,394,784 |
| `lifecycle_ram_disk` | Does a loaded module have what its exit gives back? | the RAM disk | violated |
| `list_sync` | Are walks safe, duplicates few, is nothing left? | 2 users, 2 pids, 4 nodes, 2 adds each | 308,026 |
| `bex_bus` | Binding, references, names of misc devices, open files | 3 devices, 2 names, 2 adders, 2 deleters, a count of 3 values | 2,583,719 |
| `labs` | Five small modules: handshake of the thread, disk, exclusive open and size, filter, link counts | see the bounds | 150,816 |

What the properties say is written above each in its module.

`labs` runs five modules that share nothing in one state space that is the union
of theirs: the first state says which of them runs.  By part: `so2_cdev` and the
RAM disk make most of it, `kthread` is a few dozen states.

### The bounds, and why they are enough

- `Kbd`: the code's buffer has 1024 characters and the behaviour depends on it
  only through "empty", "full" and "at the wrap": a buffer of 2 or 3 has all
  three, and a read of 3 crosses the wrap.  `SizeMod` is small so that the wrap
  of the count is reached; the proofs need it a multiple of the buffer size, as
  2^32 is of 1024.  Two CPUs are needed for a thread and the handler to run at
  the same time, three would add nothing: one handler at a time.  Two scancodes
  suffice where order is not looked at.
- `Deferred`: `MaxEntries` bounds entries per process; two are needed for one
  to be swept while another is added, or for a process to be on the list twice.
- `Minfs`: three inodes (root, first file, one free) so that one create fills
  the bitmap and the next finds it full; three entries so that two creates fill
  the directory.  The code has 32 of each.
- `Lifecycle`: two at a time, since one module can only be disturbed by what
  another gives back or holds, and a third adds no new pair; a file system and
  its mount are such a pair.  Deadlock is not checked: two `insmod` or `mount`
  that an oops has killed stay for ever and use up the bound.
- `ListSync`: `Adds` is 4 and `KeepCount` 5 in the code.  Two of each: an entry
  that expires and one that does not, a pid that is found and one that is not.
- `BexBus`: two adders, so that two probes overlap; two deleters for the double
  delete; three devices so that one is bound, one waits and one is being deleted.
  `misc_register` may fail at any time, so that no number of minors is needed.
  `CountMod` is the number of values of `bex_misc_count`, 2^32 in the code: with
  three, two probes in a row leave it short of the wrap, and a third reaches it.
- `RamDisk`: two bios of up to two segments on three sectors: a merged request
  crosses from one bio to the other, in front or behind; a bio ends at the end of
  the disk; two overlap.  Two values tell a transferred sector from another.
- `So2Cdev`: a buffer of two bytes, a message of one, calls of up to two: a write
  is cut at the end of the buffer, the size outgrows it (`MaxSize` 5).  A caller's
  offset is 0 or 3, within the buffer or past it.  Two processes, two files: one open and inherited, one refused.
- `Filter`: two addresses, so that one packet matches and one does not, and two
  processes in the ioctl.
- `Myfs`: three inodes beside the root and two names: a directory in a
  directory, a file with two names, a rename over a name that is taken.

### Fairness

Only the runs with liveness properties assume any.

- `Kbd`: the handler and each call go on (`SF`).  Strong fairness because they
  wait for things others take and give back again: `buf_lock`, a queued spin
  lock that is granted in order, and a CPU, which the handler leaves after a
  bounded number of steps.  No key has to be pressed, no call has to be made.
- `Deferred`: a pending timer fires, a handler and a work item that has started
  go on (`WF`); each ioctl and the exit function go on (`SF`):
  `del_timer_sync` polls until it finds the handler not running, which is so
  between any two expiries.  No process has to die or be reaped.
- `Kthread`: the thread and `kthread_exit` are scheduled (`WF`).  No signal has to
  come.
- `RamDisk`: the block layer runs the queue when it has added something
  (`CallRequest`), and `my_block_request` runs on (`WF`).

## The proofs

Each theorem holds for every value of the constants that the assumptions allow:
any number of threads, processes, devices or names, any size of buffer.

| Module | Theorem | Says |
|---|---|---|
| `KbdProofs` | `TypeCorrect` | `Spec => []TypeOK` |
| | `MutualExclusion` | `buf_lock` belongs to whoever is in its critical section, one at a time; a thread with interrupts off holds a CPU that the handler is not on |
| | `NoHandlerDeadlock` | `Spec => []NoSelfDeadlock` |
| | `IndicesAgree` | `Spec => []IndexAgreement` |
| | `FedCountBound`, `FedIsAQueue` | with any threads, as long as no read takes from an empty buffer (`NoPhantomChar`), the count never exceeds the buffer and `Kbd` implements `KbdQueue` |
| | `AloneNoPhantom`, `AloneIsAQueue` | so it is if no other call overlaps a read (`ReadsAlone`) |
| | `SingleCountBound`, `SingleNoPhantom`, `SingleIsAQueue` | so it is with one thread: `CountBound`, `NoPhantomChar`, `ImplementsQueue` |
| `DeferredProofs` | `TypeCorrect`, `ReferencesExact`, `MonitoredTasksStay`, `UnloadLeavesNothing` | `TypeOK`, `RefsMatchList`, `MonitoredNotFreed`, `UnloadClean` |
| `MinfsProofs` | `MinfsIsAStore` | `Minfs` implements `MinfsStore` |
| | `NamesAreUnique`, `InodesAreFilled`, `ListingsAreComplete` | `NamesUnique`, `InodesFilled`, `ListingComplete` |
| `ListSyncProofs` | `WalksAreSafe`, `FewDuplicatesAlways`, `NothingLeftAlways`, `ListTypes` | `WalkSafe`, `FewDuplicates`, `NothingLeft`, `TypeOK` |
| `BexBusProofs` | `NamesAreApart`, `OpenStaysBound`, `BoundIsExact`, `CountIsExact` | `NamesApart`, `FilesSafe`, `BoundExactly`, `RefsExact` |
| `LifecycleProofs` | `NothingLeftAlways`, `NotTwiceAlways`, `EntryReadyAlways`, `UsersSafeAlways`, `UndisturbedAlways` | `NothingLeft`, `NotTwice`, `EntryReady`, `UsersSafe`, `Undisturbed`, for any set of the modules and mounts side by side |
| `MyfsProofs` | `LinksExactHolds` | `LinksExact` of `Myfs`, for any finite sets of inodes and names |
| `LabsProofs` | `ThreadToldFirst`, `HookReportsRight`, `CdevOneFile`, `CdevOffsetInSize` | the same of `Kthread`, `Filter` and `So2Cdev`, each by itself |
| | `ServesBios`, `RamDiskTypes` | `RamDisk` implements `DiskStore`, and its types |
| | `ToldBeforeGoneAlways`, `OneFileAlways`, `OffsetInSizeAlways`, `ReportsRightAlways`, `LinksExactAlways`, `ImplementsDiskHolds`, `LabsTypes` | the properties of the run `labs`: `ToldBeforeGone`, `OneFile`, `OffsetInSize`, `ReportsRight`, `LinksExact`, `ImplementsDisk`, `TypeOK` |

With these every safety property that a run checks, action properties and
refinements included, is a theorem.

### Assumptions

- `Kbd`: `SizeAssumption` (a buffer of at least one character, a `SizeMod`
  larger than it and a multiple of it), `NameAssumption` (the special values are
  different from threads and CPUs), `InputAssumption` (scancodes are bytes).
  The theorems about the queue also assume that the character 0 is not one of the
  keyboard's.
- `Deferred` and `BexBus`: `FiniteAssumption`, the threads and the deleters are
  finitely many, since references are counted against sets of them; `BexBus`
  also that the types of the driver are types, versions are integers, and
  `bex_misc_count` has at least one value.
- `Minfs`: `MinfsAssumption`, at least two inodes and one entry.
- `MCLabs`: `LabsAssumption`.  The parts that a theorem about one component needs
  are stated there: for `So2Cdev` that the sizes of buffer and message, the
  lengths of calls and the offsets are natural numbers (`Parameters`), for `Filter` that the
  address 0 is none of those a packet has, for `RamDisk` that there is a sector
  (`Sizes`), for `Myfs` that inodes and names are finitely many and that the root
  and the absence of an inode are none of them (`Finite`, `Apart`).
- `ListSync`: `NameAssumption` (the special values are none of the others, the
  modules that use the list are finitely many) and `FreedAssumption` (freed memory
  is no `task_info`).
- `Lifecycle`: `LoadableAssumption`, what is loaded is among the scripts of
  `Drivers`.  `Kthread` has no constants.

### Arguments

For `Kbd`:

- **Types.** `TypeOK` alone is not inductive: a step takes a character only if
  there is something left to read, so that `size` stays in `Nat`.  `TypeInv`
  adds that (`SizeInv`).
- **Mutual exclusion.** `MutexInv` is the conjunction of who owns the lock in
  terms of program counters (`LockInv`) and who holds which CPU (`CpuInv`).  It
  is inductive; `NoSelfDeadlock` follows at once, since a thread that owns the
  lock holds a CPU with its interrupts off.
- **Indices.** `IndexAgreement` is inductive given `TypeOK`.  `StoreChar` adds
  one to the count modulo `SizeMod` and one to `put_idx` modulo `BUFFER_SIZE`;
  each differs from the plain sum by a multiple of `BUFFER_SIZE`, because
  `BUFFER_SIZE` divides `SizeMod`, and multiples add up to multiples
  (`Multiple`, `MultiplePlus`).  This holds even after the count has wrapped
  below zero, which two readers can bring about.
- **An empty buffer.** The handler tests the count before the lock, and so do the
  readers.  The handler's test stays true until its critical section, since only
  the handler adds and the others only take (`RoomInv`): that needs nothing but that
  the count does not wrap, which is what a read from an empty buffer would do.
  The theorems named `Fed...` therefore have `NoPhantomChar` as a hypothesis: the
  run `kbd_two_readers` shows that two readers can break it, these theorems that
  breaking it is the only way to break the rest.
- **Reads alone.** A reader's test stays true as long as nobody else takes or
  resets (`SeenInv`), so no read from an empty buffer happens if no other call
  overlaps a read; with one thread none can.
- **The queue.** `QueueInv` adds to `RoomInv` that `put_idx` lies exactly `count`
  places after `get_idx` (`RingInv`, stronger than `IndexAgreement` and true as
  long as the count does not wrap), that only a key press gets to the lock
  (`PressInv`) and that the loop of `kbd_read` belongs to a read (`ReadInv`).  What
  is in the buffer is a sequence (`RingSeq`), to which `StoreChar` appends
  (`RingAppend`) and of which `TakeChar` takes the head (`RingTail`).  `StoreChar`
  is then `Accept`, `DropChar` is `Drop`, `TakeChar` is `Get`, `ResetBuffer` is
  `Empty`; the calls and the end of a read have their steps, and locks, interrupts
  off and the tests outside the lock are not seen by the queue.

For the others the property is not inductive either; each proof rests on the
invariant that its module defines first:

- **Deferred**, `DeferredInv`.  `RefsMatchList` is inductive on its own
  (`RefsMatchList` and the types).  `UnloadClean` speaks of the state after the
  last step of `deferred_exit`; `StageInv` says what each of its earlier steps
  has already put out of reach: no thread in an ioctl once the device is gone
  (`IdleInv`), no timer, no handler and no work once each has been stopped
  (`StoppedInv`), which holds because the handler can arm itself again only
  while the timer has not been deleted.  `FreedInv` says that a task on the
  list, or on its way there with a reference, is not freed.
- **Minfs**, `MinfsInv`.  A negative dentry is right, but for the name whose
  entry has just been linked (`NegativeInv`); this gives `NamesUnique`, since a
  create starts from a negative dentry.  A crash goes back to the disk, so
  `CacheInv` says that the buffer only adds entries to those of the disk.  Between
  linking an entry and marking its inode dirty the create itself answers for the
  inode (`FilledInv`); a write that fails, or a crash, moves the inode to `lost`,
  and to lose only those the proof shows that what is not `Unwritten` is on the
  disk.  What a listing has neither shown nor passed over is still in front of it
  (`ListInv`).  The refinement then takes one step of `MinfsStore` for each of
  `Mount`, `Umount`, `Crash`, write-back of the directory, the lookups, `AddLink`
  and `Instantiate`, and none for the others.
- **ListSync**, `WalkInv`.  Whoever changes the list holds `write_lock`, so that
  nobody walks before the step or after it (`ChangeInv`); every other step leaves
  the list alone.  A walk begins at the head and goes on to a neighbour, both of
  which are listed (`NextListed`).
- **ListSync**, `ListInv`, for the rest.  What is listed has not been freed
  (`TypeOK`), what has not been freed is listed (`ListedInv`), the users of
  list_sync are there only while it is (`OwnerInv`), and when it is not the list is
  empty (`EmptyInv`).  `FewDuplicates` counts, for a pid, the entries with it and the
  modules about to insert it.  A module comes to insert a pid when no entry has
  it, so that only modules are counted then, and list_sync itself adds only while
  no user does (`OwnerInv`); an insertion moves one from the modules to the entries.
  What `DelExpired` leaves is the image of a bijection from the entries that stay,
  so that no pid gains an entry by it.
- **BexBus**, `BexInv`.  While the driver is being registered what fits is bound, has failed,
  is being probed or has still to be tried (`BoundInv`); the core knows no device
  that is not on the bus, and probes none that is bound (`PlaceInv`); what an adder
  has allocated is its own until its probe is over (`NewInv`), so registering it
  cannot disturb an open file (`FileInv`); no file is open while the driver is not
  there or going (`DrvInv`).  As long as no two probes have met, `bex_misc_count` is
  above every number given out, so that the next one is new (`NameInv`): that
  removals leave the count alone is what it needs.  The references are counted by the
  deleters that have found the device (`Finders`): finding adds one to both, and
  unregistering takes one finder and two references.
- **Kthread**, `KthreadInv`: the flag of the thread's end is up only when the thread
  is at its last lines or dead (`RaisedInv`), and a module that has gone without a
  signal has seen it up.
- **So2Cdev**: `OpenInv` (the flag `accessed` is set exactly while a file is open)
  gives `OneFile`.  `SizeInv` keeps the positions and the calls under way within
  the size for as long as nothing has gone `astray`.
- **Filter**, `FilterInv`: an address that is stored, or on its way, was asked for
  (`CallerInv`, `FlagInv`), and a packet that has passed a test has matched
  (`PacketInv`).

- **Lifecycle**, `Inv`.  The proof has two halves.  The first is about the data:
  each of the 17 scripts is `Fine`, that is, an error path undoes all the claims
  before it, nothing is given back twice or without having been claimed, an entry
  point is claimed after what its code uses and given back before it, the common
  major number is given back only after a claim of it that had to succeed, each but
  for the known cases.  This is checked script by script, and is where a bug in
  one init function would show.  The second half knows of a script only that it
  is fine, and of the modules loaded beside each other nothing at all.  `Local`
  says of one module what it holds at each point of its scripts (`Quiet`, `Holds`,
  `MustHold`), that it gives back nothing twice (`Once`), that its entry points are
  backed (`EntriesReady`) and its open files are its own (`OpenIn`); `Called` that a
  module with users is there.  `Undisturbed` follows: what is given back by name
  is, but for the known theft, a module's own name, or the one that six modules
  claim, and that one is given back only by the module whose claim of it has
  succeeded.
- **Myfs**, `MyfsInv`: the link counts together with what they need.  What is in a
  directory exists, and the directory has not been removed (`TreeInv`); a
  directory has one name at most (`OneName`), so that taking its name away takes
  it from its parent.  The counts are cardinalities of the sets of entries and of
  sub-directories; for each operation a lemma says which members these sets gain
  and lose, and the rename is the sum of a removal and an addition.  That a
  directory cannot be moved under itself is the guard with `Above`, the least set of
  directories that is closed upwards.
- **RamDisk**, `DiskInv`.  A request is made of queued bios of one kind, each of them
  in one request and once (`WellMade`, `QueueInv`), and the position of the iterator is
  in it (`AtInv`).  `Submit` is then `DiskStore`'s `Start`, each `XferSegment` is its
  `Transfer` of the one segment that leaves `Left`, at the sector the bio asked for,
  and `EndRequest` its `End` of all the bios of the request at once, of
  which nothing is left; merging, fetching and calling are stutters.
- **The five side by side**: a step of `MCLabs` is a step of one of them and changes
  nothing of the others, so that each behaves as its own specification
  (`LabsParts`) and the theorems about it apply.

Only model-checked: liveness (`HandlerReturns`, `CallsReturn`, `DeadRemoved`,
`UnloadEnds`, `ThreadUnloadEnds`, `BiosEnd`), which is beyond the proof system.

## What the code does that its text does not say

| Run | Where | What |
|---|---|---|
| `kbd_two_readers` | `interrupts/kbd.c:89` | two readers see the last character, the second takes one from an empty buffer and the count wraps; keys are dropped, as if the buffer were full, until a write resets it |
| `deferred_stale` | `deferred.c:70` | `get_proc` takes its reference after `rcu_read_unlock`; the `task_struct` may be gone |
| `minfs_remount` | `minfs.c:308` | the bit of a new inode is set in a copy of the bitmap that never gets back to the block: after a remount two files share an inode |
| `lifecycle_ram_disk` | `ram-disk.c:205` | the module stays loaded without its disk when `create_block_device` fails |

Smaller things that the models allow for and no run is about: the print of
`myfs.c:152` follows the pointer that line 154 tests; the ioctl of `so2_cdev.c:129`
falls through to `-EINVAL`; the thread of `kthread.c` runs its last lines after it
has told `kthread_exit` that it is over (`Tail` in `ToldBeforeGone`); a failed
`sb_bread` in `minfs_write_inode` loses the inode (`minfs.c:435`); a listing loses
the entries that `dir_emit` refuses (`minfs.c:181`); two probes that meet at
`bex_misc_count++` get one name, and `misc_register` refuses the second
(`bex_misc.c:96`); a `pread64` past the size of `so2_cdev` wraps its length
(`so2_cdev.c:86`).

The cases of `Lifecycle`'s tables above, the double delete of `bex.c:168` (two
writers of `del`), the duplicates of `list-sync.c:71` (a pid may be listed once
per module that adds at the same time) and the device lost when
`device_register` fails (`bex.c:160`) are allowed for in the properties, which say how far they go.

## What is not modelled

- Layout and sizes of memory: `deferred.c:66` and `bex_misc.c:91` allocate too
  little; the models have no addresses.  Nor is the memory of a misc device whose
  probe failed, which `bex_misc.c:107` keeps.
- A `kstrdup` of the type that fails (`bex.c:151`): the device has no type, and
  `bex_match` takes the length of a null string as soon as there is a driver.
- `bind` and `unbind` in sysfs, by which a device on the bus can be given to the
  driver and taken from it.
- Expiry times.  `deferred.c:119` passes `jiffies * HZ`, an absolute time that
  wraps; here a pending timer fires whenever it likes.
- Failing `put_user`, `copy_to_user` (kbd, bex_misc) and failing allocations in
  `ListSync` and `Minfs`, whose results the code does not look at.
- The contents of minfs files: the generic helpers keep them in memory, nothing
  maps them to blocks.  Names are values; a name of 16 bytes or more, which is
  stored without its zero, is not told apart.
- The kernel's own code: the driver core, VFS, timers, work queues, locks and
  RCU are modelled by what the modules rely on.
- Data sent over sockets, and the one synchronous bio of the relay disk.
- Reads, writes and `mmap` of `kmmap` and `vmmap`: they copy to and from pages that
  are there from init to exit, without a protocol.
- The unsynchronised lists `4-list` and `5-list-full`: the functions of `ListSync`
  called by one init and one exit, one after the other.
- The bytes of the misc devices of `bex_misc.c` and of `so2_cdev.c`.
- One-shot exercises: they print, or fault on purpose.
- Memory orders weaker than the interleavings: what is shared is under a lock,
  apart from the count of `kbd.c`, the flag of `deferred.c`, the flags of
  `kthread.c`, the flag and the address of `filter.c`, the open flag and the size
  of `so2_cdev.c` and the count of `bex_misc.c`, each a machine word.

## Plan

Done: the models of every part with a protocol (`Kbd`, `Deferred`, `Minfs`,
`ListSync`, `BexBus`, `Kthread`, `RamDisk`, `So2Cdev`, `Filter`, `Myfs`,
`Lifecycle`), and a proof of every safety property of theirs that is checked.
Left, in this order:

1. The safety half of the liveness properties: that a thread which waits for the
   handler, the timer or another module is always waiting for one that can step.
2. The sequential lists as a small module, if they grow.
