------------------------------- MODULE MCLabs -------------------------------
(***************************************************************************)
(* Five modules that share nothing, checked side by side: the first state  *)
(* says which of them runs, so that the state space is the union of theirs *)
(* and not the product.                                                    *)
(***************************************************************************)
EXTENDS Integers, FiniteSets

CONSTANTS
  Bios, NrSectors, Values, MaxSegments,                         \* RamDisk
  Users, Files, BufSize, MessageSize, MaxLen, Offsets, MaxSize, \* So2Cdev
  Callers, Addresses, Zero,                                     \* Filter
  Root, Inodes, Names, None                                     \* Myfs

ASSUME LabsAssumption ==
  /\ {NrSectors, MaxSegments, BufSize, MessageSize, MaxLen} \subseteq Nat \ {0}
  /\ MaxSegments <= NrSectors
  /\ 2 * MaxLen + MessageSize <= MaxSize /\ Offsets \subseteq Nat
  /\ Zero \notin Addresses
  /\ Root \notin Inodes /\ None \notin Inodes \cup {Root}
  /\ IsFiniteSet(Inodes) /\ IsFiniteSet(Names)

VARIABLES
  part,                                                         \* the one that runs
  module, thread, flag_stop_thread, flag_thread_terminated, signalled,
  data, bio, queue, request, at, running, run,
  accessed, size, holders, pos, call, astray,
  ioctl_set, ioctl_set_addr, caller, packet, asked, faulted,
  kind, nlink, child, opened

Kthread == INSTANCE Kthread
RamDisk == INSTANCE RamDisk
So2Cdev == INSTANCE So2Cdev
Filter  == INSTANCE Filter
Myfs    == INSTANCE Myfs

Init ==
  /\ part \in {"kthread", "ram_disk", "so2_cdev", "filter", "myfs"}
  /\ Kthread!Init /\ RamDisk!Init /\ So2Cdev!Init /\ Filter!Init /\ Myfs!Init
  /\ part # "ram_disk" => \A s \in DOMAIN data : data[s] = 0   \* one of them is enough

NotKthread == UNCHANGED <<module, thread, flag_stop_thread, flag_thread_terminated, signalled>>
NotRamDisk == UNCHANGED <<data, bio, queue, request, at, running, run>>
NotSo2Cdev == UNCHANGED <<accessed, size, holders, pos, call, astray>>
NotFilter == UNCHANGED <<ioctl_set, ioctl_set_addr, caller, packet, asked, faulted>>
NotMyfs == UNCHANGED <<kind, nlink, child, opened>>

Next ==
  /\ UNCHANGED part
  /\ \/ part = "kthread"  /\ Kthread!Next /\ NotRamDisk /\ NotSo2Cdev /\ NotFilter /\ NotMyfs
     \/ part = "ram_disk" /\ RamDisk!Next /\ NotKthread /\ NotSo2Cdev /\ NotFilter /\ NotMyfs
     \/ part = "so2_cdev" /\ So2Cdev!Next /\ NotKthread /\ NotRamDisk /\ NotFilter /\ NotMyfs
     \/ part = "filter"   /\ Filter!Next /\ NotKthread /\ NotRamDisk /\ NotSo2Cdev /\ NotMyfs
     \/ part = "myfs"     /\ Myfs!Next /\ NotKthread /\ NotRamDisk /\ NotSo2Cdev /\ NotFilter

vars ==
  <<part,
    <<module, thread, flag_stop_thread, flag_thread_terminated, signalled>>,
    <<data, bio, queue, request, at, running, run>>,
    <<accessed, size, holders, pos, call, astray>>,
    <<ioctl_set, ioctl_set_addr, caller, packet, asked, faulted>>,
    <<kind, nlink, child, opened>>>>

Spec == Init /\ [][Next]_vars /\ Kthread!Fairness /\ RamDisk!Fairness

-----------------------------------------------------------------------------
\* Every variable of the five has its type.
TypeOK == Kthread!TypeOK /\ RamDisk!TypeOK /\ So2Cdev!TypeOK /\ Filter!TypeOK /\ Myfs!TypeOK

\* kthread.c: the thread has told kthread_exit that it is over before the
\* module goes.
ToldBeforeGone == Kthread!ToldBeforeGone

\* kthread.c: rmmod of the thread's module ends.
ThreadUnloadEnds == Kthread!ThreadUnloadEnds

\* ram-disk.c: bios are served as DiskStore promises.
ImplementsDisk == RamDisk!ImplementsDisk

\* ram-disk.c: every bio is ended.
BiosEnd == RamDisk!BiosEnd

\* so2_cdev.c: one open file at a time.
OneFile == So2Cdev!OneFile

\* so2_cdev.c: no position, and no read from one, past the size.
OffsetInSize == So2Cdev!OffsetInSize

\* filter.c: what is reported was asked for.
ReportsRight == Filter!ReportsRight

\* myfs.c: link counts are exact.
LinksExact == Myfs!LinksExact
=============================================================================
