----------------------------- MODULE LabsProofs -----------------------------
(***************************************************************************)
(* Proofs about the modules that MCLabs puts side by side, for every       *)
(* choice of its constants: each of them first, by the names that MCLabs   *)
(* has for it, and then the five together.  Those about myfs are in        *)
(* MyfsProofs.                                                             *)
(***************************************************************************)
EXTENDS MCLabs, Sequences, FiniteSetTheorems, TLAPS

-----------------------------------------------------------------------------
(* kthread.c: the thread and rmmod.                                        *)

\* The flag is raised by the thread alone, on its way out.
RaisedInv == flag_thread_terminated => thread \in Kthread!Tail \cup {"dead"}

KthreadInv == Kthread!TypeOK /\ RaisedInv /\ Kthread!ToldBeforeGone

LEMMA KthreadFirst == Kthread!Init => KthreadInv
  BY DEF Kthread!Init, KthreadInv, Kthread!TypeOK, RaisedInv, Kthread!ToldBeforeGone,
         Kthread!Gone, Kthread!Tail

LEMMA KthreadStep == KthreadInv /\ [Kthread!Next]_Kthread!kthread_vars => KthreadInv'
<1> SUFFICES ASSUME KthreadInv, [Kthread!Next]_Kthread!kthread_vars PROVE KthreadInv'
  OBVIOUS
<1> USE DEF KthreadInv, Kthread!TypeOK, RaisedInv, Kthread!ToldBeforeGone, Kthread!Gone,
            Kthread!Tail
<1>1. CASE Kthread!KthreadInit
  BY <1>1 DEF Kthread!KthreadInit
<1>2. CASE Kthread!WaitStop
  BY <1>2 DEF Kthread!WaitStop
<1>3. CASE Kthread!SetTerminated
  BY <1>3 DEF Kthread!SetTerminated
<1>4. CASE Kthread!WakeExit
  BY <1>4 DEF Kthread!WakeExit
<1>5. CASE Kthread!DoExit
  BY <1>5 DEF Kthread!DoExit
<1>6. CASE Kthread!Oops
  BY <1>6 DEF Kthread!Oops
<1>7. CASE Kthread!KthreadExit
  BY <1>7 DEF Kthread!KthreadExit
<1>8. CASE Kthread!SetStop
  BY <1>8 DEF Kthread!SetStop
<1>9. CASE Kthread!WakeThread
  BY <1>9 DEF Kthread!WakeThread
<1>10. CASE Kthread!WaitTerminated
  BY <1>10 DEF Kthread!WaitTerminated
<1>11. CASE Kthread!Interrupted
  BY <1>11 DEF Kthread!Interrupted
<1>12. CASE UNCHANGED Kthread!kthread_vars
  BY <1>12 DEF Kthread!kthread_vars
<1> QED BY <1>1, <1>2, <1>3, <1>4, <1>5, <1>6, <1>7, <1>8, <1>9, <1>10, <1>11, <1>12
        DEF Kthread!Next, Kthread!ThreadStep, Kthread!ExitStep

LEMMA KthreadAlways == Kthread!Spec => []KthreadInv
  BY KthreadFirst, KthreadStep, PTL DEF Kthread!Spec

\* The module is gone under its thread only after the thread has raised its
\* flag, or after a signal has ended kthread_exit's wait (kthread.c:65).
THEOREM ThreadToldFirst == Kthread!Spec => []Kthread!ToldBeforeGone
<1>1. KthreadInv => Kthread!ToldBeforeGone
  BY DEF KthreadInv
<1> QED BY <1>1, KthreadAlways, PTL

-----------------------------------------------------------------------------
(* filter.c: the hook and the ioctl.                                       *)

\* An address on its way through the ioctl is one that was asked for; once it
\* has been copied some address has been, or a copy has failed.
CallerInv ==
  \A c \in Callers :
    /\ caller[c].step \in {"copy", "set"} => caller[c].address \in asked
    /\ caller[c].step = "set" => ioctl_set_addr \in asked \/ faulted

\* The flag is not seen without an address.
FlagInv ==
  /\ ioctl_set_addr \in asked \cup {Zero}
  /\ ioctl_set = 1 => ioctl_set_addr \in asked \/ faulted

\* What the steps of the hook have found out, and what stays so: the flag is
\* never cleared, nor is an address ever not asked for any more.
PacketInv ==
  /\ packet.step # "none" => packet.address \in Addresses
  /\ packet.step = "flag" => packet.early \/ ioctl_set = 1
  /\ packet.step = "address" => ioctl_set = 1
  /\ packet.step = "header" => packet.early \/ packet.address \in asked

FilterInv == Filter!TypeOK /\ CallerInv /\ FlagInv /\ PacketInv /\ Filter!ReportsRight

LEMMA FilterFirst == Filter!Init => FilterInv
<1> SUFFICES ASSUME Filter!Init PROVE FilterInv
  OBVIOUS
<1>1. packet.step = "none" /\ \A c \in Callers : caller[c].step = "out"
  BY DEF Filter!Init, Filter!Out, Filter!NoPacket
<1>2. Filter!TypeOK
  BY <1>1 DEF Filter!Init, Filter!TypeOK
<1>3. CallerInv /\ FlagInv
  BY <1>1 DEF Filter!Init, CallerInv, FlagInv
<1>4. PacketInv /\ Filter!ReportsRight
  BY <1>1 DEF Filter!Init, PacketInv, Filter!ReportsRight
<1> QED BY <1>2, <1>3, <1>4 DEF FilterInv

LEMMA IoctlInv ==
  ASSUME FilterInv, NEW c \in Callers,
         (\E a \in Addresses : Filter!CallIoctl(c, a)) \/ Filter!CopyAddress(c) \/ Filter!SetFlag(c)
  PROVE  FilterInv'
<1> USE DEF FilterInv, Filter!TypeOK, CallerInv, FlagInv, PacketInv, Filter!ReportsRight
<1>1. ASSUME NEW a \in Addresses, Filter!CallIoctl(c, a) PROVE FilterInv'
  BY <1>1 DEF Filter!CallIoctl
<1>2. CASE Filter!CopyAddress(c)
  <2>1. /\ caller[c].address \in asked
        /\ ioctl_set_addr' \in asked \/ faulted'
        /\ ioctl_set_addr' \in asked \cup {Zero}
        /\ faulted' \in BOOLEAN /\ (faulted => faulted')
    BY <1>2 DEF Filter!CopyAddress
  <2>2. ioctl_set' = ioctl_set /\ packet' = packet /\ asked' = asked
    BY <1>2 DEF Filter!CopyAddress
  <2>3. \A d \in Callers : \/ caller'[d] = caller[d]
                           \/ caller'[d].step = "set" /\ caller[d].step = "copy"
                              /\ caller'[d].address = caller[d].address
    BY <1>2 DEF Filter!CopyAddress
  <2>4. Filter!TypeOK' /\ CallerInv'
    BY <2>1, <2>2, <2>3
  <2>5. FlagInv' /\ PacketInv' /\ Filter!ReportsRight'
    BY <2>1, <2>2
  <2> QED BY <2>4, <2>5
<1>3. CASE Filter!SetFlag(c)
  BY <1>3 DEF Filter!SetFlag, Filter!Out
<1> QED BY <1>1, <1>2, <1>3

LEMMA HookInv ==
  ASSUME FilterInv, Zero \notin Addresses,
         \/ \E k \in {"other", "syn", "tcp"}, a \in Addresses : Filter!Packet(k, a)
         \/ Filter!TestFlag \/ Filter!TestAddress \/ Filter!TestHeader \/ Filter!Accept
  PROVE  FilterInv'
<1> USE DEF FilterInv, Filter!TypeOK, CallerInv, FlagInv, PacketInv, Filter!ReportsRight
<1>1. ASSUME NEW k \in {"other", "syn", "tcp"}, NEW a \in Addresses, Filter!Packet(k, a)
      PROVE  FilterInv'
  BY <1>1 DEF Filter!Packet
<1>2. CASE Filter!TestFlag
  BY <1>2 DEF Filter!TestFlag
<1>3. CASE Filter!TestAddress
  BY <1>3 DEF Filter!TestAddress
<1>4. CASE Filter!TestHeader
  BY <1>4 DEF Filter!TestHeader
<1>5. CASE Filter!Accept
  BY <1>5 DEF Filter!Accept, Filter!NoPacket
<1> QED BY <1>1, <1>2, <1>3, <1>4, <1>5

LEMMA FilterStep ==
  ASSUME Zero \notin Addresses
  PROVE  FilterInv /\ [Filter!Next]_Filter!filter_vars => FilterInv'
<1> SUFFICES ASSUME FilterInv, [Filter!Next]_Filter!filter_vars PROVE FilterInv'
  OBVIOUS
<1>1. CASE UNCHANGED Filter!filter_vars
  BY <1>1 DEF Filter!filter_vars, FilterInv, Filter!TypeOK, CallerInv, FlagInv, PacketInv,
              Filter!ReportsRight
<1> QED BY <1>1, IoctlInv, HookInv DEF Filter!Next

\* A packet that comes after an address is set is reported only if its address
\* was asked for, and an initiation packet is passed over only for another
\* address or a failed copy (filter.c:90 and 91).
THEOREM HookReportsRight ==
  ASSUME Zero \notin Addresses
  PROVE  Filter!Spec => []Filter!ReportsRight
<1>1. FilterInv => Filter!ReportsRight
  BY DEF FilterInv
<1> QED BY <1>1, FilterFirst, FilterStep, PTL DEF Filter!Spec

-----------------------------------------------------------------------------
(* so2_cdev.c.                                                             *)

\* Cardinality is that of FiniteSets, for which the library has its theorems.
LEMMA CountHere == \A S : So2Cdev!Cardinality(S) = Cardinality(S)
  BY Zenon DEF Cardinality, So2Cdev!Cardinality

-----------------------------------------------------------------------------
(* Exclusive open.                                                         *)

HoldersInv == holders \in [Files -> SUBSET Users]

\* The open file, if there is one.
OpenInv ==
  \/ accessed = 0 /\ So2Cdev!Opened = {}
  \/ accessed = 1 /\ \E f \in Files : So2Cdev!Opened = {f}

OneInv == HoldersInv /\ OpenInv

LEMMA OneInit == So2Cdev!Init => OneInv
  BY DEF So2Cdev!Init, OneInv, HoldersInv, OpenInv, So2Cdev!Opened

LEMMA OneStep == OneInv /\ [So2Cdev!Next]_So2Cdev!so2_cdev_vars => OneInv'
<1> SUFFICES ASSUME OneInv, [So2Cdev!Next]_So2Cdev!so2_cdev_vars PROVE OneInv'
  OBVIOUS
<1> USE DEF OneInv, HoldersInv, OpenInv, So2Cdev!Opened
<1>1. CASE So2Cdev!Reload
  BY <1>1 DEF So2Cdev!Reload
<1>2. ASSUME NEW u \in Users, NEW f \in Files, So2Cdev!Open(u, f) PROVE OneInv'
  <2>1. So2Cdev!Opened' = {f}
    BY <1>2 DEF So2Cdev!Open
  <2> QED BY <1>2, <2>1 DEF So2Cdev!Open
<1>3. ASSUME NEW u \in Users, NEW v \in Users, NEW f \in Files, So2Cdev!Fork(u, v, f) PROVE OneInv'
  <2>1. So2Cdev!Opened' = So2Cdev!Opened
    BY <1>3 DEF So2Cdev!Fork
  <2> QED BY <1>3, <2>1 DEF So2Cdev!Fork
<1>4. ASSUME NEW u \in Users, NEW f \in Files, So2Cdev!Close(u, f) PROVE OneInv'
  <2>1. accessed = 1 /\ So2Cdev!Opened = {f}
    BY <1>4 DEF So2Cdev!Close
  <2>2. CASE holders[f] = {u}
    <3>1. So2Cdev!Opened' = {} /\ accessed' = 0
      BY <1>4, <2>1, <2>2 DEF So2Cdev!Close
    <3> QED BY <1>4, <3>1 DEF So2Cdev!Close
  <2>3. CASE holders[f] # {u}
    <3>1. So2Cdev!Opened' = {f} /\ accessed' = 1
      BY <1>4, <2>1, <2>3 DEF So2Cdev!Close
    <3> QED BY <1>4, <3>1 DEF So2Cdev!Close
  <2> QED BY <2>2, <2>3
<1>5. ASSUME NEW u \in Users,
             \/ \E f \in Files : So2Cdev!Begin(u, f)
             \/ So2Cdev!Read(u) \/ So2Cdev!Write(u) \/ So2Cdev!AddSize(u) \/ So2Cdev!EndCall(u)
      PROVE  OneInv'
  <2>1. UNCHANGED <<accessed, holders>>
    BY <1>5 DEF So2Cdev!Begin, So2Cdev!Read, So2Cdev!Write, So2Cdev!AddSize, So2Cdev!EndCall
  <2> QED BY <2>1
<1>6. CASE UNCHANGED So2Cdev!so2_cdev_vars
  BY <1>6 DEF So2Cdev!so2_cdev_vars
<1> QED BY <1>1, <1>2, <1>3, <1>4, <1>5, <1>6 DEF So2Cdev!Next

\* One open of the device has succeeded at a time, and the flag says so: no
\* close by one of several processes that share the file resets it.
THEOREM CdevOneFile == So2Cdev!Spec => []So2Cdev!OneFile
<1>1. OneInv => So2Cdev!OneFile
  <2> SUFFICES ASSUME OneInv PROVE So2Cdev!OneFile
    OBVIOUS
  <2>1. CASE accessed = 0 /\ So2Cdev!Opened = {}
    BY <2>1, FS_EmptySet, CountHere DEF So2Cdev!OneFile
  <2>2. ASSUME accessed = 1, NEW f \in Files, So2Cdev!Opened = {f} PROVE So2Cdev!OneFile
    BY <2>2, FS_Singleton, CountHere DEF So2Cdev!OneFile
  <2> QED BY <2>1, <2>2 DEF OneInv, OpenInv
<1> QED BY <1>1, OneInit, OneStep, PTL DEF So2Cdev!Spec

-----------------------------------------------------------------------------
(* Positions against the size.                                             *)

CdevCall(step) ==
  [step : step, file : Files, from : {"file", "caller"}, offset : Int, len : Int]

CdevAdding ==
  [step : {"add"}, file : Files, from : {"file", "caller"}, offset : Int, len : Int, size : Int]

\* Every call works on a file that its process has open.
CallInv ==
  /\ size \in Int /\ astray \in BOOLEAN /\ pos \in [Files -> Int]
  /\ call \in [Users -> {So2Cdev!NoCall} \cup CdevCall({"read", "write", "end"}) \cup CdevAdding]
  /\ \A u \in Users : call[u] # So2Cdev!NoCall => u \in holders[call[u].file]

\* A call from the position of its file that has not gone astray starts within
\* the size and ends within what it leaves of it, and no call takes from the
\* size: no position ever passes it.
WithinInv ==
  /\ size >= 0
  /\ \A f \in So2Cdev!Opened : pos[f] \in 0..size
  /\ \A u \in Users : call[u] # So2Cdev!NoCall =>
       /\ call[u].offset >= 0 /\ call[u].len >= 0
       /\ call[u].from = "file" =>
            /\ call[u].offset <= size
            /\ call[u].step = "end" => call[u].offset + call[u].len <= size

SizeInv == HoldersInv /\ CallInv /\ (~astray => WithinInv)

Parameters ==
  /\ BufSize \in Nat /\ MessageSize \in Nat /\ MaxLen \in Nat
  /\ Offsets \subseteq Nat

LEMMA SizeInit == Parameters /\ So2Cdev!Init => SizeInv
<1> SUFFICES ASSUME Parameters, So2Cdev!Init PROVE SizeInv
  OBVIOUS
<1>1. So2Cdev!Opened = {}
  BY DEF So2Cdev!Init, So2Cdev!Opened
<1>2. HoldersInv
  BY DEF So2Cdev!Init, HoldersInv
<1>3. CallInv
  <2>1. size \in Int /\ pos \in [Files -> Int]
    BY DEF So2Cdev!Init, Parameters
  <2>2. astray \in BOOLEAN
    BY Zenon DEF So2Cdev!Init
  <2>3.
        /\ call \in [Users -> {So2Cdev!NoCall} \cup CdevCall({"read", "write",
             "end"}) \cup CdevAdding]
        /\ \A u \in Users : call[u] = So2Cdev!NoCall
    BY DEF So2Cdev!Init
  <2> QED BY <2>1, <2>2, <2>3 DEF CallInv
<1>4. WithinInv
  BY <1>1 DEF So2Cdev!Init, Parameters, WithinInv
<1> QED BY <1>2, <1>3, <1>4 DEF SizeInv

\* A step of one process's call, which leaves the files and their holders alone.
LEMMA SizeCall ==
  ASSUME Parameters, SizeInv, NEW u \in Users,
         So2Cdev!Read(u) \/ So2Cdev!Write(u) \/ So2Cdev!AddSize(u) \/ So2Cdev!EndCall(u)
  PROVE  SizeInv'
<1>1. call[u] # So2Cdev!NoCall /\ call[u].file \in Files /\ call[u].offset \in Int
      /\ call[u].len \in Int /\ call[u].from \in {"file", "caller"}
  <2>1. call[u].step # "none"
    BY DEF So2Cdev!Read, So2Cdev!Write, So2Cdev!AddSize, So2Cdev!EndCall
  <2> QED BY <2>1 DEF SizeInv, CallInv, So2Cdev!NoCall, CdevCall, CdevAdding
<1>2. UNCHANGED <<holders, accessed>>
  BY DEF So2Cdev!Read, So2Cdev!Write, So2Cdev!AddSize, So2Cdev!EndCall
<1>3. So2Cdev!Opened' = So2Cdev!Opened /\ call[u].file \in So2Cdev!Opened
  BY <1>1, <1>2 DEF So2Cdev!Opened, SizeInv, CallInv, HoldersInv
<1>4. CASE So2Cdev!Read(u)
  <2> DEFINE to_read == So2Cdev!ToRead(call[u].offset, call[u].len)
             next == [step |-> "end", file |-> call[u].file, from |-> call[u].from,
                      offset |-> call[u].offset, len |-> to_read]
  <2>1. call' = [call EXCEPT ![u] = next] /\ UNCHANGED <<size, pos, astray>>
    BY <1>4 DEF So2Cdev!Read, So2Cdev!Goto
  <2>2. to_read \in Int
    BY <1>1 DEF So2Cdev!ToRead, SizeInv, CallInv
  <2>3. next \in CdevCall({"read", "write", "end"}) /\ next # So2Cdev!NoCall
        /\ next.file = call[u].file
    BY <1>1, <2>2 DEF CdevCall, So2Cdev!NoCall
  <2>4. CallInv' /\ HoldersInv'
    BY <1>1, <1>2, <2>1, <2>3 DEF SizeInv, CallInv, HoldersInv
  <2>5. ASSUME ~astray' PROVE WithinInv'
    <3>1. /\ call[u].offset >= 0 /\ call[u].len >= 0 /\ size \in Int
          /\ call[u].from = "file" => call[u].offset <= size
      BY <1>1, <2>1, <2>5 DEF SizeInv, WithinInv, CallInv
    <3>2. /\ to_read >= 0
          /\ call[u].from = "file" => call[u].offset + to_read <= size
      BY <1>1, <3>1 DEF So2Cdev!ToRead
    <3>3. next.offset = call[u].offset /\ next.len = to_read /\ next.from = call[u].from
      OBVIOUS
    <3> HIDE DEF next, to_read
    <3>4. /\ call'[u] = next
          /\ \A v \in Users \ {u} : call'[v] = call[v]
      BY <2>1 DEF SizeInv, CallInv
    <3> QED BY <1>3, <2>1, <2>5, <3>1, <3>2, <3>3, <3>4 DEF SizeInv, WithinInv
  <2> QED BY <2>4, <2>5 DEF SizeInv
<1>5. CASE So2Cdev!Write(u)
  <2> DEFINE to_write == So2Cdev!ToWrite(call[u].offset, call[u].len)
             next == [step |-> "add", file |-> call[u].file, from |-> call[u].from,
                      offset |-> call[u].offset, len |-> to_write, size |-> size]
  <2>1. call' = [call EXCEPT ![u] = next] /\ UNCHANGED <<size, pos>>
    BY <1>5 DEF So2Cdev!Write, So2Cdev!Goto
  <2>2. astray' = (astray \/ call[u].offset > BufSize)
    BY <1>5 DEF So2Cdev!Write
  <2>3. to_write \in Int
    BY <1>1 DEF So2Cdev!ToWrite, Parameters
  <2>4. next \in CdevAdding /\ next # So2Cdev!NoCall /\ next.file = call[u].file
        /\ next.step = "add"
    BY <1>1, <2>3 DEF CdevAdding, So2Cdev!NoCall, SizeInv, CallInv
  <2>5. astray' \in BOOLEAN
    BY <2>2 DEF SizeInv, CallInv
  <2>6. CallInv' /\ HoldersInv'
    BY <1>1, <1>2, <2>1, <2>4, <2>5 DEF SizeInv, CallInv, HoldersInv
  <2>7. ASSUME ~astray' PROVE WithinInv'
    <3>1. ~astray /\ ~(call[u].offset > BufSize)
      BY <2>2, <2>7
    <3>2. /\ ~astray /\ call[u].offset <= BufSize
          /\ call[u].offset >= 0 /\ call[u].len >= 0 /\ size \in Int
          /\ call[u].from = "file" => call[u].offset <= size
      BY <1>1, <3>1 DEF SizeInv, WithinInv, CallInv, Parameters
    <3>3. to_write >= 0
      BY <1>1, <3>2 DEF So2Cdev!ToWrite, Parameters
    <3>4. next.offset = call[u].offset /\ next.len = to_write /\ next.from = call[u].from
      OBVIOUS
    <3> HIDE DEF next, to_write
    <3>5. /\ call'[u] = next
          /\ \A v \in Users \ {u} : call'[v] = call[v]
      BY <2>1 DEF SizeInv, CallInv
    <3> QED BY <1>3, <2>1, <2>4, <3>2, <3>3, <3>4, <3>5 DEF SizeInv, WithinInv
  <2> QED BY <2>6, <2>7 DEF SizeInv
<1>6. CASE So2Cdev!AddSize(u)
  <2> DEFINE next == [step |-> "end", file |-> call[u].file, from |-> call[u].from,
                      offset |-> call[u].offset, len |-> call[u].len]
  <2>1. call' = [call EXCEPT ![u] = next] /\ UNCHANGED pos
    BY <1>6 DEF So2Cdev!AddSize, So2Cdev!Goto
  <2>2. /\ size' = call[u].size + call[u].len
        /\ astray' = (astray \/ size # call[u].size)
    BY <1>6 DEF So2Cdev!AddSize
  <2>3. call[u].size \in Int
    BY <1>6 DEF So2Cdev!AddSize, SizeInv, CallInv, So2Cdev!NoCall, CdevCall, CdevAdding
  <2>4. next \in CdevCall({"read", "write", "end"}) /\ next # So2Cdev!NoCall
        /\ next.file = call[u].file
    BY <1>1 DEF CdevCall, So2Cdev!NoCall
  <2>5. size' \in Int /\ astray' \in BOOLEAN
    BY <1>1, <2>2, <2>3 DEF SizeInv, CallInv
  <2>6. CallInv' /\ HoldersInv'
    BY <1>1, <1>2, <2>1, <2>4, <2>5 DEF SizeInv, CallInv, HoldersInv
  <2>7. ASSUME ~astray' PROVE WithinInv'
    <3>1. ~astray /\ size' = size + call[u].len
      BY <2>2, <2>7
    <3>2. /\ call[u].offset >= 0 /\ call[u].len >= 0 /\ size \in Int /\ size >= 0
          /\ call[u].from = "file" => call[u].offset <= size
      BY <1>1, <3>1 DEF SizeInv, WithinInv, CallInv
    <3>3. /\ size' >= size /\ size' \in Int
          /\ call[u].from = "file" =>
               call[u].offset <= size' /\ call[u].offset + call[u].len <= size'
      BY <1>1, <3>1, <3>2
    <3>4. next.offset = call[u].offset /\ next.len = call[u].len /\ next.from = call[u].from
      OBVIOUS
    <3> HIDE DEF next
    <3>5. /\ call'[u] = next
          /\ \A v \in Users \ {u} : call'[v] = call[v]
      BY <2>1 DEF SizeInv, CallInv
    <3>6. \A f \in So2Cdev!Opened' : pos'[f] \in 0..size'
      <4>1. \A f \in So2Cdev!Opened : pos[f] \in 0..size
        BY <3>1 DEF SizeInv, WithinInv
      <4> QED BY <1>3, <2>1, <3>2, <3>3, <4>1
    <3>7. ASSUME NEW v \in Users, call'[v] # So2Cdev!NoCall
          PROVE  /\ call'[v].offset >= 0 /\ call'[v].len >= 0
                 /\ call'[v].from = "file" =>
                      /\ call'[v].offset <= size'
                      /\ call'[v].step = "end" => call'[v].offset + call'[v].len <= size'
      <4>1. CASE v = u
        BY <1>1, <3>2, <3>3, <3>4, <3>5, <4>1
      <4>2. CASE v # u
        <5>1. /\ call[v] # So2Cdev!NoCall /\ call'[v] = call[v]
              /\ call[v].offset >= 0 /\ call[v].len >= 0
              /\ call[v].from = "file" =>
                   /\ call[v].offset <= size
                   /\ call[v].step = "end" => call[v].offset + call[v].len <= size
          BY <3>1, <3>5, <3>7, <4>2 DEF SizeInv, WithinInv
        <5>2. call[v].offset \in Int /\ call[v].len \in Int
          BY <5>1 DEF SizeInv, CallInv, So2Cdev!NoCall, CdevCall, CdevAdding
        <5> QED BY <3>2, <3>3, <5>1, <5>2
      <4> QED BY <4>1, <4>2
    <3> QED BY <3>2, <3>3, <3>6, <3>7 DEF WithinInv
  <2> QED BY <2>6, <2>7 DEF SizeInv
<1>7. CASE So2Cdev!EndCall(u)
  <2>1. call' = [call EXCEPT ![u] = So2Cdev!NoCall] /\ UNCHANGED <<size, astray>>
    BY <1>7 DEF So2Cdev!EndCall, So2Cdev!Goto
  <2>2. pos' = IF call[u].from = "file" /\ call[u].len >= 0
               THEN [pos EXCEPT ![call[u].file] = call[u].offset + call[u].len] ELSE pos
    BY <1>7 DEF So2Cdev!EndCall
  <2>3. pos' \in [Files -> Int]
    BY <1>1, <2>2 DEF SizeInv, CallInv
  <2>4. CallInv' /\ HoldersInv'
    BY <1>2, <2>1, <2>3 DEF SizeInv, CallInv, HoldersInv
  <2>5. ASSUME ~astray' PROVE WithinInv'
    <3>1. /\ ~astray /\ size \in Int /\ call[u].offset >= 0 /\ call[u].len >= 0
          /\ call[u].from = "file" => call[u].offset + call[u].len <= size
      BY <1>1, <1>7, <2>1, <2>5 DEF So2Cdev!EndCall, SizeInv, WithinInv, CallInv
    <3>2. \A f \in So2Cdev!Opened : pos'[f] \in 0..size
      BY <1>1, <1>3, <2>2, <3>1 DEF SizeInv, WithinInv, CallInv, So2Cdev!Opened
    <3>3. \A v \in Users : call'[v] # So2Cdev!NoCall => call'[v] = call[v]
      BY <2>1 DEF SizeInv, CallInv
    <3> QED BY <1>3, <2>1, <3>1, <3>2, <3>3 DEF SizeInv, WithinInv
  <2> QED BY <2>4, <2>5 DEF SizeInv
<1> QED BY <1>4, <1>5, <1>6, <1>7

LEMMA SizeFile ==
  ASSUME Parameters, SizeInv, NEW u \in Users, NEW f \in Files,
         \/ So2Cdev!Open(u, f) \/ So2Cdev!Close(u, f) \/ So2Cdev!Begin(u, f)
         \/ \E v \in Users : So2Cdev!Fork(u, v, f)
  PROVE  SizeInv'
<1>1. CASE So2Cdev!Open(u, f)
  <2>1. /\ holders' = [holders EXCEPT ![f] = {u}] /\ pos' = [pos EXCEPT ![f] = 0]
        /\ holders[f] = {} /\ UNCHANGED <<size, call, astray>>
    BY <1>1 DEF So2Cdev!Open
  <2>2. So2Cdev!Opened' = So2Cdev!Opened \cup {f}
    BY <2>1 DEF So2Cdev!Opened, SizeInv, HoldersInv
  <2>3. \A v \in Users : call[v] # So2Cdev!NoCall => call[v].file \in Files /\ call[v].file # f
    BY <2>1 DEF SizeInv, CallInv, So2Cdev!NoCall, CdevCall, CdevAdding
  <2>4. HoldersInv' /\ CallInv'
    BY <2>1, <2>3 DEF SizeInv, HoldersInv, CallInv
  <2>5. ASSUME ~astray' PROVE WithinInv'
    <3>1. WithinInv /\ size \in Int
      BY <2>1, <2>5 DEF SizeInv, CallInv
    <3>2. \A g \in So2Cdev!Opened' : pos'[g] \in 0..size
      BY <2>1, <2>2, <3>1 DEF SizeInv, CallInv, WithinInv, So2Cdev!Opened
    <3> QED BY <2>1, <3>1, <3>2 DEF WithinInv
  <2> QED BY <2>4, <2>5 DEF SizeInv
<1>2. CASE So2Cdev!Close(u, f)
  <2>1. /\ holders' = [holders EXCEPT ![f] = @ \ {u}] /\ call[u] = So2Cdev!NoCall
        /\ pos' = [pos EXCEPT ![f] = 0] \/ pos' = pos
        /\ UNCHANGED <<size, call, astray>>
    BY <1>2 DEF So2Cdev!Close
  <2>2. So2Cdev!Opened' \subseteq So2Cdev!Opened
    BY <2>1 DEF So2Cdev!Opened, SizeInv, HoldersInv
  <2>5. /\ pos' \in [Files -> Int]
        /\ \A g \in Files : pos'[g] \in {pos[g], 0}
    BY <2>1 DEF SizeInv, CallInv
  <2>3. HoldersInv' /\ CallInv'
    <3>1. \A v \in Users : call[v] # So2Cdev!NoCall => v # u /\ call[v].file \in Files
      BY <2>1 DEF SizeInv, CallInv, So2Cdev!NoCall, CdevCall, CdevAdding
    <3> QED BY <2>1, <2>5, <3>1 DEF SizeInv, HoldersInv, CallInv
  <2>4. ~astray' => WithinInv'
    <3>1. So2Cdev!Opened \subseteq Files /\ size \in Int
      BY DEF So2Cdev!Opened, SizeInv, CallInv
    <3> QED BY <2>1, <2>2, <2>5, <3>1 DEF SizeInv, WithinInv
  <2> QED BY <2>3, <2>4 DEF SizeInv
<1>3. ASSUME NEW v \in Users, So2Cdev!Fork(u, v, f) PROVE SizeInv'
  <2>1. /\ holders' = [holders EXCEPT ![f] = @ \cup {v}] /\ u \in holders[f]
        /\ UNCHANGED <<size, pos, call, astray>>
    BY <1>3 DEF So2Cdev!Fork
  <2>2. So2Cdev!Opened' = So2Cdev!Opened
    BY <2>1 DEF So2Cdev!Opened, SizeInv, HoldersInv
  <2>3. HoldersInv' /\ CallInv'
    <3>1. \A w \in Users : call[w] # So2Cdev!NoCall => call[w].file \in Files
      BY DEF SizeInv, CallInv, So2Cdev!NoCall, CdevCall, CdevAdding
    <3> QED BY <2>1, <3>1 DEF SizeInv, HoldersInv, CallInv
  <2>4. ~astray' => WithinInv'
    BY <2>1, <2>2 DEF SizeInv, WithinInv
  <2> QED BY <2>3, <2>4 DEF SizeInv
<1>4. CASE So2Cdev!Begin(u, f)
  <2>0. PICK step \in {"read", "write"}, len \in 1..MaxLen, from \in {"file", "caller"} :
          \E offset \in (IF from = "file" THEN {pos[f]} ELSE Offsets) :
            call' = [call EXCEPT ![u] = [step |-> step, file |-> f, from |-> from,
                                         offset |-> offset, len |-> len]]
    BY <1>4 DEF So2Cdev!Begin, So2Cdev!Goto
  <2>1. PICK offset \in (IF from = "file" THEN {pos[f]} ELSE Offsets) :
          call' = [call EXCEPT ![u] = [step |-> step, file |-> f, from |-> from,
                                       offset |-> offset, len |-> len]]
    BY <2>0
  <2> DEFINE next == [step |-> step, file |-> f, from |-> from, offset |-> offset, len |-> len]
  <2>2. u \in holders[f] /\ UNCHANGED <<accessed, size, holders, pos, astray>>
    BY <1>4 DEF So2Cdev!Begin
  <2>3. So2Cdev!Opened' = So2Cdev!Opened /\ f \in So2Cdev!Opened
    BY <2>2 DEF So2Cdev!Opened
  <2>9. /\ offset \in Int /\ len \in Nat /\ (from = "file" => offset = pos[f])
        /\ from # "file" => offset >= 0
    BY DEF Parameters, SizeInv, CallInv
  <2>4. /\ next \in CdevCall({"read", "write", "end"}) /\ next # So2Cdev!NoCall /\ next.step # "end"
        /\ next.file = f /\ next.offset = offset /\ next.from = from /\ next.len >= 0
    BY <2>9 DEF CdevCall, So2Cdev!NoCall
  <2> HIDE DEF next
  <2>5. call'[u] = next /\ \A v \in Users \ {u} : call'[v] = call[v]
    BY <2>1 DEF next, SizeInv, CallInv
  <2>6. call' = [call EXCEPT ![u] = next]
    BY <2>1 DEF next
  <2>7. HoldersInv' /\ CallInv'
    BY <2>2, <2>4, <2>5, <2>6 DEF SizeInv, HoldersInv, CallInv
  <2>8. ~astray' => WithinInv'
    BY <2>2, <2>3, <2>4, <2>5, <2>9 DEF SizeInv, WithinInv, CallInv
  <2> QED BY <2>7, <2>8 DEF SizeInv
<1> QED BY <1>1, <1>2, <1>3, <1>4

LEMMA SizeStep == Parameters /\ SizeInv /\ [So2Cdev!Next]_So2Cdev!so2_cdev_vars => SizeInv'
<1> SUFFICES ASSUME Parameters, SizeInv, [So2Cdev!Next]_So2Cdev!so2_cdev_vars PROVE SizeInv'
  OBVIOUS
<1>1. CASE So2Cdev!Reload
  <2>1. /\ So2Cdev!Opened = {} /\ size' = MessageSize /\ astray' = FALSE
        /\ UNCHANGED <<holders, pos, call>>
    BY <1>1 DEF So2Cdev!Reload
  <2>2. So2Cdev!Opened' = {}
    BY <2>1 DEF So2Cdev!Opened
  <2>3. \A u \in Users : call[u] = So2Cdev!NoCall
    <3>1. \A u \in Users : call[u] # So2Cdev!NoCall => call[u].file \in Files
          /\ u \in holders[call[u].file]
      BY DEF SizeInv, CallInv, So2Cdev!NoCall, CdevCall, CdevAdding
    <3> QED BY <2>1, <3>1 DEF So2Cdev!Opened
  <2>4. HoldersInv' /\ CallInv'
    <3>1. HoldersInv'
      BY <2>1 DEF SizeInv, HoldersInv
    <3>2. size' \in Int /\ pos' \in [Files -> Int]
      BY <2>1 DEF Parameters, SizeInv, CallInv
    <3>3. astray' \in BOOLEAN
      BY <2>1, Zenon
    <3>4.
          /\ call' \in [Users -> {So2Cdev!NoCall} \cup CdevCall({"read", "write",
               "end"}) \cup CdevAdding]
          /\ \A u \in Users : call'[u] = So2Cdev!NoCall
      BY <2>1, <2>3 DEF SizeInv, CallInv
    <3> QED BY <3>1, <3>2, <3>3, <3>4 DEF CallInv
  <2>5. WithinInv'
    BY <2>1, <2>2, <2>3 DEF Parameters, WithinInv
  <2> QED BY <2>4, <2>5 DEF SizeInv
<1>2. CASE UNCHANGED So2Cdev!so2_cdev_vars
  BY <1>2 DEF So2Cdev!so2_cdev_vars, SizeInv, HoldersInv, CallInv, WithinInv, So2Cdev!Opened
<1> QED BY <1>1, <1>2, SizeCall, SizeFile DEF So2Cdev!Next

\* Until an addition to data->size is lost or a write begins past the buffer, no
\* position passes data->size, whatever offsets pread64 and pwrite64 are given:
\* the difference so2_cdev_read takes for a read from the position does not wrap.
THEOREM CdevOffsetInSize ==
  ASSUME Parameters
  PROVE  So2Cdev!Spec => []So2Cdev!OffsetInSize
<1>1. SizeInv => So2Cdev!OffsetInSize
  <2> SUFFICES ASSUME SizeInv, ~astray PROVE So2Cdev!OffsetInSize
    BY DEF So2Cdev!OffsetInSize
  <2>1. WithinInv
    BY DEF SizeInv
  <2>2. \A f \in So2Cdev!Opened : pos[f] <= size
    BY <2>1 DEF WithinInv, SizeInv, CallInv
  <2>3. ASSUME NEW u \in Users, call[u].step = "read", call[u].from = "file"
        PROVE  call[u].offset <= size
    <3>1. call[u] # So2Cdev!NoCall
      BY <2>3 DEF So2Cdev!NoCall
    <3> QED BY <2>1, <2>3, <3>1 DEF WithinInv
  <2> QED BY <2>2, <2>3 DEF So2Cdev!OffsetInSize
<1> QED BY <1>1, SizeInit, SizeStep, PTL DEF So2Cdev!Spec

-----------------------------------------------------------------------------
(* ram-disk.c.                                                             *)

Sizes == NrSectors \in Nat \ {0} /\ MaxSegments \in Nat

\* A bio that asks for sectors asks for some, and within the disk.
BioInv ==
  /\ bio \in [Bios -> [state : {"idle", "queued", "done", "failed"},
                       kind : {"read", "write", "other"},
                       first : 0..(RamDisk!Size - 1), mem : Seq(Values)]]
  /\ \A b \in Bios :
       /\ bio[b].state = "idle" => bio[b] = RamDisk!NoBio
       /\ bio[b].kind = "other" => bio[b].mem = <<>>
       /\ bio[b].kind # "other" => Len(bio[b].mem) >= 1
                                   /\ bio[b].first + Len(bio[b].mem) <= RamDisk!Size

\* A request is made of queued bios of one kind, each once.
WellMade(r) ==
  /\ r \in Seq(Bios) /\ r # <<>>
  /\ \A j \in DOMAIN r : bio[r[j]].state = "queued" /\ bio[r[j]].kind = bio[Head(r)].kind
  /\ \A j, k \in DOMAIN r : r[j] = r[k] => j = k

In(b, r) == \E j \in DOMAIN r : r[j] = b

\* No bio is in two requests.
QueueInv ==
  /\ \A r \in queue : WellMade(r)
  /\ request \in Seq(Bios) /\ (request # <<>> => WellMade(request))
  /\ \A b \in Bios, r \in queue :
       In(b, r) => ~In(b, request) /\ \A s \in queue : In(b, s) => s = r

\* The iterator is on a segment of the request, or past its last bio.
AtInv ==
  /\ at \in [nr : Nat, seg : Nat]
  /\ request # <<>> =>
       /\ at.nr \in 1..Len(request) + 1 /\ at.seg >= 1
       /\ at.nr \in DOMAIN request /\ ~RamDisk!Passthrough(request) =>
            at.seg <= Len(bio[request[at.nr]].mem)

DiskInv ==
  /\ data \in [0..(RamDisk!Size - 1) -> Values] /\ running \in BOOLEAN /\ run \in BOOLEAN
  /\ BioInv /\ QueueInv /\ AtInv

-----------------------------------------------------------------------------
\* The invariant has the types.
LEMMA DiskTypes == ASSUME Sizes, DiskInv PROVE RamDisk!TypeOK
<1>1. queue \subseteq Seq(Bios) /\ request \in Seq(Bios)
  BY DEF DiskInv, QueueInv, WellMade
<1>2. \A b \in Bios : /\ bio[b].state \in {"idle", "queued", "done", "failed"}
                      /\ bio[b].kind \in {"read", "write", "other"}
                      /\ bio[b].mem \in Seq(Values)
  BY DEF DiskInv, BioInv
<1>3. {running, run} \subseteq BOOLEAN
  BY Zenon DEF DiskInv
<1> QED BY <1>1, <1>2, <1>3 DEF DiskInv, AtInv, RamDisk!TypeOK

\* Nothing is queued at first.
LEMMA DiskInitInv == ASSUME Sizes, RamDisk!Init PROVE DiskInv
<1>1. RamDisk!NoBio \in [state : {"idle", "queued", "done", "failed"},
        kind : {"read", "write", "other"},
                 first : 0..(RamDisk!Size - 1), mem : Seq(Values)]
  <2>1. 0 \in 0..(RamDisk!Size - 1)
    BY DEF Sizes, RamDisk!Size
  <2>2. <<>> \in Seq(Values)
    OBVIOUS
  <2> QED BY <2>1, <2>2 DEF RamDisk!NoBio
<1>2. RamDisk!NoBio.kind = "other" /\ RamDisk!NoBio.mem = <<>> /\ RamDisk!NoBio.state = "idle"
  BY DEF RamDisk!NoBio
<1>3. BioInv
  BY <1>1, <1>2 DEF RamDisk!Init, BioInv
<1>4. QueueInv
  BY DEF RamDisk!Init, QueueInv
<1>5. AtInv
  BY DEF RamDisk!Init, AtInv, RamDisk!Start
<1>6. running \in BOOLEAN /\ run \in BOOLEAN
  BY Zenon DEF RamDisk!Init
<1> QED BY <1>3, <1>4, <1>5, <1>6 DEF RamDisk!Init, DiskInv

\* Every operation is idle at first.
LEMMA DiskInit == ASSUME Sizes, RamDisk!Init PROVE RamDisk!Disk!Init
<1>1. \A b \in Bios : bio[b] = RamDisk!NoBio
  BY DEF RamDisk!Init
<1>2. ASSUME NEW b \in Bios PROVE RamDisk!Op[b] = RamDisk!Disk!Idle
  <2>1. RamDisk!Left(b) = {}
    BY <1>1 DEF RamDisk!Left, RamDisk!NoBio
  <2>2. RamDisk!State(b) = "idle"
    BY <1>1 DEF RamDisk!State, RamDisk!NoBio
  <2>3. RamDisk!Op[b] = [state |-> RamDisk!State(b), kind |-> bio[b].kind, first |-> bio[b].first,
                 mem |-> bio[b].mem, left |-> RamDisk!Left(b)]
    BY DEF RamDisk!Op
  <2>4. /\ bio[b].kind = "other" /\ bio[b].first = 0 /\ bio[b].mem = <<>>
    BY <1>1 DEF RamDisk!NoBio
  <2> QED BY <2>1, <2>2, <2>3, <2>4 DEF RamDisk!Disk!Idle
<1>3. RamDisk!Op = [b \in Bios |-> RamDisk!Op[b]]
  BY DEF RamDisk!Op
<1>4. RamDisk!Op = [b \in Bios |-> RamDisk!Disk!Idle]
  BY <1>2, <1>3
<1>5. data \in [0..(NrSectors - 1) -> Values]
  BY DEF RamDisk!Init, RamDisk!Size
<1> QED BY <1>4, <1>5 DEF RamDisk!Disk!Init, RamDisk!Disk!Sectors

-----------------------------------------------------------------------------
(* The block layer.                                                        *)

\* Bios of other requests do not matter to a request.
LEMMA StaysWellMade ==
  ASSUME NEW r, WellMade(r), \A j \in DOMAIN r : bio'[r[j]] = bio[r[j]]
  PROVE  WellMade(r)'
<1>1. 1 \in DOMAIN r /\ Head(r) = r[1]
  BY DEF WellMade
<1> QED BY <1>1 DEF WellMade

\* What is done to bios outside of it leaves the queue alone.
LEMMA QueueStays ==
  ASSUME DiskInv, UNCHANGED <<queue, request>>,
         \A r \in queue \cup {request} : \A j \in DOMAIN r : bio'[r[j]] = bio[r[j]]
  PROVE  QueueInv'
<1>1. \A r \in queue : WellMade(r)'
  BY StaysWellMade DEF DiskInv, QueueInv
<1>2. request # <<>> => WellMade(request)'
  BY StaysWellMade DEF DiskInv, QueueInv
<1> QED BY <1>1, <1>2 DEF DiskInv, QueueInv

\* A bio that is idle is put into the queue, alone or at an end of a request.
LEMMA QueueGrows ==
  ASSUME DiskInv, NEW b \in Bios, bio[b].state = "idle", UNCHANGED request,
         \A c \in Bios \ {b} : bio'[c] = bio[c],
         NEW old \in SUBSET queue, NEW t, WellMade(t)',
         queue' = (queue \ old) \cup {t},
         \A c \in Bios : In(c, t) <=> c = b \/ \E r \in old : In(c, r)
  PROVE  QueueInv'
<1>1. \A r \in queue : WellMade(r) /\ r \in Seq(Bios)
  BY DEF DiskInv, QueueInv, WellMade
<1>2. \A r \in queue : ~In(b, r)
  BY <1>1 DEF WellMade, In
<1>3. \A j \in DOMAIN request : request[j] \in Bios /\ bio[request[j]].state = "queued"
  BY DEF DiskInv, QueueInv, WellMade
<1>4. ~In(b, request)
  BY <1>3 DEF In
<1>5. \A r \in queue : WellMade(r)'
  <2> SUFFICES ASSUME NEW r \in queue PROVE WellMade(r)'
    OBVIOUS
  <2>1. \A j \in DOMAIN r : r[j] \in Bios /\ r[j] # b
    BY <1>1, <1>2 DEF In
  <2> QED BY <1>1, <2>1, StaysWellMade
<1>6. request \in Seq(Bios) /\ (request # <<>> => WellMade(request)')
  <2>1. \A j \in DOMAIN request : request[j] \in Bios /\ request[j] # b
    BY <1>3, <1>4 DEF In
  <2> QED BY <2>1, StaysWellMade DEF DiskInv, QueueInv
<1>7. ASSUME NEW c \in Bios, NEW r \in queue', In(c, r)
      PROVE  ~In(c, request) /\ \A s \in queue' : In(c, s) => s = r
  <2>1. \A q \in queue : In(c, q) => ~In(c, request) /\ \A s \in queue : In(c, s) => s = q
    BY DEF DiskInv, QueueInv
  <2>2. CASE r = t
    <3>1. CASE c = b
      BY <2>2, <3>1, <1>2, <1>4
    <3>2. CASE c # b
      <4>1. PICK q \in old : In(c, q)
        BY <2>2, <3>2, <1>7
      <4> QED BY <2>1, <2>2, <4>1
    <3> QED BY <3>1, <3>2
  <2>3. CASE r # t
    <3>1. r \in queue /\ r \notin old
      BY <2>3
    <3>2. ~In(c, t)
      BY <2>1, <3>1, <1>2, <1>7
    <3> QED BY <2>1, <3>1, <3>2, <1>7
  <2> QED BY <2>2, <2>3
<1> QED BY <1>1, <1>5, <1>6, <1>7 DEF QueueInv

\* It is put where it belongs.
LEMMA EnqueueInv ==
  ASSUME DiskInv, NEW b \in Bios, bio[b].state = "idle", UNCHANGED request,
         \A c \in Bios \ {b} : bio'[c] = bio[c], bio'[b].state = "queued",
         RamDisk!Enqueue(b)
  PROVE  QueueInv'
<1>1. \A r \in queue : /\ WellMade(r) /\ r \in Seq(Bios) /\ r # <<>> /\ Len(r) \in Nat
                       /\ DOMAIN r = 1..Len(r) /\ Len(r) >= 1
                       /\ Head(r) = r[1] /\ RamDisk!Last(r) = r[Len(r)]
  BY DEF DiskInv, QueueInv, WellMade, RamDisk!Last
<1>2. \A r \in queue : \A j \in DOMAIN r :
         /\ r[j] \in Bios /\ r[j] # b /\ bio'[r[j]] = bio[r[j]]
         /\ bio[r[j]].state = "queued" /\ bio[r[j]].kind = bio[r[1]].kind
         /\ \A k \in DOMAIN r : r[j] = r[k] => j = k
  BY <1>1 DEF WellMade
<1>3. CASE queue' = queue \cup {<<b>>}
  <2>1. WellMade(<<b>>)'
    BY DEF WellMade
  <2>2. \A c \in Bios : In(c, <<b>>) <=> c = b
    BY DEF In
  <2>3. queue' = (queue \ {}) \cup {<<b>>} /\ {} \in SUBSET queue
    BY <1>3
  <2>4. \A c \in Bios : In(c, <<b>>) <=> c = b \/ \E r \in {} : In(c, r)
    BY <2>2
  <2> QED BY <2>1, <2>3, <2>4, QueueGrows
<1>4. ASSUME NEW r \in queue, RamDisk!Follows(RamDisk!Last(r), b),
        queue' = (queue \ {r}) \cup {Append(r, b)}
      PROVE  QueueInv'
  <2> DEFINE t == Append(r, b)
  <2>1. /\ t \in Seq(Bios) /\ t # <<>> /\ DOMAIN t = 1..Len(r) + 1 /\ Head(t) = r[1]
        /\ t[Len(r) + 1] = b /\ \A j \in DOMAIN r : t[j] = r[j] /\ j \in DOMAIN t
    BY <1>1
  <2>2. bio'[b].kind = bio[r[1]].kind
    BY <1>1, <1>2, <1>4 DEF RamDisk!Follows
  <2>3. \A j \in DOMAIN t : j = Len(r) + 1 \/ j \in DOMAIN r
    BY <1>1, <2>1
  <2>4. bio'[Head(t)].kind = bio[r[1]].kind
    BY <1>1, <1>2, <2>1
  <2> HIDE DEF t
  <2>5. WellMade(t)'
    <3>1. ASSUME NEW j \in DOMAIN t
          PROVE  bio'[t[j]].state = "queued" /\ bio'[t[j]].kind = bio'[Head(t)].kind
      BY <1>2, <2>1, <2>2, <2>3, <2>4
    <3>2. ASSUME NEW j \in DOMAIN t, NEW k \in DOMAIN t, t[j] = t[k] PROVE j = k
      BY <3>2, <1>2, <2>1, <2>3
    <3> QED BY <2>1, <3>1, <3>2 DEF WellMade
  <2>6. \A c \in Bios : In(c, t) <=> c = b \/ \E s \in {r} : In(c, s)
    BY <1>1, <2>1, <2>3 DEF In
  <2>7. {r} \in SUBSET queue /\ queue' = (queue \ {r}) \cup {t}
    BY <1>4 DEF t
  <2> QED BY <2>5, <2>6, <2>7, QueueGrows
<1>5. ASSUME NEW r \in queue, RamDisk!Follows(b, Head(r)), queue' = (queue \ {r}) \cup {<<b>> \o r}
      PROVE  QueueInv'
  <2> DEFINE t == <<b>> \o r
  <2>1. /\ t \in Seq(Bios) /\ t # <<>> /\ DOMAIN t = 1..Len(r) + 1 /\ Head(t) = b
        /\ t[1] = b /\ \A j \in DOMAIN r : t[j + 1] = r[j] /\ j + 1 \in DOMAIN t
    BY <1>1
  <2>2. bio'[b].kind = bio[r[1]].kind
    BY <1>1, <1>2, <1>5 DEF RamDisk!Follows
  <2>3. \A j \in DOMAIN t : j = 1 \/ (j - 1 \in DOMAIN r /\ t[j] = r[j - 1])
    BY <1>1, <2>1
  <2>4. bio'[Head(t)].kind = bio[r[1]].kind
    BY <2>1, <2>2
  <2> HIDE DEF t
  <2>5. WellMade(t)'
    <3>1. ASSUME NEW j \in DOMAIN t
          PROVE  bio'[t[j]].state = "queued" /\ bio'[t[j]].kind = bio'[Head(t)].kind
      BY <1>2, <2>1, <2>2, <2>3, <2>4
    <3>2. ASSUME NEW j \in DOMAIN t, NEW k \in DOMAIN t, t[j] = t[k] PROVE j = k
      <4>1. j \in Nat /\ k \in Nat
        BY <1>1, <2>1
      <4>2. j = 1 <=> k = 1
        BY <3>2, <1>2, <2>1, <2>3
      <4> QED BY <3>2, <4>1, <4>2, <1>2, <2>3
    <3> QED BY <2>1, <3>1, <3>2 DEF WellMade
  <2>6. \A c \in Bios : In(c, t) <=> c = b \/ \E s \in {r} : In(c, s)
    <3>1. ASSUME NEW c \in Bios, In(c, t) PROVE c = b \/ In(c, r)
      BY <3>1, <2>1, <2>3 DEF In
    <3>2. ASSUME NEW c \in Bios, c = b \/ In(c, r) PROVE In(c, t)
      <4>1. CASE c = b
        <5>1. 1 \in DOMAIN t
          BY <1>1, <2>1
        <5> QED BY <4>1, <5>1, <2>1 DEF In
      <4>2. CASE In(c, r)
        BY <4>2, <2>1 DEF In
      <4> QED BY <3>2, <4>1, <4>2
    <3> QED BY <3>1, <3>2
  <2>7. {r} \in SUBSET queue /\ queue' = (queue \ {r}) \cup {t}
    BY <1>5 DEF t
  <2> QED BY <2>5, <2>6, <2>7, QueueGrows
<1> QED BY <1>3, <1>4, <1>5 DEF RamDisk!Enqueue

-----------------------------------------------------------------------------
(* Steps, and what they are to the operations on the disk.                 *)

\* The operations, each from its bio.
LEMMA OpOf ==
  ASSUME NEW b \in Bios
  PROVE  RamDisk!Op[b] = [state |-> RamDisk!State(b), kind |-> bio[b].kind, first |-> bio[b].first,
                  mem |-> bio[b].mem, left |-> RamDisk!Left(b)]
BY DEF RamDisk!Op

\* The fields of an operation.
LEMMA OpFields ==
  \A b \in Bios : /\ RamDisk!Op[b].state = RamDisk!State(b) /\ RamDisk!Op[b].kind = bio[b].kind
                  /\ RamDisk!Op[b].first = bio[b].first /\ RamDisk!Op[b].mem = bio[b].mem
                  /\ RamDisk!Op[b].left = RamDisk!Left(b)
BY DEF RamDisk!Op

\* A bio of which nothing has been transferred.
LEMMA LeftAll ==
  ASSUME NEW b \in Bios, bio[b].state = "queued",
         \A j \in DOMAIN request : request[j] # b
  PROVE  RamDisk!Left(b) = DOMAIN bio[b].mem
BY DEF RamDisk!Left

\* An operation stays when its bio does and the iterator is elsewhere.
LEMMA OpStays ==
  ASSUME NEW b \in Bios, bio'[b] = bio[b],
         \/ UNCHANGED <<request, at>>
         \/ /\ \A j \in DOMAIN request : request[j] # b
            /\ \A j \in DOMAIN request' : request'[j] # b
  PROVE  RamDisk!Op'[b] = RamDisk!Op[b]
<1>1. RamDisk!Left(b)' = RamDisk!Left(b)
  <2>1. CASE UNCHANGED <<request, at>>
    BY <2>1 DEF RamDisk!Left
  <2>2. CASE /\ \A j \in DOMAIN request : request[j] # b
             /\ \A j \in DOMAIN request' : request'[j] # b
    BY <2>2 DEF RamDisk!Left
  <2> QED BY <2>1, <2>2
<1> QED BY <1>1 DEF RamDisk!Op, RamDisk!State

\* When one operation changes.
LEMMA OpOnly ==
  ASSUME NEW b \in Bios, NEW x, RamDisk!Op'[b] = x,
    \A c \in Bios \ {b} : RamDisk!Op'[c] = RamDisk!Op[c]
  PROVE  RamDisk!Op' = [RamDisk!Op EXCEPT ![b] = x]
<1>1. RamDisk!Op = [c \in Bios |-> RamDisk!Op[c]] /\ RamDisk!Op' = [c \in Bios |-> RamDisk!Op'[c]]
  BY DEF RamDisk!Op
<1> QED BY <1>1

\* A bio that is submitted begins an operation.
LEMMA SubmitStep ==
  ASSUME Sizes, DiskInv, NEW b \in Bios, RamDisk!Submit(b) \/ RamDisk!SubmitPassthrough(b)
  PROVE  DiskInv' /\ RamDisk!Disk!Start(b)
<1>1. /\ bio[b].state = "idle" /\ bio[b] = RamDisk!NoBio
      /\ UNCHANGED <<data, request, at, running>> /\ run' \in BOOLEAN
  BY DEF RamDisk!Submit, RamDisk!SubmitPassthrough, DiskInv, BioInv
<1>2. PICK way, first, len, mem :
        /\ way \in {"read", "write", "other"} /\ first \in 0..(RamDisk!Size - 1)
        /\ len \in 0..NrSectors
        /\ mem \in [1..len -> Values]
        /\ bio' = [bio EXCEPT ![b] = [state |-> "queued", kind |-> way,
                                      first |-> first, mem |-> mem]]
        /\ first + len <= RamDisk!Size /\ (way = "other" <=> len = 0)
        /\ RamDisk!Enqueue(b)
  <2>1. CASE RamDisk!Submit(b)
    <3>1. PICK way, first, len, mem :
            /\ way \in {"read", "write"} /\ first \in 0..(RamDisk!Capacity - 1)
            /\ len \in 1..MaxSegments
            /\ mem \in [1..len -> Values]
            /\ bio' = [bio EXCEPT ![b] = [state |-> "queued", kind |-> way,
                                          first |-> first, mem |-> mem]]
            /\ first + len <= RamDisk!Capacity
      BY <2>1 DEF RamDisk!Submit
    <3>2. len \in 0..NrSectors /\ len # 0 /\ first \in 0..(RamDisk!Size - 1)
          /\ first + len <= RamDisk!Size
      BY <3>1 DEF Sizes, RamDisk!Capacity, RamDisk!Size
    <3> QED BY <2>1, <3>1, <3>2 DEF RamDisk!Submit
  <2>2. CASE RamDisk!SubmitPassthrough(b)
    <3>1. bio' = [bio EXCEPT ![b] = [state |-> "queued", kind |-> "other",
                                     first |-> 0, mem |-> <<>>]]
      <4>1. [RamDisk!NoBio EXCEPT !.state = "queued"] = [state |-> "queued", kind |-> "other",
                                                 first |-> 0, mem |-> <<>>]
        BY DEF RamDisk!NoBio
      <4>2. bio' = [bio EXCEPT ![b] = [bio[b] EXCEPT !.state = "queued"]]
        BY <2>2 DEF RamDisk!SubmitPassthrough
      <4> QED BY <4>1, <4>2, <1>1
    <3>2. 0 \in 0..(RamDisk!Size - 1) /\ 0 \in 0..NrSectors /\ 0 + 0 <= RamDisk!Size
      BY DEF Sizes, RamDisk!Size
    <3>3. <<>> \in [1..0 -> Values]
      OBVIOUS
    <3>4. RamDisk!Enqueue(b)
      BY <2>2 DEF RamDisk!SubmitPassthrough, RamDisk!Enqueue
    <3> QED BY <3>1, <3>2, <3>3, <3>4
  <2> QED BY <2>1, <2>2
<1> DEFINE x == [state |-> "queued", kind |-> way, first |-> first, mem |-> mem]
<1>3. len \in Nat /\ mem \in Seq(Values) /\ Len(mem) = len /\ DOMAIN mem = 1..len
      /\ (len = 0 => mem = <<>>)
  BY <1>2 DEF Sizes
<1>4. /\ x \in [state : {"idle", "queued", "done", "failed"}, kind : {"read", "write", "other"},
                first : 0..(RamDisk!Size - 1), mem : Seq(Values)]
      /\ x.state = "queued" /\ x.kind = way /\ x.first = first /\ x.mem = mem
  BY <1>2, <1>3
<1> HIDE DEF x
<1>5. bio'[b] = x /\ \A c \in Bios \ {b} : bio'[c] = bio[c]
  BY <1>2 DEF x, DiskInv, BioInv
<1>6. BioInv'
  <2>1. bio' = [bio EXCEPT ![b] = x]
    BY <1>2 DEF x
  <2>2. len >= 1 \/ way = "other"
    BY <1>2, <1>3
  <2> QED BY <1>2, <1>3, <1>4, <1>5, <2>1, <2>2 DEF DiskInv, BioInv
<1>7. QueueInv'
  BY <1>1, <1>2, <1>4, <1>5, EnqueueInv
<1>8. \A j \in DOMAIN request : request[j] \in Bios /\ request[j] # b
  BY <1>1 DEF DiskInv, QueueInv, WellMade
<1>9. AtInv'
  <2>1. request # <<>> => Head(request) = request[1] /\ 1 \in DOMAIN request
    BY DEF DiskInv, QueueInv
  <2>2. at.nr \in DOMAIN request => bio'[request[at.nr]] = bio[request[at.nr]]
    BY <1>5, <1>8
  <2>3. request # <<>> => (RamDisk!Passthrough(request)' <=> RamDisk!Passthrough(request))
    BY <1>1, <1>5, <1>8, <2>1 DEF RamDisk!Passthrough
  <2> QED BY <1>1, <2>2, <2>3 DEF DiskInv, AtInv
<1>10. DiskInv'
  BY <1>1, <1>6, <1>7, <1>9 DEF DiskInv
<1>11. RamDisk!Op[b].state = "idle"
  BY <1>1 DEF RamDisk!Op, RamDisk!State
<1>12. RamDisk!Op'[b] = [state |-> "busy", kind |-> way, first |-> first, mem |-> mem,
         left |-> 1..len]
  <2>1. RamDisk!Left(b)' = 1..len
    BY <1>1, <1>3, <1>4, <1>5, <1>8 DEF RamDisk!Left
  <2> QED BY <1>4, <1>5, <2>1 DEF RamDisk!Op, RamDisk!State
<1>13. ASSUME NEW c \in Bios \ {b} PROVE RamDisk!Op'[c] = RamDisk!Op[c]
  BY <1>1, <1>5, OpStays
<1>14. RamDisk!Op' = [RamDisk!Op EXCEPT ![b] = [state |-> "busy", kind |-> way, first |-> first,
                                mem |-> mem, left |-> 1..len]]
  BY <1>12, <1>13, OpOnly
<1>15. RamDisk!Disk!Start(b)
  <2>1. first \in RamDisk!Disk!Sectors /\ way \in RamDisk!Disk!Kinds /\ first + len <= NrSectors
    BY <1>2 DEF RamDisk!Disk!Sectors, RamDisk!Disk!Kinds, RamDisk!Size
  <2> QED BY <1>1, <1>2, <1>11, <1>14, <2>1 DEF RamDisk!Disk!Start
<1> QED BY <1>10, <1>15

\* A bio that has ended can be submitted anew.
LEMMA ReuseStep ==
  ASSUME Sizes, DiskInv, NEW b \in Bios, RamDisk!Reuse(b)
  PROVE  DiskInv' /\ RamDisk!Disk!Reuse(b)
<1>1. /\ bio[b].state \in {"done", "failed"} /\ bio' = [bio EXCEPT ![b] = RamDisk!NoBio]
      /\ UNCHANGED <<data, queue, request, at, running, run>>
  BY DEF RamDisk!Reuse
<1>2. bio'[b] = RamDisk!NoBio /\ \A c \in Bios \ {b} : bio'[c] = bio[c]
  BY <1>1 DEF DiskInv, BioInv
<1>3.
      /\ RamDisk!NoBio \in [state : {"idle", "queued", "done", "failed"},
           kind : {"read", "write", "other"},
                    first : 0..(RamDisk!Size - 1), mem : Seq(Values)]
      /\ RamDisk!NoBio.state = "idle" /\ RamDisk!NoBio.kind = "other" /\ RamDisk!NoBio.mem = <<>>
      /\ RamDisk!NoBio.first = 0
  <2>1. 0 \in 0..(RamDisk!Size - 1)
    BY DEF Sizes, RamDisk!Size
  <2>2. <<>> \in Seq(Values)
    OBVIOUS
  <2> QED BY <2>1, <2>2 DEF RamDisk!NoBio
<1>4. BioInv'
  BY <1>1, <1>2, <1>3 DEF DiskInv, BioInv
<1>5. \A r \in queue \cup {request} : \A j \in DOMAIN r : r[j] \in Bios /\ r[j] # b
  <2> SUFFICES ASSUME NEW r \in queue \cup {request}, r # <<>>, NEW j \in DOMAIN r
               PROVE  r[j] \in Bios /\ bio[r[j]].state = "queued"
    BY <1>1
  <2> QED BY DEF DiskInv, QueueInv, WellMade
<1>6. QueueInv'
  BY <1>1, <1>2, <1>5, QueueStays
<1>7. AtInv'
  <2>1. request # <<>> => Head(request) = request[1] /\ 1 \in DOMAIN request
    BY DEF DiskInv, QueueInv
  <2>2. at.nr \in DOMAIN request => bio'[request[at.nr]] = bio[request[at.nr]]
    BY <1>2, <1>5
  <2>3. request # <<>> => (RamDisk!Passthrough(request)' <=> RamDisk!Passthrough(request))
    BY <1>1, <1>2, <1>5, <2>1 DEF RamDisk!Passthrough
  <2> QED BY <1>1, <2>2, <2>3 DEF DiskInv, AtInv
<1>8. DiskInv'
  BY <1>1, <1>4, <1>6, <1>7 DEF DiskInv
<1>9. RamDisk!Op[b].state \in {"done", "failed"}
  BY <1>1 DEF RamDisk!Op, RamDisk!State
<1>10. RamDisk!Op'[b] = RamDisk!Disk!Idle
  <2>1. RamDisk!Left(b)' = {}
    BY <1>2, <1>3 DEF RamDisk!Left
  <2> QED BY <1>2, <1>3, <2>1 DEF RamDisk!Op, RamDisk!State, RamDisk!Disk!Idle
<1>11. ASSUME NEW c \in Bios \ {b} PROVE RamDisk!Op'[c] = RamDisk!Op[c]
  BY <1>1, <1>2, OpStays
<1>12. RamDisk!Op' = [RamDisk!Op EXCEPT ![b] = RamDisk!Disk!Idle]
  BY <1>10, <1>11, OpOnly
<1> QED BY <1>1, <1>8, <1>9, <1>12 DEF RamDisk!Disk!Reuse

\* What touches neither the bios nor the request is no step of the disk.
LEMMA CallStep ==
  ASSUME Sizes, DiskInv,
    RamDisk!CallRequest \/ RamDisk!ReturnRequest \/ UNCHANGED RamDisk!ram_disk_vars
  PROVE  DiskInv' /\ UNCHANGED <<data, RamDisk!Op>>
<1>1. /\ UNCHANGED <<data, bio, queue, request, at>>
      /\ running' \in BOOLEAN /\ run' \in BOOLEAN
  <2>1. CASE RamDisk!CallRequest
    BY <2>1, Zenon DEF RamDisk!CallRequest
  <2>2. CASE RamDisk!ReturnRequest
    <3>1. running' = FALSE /\ run' = run
      BY <2>2 DEF RamDisk!ReturnRequest
    <3>2. running' \in BOOLEAN /\ run' \in BOOLEAN
      BY <3>1, Zenon DEF DiskInv
    <3> QED BY <2>2, <3>2 DEF RamDisk!ReturnRequest
  <2>3. CASE UNCHANGED RamDisk!ram_disk_vars
    BY <2>3 DEF RamDisk!ram_disk_vars, DiskInv
  <2> QED BY <2>1, <2>2, <2>3
<1>2. BioInv'
  BY <1>1 DEF DiskInv, BioInv
<1>3. QueueInv'
  BY <1>1, QueueStays
<1>4. AtInv'
  BY <1>1 DEF DiskInv, AtInv, RamDisk!Passthrough
<1>5. DiskInv'
  BY <1>1, <1>2, <1>3, <1>4 DEF DiskInv
<1>6. UNCHANGED RamDisk!Op
  BY <1>1 DEF RamDisk!Op, RamDisk!State, RamDisk!Left
<1> QED BY <1>1, <1>5, <1>6

\* A request that is fetched leaves the queue; nothing of it is transferred.
LEMMA FetchStep ==
  ASSUME Sizes, DiskInv, RamDisk!FetchRequest
  PROVE  DiskInv' /\ UNCHANGED <<data, RamDisk!Op>>
<1>1. PICK r \in queue :
        /\ request = <<>> /\ queue' = queue \ {r} /\ request' = r /\ at' = RamDisk!Start
        /\ UNCHANGED <<data, bio, running, run>>
  BY DEF RamDisk!FetchRequest
<1>2. /\ WellMade(r) /\ r \in Seq(Bios) /\ r # <<>> /\ 1 \in DOMAIN r /\ Len(r) \in Nat
      /\ Head(r) = r[1] /\ r[1] \in Bios
  BY DEF DiskInv, QueueInv, WellMade
<1>3. BioInv'
  BY <1>1 DEF DiskInv, BioInv
<1>4. QueueInv'
  <2>1. \A s \in queue : WellMade(s)'
    BY <1>1, StaysWellMade DEF DiskInv, QueueInv
  <2>2. \A b \in Bios, s \in queue : In(b, s) => \A t \in queue : In(b, t) => t = s
    BY DEF DiskInv, QueueInv
  <2> QED BY <1>1, <1>2, <2>1, <2>2 DEF QueueInv
<1>5. AtInv'
  <2>1. at'.nr = 1 /\ at'.seg = 1 /\ at' \in [nr : Nat, seg : Nat]
    BY <1>1 DEF RamDisk!Start
  <2>2. ASSUME ~RamDisk!Passthrough(r) PROVE 1 <= Len(bio[r[1]].mem)
    BY <1>2, <2>2 DEF RamDisk!Passthrough, DiskInv, BioInv
  <2>3. RamDisk!Passthrough(r)' <=> RamDisk!Passthrough(r)
    BY <1>1 DEF RamDisk!Passthrough
  <2>4. bio' = bio /\ request' = r
    BY <1>1
  <2>5. ~RamDisk!Passthrough(request)' => 1 <= Len(bio[r[1]].mem)
    BY <2>2, <2>4 DEF RamDisk!Passthrough
  <2> QED BY <1>2, <2>1, <2>4, <2>5 DEF AtInv
<1>6. DiskInv'
  BY <1>1, <1>3, <1>4, <1>5 DEF DiskInv
<1>7. \A b \in Bios : RamDisk!Left(b)' = RamDisk!Left(b)
  <2>1. \A b \in Bios : \A i \in DOMAIN bio[b].mem : i \in Nat /\ i >= 1
    BY DEF DiskInv, BioInv
  <2>2. \A j \in DOMAIN r : j \in Nat /\ (j > 1 \/ j = 1)
    BY <1>2
  <2> QED BY <1>1, <2>1, <2>2 DEF RamDisk!Left, RamDisk!Start
<1>8. UNCHANGED RamDisk!Op
  BY <1>1, <1>7 DEF RamDisk!Op, RamDisk!State
<1> QED BY <1>1, <1>6, <1>8

\* A segment is transferred, the one the iterator is on; nothing is past the
\* end of the disk, and every other segment is left as it was.
LEMMA XferStep ==
  ASSUME Sizes, DiskInv, RamDisk!XferSegment
  PROVE  DiskInv' /\ \E b \in Bios : \E i \in RamDisk!Op[b].left : RamDisk!Disk!Transfer(b, i)
<1>0. PICK c, k, p : c = request[at.nr] /\ k = at.seg /\ p = bio[c].first + k - 1
  OBVIOUS
<1>1. /\ request # <<>> /\ ~RamDisk!Passthrough(request) /\ at.nr \in DOMAIN request
      /\ RamDisk!Transfer(c, k, p) /\ at' = RamDisk!NextSegment
      /\ UNCHANGED <<queue, request, running, run>>
  BY <1>0 DEF RamDisk!XferSegment
<1>2. /\ request \in Seq(Bios) /\ Len(request) \in Nat /\ DOMAIN request = 1..Len(request)
      /\ Head(request) = request[1] /\ 1 \in DOMAIN request
      /\ \A j \in DOMAIN request :
           /\ request[j] \in Bios /\ bio[request[j]].state = "queued"
           /\ bio[request[j]].kind = bio[request[1]].kind
           /\ \A l \in DOMAIN request : request[j] = request[l] => j = l
  BY <1>1 DEF DiskInv, QueueInv, WellMade
<1>3. c \in Bios /\ bio[c].state = "queued" /\ bio[c].kind \in {"read", "write"}
  <2>1. bio[request[1]].kind # "other"
    BY <1>1, <1>2 DEF RamDisk!Passthrough
  <2>2. bio[c].kind \in {"read", "write", "other"}
    BY <1>0, <1>1, <1>2 DEF DiskInv, BioInv
  <2> QED BY <1>0, <1>1, <1>2, <2>1, <2>2
<1>4. /\ bio[c].first \in 0..(RamDisk!Size - 1) /\ bio[c].mem \in Seq(Values)
      /\ Len(bio[c].mem) \in Nat /\ DOMAIN bio[c].mem = 1..Len(bio[c].mem)
      /\ bio[c].first + Len(bio[c].mem) <= RamDisk!Size /\ RamDisk!Size \in Nat
  BY <1>3 DEF DiskInv, BioInv, Sizes, RamDisk!Size
<1>5. at \in [nr : Nat, seg : Nat] /\ k \in DOMAIN bio[c].mem /\ k \in 1..Len(bio[c].mem)
  BY <1>0, <1>1, <1>4 DEF DiskInv, AtInv
<1>6. p \in 0..(RamDisk!Size - 1)
  BY <1>0, <1>4, <1>5
<1>7. ~(p + 1 > RamDisk!Size)
  BY <1>4, <1>6
<1> DEFINE m == IF bio[c].kind = "read" THEN [bio[c].mem EXCEPT ![k] = data[p]] ELSE bio[c].mem
<1>8. /\ bio' = [bio EXCEPT ![c].mem = m]
      /\ data' = IF bio[c].kind = "write" THEN [data EXCEPT ![p] = bio[c].mem[k]] ELSE data
  <2>1. \/ bio[c].kind = "read" /\ bio' = [bio EXCEPT ![c].mem[k] = data[p]] /\ data' = data
        \/ bio[c].kind = "write" /\ data' = [data EXCEPT ![p] = bio[c].mem[k]] /\ bio' = bio
    BY <1>1, <1>7 DEF RamDisk!Transfer
  <2>2. CASE bio[c].kind = "read"
    BY <2>1, <2>2
  <2>3. CASE bio[c].kind = "write"
    <3>1. [bio EXCEPT ![c].mem = bio[c].mem] = bio
      BY <1>3 DEF DiskInv, BioInv
    <3> QED BY <2>1, <2>3, <3>1
  <2> QED BY <1>3, <2>2, <2>3
<1>9. m \in Seq(Values) /\ Len(m) = Len(bio[c].mem) /\ DOMAIN m = DOMAIN bio[c].mem
  <2>1. data[p] \in Values
    BY <1>6 DEF DiskInv
  <2> QED BY <1>4, <1>5, <2>1
<1>10. data' \in [0..(RamDisk!Size - 1) -> Values]
  <2>1. bio[c].mem[k] \in Values
    BY <1>4, <1>5
  <2> QED BY <1>6, <1>8, <2>1 DEF DiskInv
<1> HIDE DEF m
<1>11. /\ \A d \in Bios \ {c} : bio'[d] = bio[d]
       /\ bio'[c] = [bio[c] EXCEPT !.mem = m]
       /\ bio'[c].state = bio[c].state /\ bio'[c].kind = bio[c].kind
       /\ bio'[c].first = bio[c].first /\ bio'[c].mem = m
  BY <1>3, <1>8 DEF DiskInv, BioInv
<1>12. BioInv'
  <2>1. bio' \in [Bios -> [state : {"idle", "queued", "done", "failed"},
                           kind : {"read", "write", "other"},
                           first : 0..(RamDisk!Size - 1), mem : Seq(Values)]]
    BY <1>3, <1>8, <1>9 DEF DiskInv, BioInv
  <2>2. \A d \in Bios : \/ d # c /\ bio'[d] = bio[d]
                        \/ d = c
    BY <1>11
  <2>3. /\ bio'[c].state # "idle" /\ bio'[c].kind # "other"
        /\ Len(bio'[c].mem) >= 1 /\ bio'[c].first + Len(bio'[c].mem) <= RamDisk!Size
    BY <1>3, <1>4, <1>5, <1>9, <1>11
  <2> QED BY <2>1, <2>2, <2>3 DEF DiskInv, BioInv
<1>13. \A d \in Bios : bio'[d].state = bio[d].state /\ bio'[d].kind = bio[d].kind
                       /\ Len(bio'[d].mem) = Len(bio[d].mem)
  BY <1>9, <1>11
<1>14. QueueInv'
  <2>1. ASSUME NEW r, WellMade(r) PROVE WellMade(r)'
    <3>1. \A j \in DOMAIN r : r[j] \in Bios
      BY <2>1 DEF WellMade
    <3>2. Head(r) \in Bios
      BY <2>1 DEF WellMade
    <3> QED BY <2>1, <3>1, <3>2, <1>13 DEF WellMade
  <2> QED BY <1>1, <2>1 DEF DiskInv, QueueInv
<1>15. at' = IF k < Len(bio[c].mem) THEN [at EXCEPT !.seg = k + 1] ELSE [nr |-> at.nr + 1,
         seg |-> 1]
  BY <1>0, <1>1 DEF RamDisk!NextSegment
<1>16. AtInv'
  <2>1. at.nr \in Nat /\ k \in Nat
    BY <1>2, <1>1, <1>5, <1>4
  <2>2. CASE k < Len(bio[c].mem)
    <3>1. at'.nr = at.nr /\ at'.seg = k + 1 /\ at' \in [nr : Nat, seg : Nat]
      BY <2>1, <2>2, <1>5, <1>15
    <3>2. k + 1 <= Len(bio'[request[at.nr]].mem)
      <4>1. request[at.nr] = c /\ Len(bio'[c].mem) = Len(bio[c].mem)
        BY <1>0, <1>3, <1>13
      <4>2. k + 1 <= Len(bio[c].mem)
        BY <2>1, <2>2, <1>4
      <4> QED BY <4>1, <4>2
    <3> QED BY <3>1, <3>2, <2>1, <1>1, <1>2 DEF AtInv
  <2>3. CASE ~(k < Len(bio[c].mem))
    <3>1. at'.nr = at.nr + 1 /\ at'.seg = 1 /\ at' \in [nr : Nat, seg : Nat]
      BY <2>1, <2>3, <1>15
    <3>2. ASSUME at.nr + 1 \in DOMAIN request
          PROVE  1 <= Len(bio'[request[at.nr + 1]].mem)
      <4>1. bio[request[at.nr + 1]].kind # "other" /\ request[at.nr + 1] \in Bios
        BY <3>2, <1>1, <1>2 DEF RamDisk!Passthrough
      <4>2. 1 <= Len(bio[request[at.nr + 1]].mem)
        BY <4>1 DEF DiskInv, BioInv
      <4> QED BY <4>1, <4>2, <1>13
    <3> QED BY <3>1, <3>2, <2>1, <1>1, <1>2 DEF AtInv
  <2> QED BY <2>2, <2>3
<1>17. DiskInv'
  BY <1>1, <1>10, <1>12, <1>14, <1>16 DEF DiskInv
<1>18. \A j \in DOMAIN request : request[j] = c => j = at.nr
  BY <1>0, <1>1, <1>2
<1>19. RamDisk!Left(c) = {n \in 1..Len(bio[c].mem) : n >= k}
  BY <1>0, <1>1, <1>2, <1>3, <1>4, <1>18 DEF RamDisk!Left
<1>20. RamDisk!Left(c)' = {n \in 1..Len(bio[c].mem) : n >= k + 1}
  <2>1. at.nr \in Nat /\ k \in Nat
    BY <1>2, <1>1, <1>5, <1>4
  <2>2. /\ \A j \in DOMAIN request' : request'[j] = c <=> j = at.nr
        /\ at.nr \in DOMAIN request' /\ DOMAIN bio'[c].mem = 1..Len(bio[c].mem)
        /\ bio'[c].state = "queued"
    BY <1>0, <1>1, <1>3, <1>4, <1>9, <1>11, <1>18
  <2>3. RamDisk!Left(c)' = {n \in 1..Len(bio[c].mem) : at.nr > at'.nr \/ (at.nr = at'.nr
        /\ n >= at'.seg)}
    BY <2>2 DEF RamDisk!Left
  <2>4. CASE k < Len(bio[c].mem)
    <3>1. at'.nr = at.nr /\ at'.seg = k + 1
      BY <2>1, <2>4, <1>5, <1>15
    <3> QED BY <2>1, <2>3, <3>1
  <2>5. CASE ~(k < Len(bio[c].mem))
    <3>1. at'.nr = at.nr + 1 /\ k = Len(bio[c].mem)
      BY <2>1, <2>5, <1>4, <1>5, <1>15
    <3> QED BY <2>1, <2>3, <3>1, <1>4
  <2> QED BY <2>4, <2>5
<1>21. k \in RamDisk!Left(c) /\ RamDisk!Left(c)' = RamDisk!Left(c) \ {k}
  BY <1>4, <1>5, <1>19, <1>20
<1>22. ASSUME NEW d \in Bios, d # c PROVE RamDisk!Op'[d] = RamDisk!Op[d]
  <2>1. bio'[d] = bio[d]
    BY <1>11, <1>22
  <2>2. RamDisk!Left(d)' = RamDisk!Left(d)
    <3>1. \A j \in DOMAIN request : request[j] = d => j # at.nr
      BY <1>0, <1>22
    <3>2. \A j \in DOMAIN request : request[j] = d =>
            \A n \in DOMAIN bio[d].mem :
              (j > at'.nr \/ (j = at'.nr /\ n >= at'.seg)) <=> (j > at.nr \/ (j = at.nr
              /\ n >= at.seg))
      <4> SUFFICES ASSUME NEW j \in DOMAIN request, request[j] = d, NEW n \in DOMAIN bio[d].mem
                   PROVE  (j > at'.nr \/ (j = at'.nr /\ n >= at'.seg)) <=> j > at.nr
        BY <3>1
      <4>1. j \in Nat /\ at.nr \in Nat /\ j # at.nr /\ n \in Nat /\ n >= 1
        BY <3>1, <1>2, <1>1 DEF DiskInv, BioInv
      <4>2. at'.nr = at.nr \/ (at'.nr = at.nr + 1 /\ at'.seg = 1)
        BY <1>5, <1>15
      <4> QED BY <4>1, <4>2
    <3>3. request' = request
      BY <1>1
    <3> QED BY <2>1, <3>2, <3>3 DEF RamDisk!Left
  <2> QED BY <2>1, <2>2 DEF RamDisk!Op, RamDisk!State
<1>23. /\ RamDisk!Op[c].state = "busy" /\ RamDisk!Op[c].kind = bio[c].kind
       /\ RamDisk!Op[c].first = bio[c].first
       /\ RamDisk!Op[c].mem = bio[c].mem /\ RamDisk!Op[c].left = RamDisk!Left(c)
  BY <1>3 DEF RamDisk!Op, RamDisk!State
<1>24. /\ RamDisk!Op'[c] = [RamDisk!Op[c] EXCEPT !.left = RamDisk!Left(c) \ {k}, !.mem = m]
       /\ m = bio[c].mem => RamDisk!Op'[c] = [RamDisk!Op[c] EXCEPT !.left = RamDisk!Left(c) \ {k}]
  <2>1. RamDisk!Op'[c] = [state |-> "busy", kind |-> bio[c].kind, first |-> bio[c].first,
                  mem |-> m, left |-> RamDisk!Left(c) \ {k}]
    BY <1>3, <1>11, <1>21 DEF RamDisk!Op, RamDisk!State
  <2>2. RamDisk!Op[c] = [state |-> "busy", kind |-> bio[c].kind, first |-> bio[c].first,
                 mem |-> bio[c].mem, left |-> RamDisk!Left(c)]
    BY <1>3 DEF RamDisk!Op, RamDisk!State
  <2>3. [RamDisk!Op[c] EXCEPT !.left = RamDisk!Left(c) \ {k}] =
          [state |-> "busy", kind |-> bio[c].kind, first |-> bio[c].first,
           mem |-> bio[c].mem, left |-> RamDisk!Left(c) \ {k}]
    BY <2>2
  <2>4. [RamDisk!Op[c] EXCEPT !.left = RamDisk!Left(c) \ {k}, !.mem = m] =
          [state |-> "busy", kind |-> bio[c].kind, first |-> bio[c].first,
           mem |-> m, left |-> RamDisk!Left(c) \ {k}]
    <3>1. PICK y : y = [RamDisk!Op[c] EXCEPT !.left = RamDisk!Left(c) \ {k}]
      OBVIOUS
    <3>2. [y EXCEPT !.mem = m] =
            [state |-> "busy", kind |-> bio[c].kind, first |-> bio[c].first,
             mem |-> m, left |-> RamDisk!Left(c) \ {k}]
      <4>1. PICK l, way, first, mem :
              l = RamDisk!Left(c) \ {k} /\ way = bio[c].kind /\ first = bio[c].first
              /\ mem = bio[c].mem
        OBVIOUS
      <4>2. y = [state |-> "busy", kind |-> way, first |-> first, mem |-> mem, left |-> l]
        BY <2>3, <3>1, <4>1
      <4>3. [y EXCEPT !.mem = m] =
              [state |-> "busy", kind |-> way, first |-> first, mem |-> m, left |-> l]
        BY <4>2
      <4> QED BY <4>1, <4>3
    <3>3. [RamDisk!Op[c] EXCEPT !.left = RamDisk!Left(c) \ {k}, !.mem = m] =
            [[RamDisk!Op[c] EXCEPT !.left = RamDisk!Left(c) \ {k}] EXCEPT !.mem = m]
      OBVIOUS
    <3> QED BY <3>1, <3>2, <3>3
  <2> QED BY <2>1, <2>3, <2>4
<1>25. RamDisk!Op' = [RamDisk!Op EXCEPT ![c] =
                        [RamDisk!Op[c] EXCEPT !.left = RamDisk!Left(c) \ {k}, !.mem = m]]
  BY <1>22, <1>24, <1>3, OpOnly
<1>26. RamDisk!Disk!Transfer(c, k)
  <2>1. CASE bio[c].kind = "write"
    <3>1. m = bio[c].mem
      BY <2>1 DEF m
    <3>2. RamDisk!Op' = [RamDisk!Op EXCEPT ![c] =
                           [RamDisk!Op[c] EXCEPT !.left = RamDisk!Left(c) \ {k}]]
      BY <3>1, <1>3, <1>22, <1>24, OpOnly
    <3>3. RamDisk!Op' = [RamDisk!Op EXCEPT ![c].left = @ \ {k}]
      BY <3>2, <1>23
    <3> QED BY <2>1, <3>3, <1>0, <1>8, <1>21, <1>23 DEF RamDisk!Disk!Transfer
  <2>2. CASE bio[c].kind = "read"
    <3>1. m = [RamDisk!Op[c].mem EXCEPT ![k] = data[p]]
      BY <2>2, <1>23 DEF m
    <3>2. RamDisk!Op' = [RamDisk!Op EXCEPT ![c].left = @ \ {k}, ![c].mem[k] = data[p]]
      BY <3>1, <1>23, <1>25
    <3> QED BY <2>2, <3>2, <1>0, <1>8, <1>21, <1>23 DEF RamDisk!Disk!Transfer
  <2> QED BY <1>3, <2>1, <2>2
<1> QED BY <1>3, <1>17, <1>21, <1>23, <1>26

\* The bios of a request end together, when all is transferred.
LEMMA EndStep ==
  ASSUME Sizes, DiskInv, RamDisk!EndRequest
  PROVE  DiskInv' /\ \E bs \in (SUBSET Bios) \ {{}} : RamDisk!Disk!End(bs)
<1> DEFINE bs == {b \in Bios : In(b, request)}
<1>0. PICK ended : ended = IF RamDisk!Passthrough(request) THEN "failed" ELSE "done"
  OBVIOUS
<1>1. /\ request # <<>> /\ (RamDisk!Passthrough(request) \/ at.nr > Len(request))
      /\ request' = <<>> /\ at' = RamDisk!Start /\ UNCHANGED <<data, queue, running, run>>
  BY DEF RamDisk!EndRequest
<1>2. \A b \in Bios : b \in RamDisk!ToSet(request) <=> In(b, request)
  BY DEF RamDisk!ToSet, In
<1>3. bio' = [b \in Bios |-> IF In(b, request) THEN [bio[b] EXCEPT !.state = ended] ELSE bio[b]]
  BY <1>0, <1>2 DEF RamDisk!EndRequest
<1>4. /\ request \in Seq(Bios) /\ Len(request) \in Nat /\ DOMAIN request = 1..Len(request)
      /\ Head(request) = request[1] /\ 1 \in DOMAIN request
      /\ \A j \in DOMAIN request :
           /\ request[j] \in Bios /\ bio[request[j]].state = "queued"
           /\ bio[request[j]].kind = bio[request[1]].kind
  BY <1>1 DEF DiskInv, QueueInv, WellMade
<1>5. \A b \in Bios : In(b, request) =>
        /\ bio[b].state = "queued"
        /\ ended = IF bio[b].kind = "other" THEN "failed" ELSE "done"
  BY <1>0, <1>4 DEF In, RamDisk!Passthrough
<1>6. ended \in {"failed", "done"}
  BY <1>0
<1>7. \A b \in Bios :
        /\ In(b, request) => /\ bio'[b].state = ended /\ bio'[b].kind = bio[b].kind
                             /\ bio'[b].first = bio[b].first /\ bio'[b].mem = bio[b].mem
        /\ ~In(b, request) => bio'[b] = bio[b]
  BY <1>3 DEF DiskInv, BioInv
<1>8. BioInv'
  <2>1. bio' \in [Bios -> [state : {"idle", "queued", "done", "failed"},
                           kind : {"read", "write", "other"},
                           first : 0..(RamDisk!Size - 1), mem : Seq(Values)]]
    BY <1>3, <1>6 DEF DiskInv, BioInv
  <2>2. ASSUME NEW b \in Bios
        PROVE  /\ bio'[b].state = "idle" => bio'[b] = RamDisk!NoBio
               /\ bio'[b].kind = "other" => bio'[b].mem = <<>>
               /\ bio'[b].kind # "other" => Len(bio'[b].mem) >= 1
                                            /\ bio'[b].first + Len(bio'[b].mem) <= RamDisk!Size
    BY <1>6, <1>7 DEF DiskInv, BioInv
  <2> QED BY <2>1, <2>2 DEF BioInv
<1>9. QueueInv'
  <2>1. ASSUME NEW r \in queue PROVE WellMade(r)'
    <3>1. WellMade(r) /\ \A j \in DOMAIN r : r[j] \in Bios
      BY DEF DiskInv, QueueInv, WellMade
    <3>2. \A j \in DOMAIN r : In(r[j], r)
      BY DEF In
    <3>3. \A j \in DOMAIN r : ~In(r[j], request)
      BY <3>1, <3>2 DEF DiskInv, QueueInv
    <3> QED BY <3>1, <3>3, <1>7, StaysWellMade
  <2>2. \A b \in Bios : ~In(b, <<>>)
    BY DEF In
  <2>3. \A b \in Bios, r \in queue : In(b, r) => \A s \in queue : In(b, s) => s = r
    BY DEF DiskInv, QueueInv
  <2> QED BY <1>1, <2>1, <2>2, <2>3 DEF QueueInv
<1>10. AtInv'
  BY <1>1 DEF AtInv, RamDisk!Start
<1>11. DiskInv'
  BY <1>1, <1>8, <1>9, <1>10 DEF DiskInv
<1>12. bs \in (SUBSET Bios) \ {{}}
  <2>1. PICK b \in Bios : b = request[1]
    BY <1>4
  <2>2. b \in bs
    BY <2>1, <1>4 DEF In
  <2>3. bs \subseteq Bios
    OBVIOUS
  <2> HIDE DEF bs
  <2> QED BY <2>2, <2>3
<1>13. ASSUME NEW b \in Bios, In(b, request)
       PROVE  RamDisk!Op[b].state = "busy" /\ RamDisk!Op[b].left = {}
  <2>1. RamDisk!Op[b].state = "busy"
    BY <1>5, <1>13 DEF RamDisk!Op, RamDisk!State
  <2>2. PICK j \in DOMAIN request : request[j] = b
    BY <1>13 DEF In
  <2>3. CASE RamDisk!Passthrough(request)
    <3>1. bio[b].mem = <<>>
      BY <2>2, <2>3, <1>4 DEF RamDisk!Passthrough, DiskInv, BioInv
    <3> QED BY <2>1, <3>1 DEF RamDisk!Op, RamDisk!Left
  <2>4. CASE at.nr > Len(request)
    <3>1. j \in Nat /\ at.nr \in Nat /\ ~(j > at.nr) /\ j # at.nr
      BY <2>2, <2>4, <1>4 DEF DiskInv, AtInv
    <3>2. RamDisk!Left(b) = {}
      BY <2>2, <3>1 DEF RamDisk!Left
    <3> QED BY <2>1, <3>2 DEF RamDisk!Op
  <2> QED BY <1>1, <2>3, <2>4
<1>14. ASSUME NEW b \in Bios
       PROVE  RamDisk!Op'[b] = IF b \in bs
                       THEN [RamDisk!Op[b] EXCEPT
                               !.state = IF RamDisk!Op[b].kind = "other" THEN "failed" ELSE "done"]
                       ELSE RamDisk!Op[b]
  <2>1. CASE In(b, request)
    <3>1. RamDisk!Op[b] = [state |-> "busy", kind |-> bio[b].kind, first |-> bio[b].first,
                   mem |-> bio[b].mem, left |-> {}]
      BY <2>1, <1>13, OpOf DEF RamDisk!Op
    <3>2. RamDisk!Left(b)' = {}
      BY <2>1, <1>6, <1>7 DEF RamDisk!Left
    <3>3. RamDisk!Op'[b] = [state |-> ended, kind |-> bio[b].kind, first |-> bio[b].first,
                    mem |-> bio[b].mem, left |-> {}]
      BY <2>1, <3>2, <1>6, <1>7 DEF RamDisk!Op, RamDisk!State
    <3>4. ended = IF bio[b].kind = "other" THEN "failed" ELSE "done"
      BY <2>1, <1>5
    <3> QED BY <2>1, <3>1, <3>3, <3>4
  <2>2. CASE ~In(b, request)
    <3>1. \A j \in DOMAIN request : request[j] # b
      BY <2>2 DEF In
    <3>2. \A j \in DOMAIN request' : request'[j] # b
      BY <1>1
    <3>3. bio'[b] = bio[b]
      BY <2>2, <1>7
    <3> QED BY <2>2, <3>1, <3>2, <3>3, OpStays
  <2> QED BY <2>1, <2>2
<1>15. RamDisk!Op' = [b \in Bios |-> RamDisk!Op'[b]]
  BY DEF RamDisk!Op
<1>16. RamDisk!Op' = [b \in Bios |->
               IF b \in bs
               THEN [RamDisk!Op[b] EXCEPT
                       !.state = IF RamDisk!Op[b].kind = "other" THEN "failed" ELSE "done"]
               ELSE RamDisk!Op[b]]
  BY <1>14, <1>15
<1>17. \A b \in bs : RamDisk!Op[b].state = "busy" /\ RamDisk!Op[b].left = {}
  BY <1>13
<1> HIDE DEF bs
<1>18. RamDisk!Disk!End(bs)
  BY <1>1, <1>16, <1>17 DEF RamDisk!Disk!End
<1> QED BY <1>11, <1>12, <1>18

-----------------------------------------------------------------------------
(* The results.                                                            *)

\* Every step keeps the invariant, and is a step of the disk or none.
LEMMA DiskStep ==
  ASSUME Sizes
  PROVE  DiskInv /\ [RamDisk!Next]_RamDisk!ram_disk_vars => DiskInv'
  /\ [RamDisk!Disk!Next]_<<data, RamDisk!Op>>
<1> SUFFICES ASSUME DiskInv, [RamDisk!Next]_RamDisk!ram_disk_vars
             PROVE  DiskInv' /\ (RamDisk!Disk!Next \/ UNCHANGED <<data, RamDisk!Op>>)
  OBVIOUS
<1>1. ASSUME NEW b \in Bios, RamDisk!Submit(b) \/ RamDisk!SubmitPassthrough(b)
      PROVE  DiskInv' /\ RamDisk!Disk!Next
  BY <1>1, SubmitStep DEF RamDisk!Disk!Next
<1>2. ASSUME NEW b \in Bios, RamDisk!Reuse(b) PROVE DiskInv' /\ RamDisk!Disk!Next
  BY <1>2, ReuseStep DEF RamDisk!Disk!Next
<1>3. CASE RamDisk!CallRequest \/ RamDisk!ReturnRequest \/ UNCHANGED RamDisk!ram_disk_vars
  BY <1>3, CallStep
<1>4. CASE RamDisk!FetchRequest
  BY <1>4, FetchStep
<1>5. CASE RamDisk!XferSegment
  BY <1>5, XferStep DEF RamDisk!Disk!Next
<1>6. CASE RamDisk!EndRequest
  BY <1>6, EndStep DEF RamDisk!Disk!Next
<1> QED BY <1>1, <1>2, <1>3, <1>4, <1>5, <1>6 DEF RamDisk!Next, RamDisk!RequestFn

\* However bios are merged and requests ordered, what the driver does with the
\* disk is what DiskStore promises (ram-disk.c:80 to 138).
THEOREM ServesBios ==
  ASSUME Sizes
  PROVE  RamDisk!Init /\ [][RamDisk!Next]_RamDisk!ram_disk_vars => RamDisk!ImplementsDisk
<1>1. [RamDisk!Disk!Next]_<<data, RamDisk!Op>> => [RamDisk!Disk!Next]_RamDisk!Disk!disk_vars
  BY DEF RamDisk!Disk!disk_vars
<1> QED BY <1>1, DiskInitInv, DiskInit, DiskStep, PTL DEF RamDisk!ImplementsDisk, RamDisk!Disk!Spec

\* The types.
THEOREM RamDiskTypes ==
  ASSUME Sizes
  PROVE  RamDisk!Init /\ [][RamDisk!Next]_RamDisk!ram_disk_vars => []RamDisk!TypeOK
BY DiskInitInv, DiskStep, DiskTypes, PTL

-----------------------------------------------------------------------------
(* myfs.c, whose proofs are in a module of their own.                      *)

M == INSTANCE MyfsProofs

\* What MyfsProofs calls the first states and the steps are those of MCLabs.
LEMMA MyfsFirst == Myfs!Init => M!Init
  BY DEF Myfs!Init, M!Init, Myfs!All, M!All, Myfs!LinksOfNew, M!LinksOfNew

LEMMA MyfsStep == [Myfs!Next]_Myfs!myfs_vars => [M!Next]_M!myfs_vars
  BY DEF Myfs!Next, M!Next, Myfs!All, M!All, Myfs!LinksOfNew, M!LinksOfNew, M!myfs_vars, Myfs!myfs_vars,
   M!Create, Myfs!Create, M!Mkdir, Myfs!Mkdir, M!Mknod, Myfs!Mknod, M!Entries, Myfs!Entries, M!SubDirs, Myfs!SubDirs,
   M!Linked, Myfs!Linked, M!IsEmpty, Myfs!IsEmpty, M!Dir, Myfs!Dir, M!Put, Myfs!Put, M!Closed, Myfs!Closed, M!Above, Myfs!Above,
   M!SimpleLink, Myfs!SimpleLink, M!SimpleUnlink, Myfs!SimpleUnlink, M!SimpleRmdir, Myfs!SimpleRmdir,
   M!RenameLinks, Myfs!RenameLinks, M!SimpleRename, Myfs!SimpleRename, M!Open, Myfs!Open, M!Close, Myfs!Close, M!Evict, Myfs!Evict

\* Both count with the same operator.
LEMMA CountMyfs == \A S : M!Cardinality(S) = Myfs!Cardinality(S)
  BY DEF M!Cardinality, Myfs!Cardinality

\* And they mean the same by exact link counts, and by the types.
LEMMA MyfsMeans == M!MyfsInv => Myfs!LinksExact /\ Myfs!TypeOK
<1>1. \A i : M!Entries(i) = Myfs!Entries(i) /\ M!SubDirs(i) = Myfs!SubDirs(i)
  BY DEF Myfs!All, M!All, M!Entries, Myfs!Entries, M!SubDirs, Myfs!SubDirs
<1>2. \A i : M!Linked(i) <=> Myfs!Linked(i)
  BY <1>1 DEF M!Linked, Myfs!Linked
<1>3. M!LinksExact => Myfs!LinksExact
  BY <1>1, <1>2, CountMyfs DEF M!LinksExact, Myfs!LinksExact, Myfs!All, M!All
<1>4. M!TypeOK => Myfs!TypeOK
  BY DEF M!TypeOK, Myfs!TypeOK, M!All, Myfs!All
<1> QED BY <1>3, <1>4 DEF M!MyfsInv

-----------------------------------------------------------------------------
(* The five side by side.  A step of one is a stutter of the others, and   *)
(* LabsAssumption is what each of them needs.                              *)


\* What the proofs above assume of their constants.
LEMMA LabsConstants ==
  Sizes /\ Parameters /\ Zero \notin Addresses /\ M!Finite /\ M!Apart
<1>1. Sizes /\ Parameters /\ Zero \notin Addresses
  BY LabsAssumption DEF Sizes, Parameters
<1>2. M!Finite /\ M!Apart
  <2>1. \A S : IsFiniteSet(S) => M!IsFiniteSet(S)
    BY Zenon DEF IsFiniteSet, M!IsFiniteSet
  <2> QED BY <2>1, LabsAssumption DEF M!Finite, M!Apart
<1> QED BY <1>1, <1>2

\* Each of the five, seen by itself, behaves as its own module says.
LEMMA LabsParts ==
  Spec => /\ Kthread!Spec /\ Filter!Spec /\ So2Cdev!Spec
          /\ RamDisk!Init /\ [][RamDisk!Next]_RamDisk!ram_disk_vars
          /\ M!Init /\ [][M!Next]_M!myfs_vars
<1>1. Init => Kthread!Init /\ Filter!Init /\ So2Cdev!Init /\ RamDisk!Init /\ M!Init
  BY MyfsFirst DEF Init
<1>2. ASSUME [Next]_vars
      PROVE  /\ [Kthread!Next]_Kthread!kthread_vars /\ [Filter!Next]_Filter!filter_vars
             /\ [So2Cdev!Next]_So2Cdev!so2_cdev_vars
             /\ [RamDisk!Next]_RamDisk!ram_disk_vars /\ [M!Next]_M!myfs_vars
  <2> USE <1>2 DEF Next, vars, NotKthread, NotFilter, NotSo2Cdev, NotRamDisk, NotMyfs
  <2>1. [Kthread!Next]_Kthread!kthread_vars
    BY DEF Kthread!kthread_vars
  <2>2. [Filter!Next]_Filter!filter_vars
    BY DEF Filter!filter_vars
  <2>3. [So2Cdev!Next]_So2Cdev!so2_cdev_vars
    BY DEF So2Cdev!so2_cdev_vars
  <2>4. [RamDisk!Next]_RamDisk!ram_disk_vars
    BY DEF RamDisk!ram_disk_vars
  <2>5. [Myfs!Next]_Myfs!myfs_vars
    BY DEF Myfs!myfs_vars
  <2> QED BY <2>1, <2>2, <2>3, <2>4, <2>5, MyfsStep
<1> QED BY <1>1, <1>2, PTL DEF Spec, Kthread!Spec, Filter!Spec, So2Cdev!Spec

\* The types of the five.
THEOREM LabsTypes == Spec => []TypeOK
<1>1. KthreadInv /\ FilterInv => Kthread!TypeOK /\ Filter!TypeOK
  BY DEF KthreadInv, FilterInv
<1>2. OneInv /\ SizeInv => So2Cdev!TypeOK
  <2> SUFFICES ASSUME OneInv, SizeInv PROVE So2Cdev!TypeOK
    OBVIOUS
  <2>1. accessed \in {0, 1} /\ holders \in [Files -> SUBSET Users]
    BY DEF OneInv, OpenInv, HoldersInv
  <2>2. size \in Int /\ (\A f \in Files : pos[f] \in Int) /\ astray \in BOOLEAN
    BY DEF SizeInv, CallInv
  <2>3. \A u \in Users : call[u].step \in {"none", "read", "write", "add", "end"}
    BY DEF SizeInv, CallInv, So2Cdev!NoCall, CdevCall, CdevAdding
  <2> QED BY <2>1, <2>2, <2>3 DEF So2Cdev!TypeOK
<1>3. So2Cdev!Spec => []OneInv
  BY OneInit, OneStep, PTL DEF So2Cdev!Spec
<1>4. So2Cdev!Spec => []SizeInv
  BY LabsConstants, SizeInit, SizeStep, PTL DEF So2Cdev!Spec
<1>5. Filter!Spec => []FilterInv
  BY LabsConstants, FilterFirst, FilterStep, PTL DEF Filter!Spec
<1>6. RamDisk!Init /\ [][RamDisk!Next]_RamDisk!ram_disk_vars => []RamDisk!TypeOK
  BY LabsConstants, RamDiskTypes
<1>7. M!Init /\ [][M!Next]_M!myfs_vars => []M!MyfsInv
  BY LabsConstants, M!MyfsAlways
<1>8. Kthread!TypeOK /\ RamDisk!TypeOK /\ So2Cdev!TypeOK /\ Filter!TypeOK /\ Myfs!TypeOK
        => TypeOK
  BY DEF TypeOK
<1> QED BY <1>1, <1>2, <1>3, <1>4, <1>5, <1>6, <1>7, <1>8, LabsParts, KthreadAlways, MyfsMeans, PTL

\* The kernel thread has told kthread_exit that it is over before the module
\* goes, unless a signal has ended the wait (kthread.c:67 to 77).
THEOREM ToldBeforeGoneAlways == Spec => []ToldBeforeGone
  BY LabsParts, ThreadToldFirst, PTL DEF ToldBeforeGone

\* so2_cdev has at most one open file, and its access counter counts it.
THEOREM OneFileAlways == Spec => []OneFile
  BY LabsParts, CdevOneFile, PTL DEF OneFile

\* Until an addition to data->size is lost, or a write begins past the
\* buffer, no position is past the size, and no read that starts at one.
THEOREM OffsetInSizeAlways == Spec => []OffsetInSize
  BY LabsParts, LabsConstants, CdevOffsetInSize, PTL DEF OffsetInSize

\* What the hook reports is a SYN to an address that was asked for, or came
\* before any was; what it passes over was not the only one asked for.
THEOREM ReportsRightAlways == Spec => []ReportsRight
  BY LabsParts, LabsConstants, HookReportsRight, PTL DEF ReportsRight

\* The link count of every inode of myfs is the number of its entries, and of
\* a directory its own and those of its subdirectories as well.
THEOREM LinksExactAlways == Spec => []LinksExact
<1>1. M!Init /\ [][M!Next]_M!myfs_vars => []M!MyfsInv
  BY LabsConstants, M!MyfsAlways
<1> QED BY <1>1, LabsParts, MyfsMeans, PTL DEF LinksExact

\* However bios are merged and requests ordered, the RAM disk does what
\* DiskStore promises (ram-disk.c:80 to 138).
THEOREM ImplementsDiskHolds == Spec => ImplementsDisk
  BY LabsParts, LabsConstants, ServesBios, PTL DEF ImplementsDisk
=============================================================================
