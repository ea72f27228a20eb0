----------------------------- MODULE KbdProofs ------------------------------
(***************************************************************************)
(* Proofs about Kbd, for every number of threads and CPUs, every buffer    *)
(* size and every width of size_t that is a multiple of it.                *)
(***************************************************************************)
EXTENDS Kbd, SequenceTheorems, TLAPS

-----------------------------------------------------------------------------
(* Arithmetic of the ring.                                                 *)

\* An index moved on by one modulo n stays an index.
LEMMA NextIndex ==
  ASSUME NEW n \in Nat \ {0}, NEW i \in 0..(n - 1)
  PROVE  (i + 1) % n = (IF i = n - 1 THEN 0 ELSE i + 1)
  OBVIOUS

\* And moved back by one.
LEMMA PreviousIndex ==
  ASSUME NEW n \in Nat \ {0}, NEW i \in 0..(n - 1)
  PROVE  (i + n - 1) % n = (IF i = 0 THEN n - 1 ELSE i - 1)
  OBVIOUS

\* The integers that n divides are its multiples.
LEMMA Multiple ==
  ASSUME NEW n \in Nat \ {0}, NEW x \in Int
  PROVE  (x % n = 0) <=> \E k \in Int : x = k * n
<1>1. ASSUME x % n = 0 PROVE \E k \in Int : x = k * n
  <2>1. x \div n \in Int /\ x = (x \div n) * n
    BY <1>1
  <2> QED BY <2>1
<1>2. ASSUME NEW k \in Int, x = k * n PROVE x % n = 0
  <2>1. (k * n) % n = 0
    OBVIOUS
  <2> QED BY <1>2, <2>1
<1> QED BY <1>1, <1>2

\* Multiples of n stay multiples when a multiple is added.
LEMMA MultiplePlus ==
  ASSUME NEW n \in Nat \ {0}, NEW x \in Int, NEW y \in Int,
         x % n = 0, y % n = 0
  PROVE  (x + y) % n = 0 /\ (x - y) % n = 0
<1>1. PICK j \in Int : x = j * n
  BY Multiple
<1>2. PICK k \in Int : y = k * n
  BY Multiple
<1>3. x + y = (j + k) * n /\ x - y = (j - k) * n
  BY <1>1, <1>2
<1>4. \E m \in Int : x + y = m * n
  <2>1. j + k \in Int
    OBVIOUS
  <2> QED BY ONLY <1>3, <2>1
<1>5. \E m \in Int : x - y = m * n
  <2>1. j - k \in Int
    OBVIOUS
  <2> QED BY ONLY <1>3, <2>1
<1>6. x + y \in Int /\ x - y \in Int
  OBVIOUS
<1>7. (x + y) % n = 0
  BY ONLY <1>4, <1>6, n \in Nat \ {0}, Multiple
<1>8. (x - y) % n = 0
  BY ONLY <1>5, <1>6, n \in Nat \ {0}, Multiple
<1> QED BY <1>7, <1>8

-----------------------------------------------------------------------------
(* Types.                                                                  *)

LEMMA CharsOfScancodes == \A s \in 0..255 : get_ascii(s) \in Chars
  BY DEF Chars

\* A thread that is about to take a character has one left to take: what
\* keeps size from wrapping below zero.
SizeInv ==
  \A t \in Threads :
    op[t] = "read" /\ pc[t] \in {"want", "spin", "crit"} => size[t] > 0

TypeInv == TypeOK /\ SizeInv

LEMMA TypeInit == Init => TypeInv
  BY SizeAssumption, InputAssumption DEF Init, TypeInv, TypeOK, SizeInv

LEMMA TypeHandler ==
  ASSUME TypeInv, HandlerStep
  PROVE  TypeInv'
<1> USE SizeAssumption, InputAssumption DEF TypeInv, TypeOK, SizeInv, dev, irq, thr
<1>2. CASE IgnoreRelease
  BY <1>2 DEF IgnoreRelease, HandlerReturn
<1>3. CASE DropChar
  BY <1>3 DEF DropChar, HandlerReturn
<1>4. CASE AdmitChar
  BY <1>4 DEF AdmitChar
<1>5. CASE HandlerLock
  BY <1>5 DEF HandlerLock
<1>6. CASE StoreChar
  <2>1. get_ascii(val) \in Chars
    BY CharsOfScancodes
  <2>2. (put_idx + 1) % BUFFER_SIZE \in 0..(BUFFER_SIZE - 1)
    BY NextIndex
  <2>3. (count + 1) % SizeMod \in 0..(SizeMod - 1)
    BY NextIndex
  <2> QED BY <1>6, <2>1, <2>2, <2>3 DEF StoreChar, HandlerReturn
<1> QED BY <1>2, <1>3, <1>4, <1>5, <1>6 DEF HandlerStep

LEMMA TypeCall ==
  ASSUME TypeInv, NEW t \in Threads, NEW n \in 0..MaxRead,
         BeginRead(t, n) \/ BeginWrite(t) \/ CallStep(t)
  PROVE  TypeInv'
<1> USE SizeAssumption, InputAssumption DEF TypeInv, TypeOK, SizeInv, dev, irq, thr
<1>1. CASE BeginRead(t, n)
  BY <1>1 DEF BeginRead
<1>2. CASE BeginWrite(t)
  BY <1>2 DEF BeginWrite
<1>3. CASE SeeChar(t)
  BY <1>3 DEF SeeChar
<1>4. CASE EndRead(t)
  BY <1>4 DEF EndRead
<1>5. ASSUME NEW c \in Cpus, IrqSave(t, c) PROVE TypeInv'
  BY <1>5 DEF IrqSave
<1>6. CASE Lock(t)
  BY <1>6 DEF Lock
<1>7. CASE TakeChar(t)
  <2>1. (get_idx + 1) % BUFFER_SIZE \in 0..(BUFFER_SIZE - 1)
    BY NextIndex
  <2>2. (count + SizeMod - 1) % SizeMod \in 0..(SizeMod - 1)
    BY PreviousIndex
  <2>3. buf[get_idx] \in Chars \cup {NUL}
    OBVIOUS
  <2>4. TypeOK'
    BY <1>7, <2>1, <2>2, <2>3 DEF TakeChar, UnlockIrqRestore
  <2>5. SizeInv'
    BY <1>7 DEF TakeChar, UnlockIrqRestore
  <2> QED BY <2>4, <2>5
<1>8. CASE ResetBuffer(t)
  BY <1>8 DEF ResetBuffer, UnlockIrqRestore
<1> QED BY <1>1, <1>2, <1>3, <1>4, <1>5, <1>6, <1>7, <1>8 DEF CallStep

LEMMA TypeStep == TypeInv /\ [Next]_vars => TypeInv'
<1> SUFFICES ASSUME TypeInv, [Next]_vars PROVE TypeInv'
  OBVIOUS
<1>1. ASSUME NEW c \in Cpus, NEW scancode \in Scancodes, KeyIrq(c, scancode)
      PROVE  TypeInv'
  BY <1>1, InputAssumption DEF KeyIrq, TypeInv, TypeOK, SizeInv, dev, thr
<1>2. CASE HandlerStep
  BY <1>2, TypeHandler
<1>3. ASSUME NEW t \in Threads, NEW n \in 0..MaxRead, BeginRead(t, n)
      PROVE  TypeInv'
  BY <1>3, TypeCall
<1>4. ASSUME NEW t \in Threads, BeginWrite(t) \/ CallStep(t)
      PROVE  TypeInv'
  <2>1. 0 \in 0..MaxRead
    BY InputAssumption
  <2> QED BY <1>4, <2>1, TypeCall
<1>5. CASE UNCHANGED vars
  BY <1>5 DEF TypeInv, TypeOK, SizeInv, vars, dev, irq, thr
<1> QED BY <1>1, <1>2, <1>3, <1>4, <1>5 DEF Next

\* Every reachable state is well typed: no index leaves the buffer, the count
\* never exceeds a size_t, and kbd_read's size never wraps.
THEOREM TypeCorrect == Spec => []TypeOK
<1>1. Init => TypeInv
  BY TypeInit
<1>2. TypeInv /\ [Next]_vars => TypeInv'
  BY TypeStep
<1>3. TypeInv => TypeOK
  BY DEF TypeInv
<1> QED BY <1>1, <1>2, <1>3, PTL DEF Spec

-----------------------------------------------------------------------------
(* Mutual exclusion, and the CPU of the lock's owner.                      *)

\* The owner of buf_lock is the one in its critical section.
LockInv ==
  /\ \A t \in Threads : buf_lock = t <=> pc[t] = "crit"
  /\ buf_lock = Handler <=> hpc = "crit"

\* A thread holds a CPU from spin_lock_irqsave to spin_unlock_irqrestore, and
\* the handler never runs on such a CPU.
CpuInv ==
  \A t \in Threads :
    /\ cpu[t] \in Cpus <=> pc[t] \in {"spin", "crit"}
    /\ cpu[t] \in Cpus => cpu[t] # hcpu

MutexInv == TypeOK /\ LockInv /\ CpuInv

LEMMA MutexInit == Init => MutexInv
<1> SUFFICES ASSUME Init PROVE MutexInv
  OBVIOUS
<1>1. TypeOK
  BY TypeInit DEF TypeInv
<1>2. LockInv /\ CpuInv
  BY NameAssumption DEF Init, LockInv, CpuInv
<1> QED BY <1>1, <1>2 DEF MutexInv

LEMMA MutexStep == MutexInv /\ TypeOK' /\ [Next]_vars => MutexInv'
<1> SUFFICES ASSUME MutexInv, TypeOK', [Next]_vars PROVE LockInv' /\ CpuInv'
  BY DEF MutexInv
<1> USE NameAssumption DEF MutexInv, TypeOK, LockInv, CpuInv, dev, irq, thr
<1>1. ASSUME NEW c \in Cpus, NEW scancode \in Scancodes, KeyIrq(c, scancode)
      PROVE  LockInv' /\ CpuInv'
  BY <1>1 DEF KeyIrq, IrqsOn
<1>2. CASE IgnoreRelease
  BY <1>2 DEF IgnoreRelease, HandlerReturn
<1>3. CASE DropChar
  BY <1>3 DEF DropChar, HandlerReturn
<1>4. CASE AdmitChar
  BY <1>4 DEF AdmitChar
<1>5. CASE HandlerLock
  BY <1>5 DEF HandlerLock
<1>6. CASE StoreChar
  BY <1>6 DEF StoreChar, HandlerReturn
<1>7. ASSUME NEW t \in Threads, NEW n \in 0..MaxRead, BeginRead(t, n)
      PROVE  LockInv' /\ CpuInv'
  BY <1>7 DEF BeginRead
<1>8. ASSUME NEW t \in Threads, BeginWrite(t)
      PROVE  LockInv' /\ CpuInv'
  BY <1>8 DEF BeginWrite
<1>9. ASSUME NEW t \in Threads, SeeChar(t)
      PROVE  LockInv' /\ CpuInv'
  BY <1>9 DEF SeeChar
<1>10. ASSUME NEW t \in Threads, EndRead(t)
       PROVE  LockInv' /\ CpuInv'
  BY <1>10 DEF EndRead
<1>11. ASSUME NEW t \in Threads, NEW c \in Cpus, IrqSave(t, c)
       PROVE  LockInv' /\ CpuInv'
  BY <1>11 DEF IrqSave, Runnable
<1>12. ASSUME NEW t \in Threads, Lock(t)
       PROVE  LockInv' /\ CpuInv'
  BY <1>12 DEF Lock
<1>13. ASSUME NEW t \in Threads, TakeChar(t)
       PROVE  LockInv' /\ CpuInv'
  BY <1>13 DEF TakeChar, UnlockIrqRestore
<1>14. ASSUME NEW t \in Threads, ResetBuffer(t)
       PROVE  LockInv' /\ CpuInv'
  BY <1>14 DEF ResetBuffer, UnlockIrqRestore
<1>15. CASE UNCHANGED vars
  BY <1>15 DEF vars
<1> QED
  BY <1>1, <1>2, <1>3, <1>4, <1>5, <1>6, <1>7, <1>8, <1>9, <1>10, <1>11,
     <1>12, <1>13, <1>14, <1>15 DEF Next, HandlerStep, CallStep

\* buf_lock is held by the one thread or handler in its critical section, and
\* on a CPU where the handler does not run.
THEOREM MutualExclusion == Spec => []MutexInv
<1>1. Init => MutexInv
  BY MutexInit
<1>2. MutexInv /\ TypeOK' /\ [Next]_vars => MutexInv'
  BY MutexStep
<1> QED BY <1>1, <1>2, TypeCorrect, PTL DEF Spec

\* However many threads use the device, the handler never spins on a CPU whose
\* interrupted code holds the lock.
THEOREM NoHandlerDeadlock == Spec => []NoSelfDeadlock
<1>1. MutexInv => NoSelfDeadlock
  BY NameAssumption DEF MutexInv, TypeOK, LockInv, CpuInv, NoSelfDeadlock
<1> QED BY <1>1, MutualExclusion, PTL

-----------------------------------------------------------------------------
(* The count and the indices.                                              *)

\* The critical section of put_char, without the modulo.
LEMMA StoreCharAdvances ==
  ASSUME TypeOK, StoreChar
  PROVE  /\ put_idx' = (IF put_idx = BUFFER_SIZE - 1 THEN 0 ELSE put_idx + 1)
         /\ count' = (IF count = SizeMod - 1 THEN 0 ELSE count + 1)
         /\ get_idx' = get_idx
<1>1. BUFFER_SIZE \in Nat \ {0} /\ SizeMod \in Nat \ {0}
  BY SizeAssumption
<1>2. put_idx \in 0..(BUFFER_SIZE - 1) /\ count \in 0..(SizeMod - 1)
  BY DEF TypeOK
<1>3. /\ put_idx' = (put_idx + 1) % BUFFER_SIZE
      /\ count' = (count + 1) % SizeMod
      /\ get_idx' = get_idx
  BY DEF StoreChar
<1>4. (put_idx + 1) % BUFFER_SIZE = (IF put_idx = BUFFER_SIZE - 1 THEN 0 ELSE put_idx + 1)
  BY ONLY <1>1, <1>2, NextIndex
<1>5. (count + 1) % SizeMod = (IF count = SizeMod - 1 THEN 0 ELSE count + 1)
  BY ONLY <1>1, <1>2, NextIndex
<1> QED BY ONLY <1>3, <1>4, <1>5

\* The critical section of get_char, without the modulo.
LEMMA TakeCharAdvances ==
  ASSUME TypeOK, NEW t \in Threads, TakeChar(t)
  PROVE  /\ get_idx' = (IF get_idx = BUFFER_SIZE - 1 THEN 0 ELSE get_idx + 1)
         /\ count' = (IF count = 0 THEN SizeMod - 1 ELSE count - 1)
         /\ put_idx' = put_idx
<1>1. BUFFER_SIZE \in Nat \ {0} /\ SizeMod \in Nat \ {0}
  BY SizeAssumption
<1>2. get_idx \in 0..(BUFFER_SIZE - 1) /\ count \in 0..(SizeMod - 1)
  BY DEF TypeOK
<1>3. /\ get_idx' = (get_idx + 1) % BUFFER_SIZE
      /\ count' = (count + SizeMod - 1) % SizeMod
      /\ put_idx' = put_idx
  BY DEF TakeChar
<1>4. (get_idx + 1) % BUFFER_SIZE = (IF get_idx = BUFFER_SIZE - 1 THEN 0 ELSE get_idx + 1)
  BY ONLY <1>1, <1>2, NextIndex
<1>5. (count + SizeMod - 1) % SizeMod = (IF count = 0 THEN SizeMod - 1 ELSE count - 1)
  BY ONLY <1>1, <1>2, PreviousIndex
<1> QED BY ONLY <1>3, <1>4, <1>5

LEMMA IndexStep == TypeOK /\ IndexAgreement /\ [Next]_vars => IndexAgreement'
<1> SUFFICES ASSUME TypeOK, IndexAgreement, [Next]_vars PROVE IndexAgreement'
  OBVIOUS
<1> DEFINE d == count - put_idx + get_idx
<1>1. BUFFER_SIZE \in Nat \ {0} /\ SizeMod \in Nat \ {0}
  BY SizeAssumption
<1>2. d \in Int /\ d % BUFFER_SIZE = 0
  BY <1>1 DEF TypeOK, IndexAgreement
<1>3. /\ 0 % BUFFER_SIZE = 0
      /\ BUFFER_SIZE % BUFFER_SIZE = 0
      /\ SizeMod % BUFFER_SIZE = 0
  BY SizeAssumption
<1>4. ASSUME NEW x \in {0, SizeMod}, NEW y \in {0, BUFFER_SIZE}
      PROVE  (d - x + y) % BUFFER_SIZE = 0 /\ ((d + x) - y) % BUFFER_SIZE = 0
  <2>1. x \in Int /\ y \in Int /\ x % BUFFER_SIZE = 0 /\ y % BUFFER_SIZE = 0
    BY <1>1, <1>3
  <2>2. d - x \in Int /\ (d - x) % BUFFER_SIZE = 0
    BY ONLY <1>1, <1>2, <2>1, MultiplePlus
  <2>3. d + x \in Int /\ (d + x) % BUFFER_SIZE = 0
    BY ONLY <1>1, <1>2, <2>1, MultiplePlus
  <2>4. (d - x + y) % BUFFER_SIZE = 0
    BY ONLY <1>1, <2>1, <2>2, MultiplePlus
  <2>5. ((d + x) - y) % BUFFER_SIZE = 0
    BY ONLY <1>1, <2>1, <2>3, MultiplePlus
  <2> QED BY ONLY <2>4, <2>5
<1>5. CASE StoreChar
  <2> DEFINE x == IF count = SizeMod - 1 THEN SizeMod ELSE 0
             y == IF put_idx = BUFFER_SIZE - 1 THEN BUFFER_SIZE ELSE 0
  <2>1. x \in {0, SizeMod} /\ y \in {0, BUFFER_SIZE}
    OBVIOUS
  <2>2. /\ put_idx \in Int /\ get_idx \in Int /\ count \in Int
        /\ put_idx' = put_idx + 1 - y
        /\ count' = count + 1 - x
        /\ get_idx' = get_idx
    BY <1>1, <1>5, StoreCharAdvances DEF TypeOK
  <2>3. count' - put_idx' + get_idx' = d - x + y
    BY ONLY <1>1, <2>1, <2>2
  <2>4. (d - x + y) % BUFFER_SIZE = 0
    BY ONLY <1>4, <2>1
  <2> QED BY ONLY <2>3, <2>4 DEF IndexAgreement
<1>6. ASSUME NEW t \in Threads, TakeChar(t) PROVE IndexAgreement'
  <2> DEFINE x == IF count = 0 THEN SizeMod ELSE 0
             y == IF get_idx = BUFFER_SIZE - 1 THEN BUFFER_SIZE ELSE 0
  <2>1. x \in {0, SizeMod} /\ y \in {0, BUFFER_SIZE}
    OBVIOUS
  <2>2. /\ put_idx \in Int /\ get_idx \in Int /\ count \in Int
        /\ get_idx' = get_idx + 1 - y
        /\ count' = count - 1 + x
        /\ put_idx' = put_idx
    BY <1>1, <1>6, TakeCharAdvances DEF TypeOK
  <2>3. count' - put_idx' + get_idx' = (d + x) - y
    BY ONLY <1>1, <2>1, <2>2
  <2>4. ((d + x) - y) % BUFFER_SIZE = 0
    BY ONLY <1>4, <2>1
  <2> QED BY ONLY <2>3, <2>4 DEF IndexAgreement
<1>7. ASSUME NEW t \in Threads, ResetBuffer(t) PROVE IndexAgreement'
  BY <1>7, <1>3 DEF ResetBuffer, IndexAgreement
<1>8. CASE UNCHANGED dev
  BY <1>8 DEF IndexAgreement, dev
<1>9. \/ UNCHANGED dev
      \/ StoreChar
      \/ \E t \in Threads : TakeChar(t) \/ ResetBuffer(t)
  BY DEF Next, HandlerStep, CallStep, KeyIrq, IgnoreRelease, DropChar, AdmitChar,
     HandlerLock, BeginRead, BeginWrite, SeeChar, EndRead, IrqSave, Lock, vars
<1> QED BY <1>5, <1>6, <1>7, <1>8, <1>9

\* Whatever the interleaving of handler, readers and writers, and even once the
\* count has wrapped, it is the distance between the indices modulo the size.
THEOREM IndicesAgree == Spec => []IndexAgreement
<1>1. Init => IndexAgreement
  BY SizeAssumption DEF Init, IndexAgreement
<1>2. TypeOK /\ IndexAgreement /\ [Next]_vars => IndexAgreement'
  BY IndexStep
<1> QED BY <1>1, <1>2, TypeCorrect, PTL DEF Spec

-----------------------------------------------------------------------------
(* The count and the buffer, as long as no read takes a character from an  *)
(* empty one.                                                              *)

\* A step stores a character for a reader only if the buffer has some.
Fed == \A t \in Threads : Len(ubuf'[t]) > Len(ubuf[t]) => count > 0

\* The handler's test of the count, outside the lock, still holds in its
\* critical section: others only take.
RoomInv == CountBound /\ (hpc \in {"spin", "crit"} => count < BUFFER_SIZE)

\* What a reader takes is in the buffer.
LEMMA TakeFed ==
  ASSUME TypeOK, Fed, NEW t \in Threads, TakeChar(t)
  PROVE  count > 0
<1>1. ubuf[t] \in Seq(Chars \cup {NUL}) /\ ubuf'[t] = Append(ubuf[t], buf[get_idx])
  BY DEF TypeOK, TakeChar
<1>2. Len(ubuf'[t]) = Len(ubuf[t]) + 1 /\ Len(ubuf[t]) \in Nat
  BY <1>1
<1> QED BY <1>2 DEF Fed

\* A step changes the buffer in one of three ways, or not at all.
LEMMA DevSteps ==
  ASSUME [Next]_vars
  PROVE  UNCHANGED dev \/ StoreChar \/ \E t \in Threads : TakeChar(t) \/ ResetBuffer(t)
BY DEF Next, HandlerStep, CallStep, KeyIrq, IgnoreRelease, DropChar, AdmitChar,
   HandlerLock, BeginRead, BeginWrite, SeeChar, EndRead, IrqSave, Lock, vars

\* Adding and taking keep the count within the buffer.
LEMMA RoomStep == TypeOK /\ RoomInv /\ Fed /\ [Next]_vars => RoomInv'
<1> SUFFICES ASSUME TypeOK, RoomInv, Fed, [Next]_vars PROVE RoomInv'
  OBVIOUS
<1> USE SizeAssumption DEF RoomInv, CountBound
<1>1. count \in 0..(SizeMod - 1)
  BY DEF TypeOK
<1>2. CASE StoreChar
  <2>1. count' = count + 1
    BY <1>2, StoreCharAdvances DEF StoreChar
  <2> QED BY <1>1, <1>2, <2>1 DEF StoreChar, HandlerReturn
<1>3. ASSUME NEW t \in Threads, TakeChar(t) PROVE RoomInv'
  <2>1. count' = count - 1
    BY <1>3, TakeFed, TakeCharAdvances
  <2> QED BY <1>1, <1>3, <2>1 DEF TakeChar, irq
<1>4. ASSUME NEW t \in Threads, ResetBuffer(t) PROVE RoomInv'
  BY <1>4 DEF ResetBuffer, irq
<1>5. CASE UNCHANGED dev
  <2>1. count' = count
    BY <1>5 DEF dev
  <2>2. hpc' \in {"spin", "crit"} => hpc \in {"spin", "crit"} \/ count < BUFFER_SIZE
    BY <1>5 DEF Next, HandlerStep, CallStep, KeyIrq, IgnoreRelease, DropChar, AdmitChar,
       HandlerLock, StoreChar, HandlerReturn, BeginRead, BeginWrite, SeeChar, EndRead,
       IrqSave, Lock, TakeChar, ResetBuffer, vars, irq
  <2> QED BY <2>1, <2>2
<1> QED BY <1>2, <1>3, <1>4, <1>5, DevSteps

\* However many threads use the device, its count exceeds the buffer only after
\* a read has taken a character from an empty one: until then put_char never
\* overwrites a character that has not been read (kbd.c:74 and 79).
THEOREM FedCountBound == Spec /\ NoPhantomChar => []CountBound
<1>1. Init => RoomInv
  BY SizeAssumption DEF Init, RoomInv, CountBound
<1>2. TypeOK /\ RoomInv /\ [Next]_vars /\ [Fed]_vars => RoomInv'
  <2>1. CASE UNCHANGED vars
    BY <2>1 DEF vars, dev, irq, RoomInv, CountBound
  <2> QED BY <2>1, RoomStep
<1>3. RoomInv => CountBound
  BY DEF RoomInv
<1> QED BY <1>1, <1>2, <1>3, TypeCorrect, PTL DEF Spec, NoPhantomChar, Fed

-----------------------------------------------------------------------------
(* Reads that no other call overlaps.                                      *)

\* While a thread is in read, every other is in no call.
ReadsAlone ==
  \A t, u \in Threads : t # u /\ pc[t] # "idle" /\ op[t] = "read" => pc[u] = "idle"

\* What the tests of the count outside the lock have established still holds
\* in the critical section: the handler only adds, and only the reader takes.
SeenInv ==
  /\ RoomInv
  /\ \A t \in Threads : op[t] = "read" /\ pc[t] \in {"want", "spin", "crit"} => count > 0

\* Then every step is fed, and the next one will be.
LEMMA SeenStep ==
  ASSUME TypeOK, SeenInv, ReadsAlone, [Next]_vars
  PROVE  Fed /\ SeenInv'
<1>1. Fed
  <2> SUFFICES ASSUME NEW t \in Threads, Len(ubuf'[t]) > Len(ubuf[t]) PROVE count > 0
    BY DEF Fed
  <2>1. ubuf \in [Threads -> Seq(Chars \cup {NUL})]
    BY DEF TypeOK
  <2>2. ubuf'[t] # ubuf[t]
    BY <2>1
  <2>3. ASSUME NEW u \in Threads, NEW n \in 0..MaxRead, BeginRead(u, n) PROVE FALSE
    <3>1. ubuf'[t] = <<>>
      BY <2>1, <2>2, <2>3 DEF BeginRead
    <3> QED BY <2>1, <3>1
  <2>4. PICK u \in Threads : TakeChar(u)
    BY <2>2, <2>3 DEF Next, HandlerStep, CallStep, KeyIrq, IgnoreRelease, DropChar,
       AdmitChar, HandlerLock, StoreChar, BeginWrite, SeeChar, EndRead, IrqSave,
       Lock, ResetBuffer, vars, thr
  <2> QED BY <2>4 DEF TakeChar, SeenInv
<1>2. RoomInv'
  BY <1>1, RoomStep DEF SeenInv
<1>3. ASSUME NEW t \in Threads, op'[t] = "read", pc'[t] \in {"want", "spin", "crit"}
      PROVE  count' > 0
  <2> USE DEF TypeOK
  <2>1. CASE StoreChar
    <3>1. count > 0 /\ count < BUFFER_SIZE
      BY <1>3, <2>1 DEF StoreChar, thr, SeenInv, RoomInv
    <3> QED BY <2>1, <3>1, StoreCharAdvances, SizeAssumption
  <2>2. ASSUME NEW u \in Threads, TakeChar(u) \/ ResetBuffer(u) PROVE FALSE
    <3>1. t # u /\ pc[t] = pc'[t] /\ op[t] = op'[t] /\ pc[u] = "crit"
      BY <1>3, <2>2 DEF TakeChar, ResetBuffer, UnlockIrqRestore
    <3> QED BY <1>3, <3>1 DEF ReadsAlone
  <2>3. CASE UNCHANGED dev
    <3>1. count' = count
      BY <2>3 DEF dev
    <3>2. \/ op[t] = "read" /\ pc[t] \in {"want", "spin", "crit"}
          \/ SeeChar(t)
      BY <1>3, <2>2 DEF Next, HandlerStep, CallStep, KeyIrq, IgnoreRelease, DropChar, AdmitChar,
         HandlerLock, StoreChar, BeginRead, BeginWrite, SeeChar, EndRead, IrqSave, Lock,
         vars, thr
    <3> QED BY <3>1, <3>2 DEF SeeChar, SeenInv
  <2> QED BY <2>1, <2>2, <2>3, DevSteps
<1> QED BY <1>1, <1>2, <1>3 DEF SeenInv

\* Reads that no other call overlaps never take a character from an empty
\* buffer.
THEOREM AloneNoPhantom == Spec /\ []ReadsAlone => NoPhantomChar
<1>1. Init => SeenInv
  BY SizeAssumption DEF Init, SeenInv, RoomInv, CountBound
<1>2. TypeOK /\ SeenInv /\ ReadsAlone /\ [Next]_vars => SeenInv' /\ [Fed]_vars
  BY SeenStep
<1> QED BY <1>1, <1>2, TypeCorrect, PTL DEF Spec, NoPhantomChar, Fed

\* With one thread on the device there is no other call.
LEMMA SingleAlone == ASSUME NEW u, Threads = {u} PROVE ReadsAlone
  BY DEF ReadsAlone

\* So with one thread a read never takes a character from an empty buffer.
THEOREM SingleNoPhantom ==
  ASSUME NEW u, Threads = {u}
  PROVE  Spec => NoPhantomChar
<1>1. ReadsAlone
  BY SingleAlone
<1> QED BY <1>1, AloneNoPhantom, PTL

\* And the count never exceeds the buffer, so that put_char never overwrites a
\* character that has not been read.
THEOREM SingleCountBound ==
  ASSUME NEW u, Threads = {u}
  PROVE  Spec => []CountBound
  BY SingleNoPhantom, FedCountBound, PTL

-----------------------------------------------------------------------------
(* The ring as a sequence.                                                *)

\* Where the index is that lies k places after i in a ring of n.
After(n, i, k) == IF i + k < n THEN i + k ELSE i + k - n

\* What the modulo of the code computes.
LEMMA RingIndex ==
  ASSUME NEW n \in Nat \ {0}, NEW i \in 0..(n - 1), NEW k \in 0..n
  PROVE  (i + k) % n = After(n, i, k)
  BY DEF After

\* The n characters of b from index g on.
Ring(b, g, n) == [i \in 1..n |-> b[After(BUFFER_SIZE, g, i - 1)]]

\* They are a sequence of n characters.
LEMMA RingSeq ==
  ASSUME NEW S, NEW b \in [0..(BUFFER_SIZE - 1) -> S],
         NEW g \in 0..(BUFFER_SIZE - 1), NEW n \in 0..BUFFER_SIZE
  PROVE  /\ Ring(b, g, n) \in Seq(S) /\ Len(Ring(b, g, n)) = n
         /\ \A i \in 1..n : Ring(b, g, n)[i] = b[After(BUFFER_SIZE, g, i - 1)]
<1>1. \A i \in 1..n : After(BUFFER_SIZE, g, i - 1) \in 0..(BUFFER_SIZE - 1)
  BY SizeAssumption DEF After
<1>2. n \in Nat /\ Ring(b, g, n) \in [1..n -> S]
  BY <1>1, SizeAssumption DEF Ring
<1>3. Ring(b, g, n) \in Seq(S) /\ Len(Ring(b, g, n)) = n
  BY <1>2
<1> QED BY <1>3 DEF Ring

\* A character put behind the last one is appended.
LEMMA RingAppend ==
  ASSUME NEW S, NEW b \in [0..(BUFFER_SIZE - 1) -> S], NEW c \in S,
         NEW g \in 0..(BUFFER_SIZE - 1), NEW n \in 0..(BUFFER_SIZE - 1)
  PROVE  Ring([b EXCEPT ![After(BUFFER_SIZE, g, n)] = c], g, n + 1) = Append(Ring(b, g, n), c)
<1> DEFINE p  == After(BUFFER_SIZE, g, n)
           b1 == [b EXCEPT ![p] = c]
           s  == Ring(b, g, n)
           s1 == Ring(b1, g, n + 1)
<1>1. n \in 0..BUFFER_SIZE /\ n + 1 \in 0..BUFFER_SIZE /\ n \in Nat
  BY SizeAssumption
<1>2. p \in 0..(BUFFER_SIZE - 1)
  BY SizeAssumption DEF After
<1>3. \A i \in 1..n : /\ After(BUFFER_SIZE, g, i - 1) \in 0..(BUFFER_SIZE - 1)
                      /\ After(BUFFER_SIZE, g, i - 1) # p
  BY SizeAssumption DEF After
<1> HIDE DEF p
<1>4. /\ b1 \in [0..(BUFFER_SIZE - 1) -> S] /\ b1[p] = c
      /\ \A i \in 0..(BUFFER_SIZE - 1) : i # p => b1[i] = b[i]
  BY <1>2
<1> HIDE DEF b1
<1>5. s \in Seq(S) /\ Len(s) = n /\ \A i \in 1..n : s[i] = b[After(BUFFER_SIZE, g, i - 1)]
  BY <1>1, RingSeq
<1>6. /\ s1 \in Seq(S) /\ Len(s1) = n + 1
      /\ \A i \in 1..(n + 1) : s1[i] = b1[After(BUFFER_SIZE, g, i - 1)]
  BY <1>1, <1>4, RingSeq
<1> HIDE DEF s, s1
<1>7. \A i \in 1..n : s1[i] = s[i]
  BY <1>1, <1>3, <1>4, <1>5, <1>6
<1>8. s1[n + 1] = c
  BY <1>1, <1>4, <1>6 DEF p
<1>9. /\ Append(s, c) \in Seq(S) /\ Len(Append(s, c)) = n + 1
      /\ \A i \in 1..n : Append(s, c)[i] = s[i]
      /\ Append(s, c)[n + 1] = c
  BY <1>5, AppendProperties
<1>10. \A i \in 1..Len(s1) : s1[i] = Append(s, c)[i]
  <2> SUFFICES ASSUME NEW i \in 1..(n + 1) PROVE s1[i] = Append(s, c)[i]
    BY <1>6
  <2>1. CASE i = n + 1
    BY <2>1, <1>8, <1>9
  <2>2. CASE i \in 1..n
    BY <2>2, <1>7, <1>9
  <2>3. i = n + 1 \/ i \in 1..n
    BY <1>1
  <2> QED BY <2>1, <2>2, <2>3
<1>11. s1 = Append(s, c)
  BY <1>6, <1>9, <1>10, SeqEqual
<1> QED BY <1>11 DEF s, s1, b1, p

\* The first character leaves the others.
LEMMA RingTail ==
  ASSUME NEW S, NEW b \in [0..(BUFFER_SIZE - 1) -> S],
         NEW g \in 0..(BUFFER_SIZE - 1), NEW n \in 1..BUFFER_SIZE
  PROVE  /\ Ring(b, g, n) # <<>>
         /\ Head(Ring(b, g, n)) = b[g]
         /\ Tail(Ring(b, g, n)) = Ring(b, After(BUFFER_SIZE, g, 1), n - 1)
<1> DEFINE g1 == After(BUFFER_SIZE, g, 1)
           s  == Ring(b, g, n)
           s1 == Ring(b, g1, n - 1)
<1>1. /\ g1 \in 0..(BUFFER_SIZE - 1)
      /\ \A i \in 1..(n - 1) : After(BUFFER_SIZE, g1, i - 1) = After(BUFFER_SIZE, g, i)
      /\ After(BUFFER_SIZE, g, 0) = g
  BY SizeAssumption DEF After
<1>2. n \in 0..BUFFER_SIZE /\ n - 1 \in 0..BUFFER_SIZE /\ n \in Nat
  BY SizeAssumption
<1> HIDE DEF g1
<1>3. s \in Seq(S) /\ Len(s) = n /\ \A i \in 1..n : s[i] = b[After(BUFFER_SIZE, g, i - 1)]
  BY <1>2, RingSeq
<1>4. /\ s1 \in Seq(S) /\ Len(s1) = n - 1
      /\ \A i \in 1..(n - 1) : s1[i] = b[After(BUFFER_SIZE, g1, i - 1)]
  BY <1>1, <1>2, RingSeq
<1> HIDE DEF s, s1
<1>5. s # <<>>
  BY <1>2, <1>3, EmptySeq
<1>6. Head(s) = b[g]
  <2>1. s[1] = b[After(BUFFER_SIZE, g, 0)]
    BY <1>3
  <2>2. Head(s) = s[1]
    BY <1>3, <1>5
  <2> QED BY <2>1, <2>2, <1>1
<1>7. /\ Tail(s) \in Seq(S) /\ Len(Tail(s)) = n - 1
      /\ \A i \in 1..(n - 1) : Tail(s)[i] = s[i + 1]
  BY <1>3, <1>5, HeadTailProperties
<1>8. \A i \in 1..(n - 1) : Tail(s)[i] = s1[i]
  BY <1>1, <1>2, <1>3, <1>4, <1>7
<1>9. Tail(s) = s1
  BY <1>4, <1>7, <1>8, SeqEqual
<1> QED BY <1>5, <1>6, <1>9 DEF s, s1, g1

\* Buffered is such a sequence.
LEMMA BufferedIsRing ==
  ASSUME NEW b, NEW g \in 0..(BUFFER_SIZE - 1), NEW n \in 0..BUFFER_SIZE
  PROVE  [i \in 1..n |-> b[(g + i - 1) % BUFFER_SIZE]] = Ring(b, g, n)
<1> SUFFICES ASSUME NEW i \in 1..n
             PROVE  (g + i - 1) % BUFFER_SIZE = After(BUFFER_SIZE, g, i - 1)
  BY DEF Ring
<1>1. BUFFER_SIZE \in Nat \ {0} /\ i - 1 \in 0..BUFFER_SIZE
  BY SizeAssumption
<1>2. g + i - 1 = g + (i - 1)
  BY <1>1
<1>3. (g + (i - 1)) % BUFFER_SIZE = After(BUFFER_SIZE, g, i - 1)
  BY ONLY <1>1, g \in 0..(BUFFER_SIZE - 1), RingIndex
<1> QED BY ONLY <1>2, <1>3

-----------------------------------------------------------------------------
\* The handler stores only key presses.
PressInv == hpc \in {"spin", "crit"} => is_key_press(val)

\* put_idx lies count places after get_idx.
RingInv == put_idx = After(BUFFER_SIZE, get_idx, count)

\* Only put_char goes on to the lock.
LEMMA PressStep == PressInv /\ [Next]_vars => PressInv'
<1> SUFFICES ASSUME PressInv, [Next]_vars PROVE PressInv'
  OBVIOUS
<1>1. ASSUME NEW c \in Cpus, NEW scancode \in Scancodes, KeyIrq(c, scancode)
      PROVE  PressInv'
  BY <1>1 DEF KeyIrq, PressInv
<1>2. CASE HandlerStep
  BY <1>2 DEF HandlerStep, IgnoreRelease, DropChar, AdmitChar, HandlerLock, StoreChar,
     HandlerReturn, PressInv
<1>3. CASE UNCHANGED irq
  BY <1>3 DEF irq, PressInv
<1>4. \/ UNCHANGED irq
      \/ HandlerStep
      \/ \E c \in Cpus, scancode \in Scancodes : KeyIrq(c, scancode)
  BY DEF Next, CallStep, BeginRead, BeginWrite, SeeChar, EndRead, IrqSave, Lock,
     TakeChar, ResetBuffer, vars, irq
<1> QED BY <1>1, <1>2, <1>3, <1>4

\* As long as the count does not wrap, the indices and it keep in step.
LEMMA RingStep ==
  ASSUME TypeOK, RoomInv, RingInv, Fed, [Next]_vars
  PROVE  RingInv'
<1>1. BUFFER_SIZE \in Nat \ {0} /\ SizeMod \in Nat /\ SizeMod > BUFFER_SIZE
  BY SizeAssumption
<1>2. /\ get_idx \in 0..(BUFFER_SIZE - 1) /\ put_idx \in 0..(BUFFER_SIZE - 1)
      /\ count \in 0..BUFFER_SIZE
  BY DEF TypeOK, RoomInv, CountBound
<1>3. CASE StoreChar
  <2>1. /\ put_idx' = (IF put_idx = BUFFER_SIZE - 1 THEN 0 ELSE put_idx + 1)
        /\ count' = (IF count = SizeMod - 1 THEN 0 ELSE count + 1)
        /\ get_idx' = get_idx /\ count < BUFFER_SIZE
    BY <1>3, StoreCharAdvances DEF StoreChar, RoomInv
  <2> QED BY <1>1, <1>2, <2>1 DEF RingInv, After
<1>4. ASSUME NEW t \in Threads, TakeChar(t) PROVE RingInv'
  <2>1. /\ get_idx' = (IF get_idx = BUFFER_SIZE - 1 THEN 0 ELSE get_idx + 1)
        /\ count' = (IF count = 0 THEN SizeMod - 1 ELSE count - 1)
        /\ put_idx' = put_idx /\ count > 0
    BY <1>4, TakeFed, TakeCharAdvances DEF TakeChar
  <2> QED BY <1>1, <1>2, <2>1 DEF RingInv, After
<1>5. ASSUME NEW t \in Threads, ResetBuffer(t) PROVE RingInv'
  BY <1>1, <1>5 DEF ResetBuffer, RingInv, After
<1>6. CASE UNCHANGED dev
  BY <1>6 DEF dev, RingInv
<1> QED BY <1>3, <1>4, <1>5, <1>6, DevSteps

-----------------------------------------------------------------------------
(* As long as no read takes from an empty buffer the driver is the queue:  *)
(* each step of Kbd is a step of KbdQueue or changes nothing that KbdQueue *)
(* sees.                                                                   *)

\* In the loop of kbd_read the call is a read.
ReadInv == \A t \in Threads : pc[t] = "loop" => op[t] = "read"

\* Only kbd_read enters the loop.
LEMMA ReadStep ==
  ASSUME TypeOK, ReadInv, [Next]_vars
  PROVE  ReadInv'
<1> USE DEF TypeOK, ReadInv
<1>1. CASE UNCHANGED <<pc, op>>
  BY <1>1
<1>2. ASSUME NEW t \in Threads, NEW n \in 0..MaxRead, BeginRead(t, n) PROVE ReadInv'
  BY <1>2 DEF BeginRead
<1>3. ASSUME NEW t \in Threads, BeginWrite(t) PROVE ReadInv'
  BY <1>3 DEF BeginWrite
<1>4. ASSUME NEW t \in Threads, CallStep(t) PROVE ReadInv'
  BY <1>4 DEF CallStep, SeeChar, EndRead, IrqSave, Lock, TakeChar, ResetBuffer,
     UnlockIrqRestore
<1>5. \/ UNCHANGED <<pc, op>>
      \/ \E t \in Threads : BeginWrite(t) \/ CallStep(t) \/ \E n \in 0..MaxRead : BeginRead(t, n)
  BY DEF Next, HandlerStep, KeyIrq, IgnoreRelease, DropChar, AdmitChar, HandlerLock,
     StoreChar, vars, thr
<1> QED BY <1>1, <1>2, <1>3, <1>4, <1>5

\* What the refinement rests on.
QueueInv == TypeInv /\ RoomInv /\ PressInv /\ RingInv /\ ReadInv

\* The queue, before and after a step.
LEMMA QueueBuffered ==
  ASSUME QueueInv, QueueInv'
  PROVE  /\ Buffered = Ring(buf, get_idx, count)
         /\ Buffered' = Ring(buf', get_idx', count')
<1>1. /\ get_idx \in 0..(BUFFER_SIZE - 1) /\ count \in 0..BUFFER_SIZE
      /\ get_idx' \in 0..(BUFFER_SIZE - 1) /\ count' \in 0..BUFFER_SIZE
  BY DEF QueueInv, TypeInv, TypeOK, RoomInv, CountBound
<1>2. Buffered = Ring(buf, get_idx, count)
  BY <1>1, BufferedIsRing DEF Buffered
<1>3. Buffered' = Ring(buf', get_idx', count')
  BY <1>1, BufferedIsRing DEF Buffered
<1> QED BY <1>2, <1>3

\* put_char stores the pending character behind the others.
LEMMA QueueStore ==
  ASSUME NUL \notin Chars, QueueInv, QueueInv', StoreChar
  PROVE  Queue!Accept
<1> DEFINE S == Chars \cup {NUL}
           c == get_ascii(val)
<1>1. /\ buf \in [0..(BUFFER_SIZE - 1) -> S] /\ get_idx \in 0..(BUFFER_SIZE - 1)
      /\ count \in 0..(SizeMod - 1) /\ val \in 0..255
  BY DEF QueueInv, TypeInv, TypeOK
<1>2. count < BUFFER_SIZE /\ is_key_press(val) /\ put_idx = After(BUFFER_SIZE, get_idx, count)
  BY DEF QueueInv, RoomInv, PressInv, RingInv, StoreChar
<1>3. c \in Chars /\ c # NUL
  BY <1>1, CharsOfScancodes
<1>4. count \in 0..(BUFFER_SIZE - 1) /\ count \in 0..BUFFER_SIZE
  BY <1>1, <1>2, SizeAssumption
<1>5. get_idx' = get_idx /\ count' = count + 1 /\ buf' = [buf EXCEPT ![put_idx] = c]
  <2>1. TypeOK
    BY DEF QueueInv, TypeInv
  <2>2. count # SizeMod - 1
    BY <1>2, <1>4, SizeAssumption
  <2> QED BY <2>1, <2>2, StoreCharAdvances DEF StoreChar
<1> HIDE DEF S, c
<1>6. Buffered' = Append(Buffered, c)
  <2>1. c \in S
    BY <1>3 DEF S
  <2>2. Ring([buf EXCEPT ![After(BUFFER_SIZE, get_idx, count)] = c], get_idx, count + 1)
          = Append(Ring(buf, get_idx, count), c)
    BY ONLY <1>1, <1>4, <2>1, RingAppend
  <2>3. Buffered = Ring(buf, get_idx, count) /\ Buffered' = Ring(buf', get_idx', count')
    BY QueueBuffered
  <2> QED BY ONLY <1>2, <1>5, <2>2, <2>3
<1>7. Len(Buffered) < BUFFER_SIZE
  <2>1. Len(Ring(buf, get_idx, count)) = count
    BY ONLY <1>1, <1>4, RingSeq
  <2> QED BY <2>1, <1>2, QueueBuffered
<1>8. hpc = "crit" /\ hpc' = "idle" /\ UNCHANGED thr
  BY DEF StoreChar, HandlerReturn
<1> QED BY <1>2, <1>3, <1>6, <1>7, <1>8 DEF Queue!Accept, thr, c

\* The other steps of the handler drop it, or are not seen.
LEMMA QueueHandler ==
  ASSUME NUL \notin Chars, QueueInv, QueueInv', HandlerStep
  PROVE  [Queue!QNext]_Queue!qvars
<1>1. UNCHANGED <<buf, get_idx, count>> => UNCHANGED Buffered
  BY DEF Buffered
<1>2. CASE IgnoreRelease
  BY <1>1, <1>2 DEF IgnoreRelease, HandlerReturn, dev, thr, Queue!qvars
<1>3. CASE DropChar
  <2>1. Len(Buffered) = BUFFER_SIZE
    <3>1. count = BUFFER_SIZE /\ count \in 0..BUFFER_SIZE
      BY <1>3, SizeAssumption DEF DropChar, QueueInv, TypeInv, TypeOK, RoomInv, CountBound
    <3>2. /\ buf \in [0..(BUFFER_SIZE - 1) -> Chars \cup {NUL}]
          /\ get_idx \in 0..(BUFFER_SIZE - 1)
      BY DEF QueueInv, TypeInv, TypeOK
    <3>3. Len(Ring(buf, get_idx, count)) = count
      BY ONLY <3>1, <3>2, RingSeq
    <3> QED BY <3>1, <3>3, QueueBuffered
  <2>2. get_ascii(val) # NUL
    BY CharsOfScancodes DEF QueueInv, TypeInv, TypeOK
  <2>3. Queue!Drop
    BY <1>1, <1>3, <2>1, <2>2 DEF DropChar, HandlerReturn, dev, thr, Queue!Drop
  <2> QED BY <2>3 DEF Queue!QNext
<1>4. CASE AdmitChar
  BY <1>1, <1>4 DEF AdmitChar, dev, thr, Queue!qvars
<1>5. CASE HandlerLock
  BY <1>1, <1>5 DEF HandlerLock, dev, thr, Queue!qvars
<1>6. CASE StoreChar
  BY <1>6, QueueStore DEF Queue!QNext
<1> QED BY <1>2, <1>3, <1>4, <1>5, <1>6 DEF HandlerStep

\* The interrupt makes a key press pending; a release is not seen.
LEMMA QueuePress ==
  ASSUME NUL \notin Chars,
         NEW c \in Cpus, NEW scancode \in Scancodes, KeyIrq(c, scancode)
  PROVE  [Queue!QNext]_Queue!qvars
<1>1. UNCHANGED Buffered
  BY DEF KeyIrq, Buffered, dev
<1>2. scancode \in 0..255 /\ get_ascii(scancode) \in Chars
  BY InputAssumption, CharsOfScancodes
<1>3. CASE is_key_press(scancode)
  <2>1. Queue!Press
    BY <1>1, <1>2, <1>3 DEF KeyIrq, dev, thr, Queue!Press
  <2> QED BY <2>1 DEF Queue!QNext
<1>4. CASE ~is_key_press(scancode)
  BY <1>1, <1>4 DEF KeyIrq, dev, thr, Queue!qvars
<1> QED BY <1>3, <1>4

\* get_char delivers the oldest character.
LEMMA QueueTake ==
  ASSUME NEW u \in Threads, QueueInv, QueueInv', Fed, TakeChar(u)
  PROVE  Queue!Get(u)
<1> DEFINE S == Chars \cup {NUL}
<1>1. /\ buf \in [0..(BUFFER_SIZE - 1) -> S] /\ get_idx \in 0..(BUFFER_SIZE - 1)
      /\ size \in [Threads -> 0..MaxRead] /\ ubuf \in [Threads -> Seq(S)]
      /\ pc \in [Threads -> {"idle", "loop", "want", "spin", "crit"}]
      /\ op \in [Threads -> {"read", "write"}]
      /\ BUFFER_SIZE \in Nat \ {0} /\ MaxRead \in Nat
  BY SizeAssumption, InputAssumption DEF QueueInv, TypeInv, TypeOK
<1>2. pc[u] = "crit" /\ op[u] = "read" /\ size[u] > 0 /\ count > 0
  BY TakeFed DEF QueueInv, TypeInv, SizeInv, TakeChar
<1>3. count \in 1..BUFFER_SIZE
  BY <1>1, <1>2 DEF QueueInv, TypeInv, TypeOK, RoomInv, CountBound
<1>4. get_idx' = After(BUFFER_SIZE, get_idx, 1) /\ count' = count - 1 /\ buf' = buf
  <2>1. TypeOK /\ count # 0
    BY <1>3 DEF QueueInv, TypeInv
  <2>2. /\ get_idx' = (IF get_idx = BUFFER_SIZE - 1 THEN 0 ELSE get_idx + 1)
        /\ count' = count - 1
    BY <2>1, TakeCharAdvances
  <2> QED BY <1>1, <2>2 DEF TakeChar, After
<1> HIDE DEF S
<1>5. Buffered # <<>> /\ Head(Buffered) = buf[get_idx] /\ Buffered' = Tail(Buffered)
  <2>1. /\ Ring(buf, get_idx, count) # <<>>
        /\ Head(Ring(buf, get_idx, count)) = buf[get_idx]
        /\ Tail(Ring(buf, get_idx, count)) = Ring(buf, After(BUFFER_SIZE, get_idx, 1), count - 1)
    BY ONLY <1>1, <1>3, RingTail
  <2>2. Buffered = Ring(buf, get_idx, count) /\ Buffered' = Ring(buf', get_idx', count')
    BY QueueBuffered
  <2> QED BY ONLY <1>4, <2>1, <2>2
<1>6. /\ pc' = [pc EXCEPT ![u] = "loop"] /\ op' = op /\ UNCHANGED irq
      /\ size' = [size EXCEPT ![u] = @ - 1]
      /\ ubuf' = [ubuf EXCEPT ![u] = Append(@, Head(Buffered))]
  BY <1>5 DEF TakeChar, UnlockIrqRestore
<1>7. Len(ubuf[u]) < size[u] + Len(ubuf[u])
  BY <1>1, <1>2
<1>8. size'[u] + Len(ubuf'[u]) = size[u] + Len(ubuf[u])
  <2>1. size'[u] = size[u] - 1 /\ ubuf'[u] = Append(ubuf[u], Head(Buffered))
    BY <1>1, <1>6
  <2>2. Len(Append(ubuf[u], Head(Buffered))) = Len(ubuf[u]) + 1
    BY <1>1
  <2> QED BY <1>1, <2>1, <2>2
<1>9. [t \in Threads |-> size'[t] + Len(ubuf'[t])] = [t \in Threads |-> size[t] + Len(ubuf[t])]
  <2>1. \A t \in Threads \ {u} : size'[t] = size[t] /\ ubuf'[t] = ubuf[t]
    BY <1>1, <1>6
  <2>2. \A t \in Threads : size'[t] + Len(ubuf'[t]) = size[t] + Len(ubuf[t])
    BY <1>8, <2>1
  <2> QED BY <2>2
<1>10. [t \in Threads |-> IF pc'[t] = "idle" THEN "idle" ELSE op'[t]]
         = [t \in Threads |-> IF pc[t] = "idle" THEN "idle" ELSE op[t]]
  BY <1>1, <1>2, <1>6
<1> QED BY <1>2, <1>5, <1>6, <1>7, <1>9, <1>10 DEF Queue!Get, irq

\* The steps of a read or write.
LEMMA QueueCall ==
  ASSUME NEW u \in Threads, QueueInv, QueueInv', Fed, CallStep(u)
  PROVE  [Queue!QNext]_Queue!qvars
<1> DEFINE calls == [t \in Threads |-> IF pc[t] = "idle" THEN "idle" ELSE op[t]]
           wants == [t \in Threads |-> size[t] + Len(ubuf[t])]
<1>1. UNCHANGED <<buf, get_idx, count>> => UNCHANGED Buffered
  BY DEF Buffered
<1>2. /\ size \in [Threads -> 0..MaxRead] /\ ubuf \in [Threads -> Seq(Chars \cup {NUL})]
      /\ pc \in [Threads -> {"idle", "loop", "want", "spin", "crit"}]
      /\ op \in [Threads -> {"read", "write"}]
  BY DEF QueueInv, TypeInv, TypeOK
<1>3. ASSUME UNCHANGED <<dev, irq, op, size, ubuf>>, pc[u] # "idle",
             NEW p \in {"want", "spin", "crit"}, pc' = [pc EXCEPT ![u] = p]
      PROVE  UNCHANGED Queue!qvars
  <2>1. calls' = calls
    BY <1>2, <1>3
  <2> QED BY <1>1, <1>3, <2>1 DEF dev, irq, Queue!qvars
<1>4. CASE SeeChar(u)
  BY <1>3, <1>4 DEF SeeChar
<1>5. ASSUME NEW c \in Cpus, IrqSave(u, c) PROVE UNCHANGED Queue!qvars
  BY <1>3, <1>5 DEF IrqSave
<1>6. CASE Lock(u)
  BY <1>3, <1>6 DEF Lock
<1>7. CASE EndRead(u)
  <2>1. pc[u] = "loop" /\ op[u] = "read" /\ (size[u] = 0 \/ count = 0)
    BY <1>7 DEF EndRead, QueueInv, ReadInv
  <2>2. size[u] = 0 => Len(ubuf[u]) = size[u] + Len(ubuf[u])
    BY <1>2
  <2>3. count = 0 => Buffered = <<>>
    BY DEF Buffered
  <2>4. calls' = [calls EXCEPT ![u] = "idle"]
    BY <1>2, <1>7 DEF EndRead
  <2>5. Queue!FinishRead(u)
    BY <1>1, <1>7, <2>1, <2>2, <2>3, <2>4 DEF EndRead, dev, irq, Queue!FinishRead
  <2> QED BY <2>5 DEF Queue!QNext
<1>8. CASE TakeChar(u)
  BY <1>8, QueueTake DEF Queue!QNext
<1>9. CASE ResetBuffer(u)
  <2>1. Buffered' = <<>>
    BY <1>9 DEF ResetBuffer, Buffered
  <2>2. calls[u] = "write" /\ calls' = [calls EXCEPT ![u] = "idle"]
    BY <1>2, <1>9 DEF ResetBuffer, UnlockIrqRestore
  <2>3. Queue!Empty(u)
    BY <1>9, <2>1, <2>2 DEF ResetBuffer, irq, Queue!Empty
  <2> QED BY <2>3 DEF Queue!QNext
<1> QED BY <1>4, <1>5, <1>6, <1>7, <1>8, <1>9 DEF CallStep

\* The calls of read and write.
LEMMA QueueBegin ==
  ASSUME NEW u \in Threads, QueueInv, NEW n \in 0..MaxRead,
         BeginRead(u, n) \/ BeginWrite(u)
  PROVE  Queue!QNext
<1> DEFINE calls == [t \in Threads |-> IF pc[t] = "idle" THEN "idle" ELSE op[t]]
           wants == [t \in Threads |-> size[t] + Len(ubuf[t])]
<1>1. UNCHANGED Buffered
  BY DEF BeginRead, BeginWrite, dev, Buffered
<1>2. /\ size \in [Threads -> 0..MaxRead] /\ ubuf \in [Threads -> Seq(Chars \cup {NUL})]
      /\ pc \in [Threads -> {"idle", "loop", "want", "spin", "crit"}]
      /\ op \in [Threads -> {"read", "write"}]
      /\ MaxRead \in Nat
  BY InputAssumption DEF QueueInv, TypeInv, TypeOK
<1>3. CASE BeginRead(u, n)
  <2>1. calls[u] = "idle" /\ calls' = [calls EXCEPT ![u] = "read"]
    BY <1>2, <1>3 DEF BeginRead
  <2>2. wants'[u] = n
    BY <1>2, <1>3 DEF BeginRead
  <2>3. n \in Nat /\ wants' = [wants EXCEPT ![u] = wants'[u]]
    <3>1. \A t \in Threads \ {u} : size'[t] = size[t] /\ ubuf'[t] = ubuf[t]
      BY <1>2, <1>3 DEF BeginRead
    <3>2. \A t \in Threads \ {u} : wants'[t] = wants[t]
      BY <3>1
    <3> HIDE DEF wants
    <3>3. wants = [t \in Threads |-> wants[t]] /\ wants' = [t \in Threads |-> wants'[t]]
      BY DEF wants
    <3> QED BY <1>2, <3>2, <3>3
  <2>4. Queue!StartRead(u)
    BY <1>1, <1>3, <2>1, <2>2, <2>3 DEF BeginRead, irq, Queue!StartRead
  <2> QED BY <2>4 DEF Queue!QNext
<1>4. CASE BeginWrite(u)
  <2>1. calls[u] = "idle" /\ calls' = [calls EXCEPT ![u] = "write"]
    BY <1>2, <1>4 DEF BeginWrite
  <2>2. Queue!StartWrite(u)
    BY <1>1, <1>4, <2>1 DEF BeginWrite, irq, Queue!StartWrite
  <2> QED BY <2>2 DEF Queue!QNext
<1> QED BY <1>3, <1>4

\* However many threads use the device, whatever the keys typed and on whichever
\* CPUs: as long as no read takes a character from an empty buffer, the driver
\* implements the queue.  No character is lost, duplicated or reordered on its
\* way to the readers, a key press is dropped only when the buffer is full, and a
\* read is short only if it found the buffer empty.  The test of the count
\* outside the lock (kbd.c:89) is all that stands between kbd.c and the queue.
THEOREM FedIsAQueue ==
  ASSUME NUL \notin Chars
  PROVE  Spec /\ NoPhantomChar => ImplementsQueue
<1>1. Init => QueueInv
  <2>1. Init => TypeInv
    BY TypeInit
  <2>2. Init => RoomInv /\ PressInv /\ RingInv /\ ReadInv
    BY SizeAssumption DEF Init, RoomInv, CountBound, PressInv, RingInv, ReadInv, After
  <2> QED BY <2>1, <2>2 DEF QueueInv
<1>2. QueueInv /\ [Next]_vars /\ [Fed]_vars => QueueInv'
  <2> SUFFICES ASSUME QueueInv, [Next]_vars, [Fed]_vars PROVE QueueInv'
    OBVIOUS
  <2>1. TypeInv'
    BY TypeStep DEF QueueInv
  <2>2. PressInv'
    BY PressStep DEF QueueInv
  <2>3. CASE Fed
    <3>1. RoomInv'
      BY <2>3, RoomStep DEF QueueInv, TypeInv
    <3>2. RingInv'
      BY <2>3, RingStep DEF QueueInv, TypeInv
    <3>3. ReadInv'
      BY ReadStep DEF QueueInv, TypeInv
    <3> QED BY <2>1, <2>2, <3>1, <3>2, <3>3 DEF QueueInv
  <2>4. CASE UNCHANGED vars
    BY <2>1, <2>2, <2>4 DEF vars, dev, irq, thr, QueueInv, RoomInv, CountBound, RingInv, ReadInv
  <2> QED BY <2>3, <2>4
<1>3. Init => Queue!QInit
  BY DEF Init, Queue!QInit, Buffered
<1>4. QueueInv /\ QueueInv' /\ [Next]_vars /\ [Fed]_vars => [Queue!QNext]_Queue!qvars
  <2> SUFFICES ASSUME QueueInv, QueueInv', [Next]_vars, [Fed]_vars
               PROVE  [Queue!QNext]_Queue!qvars
    OBVIOUS
  <2>1. ASSUME NEW c \in Cpus, NEW scancode \in Scancodes, KeyIrq(c, scancode)
        PROVE  [Queue!QNext]_Queue!qvars
    BY <2>1, QueuePress
  <2>2. CASE HandlerStep
    BY <2>2, QueueHandler
  <2>3. ASSUME NEW u \in Threads, NEW n \in 0..MaxRead, BeginRead(u, n)
        PROVE  [Queue!QNext]_Queue!qvars
    BY <2>3, QueueBegin
  <2>4. ASSUME NEW u \in Threads, BeginWrite(u)
        PROVE  [Queue!QNext]_Queue!qvars
    <3>1. 0 \in 0..MaxRead
      BY InputAssumption
    <3> QED BY <2>4, <3>1, QueueBegin
  <2>5. CASE UNCHANGED vars
    BY <2>5 DEF vars, dev, irq, thr, Buffered, Queue!qvars
  <2>6. ASSUME NEW u \in Threads, CallStep(u)
        PROVE  [Queue!QNext]_Queue!qvars
    BY <2>5, <2>6, QueueCall
  <2> QED BY <2>1, <2>2, <2>3, <2>4, <2>5, <2>6 DEF Next
<1> QED BY <1>1, <1>2, <1>3, <1>4, PTL DEF Spec, NoPhantomChar, Fed, ImplementsQueue, Queue!QSpec

\* Reads that no other call overlaps are such: it is enough that whoever uses the
\* device takes turns.
THEOREM AloneIsAQueue ==
  ASSUME NUL \notin Chars
  PROVE  Spec /\ []ReadsAlone => ImplementsQueue
BY AloneNoPhantom, FedIsAQueue, PTL

\* With one thread on the device nothing overlaps: the driver implements the
\* queue.
THEOREM SingleIsAQueue ==
  ASSUME NEW u, Threads = {u}, NUL \notin Chars
  PROVE  Spec => ImplementsQueue
BY SingleNoPhantom, FedIsAQueue, PTL
=============================================================================
