-------------------------------- MODULE Kbd ---------------------------------
(***************************************************************************)
(* The keyboard driver of src/interrupts/kbd.c at run time: the interrupt  *)
(* handler puts characters into a ring buffer, threads take them with read *)
(* and empty it with write.  buf_lock is a spin lock; the fill level is    *)
(* tested outside it, by the handler and by the readers.                   *)
(*                                                                         *)
(* CPUs matter because of the handler: it runs to completion on the CPU it *)
(* interrupted, and spin_lock_irqsave keeps it off a CPU.  A thread holds  *)
(* a CPU here only while its interrupts are off; at its other steps it     *)
(* runs on any CPU that is free.                                           *)
(***************************************************************************)
EXTENDS Integers, Sequences

CONSTANTS
  Threads,      \* the threads that have the device open
  Cpus,
  BUFFER_SIZE,
  SizeMod,      \* size_t counts modulo this: 2^32 in the i686 build
  Scancodes,    \* the scancodes the controller may deliver
  MaxRead,      \* bound: the largest size passed to read
  Handler,      \* the owner of buf_lock while the handler holds it
  Free,         \* the owner of buf_lock while nobody holds it
  NoCpu,
  NUL           \* the character 0

ASSUME SizeAssumption ==
  /\ BUFFER_SIZE \in Nat \ {0}
  /\ SizeMod \in Nat /\ SizeMod > BUFFER_SIZE
  /\ SizeMod % BUFFER_SIZE = 0

ASSUME NameAssumption ==
  /\ Handler \notin Threads
  /\ Free \notin Threads \cup {Handler}
  /\ NoCpu \notin Cpus

ASSUME InputAssumption ==
  /\ Scancodes \subseteq 0..255
  /\ MaxRead \in Nat

SCANCODE_RELEASED_MASK == 128

VARIABLES
  buf, put_idx, get_idx, count,     \* struct kbd
  buf_lock,                         \* its owner
  hpc, hcpu, val,                   \* the handler: its step, its CPU, its scancode
  pc, op, cpu,                      \* each thread: its step, its call, the CPU it holds
  size, ubuf                        \* kbd_read: what is left to read, what was read

dev  == <<buf, put_idx, get_idx, count>>
irq  == <<hpc, hcpu, val>>
thr  == <<pc, op, cpu, size, ubuf>>
vars == <<dev, buf_lock, irq, thr>>

-----------------------------------------------------------------------------
(* Scancodes and characters.                                               *)

Row1 == <<"1", "2", "3", "4", "5", "6", "7", "8", "9", "0">>
Row2 == <<"q", "w", "e", "r", "t", "y", "u", "i", "o", "p">>
Row3 == <<"a", "s", "d", "f", "g", "h", "j", "k", "l">>
Row4 == <<"z", "x", "c", "v", "b", "n", "m">>

is_key_press(scancode) == (scancode \div SCANCODE_RELEASED_MASK) % 2 = 0

get_ascii(scancode) ==
  LET code == scancode % SCANCODE_RELEASED_MASK
  IN  CASE code \in 2..11  -> Row1[code - 1]
        [] code \in 16..25 -> Row2[code - 15]
        [] code \in 30..38 -> Row3[code - 29]
        [] code \in 44..50 -> Row4[code - 43]
        [] code = 57 -> " "
        [] code = 28 -> "\n"
        [] OTHER -> "?"

Chars == {get_ascii(s) : s \in 0..255}

-----------------------------------------------------------------------------
(* CPUs.  IrqsOn(c): no thread has turned the interrupts of c off.         *)

IrqsOn_SpinLock(c) == TRUE      \* mutant: spin_lock where irqsave is needed
IrqsOn(c) == \A t \in Threads : cpu[t] # c

Runnable(c) == hcpu # c /\ \A t \in Threads : cpu[t] # c
Scheduled   == \E c \in Cpus : Runnable(c)

-----------------------------------------------------------------------------
Init ==
  /\ buf = [i \in 0..(BUFFER_SIZE - 1) |-> NUL]
  /\ put_idx = 0 /\ get_idx = 0 /\ count = 0
  /\ buf_lock = Free
  /\ hpc = "idle" /\ hcpu = NoCpu /\ val = 0
  /\ pc   = [t \in Threads |-> "idle"]
  /\ op   = [t \in Threads |-> "read"]
  /\ cpu  = [t \in Threads |-> NoCpu]
  /\ size = [t \in Threads |-> 0]
  /\ ubuf = [t \in Threads |-> <<>>]

-----------------------------------------------------------------------------
(* The interrupt handler.  The line is masked until it returns, so there   *)
(* is one handler at a time, on a CPU whose interrupts are on.             *)

HandlerReturn ==
  /\ hpc' = "idle" /\ hcpu' = NoCpu /\ val' = 0

\* IRQ 1 arrives: the handler starts on c and reads the data register.
KeyIrq(c, scancode) ==
  /\ hpc = "idle"
  /\ IrqsOn(c)
  /\ hpc' = "entered" /\ hcpu' = c /\ val' = scancode
  /\ UNCHANGED <<dev, buf_lock, thr>>

IgnoreRelease ==
  /\ hpc = "entered"
  /\ ~is_key_press(val)
  /\ HandlerReturn
  /\ UNCHANGED <<dev, buf_lock, thr>>

\* put_char: its test of the count is outside the lock.
DropChar ==
  /\ hpc = "entered"
  /\ is_key_press(val)
  /\ count >= BUFFER_SIZE
  /\ HandlerReturn
  /\ UNCHANGED <<dev, buf_lock, thr>>

AdmitChar_OffByOne ==           \* mutant: > for >= in put_char
  /\ hpc = "entered"
  /\ is_key_press(val)
  /\ count <= BUFFER_SIZE
  /\ hpc' = "spin"
  /\ UNCHANGED <<dev, buf_lock, hcpu, val, thr>>

AdmitChar ==
  /\ hpc = "entered"
  /\ is_key_press(val)
  /\ count < BUFFER_SIZE
  /\ hpc' = "spin"
  /\ UNCHANGED <<dev, buf_lock, hcpu, val, thr>>

HandlerLock ==
  /\ hpc = "spin"
  /\ buf_lock = Free
  /\ buf_lock' = Handler
  /\ hpc' = "crit"
  /\ UNCHANGED <<dev, hcpu, val, thr>>

StoreChar_NoWrap ==             \* mutant: put_idx++ without the modulo
  /\ hpc = "crit"
  /\ buf' = [buf EXCEPT ![put_idx] = get_ascii(val)]
  /\ put_idx' = put_idx + 1
  /\ count' = (count + 1) % SizeMod
  /\ buf_lock' = Free
  /\ HandlerReturn
  /\ UNCHANGED <<get_idx, thr>>

StoreChar_NoUnlock ==           \* mutant: returns with the lock held
  /\ hpc = "crit"
  /\ buf' = [buf EXCEPT ![put_idx] = get_ascii(val)]
  /\ put_idx' = (put_idx + 1) % BUFFER_SIZE
  /\ count' = (count + 1) % SizeMod
  /\ HandlerReturn
  /\ UNCHANGED <<buf_lock, get_idx, thr>>

\* The critical section of put_char.  Only the count is read without the
\* lock, so the section is one step.
StoreChar ==
  /\ hpc = "crit"
  /\ buf' = [buf EXCEPT ![put_idx] = get_ascii(val)]
  /\ put_idx' = (put_idx + 1) % BUFFER_SIZE
  /\ count' = (count + 1) % SizeMod
  /\ buf_lock' = Free
  /\ HandlerReturn
  /\ UNCHANGED <<get_idx, thr>>

-----------------------------------------------------------------------------
(* The calls.                                                              *)

BeginRead(t, n) ==
  /\ pc[t] = "idle" /\ Scheduled
  /\ pc' = [pc EXCEPT ![t] = "loop"]
  /\ op' = [op EXCEPT ![t] = "read"]
  /\ size' = [size EXCEPT ![t] = n]
  /\ ubuf' = [ubuf EXCEPT ![t] = <<>>]
  /\ UNCHANGED <<dev, buf_lock, irq, cpu>>

SeeChar_NoTest(t) ==            \* mutant: get_char does not test the count
  /\ pc[t] = "loop" /\ Scheduled
  /\ size[t] > 0
  /\ pc' = [pc EXCEPT ![t] = "want"]
  /\ UNCHANGED <<dev, buf_lock, irq, op, cpu, size, ubuf>>

\* get_char: its test of the count, outside the lock, finds a character ...
SeeChar(t) ==
  /\ pc[t] = "loop" /\ Scheduled
  /\ size[t] > 0
  /\ count > 0
  /\ pc' = [pc EXCEPT ![t] = "want"]
  /\ UNCHANGED <<dev, buf_lock, irq, op, cpu, size, ubuf>>

\* ... or none, or the loop is over: kbd_read returns Len(ubuf[t]).
EndRead(t) ==
  /\ pc[t] = "loop" /\ Scheduled
  /\ size[t] = 0 \/ count = 0
  /\ pc' = [pc EXCEPT ![t] = "idle"]
  /\ UNCHANGED <<dev, buf_lock, irq, op, cpu, size, ubuf>>

BeginWrite(t) ==
  /\ pc[t] = "idle" /\ Scheduled
  /\ pc' = [pc EXCEPT ![t] = "want"]
  /\ op' = [op EXCEPT ![t] = "write"]
  /\ UNCHANGED <<dev, buf_lock, irq, cpu, size, ubuf>>

\* spin_lock_irqsave: the interrupts go off first, then the thread spins.
IrqSave(t, c) ==
  /\ pc[t] = "want"
  /\ Runnable(c)
  /\ cpu' = [cpu EXCEPT ![t] = c]
  /\ pc' = [pc EXCEPT ![t] = "spin"]
  /\ UNCHANGED <<dev, buf_lock, irq, op, size, ubuf>>

Lock(t) ==
  /\ pc[t] = "spin"
  /\ buf_lock = Free
  /\ buf_lock' = t
  /\ pc' = [pc EXCEPT ![t] = "crit"]
  /\ UNCHANGED <<dev, irq, op, cpu, size, ubuf>>

\* spin_unlock_irqrestore, with the step the thread goes on with.
UnlockIrqRestore(t, next) ==
  /\ buf_lock' = Free
  /\ cpu' = [cpu EXCEPT ![t] = NoCpu]
  /\ pc' = [pc EXCEPT ![t] = next]

TakeChar_KeepIndex(t) ==        \* mutant: get_idx is not advanced
  /\ pc[t] = "crit" /\ op[t] = "read"
  /\ count' = (count + SizeMod - 1) % SizeMod
  /\ UnlockIrqRestore(t, "loop")
  /\ size' = [size EXCEPT ![t] = @ - 1]
  /\ ubuf' = [ubuf EXCEPT ![t] = Append(@, buf[get_idx])]
  /\ UNCHANGED <<buf, put_idx, get_idx, irq, op>>

\* The critical section of get_char, and what kbd_read does with the
\* character: put_user, size--, read++.
TakeChar(t) ==
  /\ pc[t] = "crit" /\ op[t] = "read"
  /\ get_idx' = (get_idx + 1) % BUFFER_SIZE
  /\ count' = (count + SizeMod - 1) % SizeMod
  /\ UnlockIrqRestore(t, "loop")
  /\ size' = [size EXCEPT ![t] = @ - 1]
  /\ ubuf' = [ubuf EXCEPT ![t] = Append(@, buf[get_idx])]
  /\ UNCHANGED <<buf, put_idx, irq, op>>

ResetBuffer_KeepPut(t) ==       \* mutant: put_idx is not reset
  /\ pc[t] = "crit" /\ op[t] = "write"
  /\ buf' = [i \in 0..(BUFFER_SIZE - 1) |-> NUL]
  /\ get_idx' = 0 /\ count' = 0
  /\ UnlockIrqRestore(t, "idle")
  /\ UNCHANGED <<put_idx, irq, op, size, ubuf>>

ResetBuffer_NoUnlock(t) ==      \* mutant: returns with the lock held
  /\ pc[t] = "crit" /\ op[t] = "write"
  /\ buf' = [i \in 0..(BUFFER_SIZE - 1) |-> NUL]
  /\ get_idx' = 0 /\ put_idx' = 0 /\ count' = 0
  /\ cpu' = [cpu EXCEPT ![t] = NoCpu]
  /\ pc' = [pc EXCEPT ![t] = "idle"]
  /\ UNCHANGED <<buf_lock, irq, op, size, ubuf>>

\* The critical section of reset_buffer; kbd_write then returns.
ResetBuffer(t) ==
  /\ pc[t] = "crit" /\ op[t] = "write"
  /\ buf' = [i \in 0..(BUFFER_SIZE - 1) |-> NUL]
  /\ get_idx' = 0 /\ put_idx' = 0 /\ count' = 0
  /\ UnlockIrqRestore(t, "idle")
  /\ UNCHANGED <<irq, op, size, ubuf>>

-----------------------------------------------------------------------------
HandlerStep == IgnoreRelease \/ DropChar \/ AdmitChar \/ HandlerLock \/ StoreChar

CallStep(t) ==
  \/ SeeChar(t) \/ EndRead(t)
  \/ \E c \in Cpus : IrqSave(t, c)
  \/ Lock(t) \/ TakeChar(t) \/ ResetBuffer(t)

Next ==
  \/ \E c \in Cpus, scancode \in Scancodes : KeyIrq(c, scancode)
  \/ HandlerStep
  \/ \E t \in Threads :
       \/ \E n \in 0..MaxRead : BeginRead(t, n)
       \/ BeginWrite(t)
       \/ CallStep(t)

Spec == Init /\ [][Next]_vars

(***************************************************************************)
(* The handler goes on as long as it can, and so does a call; strong       *)
(* fairness where a step waits for something others take and give back:    *)
(* buf_lock, a queued spin lock on this kernel, and a CPU, which the       *)
(* handler leaves after a bounded number of steps.                         *)
(***************************************************************************)
Fairness == SF_vars(HandlerStep) /\ \A t \in Threads : SF_vars(CallStep(t))

FairSpec == Spec /\ Fairness

-----------------------------------------------------------------------------
(* Properties.                                                             *)

\* Every variable keeps its type: the indices stay inside the buffer.
TypeOK ==
  /\ buf \in [0..(BUFFER_SIZE - 1) -> Chars \cup {NUL}]
  /\ put_idx \in 0..(BUFFER_SIZE - 1)
  /\ get_idx \in 0..(BUFFER_SIZE - 1)
  /\ count \in 0..(SizeMod - 1)
  /\ buf_lock \in Threads \cup {Handler, Free}
  /\ hpc \in {"idle", "entered", "spin", "crit"}
  /\ hcpu \in Cpus \cup {NoCpu}
  /\ val \in 0..255
  /\ pc \in [Threads -> {"idle", "loop", "want", "spin", "crit"}]
  /\ op \in [Threads -> {"read", "write"}]
  /\ cpu \in [Threads -> Cpus \cup {NoCpu}]
  /\ size \in [Threads -> 0..MaxRead]
  /\ ubuf \in [Threads -> Seq(Chars \cup {NUL})]

\* The handler never spins for a lock held on the very CPU it has taken, which
\* would hang that CPU: what the irqsave of get_char and reset_buffer is for.
NoSelfDeadlock ==
  \A t \in Threads : hpc = "spin" /\ buf_lock = t => cpu[t] # hcpu

\* The count and the two indices, which put_char, get_char and reset_buffer
\* update together, never drift apart: the count is the distance from get_idx
\* to put_idx, whatever number of threads use the device.
IndexAgreement == (count - put_idx + get_idx) % BUFFER_SIZE = 0

\* The count is the number of characters in the buffer: never more than fit
\* in it, although handler and reader test it before they take the lock.
CountBound == count <= BUFFER_SIZE

\* A read stores characters only while the buffer has some ("no more data to
\* read", kbd.c:188): never from an empty buffer.
NoPhantomChar ==
  [][\A t \in Threads : Len(ubuf'[t]) > Len(ubuf[t]) => count > 0]_vars

\* The handler returns, whoever holds buf_lock when it comes.
HandlerReturns == (hpc # "idle") ~> (hpc = "idle")

\* Every read and write returns, however the keys arrive.
CallsReturn == \A t \in Threads : (pc[t] # "idle") ~> (pc[t] = "idle")

\* The driver is the queue of KbdQueue: what is in the buffer is the count
\* characters from get_idx on, a key press is pending while the handler has it.
Buffered ==
  [i \in 1..count |-> buf[(get_idx + i - 1) % BUFFER_SIZE]]

Queue == INSTANCE KbdQueue WITH
  Callers  <- Threads,
  Capacity <- BUFFER_SIZE,
  NoChar   <- NUL,
  q        <- Buffered,
  pending  <- IF hpc # "idle" /\ is_key_press(val) THEN get_ascii(val) ELSE NUL,
  call     <- [t \in Threads |-> IF pc[t] = "idle" THEN "idle" ELSE op[t]],
  want     <- [t \in Threads |-> size[t] + Len(ubuf[t])],
  got      <- ubuf

\* With one thread at a time on the device, the driver implements the queue:
\* no character is lost, duplicated or reordered, and none is dropped unless
\* the buffer is full.
ImplementsQueue == Queue!QSpec
=============================================================================
