------------------------------ MODULE So2Cdev ------------------------------
(***************************************************************************)
(* The character device of src/device_drivers: one opener at a time, whose *)
(* children inherit the open file and read and write through it at once.   *)
(*                                                                         *)
(* The kernel takes no lock on the position of a device's file: read and   *)
(* write work on a copy that they store back if they have not failed, and  *)
(* pread64 and pwrite64 on an offset of the caller's.  Only sizes and      *)
(* offsets are modelled, as 64-bit integers far from their limits: a       *)
(* to_write below zero stands for one that has wrapped, which fails to be  *)
(* copied, is added all the same and is returned as an error; OffsetInSize *)
(* claims nothing after it.                                                *)
(***************************************************************************)
EXTENDS Integers, FiniteSets

CONSTANTS
  Users,        \* the processes
  Files,        \* bound: the struct files there can be
  BufSize,      \* BUFSIZ
  MessageSize,  \* sizeof(MESSAGE)
  MaxLen,       \* bound: the bytes asked for in one call
  Offsets,      \* bound: the offsets asked for by pread64 and pwrite64
  MaxSize       \* bound: how far data->size may grow

VARIABLES
  accessed, size,       \* of struct so2_device_data
  holders,      \* file -> the processes that have it open
  pos,          \* file -> its position
  call,         \* each process's read or write
  astray        \* history: an addition to data->size was lost, or a write has
                \* begun past the end of the buffer

so2_cdev_vars == <<accessed, size, holders, pos, call, astray>>

NoCall == [step |-> "none"]

Opened == {f \in Files : holders[f] # {}}

Init ==
  /\ accessed = 0 /\ size = MessageSize
  /\ holders = [f \in Files |-> {}] /\ pos = [f \in Files |-> 0]
  /\ call = [u \in Users |-> NoCall]
  /\ astray = FALSE

\* The module is unloaded, for which no file may be open, and loaded again.
Reload ==
  /\ Opened = {}
  /\ accessed' = 0 /\ size' = MessageSize
  /\ astray' = FALSE
  /\ UNCHANGED <<holders, pos, call>>

-----------------------------------------------------------------------------
\* The compare and exchange; a second opener gets EBUSY, and no release.
Open(u, f) ==
  /\ holders[f] = {} /\ call[u] = NoCall
  /\ accessed = 0
  /\ accessed' = 1
  /\ holders' = [holders EXCEPT ![f] = {u}]
  /\ pos' = [pos EXCEPT ![f] = 0]
  /\ UNCHANGED <<size, call, astray>>

Fork(u, v, f) ==
  /\ u \in holders[f] /\ v \notin holders[f] /\ call[u] = NoCall
  /\ holders' = [holders EXCEPT ![f] = @ \cup {v}]
  /\ UNCHANGED <<accessed, size, pos, call, astray>>

Close_EveryTime(u, f) ==        \* mutant: flush for release
  /\ u \in holders[f] /\ call[u] = NoCall
  /\ holders' = [holders EXCEPT ![f] = @ \ {u}]
  /\ accessed' = 0
  /\ UNCHANGED <<size, pos, call, astray>>

\* Release is called at the last close only, after which the file is gone.
Close(u, f) ==
  /\ u \in holders[f] /\ call[u] = NoCall
  /\ holders' = [holders EXCEPT ![f] = @ \ {u}]
  /\ IF holders[f] = {u}
       THEN accessed' = 0 /\ pos' = [pos EXCEPT ![f] = 0]
       ELSE UNCHANGED <<accessed, pos>>
  /\ UNCHANGED <<size, call, astray>>

-----------------------------------------------------------------------------
Goto(u, next) == call' = [call EXCEPT ![u] = next]

Writing == {u \in Users : call[u].step \in {"write", "add"}}

\* The file operations set neither llseek nor nonseekable_open: no process can
\* move the position of the file, and every process can give its own.
Begin(u, f) ==
  /\ u \in holders[f] /\ call[u] = NoCall /\ ~astray
  /\ \E step \in {"read", "write"}, len \in 1..MaxLen, from \in {"file", "caller"} :
       /\ step = "write" => size + (Cardinality(Writing) + 1) * MaxLen <= MaxSize
       /\ \E offset \in (IF from = "file" THEN {pos[f]} ELSE Offsets) :
            Goto(u, [step |-> step, file |-> f, from |-> from, offset |-> offset, len |-> len])
  /\ UNCHANGED <<accessed, size, holders, pos, astray>>

\* If the offset is past size their difference wraps: it is not less than len.
ToRead(offset, len) ==
  IF offset <= size /\ size - offset < len THEN size - offset ELSE len

Read(u) ==
  /\ call[u].step = "read"
  /\ LET to_read == ToRead(call[u].offset, call[u].len)
     IN  Goto(u, [step |-> "end", file |-> call[u].file, from |-> call[u].from,
                  offset |-> call[u].offset, len |-> to_read])
  /\ UNCHANGED <<accessed, size, holders, pos, astray>>

ToWrite(offset, len) == IF offset + len < BufSize THEN len ELSE BufSize - offset

\* The copy, and the load of data->size += to_write ...
Write(u) ==
  /\ call[u].step = "write"
  /\ LET to_write == ToWrite(call[u].offset, call[u].len)
     IN  Goto(u, [step |-> "add", file |-> call[u].file, from |-> call[u].from,
                  offset |-> call[u].offset, len |-> to_write, size |-> size])
  /\ astray' = (astray \/ call[u].offset > BufSize)
  /\ UNCHANGED <<accessed, size, holders, pos>>

AddSize_Set(u) ==               \* mutant: data->size = to_write
  /\ call[u].step = "add"
  /\ size' = call[u].len
  /\ astray' = (astray \/ size # call[u].size)
  /\ Goto(u, [step |-> "end", file |-> call[u].file, from |-> call[u].from,
              offset |-> call[u].offset, len |-> call[u].len])
  /\ UNCHANGED <<accessed, holders, pos>>

\* ... and its store.
AddSize(u) ==
  /\ call[u].step = "add"
  /\ size' = call[u].size + call[u].len
  /\ astray' = (astray \/ size # call[u].size)
  /\ Goto(u, [step |-> "end", file |-> call[u].file, from |-> call[u].from,
              offset |-> call[u].offset, len |-> call[u].len])
  /\ UNCHANGED <<accessed, holders, pos>>

EndCall(u) ==
  /\ call[u].step = "end"
  /\ pos' = IF call[u].from = "file" /\ call[u].len >= 0
            THEN [pos EXCEPT ![call[u].file] = call[u].offset + call[u].len] ELSE pos
  /\ Goto(u, NoCall)
  /\ UNCHANGED <<accessed, size, holders, astray>>

-----------------------------------------------------------------------------
Next ==
  \/ Reload
  \/ \E u \in Users :
       \/ \E f \in Files : Open(u, f) \/ Close(u, f) \/ Begin(u, f)
       \/ \E f \in Files, v \in Users : Fork(u, v, f)
       \/ Read(u) \/ Write(u) \/ AddSize(u) \/ EndCall(u)

Spec == Init /\ [][Next]_so2_cdev_vars

-----------------------------------------------------------------------------
TypeOK ==
  /\ accessed \in {0, 1} /\ {size} \cup {pos[f] : f \in Files} \subseteq Int
  /\ holders \in [Files -> SUBSET Users]
  /\ \A u \in Users : call[u].step \in {"none", "read", "write", "add", "end"}
  /\ astray \in BOOLEAN

\* At most one open of the device has succeeded and is not over yet, and the
\* device is marked as accessed exactly then: however files are inherited and
\* closed by several processes, none resets it under another (so2_cdev.c:74).
OneFile == Cardinality(Opened) = accessed

\* No position is past data->size, so that the unsigned difference a read from
\* the position of its file takes does not wrap (so2_cdev.c:86), whatever calls
\* overlap: unless an addition to data->size was lost between two writers, or a
\* write began past the end of the buffer, which data->size outgrows
\* (so2_cdev.c:114).  That of one pread64 past data->size wraps.
OffsetInSize ==
  \/ astray
  \/ /\ \A f \in Opened : pos[f] <= size
     /\ \A u \in Users :
          call[u].step = "read" /\ call[u].from = "file" => call[u].offset <= size
=============================================================================
