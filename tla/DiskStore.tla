----------------------------- MODULE DiskStore -----------------------------
(***************************************************************************)
(* What a disk promises to the bios submitted to it: each of their sectors *)
(* is transferred once, between the sector the bio names and the bio's own *)
(* memory, in any order; and a bio is ended only when all of them are.     *)
(***************************************************************************)
EXTENDS Integers, Sequences

CONSTANTS Bios, NrSectors, Values

Sectors == 0..(NrSectors - 1)
Kinds   == {"read", "write", "other"}
Idle    == [state |-> "idle", kind |-> "other", first |-> 0, mem |-> <<>>, left |-> {}]

VARIABLES
  store,        \* the contents of the disk
  op            \* bio -> what it asks for, and which of its segments are left

disk_vars == <<store, op>>

Init ==
  /\ store \in [Sectors -> Values]
  /\ op = [b \in Bios |-> Idle]

Start(b) ==
  /\ op[b].state = "idle"
  /\ \E kind \in Kinds, first \in Sectors, len \in 0..NrSectors :
       /\ (kind = "other") <=> (len = 0)
       /\ first + len <= NrSectors
       /\ \E mem \in [1..len -> Values] :
            op' = [op EXCEPT ![b] = [state |-> "busy", kind |-> kind, first |-> first,
                                     mem |-> mem, left |-> 1..len]]
  /\ UNCHANGED store

Transfer(b, i) ==
  /\ op[b].state = "busy" /\ i \in op[b].left
  /\ LET s == op[b].first + i - 1
     IN  IF op[b].kind = "write"
         THEN /\ store' = [store EXCEPT ![s] = op[b].mem[i]]
              /\ op' = [op EXCEPT ![b].left = @ \ {i}]
         ELSE /\ op' = [op EXCEPT ![b].left = @ \ {i}, ![b].mem[i] = store[s]]
              /\ UNCHANGED store

\* The bios of one request end together; what is no read or write fails.
End(bs) ==
  /\ \A b \in bs : op[b].state = "busy" /\ op[b].left = {}
  /\ op' = [b \in Bios |->
              IF b \in bs
              THEN [op[b] EXCEPT !.state = IF op[b].kind = "other" THEN "failed" ELSE "done"]
              ELSE op[b]]
  /\ UNCHANGED store

Reuse(b) ==
  /\ op[b].state \in {"done", "failed"}
  /\ op' = [op EXCEPT ![b] = Idle]
  /\ UNCHANGED store

Next ==
  \/ \E b \in Bios : Start(b) \/ Reuse(b) \/ \E i \in op[b].left : Transfer(b, i)
  \/ \E bs \in (SUBSET Bios) \ {{}} : End(bs)

Spec == Init /\ [][Next]_disk_vars
=============================================================================
