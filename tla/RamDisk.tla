------------------------------ MODULE RamDisk ------------------------------
(***************************************************************************)
(* The RAM disk of src/block_device_drivers: the block layer queues bios,  *)
(* merged into requests, and my_block_request takes the requests off its   *)
(* queue one after the other and copies their segments from or to memory.  *)
(*                                                                         *)
(* A segment is one sector.  The queue's lock is held from the call of     *)
(* my_block_request to its return: nothing is queued in between.  The      *)
(* elevator may fetch the requests in any order.                           *)
(***************************************************************************)
EXTENDS Integers, Sequences, SequencesExt

CONSTANTS
  Bios,         \* bound: the bios in flight at once
  NrSectors,    \* NR_SECTORS
  Values,       \* what a sector may hold
  MaxSegments   \* bound: the segments of a bio

VARIABLES
  data,         \* dev->data
  bio,          \* each bio: [state, kind, first, mem]
  queue,        \* the requests waiting: sequences of bios that follow each other
  request,      \* rq, the request fetched; <<>> when none is
  at,           \* rq_for_each_segment: the bio of it, the segment of that
  running, run  \* my_block_request is at work; it is to be called

ram_disk_vars == <<data, bio, queue, request, at, running, run>>

\* set_capacity takes sectors, dev->size bytes: both come from NR_SECTORS.
Capacity == NrSectors
Size     == NrSectors

Start == [nr |-> 1, seg |-> 1]

NoBio == [state |-> "idle", kind |-> "other", first |-> 0, mem |-> <<>>]

Init ==
  /\ data \in [0..(Size - 1) -> Values]         \* vmalloc does not clear it
  /\ bio = [b \in Bios |-> NoBio]
  /\ queue = {} /\ request = <<>> /\ at = Start
  /\ running = FALSE /\ run = FALSE

-----------------------------------------------------------------------------
(* The block layer.  It refuses bios past the capacity of the disk.        *)

Follows(b, c) ==
  bio'[b].kind = bio'[c].kind /\ bio'[b].kind # "other" /\
  bio'[c].first = bio'[b].first + Len(bio'[b].mem)

Enqueue(b) ==
  \/ queue' = queue \cup {<<b>>}
  \/ \E r \in queue :
       \/ Follows(Last(r), b) /\ queue' = (queue \ {r}) \cup {Append(r, b)}
       \/ Follows(b, Head(r)) /\ queue' = (queue \ {r}) \cup {<<b>> \o r}

Submit(b) ==
  /\ ~running /\ bio[b].state = "idle"
  /\ \E kind \in {"read", "write"}, first \in 0..(Capacity - 1), len \in 1..MaxSegments :
       /\ first + len <= Capacity
       /\ \E mem \in [1..len -> Values] :
            bio' = [bio EXCEPT ![b] = [state |-> "queued", kind |-> kind,
                                       first |-> first, mem |-> mem]]
  /\ Enqueue(b)
  /\ run' = TRUE
  /\ UNCHANGED <<data, request, at, running>>

SubmitPassthrough(b) ==
  /\ ~running /\ bio[b].state = "idle"
  /\ bio' = [bio EXCEPT ![b].state = "queued"]
  /\ queue' = queue \cup {<<b>>}
  /\ run' = TRUE
  /\ UNCHANGED <<data, request, at, running>>

CallRequest ==
  /\ run /\ ~running
  /\ run' = FALSE /\ running' = TRUE
  /\ UNCHANGED <<data, bio, queue, request, at>>

Reuse(b) ==
  /\ bio[b].state \in {"done", "failed"}
  /\ bio' = [bio EXCEPT ![b] = NoBio]
  /\ UNCHANGED <<data, queue, request, at, running, run>>

-----------------------------------------------------------------------------
(* my_block_request.                                                       *)

Passthrough(r) == bio[Head(r)].kind = "other"

\* The iterator goes on to the next segment, or to the next bio.
NextSegment ==
  IF at.seg < Len(bio[request[at.nr]].mem)
  THEN [at EXCEPT !.seg = @ + 1] ELSE [nr |-> at.nr + 1, seg |-> 1]

FetchRequest ==
  /\ running /\ request = <<>>
  /\ \E r \in queue : queue' = queue \ {r} /\ request' = r
  /\ at' = Start
  /\ UNCHANGED <<data, bio, running, run>>

\* my_block_transfer: what is past the end of the disk is left out.
Transfer(b, i, sector) ==
  IF sector + 1 > Size
  THEN UNCHANGED <<data, bio>>
  ELSE \/ bio[b].kind = "read"
          /\ bio' = [bio EXCEPT ![b].mem[i] = data[sector]]
          /\ UNCHANGED data
       \/ bio[b].kind = "write"
          /\ data' = [data EXCEPT ![sector] = bio[b].mem[i]]
          /\ UNCHANGED bio

XferSegment_SameSector ==       \* mutant: every segment at the start of its bio
  /\ running /\ request # <<>> /\ ~Passthrough(request) /\ at.nr \in DOMAIN request
  /\ LET b == request[at.nr] IN Transfer(b, at.seg, bio[b].first)
  /\ at' = NextSegment
  /\ UNCHANGED <<queue, request, running, run>>

\* my_xfer_request, one segment: the iterator goes on with the sector.
XferSegment ==
  /\ running /\ request # <<>> /\ ~Passthrough(request) /\ at.nr \in DOMAIN request
  /\ LET b == request[at.nr] IN Transfer(b, at.seg, bio[b].first + at.seg - 1)
  /\ at' = NextSegment
  /\ UNCHANGED <<queue, request, running, run>>

\* __blk_end_request_all: with an error for what is no read or write.
EndRequest ==
  /\ running /\ request # <<>> /\ (Passthrough(request) \/ at.nr > Len(request))
  /\ bio' = [b \in Bios |->
               IF b \in ToSet(request)
               THEN [bio[b] EXCEPT !.state = IF Passthrough(request) THEN "failed" ELSE "done"]
               ELSE bio[b]]
  /\ request' = <<>> /\ at' = Start
  /\ UNCHANGED <<data, queue, running, run>>

ReturnRequest_AfterOne ==       \* mutant: returns although more is queued
  /\ running /\ request = <<>>
  /\ running' = FALSE
  /\ UNCHANGED <<data, bio, queue, request, at, run>>

\* The loop ends when blk_fetch_request has no more requests.
ReturnRequest ==
  /\ running /\ request = <<>> /\ queue = {}
  /\ running' = FALSE
  /\ UNCHANGED <<data, bio, queue, request, at, run>>

-----------------------------------------------------------------------------
RequestFn == FetchRequest \/ XferSegment \/ EndRequest \/ ReturnRequest

Next ==
  \/ \E b \in Bios : Submit(b) \/ SubmitPassthrough(b) \/ Reuse(b)
  \/ CallRequest \/ RequestFn

\* The block layer calls my_block_request when it has queued something, and
\* that runs on.
Fairness == WF_ram_disk_vars(CallRequest) /\ WF_ram_disk_vars(RequestFn)

-----------------------------------------------------------------------------
TypeOK ==
  /\ data \in [0..(Size - 1) -> Values]
  /\ \A b \in Bios :
       /\ bio[b].state \in {"idle", "queued", "done", "failed"}
       /\ bio[b].kind \in {"read", "write", "other"}
       /\ bio[b].mem \in Seq(Values)
  /\ queue \subseteq Seq(Bios) /\ request \in Seq(Bios)
  /\ at \in [nr : Nat, seg : Nat] /\ {running, run} \subseteq BOOLEAN

\* The segments of a bio that are still to come.
Left(b) ==
  {i \in DOMAIN bio[b].mem :
     /\ bio[b].state = "queued"
     /\ \A j \in DOMAIN request :
          request[j] = b => j > at.nr \/ (j = at.nr /\ i >= at.seg)}

State(b) == IF bio[b].state = "queued" THEN "busy" ELSE bio[b].state

Op == [b \in Bios |-> [state |-> State(b), kind |-> bio[b].kind, first |-> bio[b].first,
                       mem |-> bio[b].mem, left |-> Left(b)]]

Disk == INSTANCE DiskStore WITH store <- data, op <- Op

\* However bios are merged into requests and whatever the order the requests
\* are served in, each bio gets every one of its sectors read or written, at
\* the right place, before it is ended as a success; none is dropped by the
\* test of my_block_transfer (ram-disk.c:63), and what is no read or write
\* fails without touching the disk.
ImplementsDisk == Disk!Spec

\* Every bio submitted is ended: the loop of my_block_request leaves no request
\* behind that nothing would call it for again (ram-disk.c:111).
BiosEnd == \A b \in Bios : (bio[b].state = "queued") ~> (bio[b].state # "queued")
=============================================================================
