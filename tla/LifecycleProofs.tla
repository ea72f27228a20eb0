-------------------------- MODULE LifecycleProofs --------------------------
(***************************************************************************)
(* Proofs of the safety properties of Lifecycle.                           *)
(*                                                                         *)
(* They have two parts.  The first is about the scripts of Drivers alone:  *)
(* each of them is fine in the ways Fine lists, which is what a reviewer   *)
(* of one init function, with its error paths and its exit function, can   *)
(* see.  The second, for any modules loaded side by side, uses nothing of  *)
(* a script but that it is fine.                                           *)
(***************************************************************************)
EXTENDS Lifecycle, SequenceTheorems, TLAPS

-----------------------------------------------------------------------------
(* What is fine in the script s of the module d.                           *)

ClaimsOf(s) == {s.init[i].claim : i \in DOMAIN s.init}
Elems(l) == {l[i] : i \in DOMAIN l}
Leaky(d, r) == <<d, r>> \in KnownLeaks

\* The claim i is of r, and when it fails init does not just go on.
Firm(s, i, r) == s.init[i].claim = r /\ s.init[i].fails # "next"

\* The one name that several modules claim.
Common == "major_42"

IsTuple(l) == Len(l) \in Nat /\ l = [i \in 1..Len(l) |-> l[i]]

Shaped(s) ==
  /\ Len(s.init) \in Nat /\ DOMAIN s.init = 1..Len(s.init)
  /\ \A i \in DOMAIN s.init : IsTuple(s.init[i].undo)
  /\ IsTuple(s.exit)

\* A list of what is given back: of what the module claims, but for the known
\* thefts; nothing twice, but for the known cases; no entry point after
\* anything its code uses.
FineList(d, s, l) ==
  /\ \A i \in DOMAIN l : (\E k \in DOMAIN s.init : s.init[k].claim = l[i])
                         \/ <<d, l[i]>> \in KnownThefts
  /\ \A i, j \in DOMAIN l : i < j /\ l[i] = l[j] => l[i] \in KnownTwice
  /\ \A e \in s.needs : \A i, j \in DOMAIN l : i < j /\ l[i] \in e.uses => l[j] # e.entry

Lists(d, s) ==
  FineList(d, s, s.exit) /\ \A p \in DOMAIN s.init : FineList(d, s, s.init[p].undo)

\* An error path undoes all the claims before it.
Undone(d, s) ==
  \A p \in DOMAIN s.init : s.init[p].fails = "error" =>
    \A i \in DOMAIN s.init : i < p =>
      \/ s.init[i].claim \in Elems(s.init[p].undo)
      \/ s.init[i].own = TRUE
      \/ Leaky(d, s.init[i].claim)

\* No process can have opened what init has claimed before it fails.
Closed(d, s) ==
  \/ d \in KnownUnpinned
  \/ \A p \in DOMAIN s.init : s.init[p].fails = "error" =>
       \A i \in DOMAIN s.init : i < p => s.init[i].claim \notin s.opens

\* The common name is given back only after a claim of it that has succeeded.
Commons(s) ==
  /\ \A p \in DOMAIN s.init : Common \in Elems(s.init[p].undo) =>
       \E i \in DOMAIN s.init : i < p /\ Firm(s, i, Common)
  /\ Common \in Elems(s.exit) => \E i \in DOMAIN s.init : Firm(s, i, Common)

\* An error path after which the module stays loaded.
Stays(s) ==
  \A p \in DOMAIN s.init : s.init[p].fails = "loaded" =>
    /\ Common \notin Elems(s.exit)
    /\ \A i \in DOMAIN s.init : i < p => \A e \in s.needs : s.init[i].claim # e.entry
    /\ Elems(s.init[p].undo) \cap Elems(s.exit) \subseteq KnownTwice

\* An entry point is claimed after all that its code uses, which no other
\* module gives back, and is not left behind.
Ready(d, s) ==
  \A e \in s.needs :
    /\ \E i \in DOMAIN s.init : s.init[i].claim = e.entry
    /\ \A p \in DOMAIN s.init : s.init[p].claim = e.entry /\ e.entry \notin KnownUnready =>
         \A u \in e.uses : \E i \in DOMAIN s.init : i < p /\ Firm(s, i, u)
    /\ ~Leaky(d, e.entry)
    /\ \A i \in DOMAIN s.init : s.init[i].own = TRUE => s.init[i].claim # e.entry
    /\ \A u \in e.uses : \A x \in AllDrivers : <<x, u>> \notin KnownThefts

\* The exit function gives back all the claims.
Exits(d, s) ==
  /\ \A i \in DOMAIN s.init :
       s.init[i].claim \in Elems(s.exit) \/ s.init[i].own = TRUE \/ Leaky(d, s.init[i].claim)
  /\ s.pinned = TRUE \/ d \in KnownUnpinned
  /\ \A r \in s.opens : ~Leaky(d, r) /\ \E i \in DOMAIN s.init : s.init[i].claim = r

Fine(d, s) ==
  /\ Shaped(s) /\ Lists(d, s) /\ Undone(d, s) /\ Closed(d, s)
  /\ Commons(s) /\ Stays(s) /\ Ready(d, s) /\ Exits(d, s)

-----------------------------------------------------------------------------
(* The inductive invariant: what holds of each module d at all times.      *)

States == {"out", "init", "live", "error", "loaded", "stuck", "exit"}

TypeInv ==
  /\ st \in [Loadable -> States]
  /\ pos \in [Loadable -> Nat \ {0}]
  /\ todo \in [Loadable -> Seq(Resources)]
  /\ holder \in [Resources -> Loadable \cup {None}]
  /\ given \in [Loadable -> SUBSET Resources]
  /\ twice \in [Loadable -> SUBSET Resources]
  /\ used \in [Loadable -> BOOLEAN]

Stolen(r) == \E d \in AllDrivers : <<d, r>> \in KnownThefts

\* It gives back only where it has something to give back, and counts anew
\* when it is loaded.
Quiet(d) ==
  /\ st[d] \in {"out", "init", "live", "stuck"} => todo[d] = <<>>
  /\ st[d] \in {"out", "init"} => given[d] = {}
  /\ st[d] = "out" => pos[d] = 1

\* What it can be holding.
Holds(d) ==
  \A r \in Resources : holder[r] = d =>
    /\ r \in Claims(d)
    /\ st[d] = "out" => Leaky(d, r)
    /\ st[d] = "init" =>
         Leaky(d, r) \/ \E i \in DOMAIN Script[d].init :
                          i < pos[d] /\ Script[d].init[i].claim = r
    /\ st[d] \in {"error", "exit"} =>
         Leaky(d, r) \/ r \in Own(d) \/ r \in Elems(todo[d])
    /\ st[d] = "error" => d \in KnownUnpinned \/ r \notin Script[d].opens
    /\ st[d] = "loaded" => \A e \in Script[d].needs : r # e.entry

\* What it has given back is not to be given back again.
Once(d) ==
  /\ FineList(d, Script[d], todo[d])
  /\ given[d] \cap Elems(todo[d]) \subseteq KnownTwice
  /\ st[d] \in {"live", "loaded"} =>
       (given[d] \cup Elems(todo[d])) \cap Elems(Script[d].exit) \subseteq KnownTwice
  /\ twice[d] \subseteq KnownTwice

\* What it must be holding: the common name when it is going to give it back,
\* and what its init function has claimed with success.
MustHold(d) ==
  /\ Common \in Elems(todo[d]) => holder[Common] = d
  /\ st[d] \in {"live", "loaded"} /\ Common \in Elems(Script[d].exit) => holder[Common] = d
  /\ st[d] = "init" =>
       \A i \in DOMAIN Script[d].init : \A r \in Resources :
         i < pos[d] /\ Firm(Script[d], i, r) /\ ~Stolen(r) => holder[r] = d

EntriesReady(d) ==
  \A e \in Script[d].needs :
    holder[e.entry] = d /\ e.entry \notin KnownUnready =>
      e.uses \subseteq Held(d)

\* Where it can be open.
OpenIn(d) ==
  d \in KnownUnpinned \/
    /\ used[d] => st[d] \in {"init", "live", "loaded", "stuck"}
    /\ used[d] /\ st[d] = "init" =>
         \E i \in DOMAIN Script[d].init : i < pos[d] /\ Script[d].init[i].claim \in Script[d].opens

Called(d) == d \in KnownUnpinned \/ (Dependents(d) # {} => st[d] = "live")

Local(d) == Quiet(d) /\ Holds(d) /\ Once(d) /\ MustHold(d) /\ EntriesReady(d) /\ OpenIn(d)

Inv == TypeInv /\ \A d \in Loadable : Local(d) /\ Called(d)

-----------------------------------------------------------------------------
(* Each script is fine.                                                    *)

\* The script of kbd is fine, and what it claims.
LEMMA Fine_kbd ==
  /\ Fine("kbd", kbd)
  /\ ClaimsOf(kbd) = { "major_42", "port_0x65", "port_0x61", "kbd_buf_lock",
                       "irq_1", "kbd_cdev" }
  <1> USE DEF Need, Set, Try, Sure, Check, Crash, Entry, kbd
  <1>1. Shaped(kbd)
    BY DEF Shaped, IsTuple
  <1>2. Lists("kbd", kbd)
    BY DEF Lists, FineList, KnownThefts, KnownTwice
  <1>3. Undone("kbd", kbd)
    BY DEF Undone, Leaky, KnownLeaks, Elems
  <1>4. Closed("kbd", kbd)
    BY DEF Closed, KnownUnpinned
  <1>5. Commons(kbd)
    BY DEF Commons, Common, Firm, Elems
  <1>6. Stays(kbd)
    BY DEF Stays, Common, Elems, KnownTwice
  <1>7. Ready("kbd", kbd)
    BY DEF Ready, KnownUnready, Leaky, KnownLeaks, KnownThefts, Firm
  <1>8. Exits("kbd", kbd)
    BY DEF Exits, Leaky, KnownLeaks, KnownUnpinned, Elems
  <1>9. ClaimsOf(kbd) = { "major_42", "port_0x65", "port_0x61", "kbd_buf_lock",
                       "irq_1", "kbd_cdev" }
    BY DEF ClaimsOf
  <1> QED BY <1>1, <1>2, <1>3, <1>4, <1>5, <1>6, <1>7, <1>8, <1>9 DEF Fine

\* The script of so2_cdev is fine, and what it claims.
LEMMA Fine_so2_cdev ==
  /\ Fine("so2_cdev", so2_cdev)
  /\ ClaimsOf(so2_cdev) = { "major_42", "so2_buffer", "so2_cdev" }
  <1> USE DEF Need, Set, Try, Sure, Check, Crash, Entry, so2_cdev
  <1>1. Shaped(so2_cdev)
    BY DEF Shaped, IsTuple
  <1>2. Lists("so2_cdev", so2_cdev)
    BY DEF Lists, FineList, KnownThefts, KnownTwice
  <1>3. Undone("so2_cdev", so2_cdev)
    BY DEF Undone, Leaky, KnownLeaks, Elems
  <1>4. Closed("so2_cdev", so2_cdev)
    BY DEF Closed, KnownUnpinned
  <1>5. Commons(so2_cdev)
    BY DEF Commons, Common, Firm, Elems
  <1>6. Stays(so2_cdev)
    BY DEF Stays, Common, Elems, KnownTwice
  <1>7. Ready("so2_cdev", so2_cdev)
    BY DEF Ready, KnownUnready, Leaky, KnownLeaks, KnownThefts, Firm
  <1>8. Exits("so2_cdev", so2_cdev)
    BY DEF Exits, Leaky, KnownLeaks, KnownUnpinned, Elems
  <1>9. ClaimsOf(so2_cdev) = { "major_42", "so2_buffer", "so2_cdev" }
    BY DEF ClaimsOf
  <1> QED BY <1>1, <1>2, <1>3, <1>4, <1>5, <1>6, <1>7, <1>8, <1>9 DEF Fine

\* The script of deferred is fine, and what it claims.
LEMMA Fine_deferred ==
  /\ Fine("deferred", deferred)
  /\ ClaimsOf(deferred) = { "major_42", "deferred_work_and_list", "deferred_cdev",
                       "deferred_timer" }
  <1> USE DEF Need, Set, Try, Sure, Check, Crash, Entry, deferred
  <1>1. Shaped(deferred)
    BY DEF Shaped, IsTuple
  <1>2. Lists("deferred", deferred)
    BY DEF Lists, FineList, KnownThefts, KnownTwice
  <1>3. Undone("deferred", deferred)
    BY DEF Undone, Leaky, KnownLeaks, Elems
  <1>4. Closed("deferred", deferred)
    BY DEF Closed, KnownUnpinned
  <1>5. Commons(deferred)
    BY DEF Commons, Common, Firm, Elems
  <1>6. Stays(deferred)
    BY DEF Stays, Common, Elems, KnownTwice
  <1>7. Ready("deferred", deferred)
    BY DEF Ready, KnownUnready, Leaky, KnownLeaks, KnownThefts, Firm
  <1>8. Exits("deferred", deferred)
    BY DEF Exits, Leaky, KnownLeaks, KnownUnpinned, Elems
  <1>9. ClaimsOf(deferred) = { "major_42", "deferred_work_and_list", "deferred_cdev",
                       "deferred_timer" }
    BY DEF ClaimsOf
  <1> QED BY <1>1, <1>2, <1>3, <1>4, <1>5, <1>6, <1>7, <1>8, <1>9 DEF Fine

\* The script of filter is fine, and what it claims.
LEMMA Fine_filter ==
  /\ Fine("filter", filter)
  /\ ClaimsOf(filter) = { "major_42", "filter_address", "filter_cdev", "nf_hook" }
  <1> USE DEF Need, Set, Try, Sure, Check, Crash, Entry, filter
  <1>1. Shaped(filter)
    BY DEF Shaped, IsTuple
  <1>2. Lists("filter", filter)
    BY DEF Lists, FineList, KnownThefts, KnownTwice
  <1>3. Undone("filter", filter)
    BY DEF Undone, Leaky, KnownLeaks, Elems
  <1>4. Closed("filter", filter)
    BY DEF Closed, KnownUnpinned
  <1>5. Commons(filter)
    BY DEF Commons, Common, Firm, Elems
  <1>6. Stays(filter)
    BY DEF Stays, Common, Elems, KnownTwice
  <1>7. Ready("filter", filter)
    BY DEF Ready, KnownUnready, Leaky, KnownLeaks, KnownThefts, Firm
  <1>8. Exits("filter", filter)
    BY DEF Exits, Leaky, KnownLeaks, KnownUnpinned, Elems
  <1>9. ClaimsOf(filter) = { "major_42", "filter_address", "filter_cdev", "nf_hook" }
    BY DEF ClaimsOf
  <1> QED BY <1>1, <1>2, <1>3, <1>4, <1>5, <1>6, <1>7, <1>8, <1>9 DEF Fine

\* The script of kmmap is fine, and what it claims.
LEMMA Fine_kmmap ==
  /\ Fine("kmmap", kmmap)
  /\ ClaimsOf(kmmap) = { "proc_my_proc_entry", "major_42", "kmmap_area",
                       "kmmap_reserved_pages", "kmmap_cdev" }
  <1> USE DEF Need, Set, Try, Sure, Check, Crash, Entry, kmmap
  <1>1. Shaped(kmmap)
    BY DEF Shaped, IsTuple
  <1>2. Lists("kmmap", kmmap)
    BY DEF Lists, FineList, KnownThefts, KnownTwice
  <1>3. Undone("kmmap", kmmap)
    BY DEF Undone, Leaky, KnownLeaks, Elems
  <1>4. Closed("kmmap", kmmap)
    BY DEF Closed, KnownUnpinned
  <1>5. Commons(kmmap)
    BY DEF Commons, Common, Firm, Elems
  <1>6. Stays(kmmap)
    BY DEF Stays, Common, Elems, KnownTwice
  <1>7. Ready("kmmap", kmmap)
    BY DEF Ready, KnownUnready, Leaky, KnownLeaks, KnownThefts, Firm
  <1>8. Exits("kmmap", kmmap)
    BY DEF Exits, Leaky, KnownLeaks, KnownUnpinned, Elems
  <1>9. ClaimsOf(kmmap) = { "proc_my_proc_entry", "major_42", "kmmap_area",
                       "kmmap_reserved_pages", "kmmap_cdev" }
    BY DEF ClaimsOf
  <1> QED BY <1>1, <1>2, <1>3, <1>4, <1>5, <1>6, <1>7, <1>8, <1>9 DEF Fine

\* The script of vmmap is fine, and what it claims.
LEMMA Fine_vmmap ==
  /\ Fine("vmmap", vmmap)
  /\ ClaimsOf(vmmap) = { "major_42", "vmmap_area", "vmmap_reserved_pages",
                       "vmmap_cdev" }
  <1> USE DEF Need, Set, Try, Sure, Check, Crash, Entry, vmmap
  <1>1. Shaped(vmmap)
    BY DEF Shaped, IsTuple
  <1>2. Lists("vmmap", vmmap)
    BY DEF Lists, FineList, KnownThefts, KnownTwice
  <1>3. Undone("vmmap", vmmap)
    BY DEF Undone, Leaky, KnownLeaks, Elems
  <1>4. Closed("vmmap", vmmap)
    BY DEF Closed, KnownUnpinned
  <1>5. Commons(vmmap)
    BY DEF Commons, Common, Firm, Elems
  <1>6. Stays(vmmap)
    BY DEF Stays, Common, Elems, KnownTwice
  <1>7. Ready("vmmap", vmmap)
    BY DEF Ready, KnownUnready, Leaky, KnownLeaks, KnownThefts, Firm
  <1>8. Exits("vmmap", vmmap)
    BY DEF Exits, Leaky, KnownLeaks, KnownUnpinned, Elems
  <1>9. ClaimsOf(vmmap) = { "major_42", "vmmap_area", "vmmap_reserved_pages",
                       "vmmap_cdev" }
    BY DEF ClaimsOf
  <1> QED BY <1>1, <1>2, <1>3, <1>4, <1>5, <1>6, <1>7, <1>8, <1>9 DEF Fine

\* The script of ram_disk is fine, and what it claims.
LEMMA Fine_ram_disk ==
  /\ Fine("ram_disk", ram_disk)
  /\ ClaimsOf(ram_disk) = { "major_240", "ram_disk_data", "ram_disk_queue",
                       "ram_disk_gendisk", "ram_disk_added" }
  <1> USE DEF Need, Set, Try, Sure, Check, Crash, Entry, ram_disk
  <1>1. Shaped(ram_disk)
    BY DEF Shaped, IsTuple
  <1>2. Lists("ram_disk", ram_disk)
    BY DEF Lists, FineList, KnownThefts, KnownTwice
  <1>3. Undone("ram_disk", ram_disk)
    BY DEF Undone, Leaky, KnownLeaks, Elems
  <1>4. Closed("ram_disk", ram_disk)
    BY DEF Closed, KnownUnpinned
  <1>5. Commons(ram_disk)
    BY DEF Commons, Common, Firm, Elems
  <1>6. Stays(ram_disk)
    BY DEF Stays, Common, Elems, KnownTwice
  <1>7. Ready("ram_disk", ram_disk)
    BY DEF Ready, KnownUnready, Leaky, KnownLeaks, KnownThefts, Firm
  <1>8. Exits("ram_disk", ram_disk)
    BY DEF Exits, Leaky, KnownLeaks, KnownUnpinned, Elems
  <1>9. ClaimsOf(ram_disk) = { "major_240", "ram_disk_data", "ram_disk_queue",
                       "ram_disk_gendisk", "ram_disk_added" }
    BY DEF ClaimsOf
  <1> QED BY <1>1, <1>2, <1>3, <1>4, <1>5, <1>6, <1>7, <1>8, <1>9 DEF Fine

\* The script of relay_disk is fine, and what it claims.
LEMMA Fine_relay_disk ==
  /\ Fine("relay_disk", relay_disk)
  /\ ClaimsOf(relay_disk) = { "dev_vdb" }
  <1> USE DEF Need, Set, Try, Sure, Check, Crash, Entry, relay_disk
  <1>1. Shaped(relay_disk)
    BY DEF Shaped, IsTuple
  <1>2. Lists("relay_disk", relay_disk)
    BY DEF Lists, FineList, KnownThefts, KnownTwice
  <1>3. Undone("relay_disk", relay_disk)
    BY DEF Undone, Leaky, KnownLeaks, Elems
  <1>4. Closed("relay_disk", relay_disk)
    BY DEF Closed, KnownUnpinned
  <1>5. Commons(relay_disk)
    BY DEF Commons, Common, Firm, Elems
  <1>6. Stays(relay_disk)
    BY DEF Stays, Common, Elems, KnownTwice
  <1>7. Ready("relay_disk", relay_disk)
    BY DEF Ready, KnownUnready, Leaky, KnownLeaks, KnownThefts, Firm
  <1>8. Exits("relay_disk", relay_disk)
    BY DEF Exits, Leaky, KnownLeaks, KnownUnpinned, Elems
  <1>9. ClaimsOf(relay_disk) = { "dev_vdb" }
    BY DEF ClaimsOf
  <1> QED BY <1>1, <1>2, <1>3, <1>4, <1>5, <1>6, <1>7, <1>8, <1>9 DEF Fine

\* The script of tcp_sock is fine, and what it claims.
LEMMA Fine_tcp_sock ==
  /\ Fine("tcp_sock", tcp_sock)
  /\ ClaimsOf(tcp_sock) = { "tcp_socket", "tcp_port_60000", "tcp_listening",
                       "tcp_new_sock", "tcp_connection", "tcp_peer_name" }
  <1> USE DEF Need, Set, Try, Sure, Check, Crash, Entry, tcp_sock
  <1>1. Shaped(tcp_sock)
    BY DEF Shaped, IsTuple
  <1>2. Lists("tcp_sock", tcp_sock)
    BY DEF Lists, FineList, KnownThefts, KnownTwice
  <1>3. Undone("tcp_sock", tcp_sock)
    BY DEF Undone, Leaky, KnownLeaks, Elems
  <1>4. Closed("tcp_sock", tcp_sock)
    BY DEF Closed, KnownUnpinned
  <1>5. Commons(tcp_sock)
    BY DEF Commons, Common, Firm, Elems
  <1>6. Stays(tcp_sock)
    BY DEF Stays, Common, Elems, KnownTwice
  <1>7. Ready("tcp_sock", tcp_sock)
    BY DEF Ready, KnownUnready, Leaky, KnownLeaks, KnownThefts, Firm
  <1>8. Exits("tcp_sock", tcp_sock)
    BY DEF Exits, Leaky, KnownLeaks, KnownUnpinned, Elems
  <1>9. ClaimsOf(tcp_sock) = { "tcp_socket", "tcp_port_60000", "tcp_listening",
                       "tcp_new_sock", "tcp_connection", "tcp_peer_name" }
    BY DEF ClaimsOf
  <1> QED BY <1>1, <1>2, <1>3, <1>4, <1>5, <1>6, <1>7, <1>8, <1>9 DEF Fine

\* The script of udp_sock is fine, and what it claims.
LEMMA Fine_udp_sock ==
  /\ Fine("udp_sock", udp_sock)
  /\ ClaimsOf(udp_sock) = { "udp_socket", "udp_port_60000", "udp_message" }
  <1> USE DEF Need, Set, Try, Sure, Check, Crash, Entry, udp_sock
  <1>1. Shaped(udp_sock)
    BY DEF Shaped, IsTuple
  <1>2. Lists("udp_sock", udp_sock)
    BY DEF Lists, FineList, KnownThefts, KnownTwice
  <1>3. Undone("udp_sock", udp_sock)
    BY DEF Undone, Leaky, KnownLeaks, Elems
  <1>4. Closed("udp_sock", udp_sock)
    BY DEF Closed, KnownUnpinned
  <1>5. Commons(udp_sock)
    BY DEF Commons, Common, Firm, Elems
  <1>6. Stays(udp_sock)
    BY DEF Stays, Common, Elems, KnownTwice
  <1>7. Ready("udp_sock", udp_sock)
    BY DEF Ready, KnownUnready, Leaky, KnownLeaks, KnownThefts, Firm
  <1>8. Exits("udp_sock", udp_sock)
    BY DEF Exits, Leaky, KnownLeaks, KnownUnpinned, Elems
  <1>9. ClaimsOf(udp_sock) = { "udp_socket", "udp_port_60000", "udp_message" }
    BY DEF ClaimsOf
  <1> QED BY <1>1, <1>2, <1>3, <1>4, <1>5, <1>6, <1>7, <1>8, <1>9 DEF Fine

\* The script of minfs is fine, and what it claims.
LEMMA Fine_minfs ==
  /\ Fine("minfs", minfs)
  /\ ClaimsOf(minfs) = { "fs_minfs" }
  <1> USE DEF Need, Set, Try, Sure, Check, Crash, Entry, minfs
  <1>1. Shaped(minfs)
    BY DEF Shaped, IsTuple
  <1>2. Lists("minfs", minfs)
    BY DEF Lists, FineList, KnownThefts, KnownTwice
  <1>3. Undone("minfs", minfs)
    BY DEF Undone, Leaky, KnownLeaks, Elems
  <1>4. Closed("minfs", minfs)
    BY DEF Closed, KnownUnpinned
  <1>5. Commons(minfs)
    BY DEF Commons, Common, Firm, Elems
  <1>6. Stays(minfs)
    BY DEF Stays, Common, Elems, KnownTwice
  <1>7. Ready("minfs", minfs)
    BY DEF Ready, KnownUnready, Leaky, KnownLeaks, KnownThefts, Firm
  <1>8. Exits("minfs", minfs)
    BY DEF Exits, Leaky, KnownLeaks, KnownUnpinned, Elems
  <1>9. ClaimsOf(minfs) = { "fs_minfs" }
    BY DEF ClaimsOf
  <1> QED BY <1>1, <1>2, <1>3, <1>4, <1>5, <1>6, <1>7, <1>8, <1>9 DEF Fine

\* The script of minfs_mount is fine, and what it claims.
LEMMA Fine_minfs_mount ==
  /\ Fine("minfs_mount", minfs_mount)
  /\ ClaimsOf(minfs_mount) = { "minfs_sbi", "minfs_block_size", "minfs_sbh", "minfs_magic",
                       "minfs_inode_in_core", "minfs_root_inode",
                       "minfs_root_dentry" }
  <1> USE DEF Need, Set, Try, Sure, Check, Crash, Entry, minfs_mount
  <1>1. Shaped(minfs_mount)
    BY DEF Shaped, IsTuple
  <1>2. Lists("minfs_mount", minfs_mount)
    BY DEF Lists, FineList, KnownThefts, KnownTwice
  <1>3. Undone("minfs_mount", minfs_mount)
    BY DEF Undone, Leaky, KnownLeaks, Elems
  <1>4. Closed("minfs_mount", minfs_mount)
    BY DEF Closed, KnownUnpinned
  <1>5. Commons(minfs_mount)
    <2>1. \A p \in DOMAIN minfs_mount.init : Common \notin Elems(minfs_mount.init[p].undo)
      BY SMTT(60) DEF Common, Elems
    <2>2. Common \notin Elems(minfs_mount.exit)
      BY DEF Common, Elems
    <2> QED BY <2>1, <2>2 DEF Commons
  <1>6. Stays(minfs_mount)
    BY DEF Stays, Common, Elems, KnownTwice
  <1>7. Ready("minfs_mount", minfs_mount)
    BY DEF Ready, KnownUnready, Leaky, KnownLeaks, KnownThefts, Firm
  <1>8. Exits("minfs_mount", minfs_mount)
    BY DEF Exits, Leaky, KnownLeaks, KnownUnpinned, Elems
  <1>9. ClaimsOf(minfs_mount) = { "minfs_sbi", "minfs_block_size", "minfs_sbh", "minfs_magic",
                       "minfs_inode_in_core", "minfs_root_inode",
                       "minfs_root_dentry" }
    BY DEF ClaimsOf
  <1> QED BY <1>1, <1>2, <1>3, <1>4, <1>5, <1>6, <1>7, <1>8, <1>9 DEF Fine

\* The script of myfs is fine, and what it claims.
LEMMA Fine_myfs ==
  /\ Fine("myfs", myfs)
  /\ ClaimsOf(myfs) = { "fs_myfs" }
  <1> USE DEF Need, Set, Try, Sure, Check, Crash, Entry, myfs
  <1>1. Shaped(myfs)
    BY DEF Shaped, IsTuple
  <1>2. Lists("myfs", myfs)
    BY DEF Lists, FineList, KnownThefts, KnownTwice
  <1>3. Undone("myfs", myfs)
    BY DEF Undone, Leaky, KnownLeaks, Elems
  <1>4. Closed("myfs", myfs)
    BY DEF Closed, KnownUnpinned
  <1>5. Commons(myfs)
    BY DEF Commons, Common, Firm, Elems
  <1>6. Stays(myfs)
    BY DEF Stays, Common, Elems, KnownTwice
  <1>7. Ready("myfs", myfs)
    BY DEF Ready, KnownUnready, Leaky, KnownLeaks, KnownThefts, Firm
  <1>8. Exits("myfs", myfs)
    BY DEF Exits, Leaky, KnownLeaks, KnownUnpinned, Elems
  <1>9. ClaimsOf(myfs) = { "fs_myfs" }
    BY DEF ClaimsOf
  <1> QED BY <1>1, <1>2, <1>3, <1>4, <1>5, <1>6, <1>7, <1>8, <1>9 DEF Fine

\* The script of myfs_mount is fine, and what it claims.
LEMMA Fine_myfs_mount ==
  /\ Fine("myfs_mount", myfs_mount)
  /\ ClaimsOf(myfs_mount) = { "myfs_root_inode", "myfs_root_dentry" }
  <1> USE DEF Need, Set, Try, Sure, Check, Crash, Entry, myfs_mount
  <1>1. Shaped(myfs_mount)
    BY DEF Shaped, IsTuple
  <1>2. Lists("myfs_mount", myfs_mount)
    BY DEF Lists, FineList, KnownThefts, KnownTwice
  <1>3. Undone("myfs_mount", myfs_mount)
    BY DEF Undone, Leaky, KnownLeaks, Elems
  <1>4. Closed("myfs_mount", myfs_mount)
    BY DEF Closed, KnownUnpinned
  <1>5. Commons(myfs_mount)
    BY DEF Commons, Common, Firm, Elems
  <1>6. Stays(myfs_mount)
    BY DEF Stays, Common, Elems, KnownTwice
  <1>7. Ready("myfs_mount", myfs_mount)
    BY DEF Ready, KnownUnready, Leaky, KnownLeaks, KnownThefts, Firm
  <1>8. Exits("myfs_mount", myfs_mount)
    BY DEF Exits, Leaky, KnownLeaks, KnownUnpinned, Elems
  <1>9. ClaimsOf(myfs_mount) = { "myfs_root_inode", "myfs_root_dentry" }
    BY DEF ClaimsOf
  <1> QED BY <1>1, <1>2, <1>3, <1>4, <1>5, <1>6, <1>7, <1>8, <1>9 DEF Fine

\* The script of bex is fine, and what it claims.
LEMMA Fine_bex ==
  /\ Fine("bex", bex)
  /\ ClaimsOf(bex) = { "bus_bex", "bex_device_memory", "bex_device_name", "bex_device" }
  <1> USE DEF Need, Set, Try, Sure, Check, Crash, Entry, bex
  <1>1. Shaped(bex)
    BY DEF Shaped, IsTuple
  <1>2. Lists("bex", bex)
    BY DEF Lists, FineList, KnownThefts, KnownTwice
  <1>3. Undone("bex", bex)
    BY DEF Undone, Leaky, KnownLeaks, Elems
  <1>4. Closed("bex", bex)
    BY DEF Closed, KnownUnpinned
  <1>5. Commons(bex)
    BY DEF Commons, Common, Firm, Elems
  <1>6. Stays(bex)
    BY DEF Stays, Common, Elems, KnownTwice
  <1>7. Ready("bex", bex)
    BY DEF Ready, KnownUnready, Leaky, KnownLeaks, KnownThefts, Firm
  <1>8. Exits("bex", bex)
    BY DEF Exits, Leaky, KnownLeaks, KnownUnpinned, Elems
  <1>9. ClaimsOf(bex) = { "bus_bex", "bex_device_memory", "bex_device_name", "bex_device" }
    BY DEF ClaimsOf
  <1> QED BY <1>1, <1>2, <1>3, <1>4, <1>5, <1>6, <1>7, <1>8, <1>9 DEF Fine

\* The script of bex_misc is fine, and what it claims.
LEMMA Fine_bex_misc ==
  /\ Fine("bex_misc", bex_misc)
  /\ ClaimsOf(bex_misc) = { "driver_bex_misc" }
  <1> USE DEF Need, Set, Try, Sure, Check, Crash, Entry, bex_misc
  <1>1. Shaped(bex_misc)
    BY DEF Shaped, IsTuple
  <1>2. Lists("bex_misc", bex_misc)
    BY DEF Lists, FineList, KnownThefts, KnownTwice
  <1>3. Undone("bex_misc", bex_misc)
    BY DEF Undone, Leaky, KnownLeaks, Elems
  <1>4. Closed("bex_misc", bex_misc)
    BY DEF Closed, KnownUnpinned
  <1>5. Commons(bex_misc)
    BY DEF Commons, Common, Firm, Elems
  <1>6. Stays(bex_misc)
    BY DEF Stays, Common, Elems, KnownTwice
  <1>7. Ready("bex_misc", bex_misc)
    BY DEF Ready, KnownUnready, Leaky, KnownLeaks, KnownThefts, Firm
  <1>8. Exits("bex_misc", bex_misc)
    BY DEF Exits, Leaky, KnownLeaks, KnownUnpinned, Elems
  <1>9. ClaimsOf(bex_misc) = { "driver_bex_misc" }
    BY DEF ClaimsOf
  <1> QED BY <1>1, <1>2, <1>3, <1>4, <1>5, <1>6, <1>7, <1>8, <1>9 DEF Fine

\* The script of timer is fine, and what it claims.
LEMMA Fine_timer ==
  /\ Fine("timer", timer)
  /\ ClaimsOf(timer) = { "timer_handler", "timer_armed" }
  <1> USE DEF Need, Set, Try, Sure, Check, Crash, Entry, timer
  <1>1. Shaped(timer)
    BY DEF Shaped, IsTuple
  <1>2. Lists("timer", timer)
    BY DEF Lists, FineList, KnownThefts, KnownTwice
  <1>3. Undone("timer", timer)
    BY DEF Undone, Leaky, KnownLeaks, Elems
  <1>4. Closed("timer", timer)
    BY DEF Closed, KnownUnpinned
  <1>5. Commons(timer)
    BY DEF Commons, Common, Firm, Elems
  <1>6. Stays(timer)
    BY DEF Stays, Common, Elems, KnownTwice
  <1>7. Ready("timer", timer)
    BY DEF Ready, KnownUnready, Leaky, KnownLeaks, KnownThefts, Firm
  <1>8. Exits("timer", timer)
    BY DEF Exits, Leaky, KnownLeaks, KnownUnpinned, Elems
  <1>9. ClaimsOf(timer) = { "timer_handler", "timer_armed" }
    BY DEF ClaimsOf
  <1> QED BY <1>1, <1>2, <1>3, <1>4, <1>5, <1>6, <1>7, <1>8, <1>9 DEF Fine

\* The script of each module, by name.
LEMMA Scripts ==
  \A d \in AllDrivers :
    \/ d = "kbd" /\ Script[d] = kbd
    \/ d = "so2_cdev" /\ Script[d] = so2_cdev
    \/ d = "deferred" /\ Script[d] = deferred
    \/ d = "filter" /\ Script[d] = filter
    \/ d = "kmmap" /\ Script[d] = kmmap
    \/ d = "vmmap" /\ Script[d] = vmmap
    \/ d = "ram_disk" /\ Script[d] = ram_disk
    \/ d = "relay_disk" /\ Script[d] = relay_disk
    \/ d = "tcp_sock" /\ Script[d] = tcp_sock
    \/ d = "udp_sock" /\ Script[d] = udp_sock
    \/ d = "minfs" /\ Script[d] = minfs
    \/ d = "minfs_mount" /\ Script[d] = minfs_mount
    \/ d = "myfs" /\ Script[d] = myfs
    \/ d = "myfs_mount" /\ Script[d] = myfs_mount
    \/ d = "bex" /\ Script[d] = bex
    \/ d = "bex_misc" /\ Script[d] = bex_misc
    \/ d = "timer" /\ Script[d] = timer
  BY DEF AllDrivers, Script

\* All scripts are fine.
LEMMA AllScriptsFine == \A d \in AllDrivers : Fine(d, Script[d])
  BY Scripts, Fine_kbd, Fine_so2_cdev, Fine_deferred, Fine_filter, Fine_kmmap,
       Fine_vmmap, Fine_ram_disk, Fine_relay_disk, Fine_tcp_sock,
       Fine_udp_sock, Fine_minfs, Fine_minfs_mount, Fine_myfs,
       Fine_myfs_mount, Fine_bex, Fine_bex_misc, Fine_timer

\* No two modules claim the same name, but for the major number 42.
LEMMA ClaimsApart ==
  \A d, e \in AllDrivers :
    d # e => ClaimsOf(Script[d]) \cap ClaimsOf(Script[e]) \subseteq {Common}
  BY Scripts, Fine_kbd, Fine_so2_cdev, Fine_deferred, Fine_filter, Fine_kmmap,
       Fine_vmmap, Fine_ram_disk, Fine_relay_disk, Fine_tcp_sock,
       Fine_udp_sock, Fine_minfs, Fine_minfs_mount, Fine_myfs,
       Fine_myfs_mount, Fine_bex, Fine_bex_misc, Fine_timer DEF Common

\* Who a resource is stolen from is one of the modules.
LEMMA StolenClaimed == \A r : Stolen(r) => \E d \in AllDrivers : r \in Claims(d)
  <1>1. "kmmap" \in AllDrivers /\ Script["kmmap"] = kmmap
    BY DEF AllDrivers, Script
  <1>2. "proc_my_proc_entry" \in Claims("kmmap")
    BY <1>1, Fine_kmmap DEF Claims, ClaimsOf
  <1> QED BY <1>1, <1>2 DEF Stolen, KnownThefts

-----------------------------------------------------------------------------
(* What the second part uses of the scripts.                               *)

\* Every module that may be loaded has a script, which is fine, and shares no
\* name but the common one with another.
LEMMA AllFine ==
  /\ Loadable \subseteq AllDrivers /\ None \notin Loadable
  /\ \A d \in AllDrivers : Fine(d, Script[d])
  /\ \A d, e \in AllDrivers : d # e => Claims(d) \cap Claims(e) \subseteq {Common}
  <1>1. \A d \in AllDrivers : Claims(d) = ClaimsOf(Script[d])
    BY DEF Claims, ClaimsOf
  <1> QED BY <1>1, LoadableAssumption, AllScriptsFine, ClaimsApart

\* The members of a tuple make it a sequence of them.
LEMMA TupleSeq ==
  ASSUME NEW l, IsTuple(l), NEW S, Elems(l) \subseteq S
  PROVE  l \in Seq(S)
  <1>1. l \in [1..Len(l) -> S]
    BY DEF IsTuple, Elems
  <1> QED BY <1>1, SeqDef DEF IsTuple

\* What is taken from the front of a list.
LEMMA HeadTail ==
  ASSUME NEW S, NEW l \in Seq(S), l # <<>>
  PROVE  /\ Head(l) \in S /\ Head(l) = l[1] /\ 1 \in DOMAIN l /\ Tail(l) \in Seq(S)
         /\ Head(l) \in Elems(l)
         /\ \A i \in DOMAIN Tail(l) : i \in Nat /\ i + 1 \in DOMAIN l /\ Tail(l)[i] = l[i + 1] /\ 1 < i + 1
         /\ Elems(Tail(l)) \subseteq Elems(l)
         /\ Elems(l) = Elems(Tail(l)) \cup {Head(l)}
         /\ Tail(l) # l
  <1>1. /\ Head(l) \in S /\ Head(l) = l[1] /\ 1 \in DOMAIN l /\ Tail(l) \in Seq(S)
        /\ \A i \in DOMAIN Tail(l) : i \in Nat /\ i + 1 \in DOMAIN l /\ Tail(l)[i] = l[i + 1] /\ 1 < i + 1
    OBVIOUS
  <1>2. DOMAIN Tail(l) = 1..Len(l) - 1 /\ DOMAIN l = 1..Len(l) /\ Len(l) \in Nat /\ Len(l) # 0
    OBVIOUS
  <1>3. \A i \in DOMAIN l : i = 1 \/ i - 1 \in DOMAIN Tail(l)
    BY <1>2
  <1>4. \A i \in DOMAIN l : i = 1 \/ l[i] = Tail(l)[i - 1]
    <2> SUFFICES ASSUME NEW i \in DOMAIN l, i # 1
                 PROVE  l[i] = Tail(l)[i - 1]
      OBVIOUS
    <2>1. Tail(l)[i - 1] = l[(i - 1) + 1]
      BY <1>1, <1>3
    <2> QED BY <2>1, <1>2
  <1>5. Elems(Tail(l)) \subseteq Elems(l) /\ Head(l) \in Elems(l)
    BY <1>1 DEF Elems
  <1>6. Elems(l) \subseteq Elems(Tail(l)) \cup {Head(l)}
    BY <1>1, <1>3, <1>4 DEF Elems
  <1>7. Tail(l) # l
    <2>1. \A m : m = Tail(l) => Len(m) = Len(l) - 1
      OBVIOUS
    <2>2. \A n \in Nat : n # n - 1
      OBVIOUS
    <2>3. Len(l) \in Nat
      OBVIOUS
    <2> QED BY <2>1, <2>2, <2>3
  <1> QED BY <1>1, <1>5, <1>6, <1>7

\* What is left of a fine list is a fine list, in which what was taken is not
\* again, but for the known cases.
LEMMA FineTail ==
  ASSUME NEW d, NEW s, NEW S, NEW l \in Seq(S), l # <<>>, FineList(d, s, l)
  PROVE  /\ FineList(d, s, Tail(l))
         /\ Head(l) \in Elems(Tail(l)) => Head(l) \in KnownTwice
         /\ \A e \in s.needs : Head(l) \in e.uses => e.entry \notin Elems(Tail(l))
  <1>1. /\ Head(l) = l[1] /\ 1 \in DOMAIN l
        /\ \A i \in DOMAIN Tail(l) : i \in Nat /\ i + 1 \in DOMAIN l /\ Tail(l)[i] = l[i + 1] /\ 1 < i + 1
    BY HeadTail
  <1>2. \A i, j \in DOMAIN Tail(l) : i < j => i + 1 < j + 1
    BY <1>1
  <1> QED BY <1>1, <1>2 DEF FineList, Elems

\* The lists of a script are sequences of resources.
LEMMA ListTypes ==
  ASSUME NEW d \in Loadable
  PROVE  /\ Script[d].exit \in Seq(Resources)
         /\ \A i \in DOMAIN Script[d].init :
              i \in Nat /\ Script[d].init[i].claim \in Resources /\ Script[d].init[i].undo \in Seq(Resources)
         /\ DOMAIN Script[d].init = 1..Len(Script[d].init) /\ Len(Script[d].init) \in Nat
         /\ Claims(d) \subseteq Resources
  <1>1. Claims(d) \subseteq Resources /\ \A i \in DOMAIN Script[d].init : Script[d].init[i].claim \in Claims(d)
    BY AllFine DEF Resources, Claims
  <1>2. \A r : Stolen(r) => r \in Resources
    BY StolenClaimed DEF Resources
  <1>3. \A r : <<d, r>> \in KnownThefts => Stolen(r)
    BY AllFine DEF Stolen
  <1>4. \A l : FineList(d, Script[d], l) => Elems(l) \subseteq Resources
    BY <1>1, <1>2, <1>3 DEF FineList, Elems
  <1>5. Shaped(Script[d]) /\ Lists(d, Script[d])
    BY AllFine DEF Fine
  <1>6. Script[d].exit \in Seq(Resources)
    BY <1>4, <1>5, TupleSeq DEF Shaped, Lists
  <1>7. \A i \in DOMAIN Script[d].init : Script[d].init[i].undo \in Seq(Resources)
    BY <1>4, <1>5, TupleSeq DEF Shaped, Lists
  <1> QED BY <1>1, <1>5, <1>6, <1>7 DEF Shaped

-----------------------------------------------------------------------------
(* The invariant is inductive.                                             *)

\* The common name is a resource nobody steals.
LEMMA CommonSafe == Common \in Resources /\ ~Stolen(Common)
  <1>1. "kbd" \in AllDrivers /\ Script["kbd"] = kbd
    BY DEF AllDrivers, Script
  <1>2. Common \in Claims("kbd")
    BY <1>1, Fine_kbd DEF Claims, ClaimsOf, Common
  <1> QED BY <1>1, <1>2 DEF Resources, Stolen, KnownThefts, Common

\* A step of another module, which takes nothing from d but what is known to be
\* stolen, leaves what holds of d.
LEMMA Frame ==
  ASSUME NEW d \in Loadable, Local(d),
         st'[d] = st[d], pos'[d] = pos[d], todo'[d] = todo[d],
         given'[d] = given[d], twice'[d] = twice[d], used'[d] = used[d],
         \A r \in Resources : holder'[r] = d => holder[r] = d,
         \A r \in Resources : holder[r] = d /\ ~Stolen(r) => holder'[r] = d
  PROVE  Local(d)'
  <1>1. Quiet(d)'
    BY DEF Local, Quiet
  <1>2. Holds(d)'
    BY DEF Local, Holds
  <1>3. Once(d)'
    BY DEF Local, Once
  <1>4. MustHold(d)'
    BY CommonSafe DEF Local, MustHold
  <1>5. EntriesReady(d)'
    <2> SUFFICES ASSUME NEW e \in Script[d].needs, holder'[e.entry] = d, e.entry \notin KnownUnready
                 PROVE  e.uses \subseteq Held(d)'
      BY DEF EntriesReady
    <2>1. e.entry \in Resources
      BY AllFine, ListTypes DEF Fine, Ready
    <2>2. \A u \in e.uses : ~Stolen(u)
      BY AllFine DEF Fine, Ready, Stolen
    <2>3. e.uses \subseteq Held(d)
      BY <2>1 DEF Local, EntriesReady
    <2> QED BY <2>2, <2>3 DEF Held
  <1>6. OpenIn(d)'
    BY DEF Local, OpenIn
  <1> QED BY <1>1, <1>2, <1>3, <1>4, <1>5, <1>6 DEF Local

\* What other modules call stays, when no module is loaded.
LEMMA CalledFrame ==
  ASSUME NEW d \in Loadable, Called(d),
         d \in KnownUnpinned \/ Dependents(d) = {} \/ (st[d] = "live" => st'[d] = "live"),
         \A e \in Loadable : st[e] = "out" => st'[e] = "out"
  PROVE  Called(d)'
  BY DEF Called, Dependents

\* A step of the module x that loads nothing keeps the invariant when it keeps
\* what holds of x.
LEMMA StepOf ==
  ASSUME Inv, TypeInv', NEW x \in Loadable, Local(x)',
         \A d \in Loadable \ {x} :
           /\ st'[d] = st[d] /\ pos'[d] = pos[d] /\ todo'[d] = todo[d]
           /\ given'[d] = given[d] /\ twice'[d] = twice[d] /\ used'[d] = used[d],
         \A d \in Loadable \ {x} : \A r \in Resources :
           /\ holder'[r] = d => holder[r] = d
           /\ holder[r] = d /\ ~Stolen(r) => holder'[r] = d,
         x \in KnownUnpinned \/ Dependents(x) = {} \/ (st[x] = "live" => st'[x] = "live"),
         st[x] # "out"
  PROVE  Inv'
  <1>1. ASSUME NEW d \in Loadable PROVE Local(d)'
    BY <1>1, Frame DEF Inv
  <1>2. ASSUME NEW d \in Loadable PROVE Called(d)'
    BY <1>2, CalledFrame DEF Inv
  <1> QED BY <1>1, <1>2 DEF Inv

\* Nothing is loaded at first.
LEMMA InitInv == Init => Inv
  <1> SUFFICES ASSUME Init PROVE Inv
    OBVIOUS
  <1>1. TypeInv
    BY DEF Init, TypeInv, States
  <1>2. ASSUME NEW d \in Loadable PROVE Local(d) /\ Called(d)
    <2>1. todo[d] = <<>> /\ st[d] = "out" /\ pos[d] = 1 /\ given[d] = {} /\ twice[d] = {} /\ used[d] = FALSE
      BY DEF Init
    <2>2. DOMAIN todo[d] = {} /\ Elems(todo[d]) = {}
      BY <2>1 DEF Elems
    <2>3. \A r \in Resources : holder[r] # d
      BY AllFine DEF Init
    <2>4. Quiet(d) /\ Holds(d)
      BY <2>1, <2>3 DEF Quiet, Holds
    <2>5. Once(d)
      BY <2>1, <2>2 DEF Once, FineList
    <2>6. MustHold(d)
      BY <2>1, <2>2 DEF MustHold
    <2>7. EntriesReady(d)
      BY <2>3, AllFine, ListTypes DEF EntriesReady, Fine, Ready
    <2>8. OpenIn(d)
      BY <2>1 DEF OpenIn
    <2>9. Called(d)
      BY DEF Called, Dependents, Init
    <2> QED BY <2>4, <2>5, <2>6, <2>7, <2>8, <2>9 DEF Local
  <1> QED BY <1>1, <1>2 DEF Inv

\* insmod.
LEMMA LoadInv == ASSUME Inv, NEW x \in Loadable, Load(x) PROVE Inv'
  <1>1. /\ st[x] = "out" /\ st'[x] = "init" /\ pos[x] = 1 /\ todo[x] = <<>> /\ given[x] = {}
        /\ \A d \in Loadable \ {x} : st'[d] = st[d]
        /\ UNCHANGED <<pos, todo, holder, given, twice, used>>
    BY DEF Load, Inv, TypeInv, Local, Quiet
  <1>2. TypeInv'
    BY <1>1 DEF Load, Inv, TypeInv, States
  <1>3. Local(x)
    BY DEF Inv
  <1>4. Local(x)'
    <2>1. Quiet(x)'
      BY <1>1 DEF Quiet
    <2>2. Holds(x)'
      BY <1>1, <1>3 DEF Local, Holds
    <2>3. Once(x)'
      BY <1>1, <1>3 DEF Local, Once
    <2>4. MustHold(x)'
      BY <1>1, <1>3, ListTypes DEF Local, MustHold
    <2>5. EntriesReady(x)'
      BY <1>1, <1>3 DEF Local, EntriesReady, Held
    <2>6. OpenIn(x)'
      BY <1>1, <1>3 DEF Local, OpenIn
    <2> QED BY <2>1, <2>2, <2>3, <2>4, <2>5, <2>6 DEF Local
  <1>5. ASSUME NEW d \in Loadable PROVE Local(d)'
    BY <1>1, <1>4, Frame DEF Inv
  <1>6. ASSUME NEW d \in Loadable PROVE Called(d)'
    <2> SUFFICES ASSUME d \notin KnownUnpinned, NEW e \in Loadable, d \in Script[e].deps, st'[e] # "out"
                 PROVE  st'[d] = "live"
      BY DEF Called, Dependents
    <2>1. st[d] = "live"
      <3>1. CASE e = x
        BY <3>1 DEF Load
      <3>2. CASE e # x
        BY <3>2, <1>1 DEF Inv, Called, Dependents
      <3> QED BY <3>1, <3>2
    <2> QED BY <2>1, <1>1
  <1> QED BY <1>2, <1>5, <1>6 DEF Inv

\* A claim whose failure is ignored.
LEMMA FailIgnoredInv == ASSUME Inv, NEW x \in Loadable, FailIgnored(x) PROVE Inv'
  <1>1. /\ st[x] = "init" /\ pos[x] \in DOMAIN Script[x].init /\ Script[x].init[pos[x]].fails = "next"
        /\ pos[x] \in Nat /\ pos'[x] = pos[x] + 1
        /\ \A d \in Loadable \ {x} : pos'[d] = pos[d]
        /\ UNCHANGED <<st, todo, holder, given, twice, used>>
    <2>1. pos[x] \in Nat /\ pos[x] # 0
      BY DEF Inv, TypeInv
    <2> QED BY <2>1, ListTypes DEF FailIgnored, AtClaim, Step, Inv, TypeInv
  <1>2. TypeInv'
    BY <1>1 DEF FailIgnored, Inv, TypeInv
  <1>3. Local(x)
    BY DEF Inv
  <1>4. Local(x)'
    <2>0. \A i \in DOMAIN Script[x].init : i \in Nat /\ (i < pos'[x] <=> i < pos[x] \/ i = pos[x])
      BY <1>1, ListTypes
    <2>1. Quiet(x)'
      BY <1>1, <1>3 DEF Local, Quiet
    <2>2. Holds(x)'
      BY <1>1, <2>0, <1>3 DEF Local, Holds
    <2>3. Once(x)'
      BY <1>1, <1>3 DEF Local, Once
    <2>4. MustHold(x)'
      BY <1>1, <2>0, <1>3 DEF Local, MustHold, Firm
    <2>5. EntriesReady(x)'
      BY <1>1, <1>3 DEF Local, EntriesReady, Held
    <2>6. OpenIn(x)'
      BY <1>1, <2>0, <1>3 DEF Local, OpenIn
    <2> QED BY <2>1, <2>2, <2>3, <2>4, <2>5, <2>6 DEF Local
  <1> QED BY <1>1, <1>2, <1>4, StepOf

\* A claim that fails and sends init to its error path.
LEMMA FailUndoInv == ASSUME Inv, NEW x \in Loadable, FailUndo(x) PROVE Inv'
  <1> DEFINE p == pos[x]
             s == Script[x]
  <1>1. /\ st[x] = "init" /\ p \in DOMAIN s.init /\ s.init[p].fails \in {"error", "loaded"}
        /\ p \in Nat /\ st'[x] = s.init[p].fails /\ todo'[x] = s.init[p].undo
        /\ todo[x] = <<>> /\ given[x] = {}
        /\ \A d \in Loadable \ {x} : st'[d] = st[d] /\ todo'[d] = todo[d]
        /\ UNCHANGED <<pos, holder, given, twice, used>>
    <2>1. pos[x] \in Nat /\ pos[x] # 0
      BY DEF Inv, TypeInv
    <2> QED BY <2>1, ListTypes DEF FailUndo, AtClaim, Step, Inv, TypeInv, Local, Quiet
  <1>2. TypeInv'
    BY <1>1, ListTypes DEF FailUndo, Inv, TypeInv, States
  <1>3. Local(x) /\ Fine(x, s)
    BY AllFine DEF Inv
  <1>4. \A i \in DOMAIN s.init : i \in Nat /\ s.init[i].claim \in Claims(x) /\ s.init[i].claim \in Resources
    BY ListTypes DEF Claims
  <1>5. Local(x)'
    <2>1. Quiet(x)'
      BY <1>1, <1>3 DEF Local, Quiet
    <2>2. Holds(x)'
      <3> SUFFICES ASSUME NEW r \in Resources, holder[r] = x
                   PROVE  /\ r \in Claims(x)
                          /\ st'[x] = "error" =>
                               /\ Leaky(x, r) \/ r \in Own(x) \/ r \in Elems(todo'[x])
                               /\ x \in KnownUnpinned \/ r \notin s.opens
                          /\ st'[x] = "loaded" => \A e \in s.needs : r # e.entry
        BY <1>1 DEF Holds
      <3>1. r \in Claims(x) /\ (Leaky(x, r) \/ \E i \in DOMAIN s.init : i < p /\ s.init[i].claim = r)
        BY <1>1, <1>3 DEF Local, Holds
      <3>2. CASE Leaky(x, r)
        BY <3>1, <3>2, <1>3 DEF Fine, Exits, Ready
      <3>3. ASSUME NEW i \in DOMAIN s.init, i < p, s.init[i].claim = r
            PROVE  /\ st'[x] = "error" =>
                        /\ Leaky(x, r) \/ r \in Own(x) \/ r \in Elems(todo'[x])
                        /\ x \in KnownUnpinned \/ r \notin s.opens
                   /\ st'[x] = "loaded" => \A e \in s.needs : r # e.entry
        <4>1. s.init[i].own = TRUE => r \in Own(x)
          BY <3>3 DEF Own
        <4>2. st'[x] = "error" => Leaky(x, r) \/ r \in Own(x) \/ r \in Elems(todo'[x])
          BY <4>1, <3>3, <1>1, <1>3 DEF Fine, Undone
        <4>3. st'[x] = "error" => x \in KnownUnpinned \/ r \notin s.opens
          BY <3>3, <1>1, <1>3 DEF Fine, Closed
        <4>4. st'[x] = "loaded" => \A e \in s.needs : r # e.entry
          <5>1. Stays(s)
            BY <1>3 DEF Fine
          <5> QED BY <5>1, <3>3, <1>1 DEF Stays
        <4> QED BY <4>2, <4>3, <4>4
      <3> QED BY <3>1, <3>2, <3>3
    <2>3. Once(x)'
      <3>1. FineList(x, s, s.init[p].undo)
        BY <1>1, <1>3 DEF Fine, Lists
      <3>2. st'[x] = "loaded" => Elems(s.init[p].undo) \cap Elems(s.exit) \subseteq KnownTwice
        BY <1>1, <1>3 DEF Fine, Stays
      <3> QED BY <3>1, <3>2, <1>1, <1>3 DEF Local, Once
    <2>4. MustHold(x)'
      <3>1. Common \in Elems(s.init[p].undo) => holder[Common] = x
        BY <1>1, <1>3, CommonSafe DEF Fine, Commons, Local, MustHold
      <3>2. st'[x] = "loaded" => Common \notin Elems(s.exit)
        BY <1>1, <1>3 DEF Fine, Stays
      <3> QED BY <3>1, <3>2, <1>1 DEF MustHold
    <2>5. EntriesReady(x)'
      BY <1>1, <1>3 DEF Local, EntriesReady, Held
    <2>6. OpenIn(x)'
      <3> SUFFICES ASSUME x \notin KnownUnpinned, used[x] PROVE st'[x] = "loaded"
        BY <1>1 DEF OpenIn
      <3>1. PICK i \in DOMAIN s.init : i < p /\ s.init[i].claim \in s.opens
        BY <1>1, <1>3 DEF Local, OpenIn
      <3> QED BY <3>1, <1>1, <1>3 DEF Fine, Closed
    <2> QED BY <2>1, <2>2, <2>3, <2>4, <2>5, <2>6 DEF Local
  <1> QED BY <1>1, <1>2, <1>5, StepOf

\* A claim whose failure kills insmod.
LEMMA FailOopsInv == ASSUME Inv, NEW x \in Loadable, FailOops(x) PROVE Inv'
  <1>1. /\ st[x] = "init" /\ st'[x] = "stuck" /\ todo[x] = <<>> /\ given[x] = {}
        /\ \A d \in Loadable \ {x} : st'[d] = st[d]
        /\ UNCHANGED <<pos, todo, holder, given, twice, used>>
    BY DEF FailOops, AtClaim, Inv, TypeInv, Local, Quiet
  <1>2. TypeInv'
    BY <1>1 DEF FailOops, Inv, TypeInv, States
  <1>3. Local(x)
    BY DEF Inv
  <1>4. Local(x)'
    BY <1>1, <1>3 DEF Local, Quiet, Holds, Once, MustHold, EntriesReady, Held, OpenIn
  <1> QED BY <1>1, <1>2, <1>4, StepOf

\* The init function returns.
LEMMA InitReturnsInv == ASSUME Inv, NEW x \in Loadable, InitReturns(x) PROVE Inv'
  <1> DEFINE s == Script[x]
  <1>1. /\ st[x] = "init" /\ st'[x] = "live" /\ todo[x] = <<>> /\ given[x] = {}
        /\ \A i \in DOMAIN s.init : i < pos[x]
        /\ \A d \in Loadable \ {x} : st'[d] = st[d]
        /\ UNCHANGED <<pos, todo, holder, given, twice, used>>
    BY ListTypes DEF InitReturns, Inv, TypeInv, Local, Quiet
  <1>2. TypeInv'
    BY <1>1 DEF InitReturns, Inv, TypeInv, States
  <1>3. Local(x) /\ Fine(x, s)
    BY AllFine DEF Inv
  <1>4. Local(x)'
    <2>1. Quiet(x)' /\ Holds(x)' /\ EntriesReady(x)' /\ OpenIn(x)'
      BY <1>1, <1>3 DEF Local, Quiet, Holds, EntriesReady, Held, OpenIn
    <2>2. Elems(todo[x]) = {}
      BY <1>1 DEF Elems
    <2>3. Once(x)'
      BY <1>1, <1>3, <2>2 DEF Local, Once
    <2>4. Common \in Elems(s.exit) => holder[Common] = x
      BY <1>1, <1>3, CommonSafe DEF Fine, Commons, Local, MustHold
    <2>5. MustHold(x)'
      BY <1>1, <2>2, <2>4 DEF MustHold
    <2> QED BY <2>1, <2>3, <2>5 DEF Local
  <1> QED BY <1>1, <1>2, <1>4, StepOf

\* The init function returns 0 after an error path.
LEMMA StayAnywayInv == ASSUME Inv, NEW x \in Loadable, StayAnyway(x) PROVE Inv'
  <1>1. /\ st[x] = "loaded" /\ st'[x] = "live" /\ todo[x] = <<>>
        /\ \A d \in Loadable \ {x} : st'[d] = st[d]
        /\ UNCHANGED <<pos, todo, holder, given, twice, used>>
    BY DEF StayAnyway, Inv, TypeInv
  <1>2. TypeInv'
    BY <1>1 DEF StayAnyway, Inv, TypeInv, States
  <1>3. Local(x)
    BY DEF Inv
  <1>4. Local(x)'
    BY <1>1, <1>3 DEF Local, Quiet, Holds, Once, MustHold, EntriesReady, Held, OpenIn
  <1> QED BY <1>1, <1>2, <1>4, StepOf

\* rmmod.
LEMMA UnloadInv == ASSUME Inv, NEW x \in Loadable, Unload(x) PROVE Inv'
  <1> DEFINE s == Script[x]
  <1>1. /\ st[x] = "live" /\ st'[x] = "exit" /\ todo[x] = <<>> /\ todo'[x] = s.exit
        /\ \A d \in Loadable \ {x} : st'[d] = st[d] /\ todo'[d] = todo[d]
        /\ UNCHANGED <<pos, holder, given, twice, used>>
    BY DEF Unload, Inv, TypeInv, Local, Quiet
  <1>2. TypeInv'
    BY <1>1, ListTypes DEF Unload, Inv, TypeInv, States
  <1>3. Local(x) /\ Fine(x, s)
    BY AllFine DEF Inv
  <1>4. x \in KnownUnpinned \/ (~used[x] /\ Dependents(x) = {})
    BY <1>3 DEF Fine, Exits, Unload
  <1>5. Local(x)'
    <2>1. Quiet(x)' /\ EntriesReady(x)' /\ OpenIn(x)'
      BY <1>1, <1>3, <1>4 DEF Local, Quiet, EntriesReady, Held, OpenIn
    <2>2. Holds(x)'
      <3>1. ASSUME NEW r \in Resources, holder[r] = x
            PROVE  r \in Claims(x) /\ (Leaky(x, r) \/ r \in Own(x) \/ r \in Elems(s.exit))
        <4>1. r \in Claims(x)
          BY <3>1, <1>3 DEF Local, Holds
        <4>2. PICK i \in DOMAIN s.init : s.init[i].claim = r
          BY <4>1 DEF Claims
        <4>3. s.init[i].own = TRUE => r \in Own(x)
          BY <4>2 DEF Own
        <4> QED BY <4>1, <4>2, <4>3, <1>3 DEF Fine, Exits
      <3> QED BY <3>1, <1>1 DEF Holds
    <2>3. Once(x)'
      BY <1>1, <1>3 DEF Local, Once, Fine, Lists
    <2>4. MustHold(x)'
      BY <1>1, <1>3 DEF Local, MustHold
    <2> QED BY <2>1, <2>2, <2>3, <2>4 DEF Local
  <1> QED BY <1>1, <1>2, <1>4, <1>5, StepOf

\* A process opens the device.
LEMMA OpenInv == ASSUME Inv, NEW x \in Loadable, Open(x) PROVE Inv'
  <1> DEFINE s == Script[x]
  <1>1. /\ ~used[x] /\ used'[x] = TRUE
        /\ \A d \in Loadable \ {x} : used'[d] = used[d]
        /\ UNCHANGED <<st, pos, todo, holder, given, twice>>
    BY DEF Open, Inv, TypeInv
  <1>2. TypeInv'
    BY <1>1 DEF Open, Inv, TypeInv
  <1>3. Local(x) /\ Fine(x, s)
    BY AllFine DEF Inv
  <1>4. PICK r \in s.opens : holder[r] = x
    BY DEF Open
  <1>5. r \in Resources /\ ~Leaky(x, r)
    BY <1>3, <1>4, ListTypes DEF Fine, Exits
  <1>6. OpenIn(x)'
    <2> SUFFICES ASSUME x \notin KnownUnpinned
                 PROVE  /\ st[x] \in {"init", "live", "loaded", "stuck"}
                        /\ st[x] = "init" =>
                             \E i \in DOMAIN s.init : i < pos[x] /\ s.init[i].claim \in s.opens
      BY <1>1 DEF OpenIn
    <2>1. st[x] # "exit"
      BY <1>3 DEF Fine, Exits, Open
    <2>2. st[x] # "out" /\ st[x] # "error"
      BY <1>3, <1>4, <1>5 DEF Local, Holds
    <2>3. st[x] = "init" => \E i \in DOMAIN s.init : i < pos[x] /\ s.init[i].claim = r
      BY <1>3, <1>4, <1>5 DEF Local, Holds
    <2>4. st[x] \in States
      BY DEF Inv, TypeInv
    <2> QED BY <2>1, <2>2, <2>3, <2>4, <1>4 DEF States
  <1>7. Local(x)'
    BY <1>1, <1>3, <1>6 DEF Local, Quiet, Holds, Once, MustHold, EntriesReady, Held
  <1>8. ASSUME NEW d \in Loadable PROVE Local(d)'
    BY <1>1, <1>7, Frame DEF Inv
  <1>9. ASSUME NEW d \in Loadable PROVE Called(d)'
    BY <1>1, CalledFrame DEF Inv
  <1> QED BY <1>2, <1>8, <1>9 DEF Inv

\* A process closes it.
LEMMA CloseInv == ASSUME Inv, NEW x \in Loadable, Close(x) PROVE Inv'
  <1>1. /\ used'[x] = FALSE
        /\ \A d \in Loadable \ {x} : used'[d] = used[d]
        /\ UNCHANGED <<st, pos, todo, holder, given, twice>>
    BY DEF Close, Inv, TypeInv
  <1>2. TypeInv'
    BY <1>1 DEF Close, Inv, TypeInv
  <1>3. Local(x)
    BY DEF Inv
  <1>4. Local(x)'
    BY <1>1, <1>3 DEF Local, Quiet, Holds, Once, MustHold, EntriesReady, Held, OpenIn
  <1>5. ASSUME NEW d \in Loadable PROVE Local(d)'
    BY <1>1, <1>4, Frame DEF Inv
  <1>6. ASSUME NEW d \in Loadable PROVE Called(d)'
    BY <1>1, CalledFrame DEF Inv
  <1> QED BY <1>2, <1>5, <1>6 DEF Inv

\* A claim that succeeds: it takes nothing from anybody.
LEMMA ClaimInv == ASSUME Inv, NEW x \in Loadable, Claim(x) PROVE Inv'
  <1> DEFINE p == pos[x]
             s == Script[x]
             c == s.init[p].claim
  <1>1. /\ st[x] = "init" /\ p \in DOMAIN s.init /\ p \in Nat /\ pos'[x] = p + 1
        /\ c \in Resources /\ c \in Claims(x)
        /\ holder[c] \in {None, x} /\ holder'[c] = x
        /\ \A r \in Resources \ {c} : holder'[r] = holder[r]
        /\ \A d \in Loadable \ {x} : pos'[d] = pos[d]
        /\ UNCHANGED <<st, todo, given, twice, used>>
        /\ todo[x] = <<>>
    <2>1. p \in Nat /\ p # 0
      BY DEF Inv, TypeInv
    <2>2. p \in DOMAIN s.init
      BY <2>1, ListTypes DEF Claim, AtClaim
    <2> QED BY <2>1, <2>2, ListTypes DEF Claim, AtClaim, Step, Free, Inv, TypeInv, Claims, Local, Quiet
  <1>2. TypeInv'
    BY <1>1 DEF Claim, Step, Inv, TypeInv
  <1>3. Local(x) /\ Fine(x, s)
    BY AllFine DEF Inv
  <1>4. \A i \in DOMAIN s.init : i \in Nat /\ (i < pos'[x] <=> i < p \/ i = p)
    BY <1>1, ListTypes
  <1>5. Local(x)'
    <2>1. Quiet(x)'
      BY <1>1, <1>3 DEF Local, Quiet
    <2>2. Holds(x)'
      <3> SUFFICES ASSUME NEW r \in Resources, holder'[r] = x
                   PROVE  /\ r \in Claims(x)
                          /\ Leaky(x, r) \/ \E i \in DOMAIN s.init : i < pos'[x] /\ s.init[i].claim = r
        BY <1>1 DEF Holds
      <3>1. CASE r = c
        BY <3>1, <1>1, <1>4
      <3>2. CASE r # c
        BY <3>2, <1>1, <1>3, <1>4 DEF Local, Holds
      <3> QED BY <3>1, <3>2
    <2>3. Once(x)'
      BY <1>1, <1>3 DEF Local, Once
    <2>4. MustHold(x)'
      <3>1. Elems(todo[x]) = {}
        BY <1>1 DEF Elems
      <3>2. ASSUME NEW i \in DOMAIN s.init, NEW r \in Resources, i < pos'[x], Firm(s, i, r), ~Stolen(r)
            PROVE  holder'[r] = x
        <4>1. CASE r = c
          BY <4>1, <1>1
        <4>2. CASE r # c
          BY <4>2, <3>2, <1>1, <1>3, <1>4 DEF Local, MustHold, Firm
        <4> QED BY <4>1, <4>2
      <3> QED BY <3>1, <3>2, <1>1 DEF MustHold
    <2>5. EntriesReady(x)'
      <3> SUFFICES ASSUME NEW e \in s.needs, holder'[e.entry] = x, e.entry \notin KnownUnready,
                          NEW u \in e.uses
                   PROVE  u \in Resources /\ holder'[u] = x
        BY DEF EntriesReady, Held
      <3>1. e.entry \in Resources
        BY <1>3, ListTypes DEF Fine, Ready
      <3>2. CASE e.entry = c
        <4>1. PICK i \in DOMAIN s.init : i < p /\ Firm(s, i, u)
          BY <3>2, <1>1, <1>3 DEF Fine, Ready
        <4>2. u \in Resources /\ ~Stolen(u)
          BY <4>1, <1>3, ListTypes DEF Firm, Fine, Ready, Stolen
        <4>3. holder[u] = x
          BY <4>1, <4>2, <1>1, <1>3 DEF Local, MustHold
        <4> QED BY <4>2, <4>3, <1>1
      <3>3. CASE e.entry # c
        <4>1. u \in Resources /\ holder[u] = x
          BY <3>1, <3>3, <1>1, <1>3 DEF Local, EntriesReady, Held
        <4> QED BY <4>1, <1>1
      <3> QED BY <3>2, <3>3
    <2>6. OpenIn(x)'
      BY <1>1, <1>3, <1>4 DEF Local, OpenIn
    <2> QED BY <2>1, <2>2, <2>3, <2>4, <2>5, <2>6 DEF Local
  <1>6. \A d \in Loadable \ {x} : \A r \in Resources :
          /\ holder'[r] = d => holder[r] = d
          /\ holder[r] = d => holder'[r] = d
    <2>1. None \notin Loadable
      BY AllFine
    <2> QED BY <2>1, <1>1
  <1> QED BY <1>1, <1>2, <1>5, <1>6, StepOf

\* Giving something back: what another module holds only when that is known.
LEMMA Gives ==
  ASSUME Inv, NEW x \in Loadable, GiveBack(x)
  PROVE  LET r == Head(todo[x])
         IN  /\ r \in Resources /\ r \in Elems(todo[x]) /\ todo[x] \in Seq(Resources) /\ todo[x] # <<>>
             /\ holder'[r] = None /\ \A q \in Resources \ {r} : holder'[q] = holder[q]
             /\ todo'[x] = Tail(todo[x]) /\ todo'[x] \in Seq(Resources) /\ todo'[x] # todo[x]
             /\ Elems(todo[x]) = Elems(todo'[x]) \cup {r}
             /\ st[x] \in {"error", "exit", "loaded"}
             /\ holder[r] \in {None, x} \/ <<x, r>> \in KnownThefts
  <1> DEFINE r == Head(todo[x])
  <1>1. todo[x] \in Seq(Resources) /\ todo[x] # <<>>
    BY DEF GiveBack, Inv, TypeInv
  <1>2. /\ r \in Resources /\ r \in Elems(todo[x]) /\ Tail(todo[x]) \in Seq(Resources)
        /\ Elems(todo[x]) = Elems(Tail(todo[x])) \cup {r} /\ Tail(todo[x]) # todo[x]
    BY <1>1, HeadTail
  <1>3. /\ holder'[r] = None /\ \A q \in Resources \ {r} : holder'[q] = holder[q]
        /\ todo'[x] = Tail(todo[x])
    BY <1>2 DEF GiveBack, Inv, TypeInv
  <1>4. st[x] \in {"error", "exit", "loaded"}
    BY <1>1 DEF Inv, TypeInv, States, Local, Quiet
  <1>5. ASSUME <<x, r>> \notin KnownThefts, holder[r] # None, holder[r] # x
        PROVE  FALSE
    <2> DEFINE d == holder[r]
    <2>1. d \in Loadable /\ r \in Claims(d)
      BY <1>2, <1>5 DEF Inv, TypeInv, Local, Holds
    <2>2. r \in Claims(x)
      BY <1>2, <1>5 DEF Inv, Local, Once, FineList, Elems, Claims
    <2>3. r = Common
      BY <2>1, <2>2, <1>5, AllFine
    <2>4. holder[Common] = x
      BY <2>3, <1>2 DEF Inv, Local, MustHold
    <2> QED BY <2>3, <2>4, <1>5
  <1> QED BY <1>1, <1>2, <1>3, <1>4, <1>5

LEMMA GiveBackInv == ASSUME Inv, NEW x \in Loadable, GiveBack(x) PROVE Inv'
  <1> DEFINE r == Head(todo[x])
             s == Script[x]
  <1>1. /\ r \in Resources /\ r \in Elems(todo[x]) /\ todo[x] \in Seq(Resources) /\ todo[x] # <<>>
        /\ holder'[r] = None /\ \A q \in Resources \ {r} : holder'[q] = holder[q]
        /\ todo'[x] = Tail(todo[x]) /\ todo'[x] \in Seq(Resources) /\ todo'[x] # todo[x]
        /\ Elems(todo[x]) = Elems(todo'[x]) \cup {r}
        /\ st[x] \in {"error", "exit", "loaded"}
        /\ holder[r] \in {None, x} \/ <<x, r>> \in KnownThefts
    BY Gives
  <1>2. /\ given'[x] = given[x] \cup (Held(x) \cap {r})
        /\ twice'[x] = twice[x] \/ (r \in given[x] /\ twice'[x] = twice[x] \cup {r})
        /\ \A d \in Loadable \ {x} : todo'[d] = todo[d] /\ given'[d] = given[d] /\ twice'[d] = twice[d]
        /\ UNCHANGED <<st, pos, used>>
    BY DEF GiveBack, Inv, TypeInv
  <1>3. TypeInv'
    <2>1. todo' \in [Loadable -> Seq(Resources)]
      BY <1>1 DEF GiveBack, Inv, TypeInv
    <2>2. holder' \in [Resources -> Loadable \cup {None}]
      BY DEF GiveBack, Inv, TypeInv
    <2>3. given' \in [Loadable -> SUBSET Resources] /\ twice' \in [Loadable -> SUBSET Resources]
      BY <1>1 DEF GiveBack, Inv, TypeInv
    <2> QED BY <2>1, <2>2, <2>3, <1>2 DEF Inv, TypeInv
  <1>4. Local(x) /\ Fine(x, s) /\ x # None
    BY AllFine DEF Inv
  <1>5. \A q \in Resources : holder'[q] = x => holder[q] = x /\ q # r
    BY <1>1, <1>4
  <1>6. /\ FineList(x, s, todo'[x])
        /\ r \in Elems(todo'[x]) => r \in KnownTwice
        /\ \A e \in s.needs : r \in e.uses => e.entry \notin Elems(todo'[x])
    <2>1. FineList(x, s, todo[x])
      BY <1>4 DEF Local, Once
    <2> QED BY <2>1, <1>1, FineTail
  <1>7. Local(x)'
    <2>1. Quiet(x)'
      BY <1>1, <1>2 DEF Quiet
    <2>2. Holds(x)'
      BY <1>1, <1>2, <1>4, <1>5 DEF Local, Holds
    <2>3. Once(x)'
      <3>1. given[x] \cap Elems(todo[x]) \subseteq KnownTwice /\ twice[x] \subseteq KnownTwice
        BY <1>4 DEF Local, Once
      <3>2. given'[x] \cap Elems(todo'[x]) \subseteq KnownTwice
        BY <3>1, <1>1, <1>2, <1>6
      <3>3. st'[x] \in {"live", "loaded"} =>
              (given'[x] \cup Elems(todo'[x])) \cap Elems(s.exit) \subseteq KnownTwice
        BY <1>1, <1>2, <1>4 DEF Local, Once
      <3>4. twice'[x] \subseteq KnownTwice
        BY <3>1, <1>1, <1>2
      <3> QED BY <3>2, <3>3, <3>4, <1>6 DEF Once
    <2>4. MustHold(x)'
      <3>1. Common \in Elems(todo'[x]) => holder'[Common] = x
        <4> SUFFICES ASSUME Common \in Elems(todo'[x]) PROVE holder'[Common] = x
          OBVIOUS
        <4>1. holder[Common] = x
          BY <1>1, <1>4 DEF Local, MustHold
        <4>2. Common \notin KnownTwice
          BY DEF Common, KnownTwice
        <4> QED BY <4>1, <4>2, <1>1, <1>6, CommonSafe
      <3>2. st[x] \in {"live", "loaded"} /\ Common \in Elems(s.exit) => holder'[Common] = x
        <4> SUFFICES ASSUME st[x] = "loaded", Common \in Elems(s.exit) PROVE holder'[Common] = x
          BY <1>1
        <4>1. holder[Common] = x
          BY <1>4 DEF Local, MustHold
        <4>2. Common \notin KnownTwice
          BY DEF Common, KnownTwice
        <4>3. r # Common
          BY <4>2, <1>1, <1>4 DEF Local, Once
        <4> QED BY <4>1, <4>3, <1>1, CommonSafe
      <3> QED BY <3>1, <3>2, <1>1, <1>2 DEF MustHold
    <2>5. EntriesReady(x)'
      <3> SUFFICES ASSUME NEW e \in s.needs, holder'[e.entry] = x, e.entry \notin KnownUnready
                   PROVE  e.uses \subseteq Held(x)'
        BY DEF EntriesReady
      <3>1. e.entry \in Resources /\ ~Leaky(x, e.entry) /\ e.entry \notin Own(x)
        BY <1>4, ListTypes DEF Fine, Ready, Own
      <3>2. holder[e.entry] = x /\ e.entry # r
        BY <3>1, <1>5
      <3>3. e.uses \subseteq Held(x)
        BY <3>2, <1>4 DEF Local, EntriesReady
      <3>4. st[x] # "loaded"
        BY <3>1, <3>2, <1>4 DEF Local, Holds
      <3>5. e.entry \in Elems(todo[x])
        BY <3>1, <3>2, <3>4, <1>1, <1>4 DEF Local, Holds
      <3>6. r \notin e.uses
        BY <3>2, <3>5, <1>1, <1>6
      <3> QED BY <3>3, <3>6, <1>1 DEF Held
    <2>6. OpenIn(x)'
      BY <1>1, <1>2, <1>4 DEF Local, OpenIn
    <2> QED BY <2>1, <2>2, <2>3, <2>4, <2>5, <2>6 DEF Local
  <1>8. \A d \in Loadable \ {x} : \A q \in Resources :
          /\ holder'[q] = d => holder[q] = d
          /\ holder[q] = d /\ ~Stolen(q) => holder'[q] = d
    <2>1. None \notin Loadable /\ x \in AllDrivers
      BY AllFine
    <2>2. <<x, r>> \in KnownThefts => Stolen(r)
      BY <2>1 DEF Stolen
    <2> QED BY <2>1, <2>2, <1>1
  <1> QED BY <1>1, <1>2, <1>3, <1>7, <1>8, StepOf

\* The module goes, with what is its own.
LEMMA LeaveInv == ASSUME Inv, NEW x \in Loadable, Leave(x) PROVE Inv'
  <1> DEFINE s == Script[x]
  <1>1. /\ st[x] \in {"error", "exit"} /\ st'[x] = "out" /\ todo[x] = <<>> /\ pos'[x] = 1
        /\ given'[x] = {} /\ twice'[x] = {}
        /\ \A d \in Loadable \ {x} :
             st'[d] = st[d] /\ pos'[d] = pos[d] /\ given'[d] = given[d] /\ twice'[d] = twice[d]
        /\ \A r \in Resources :
             holder'[r] = IF holder[r] = x /\ r \in Own(x) THEN None ELSE holder[r]
        /\ UNCHANGED <<todo, used>>
    BY DEF Leave, Inv, TypeInv
  <1>2. TypeInv'
    BY <1>1 DEF Leave, Inv, TypeInv, States
  <1>3. Local(x) /\ Fine(x, s) /\ None \notin Loadable
    BY AllFine DEF Inv
  <1>4. Elems(todo[x]) = {}
    BY <1>1 DEF Elems
  <1>5. \A r \in Resources : holder'[r] = x => holder[r] = x /\ Leaky(x, r) /\ r \in Claims(x)
    BY <1>1, <1>3, <1>4 DEF Local, Holds
  <1>6. Local(x)'
    <2>1. Quiet(x)'
      BY <1>1 DEF Quiet
    <2>2. Holds(x)'
      BY <1>1, <1>5 DEF Holds
    <2>3. Once(x)'
      BY <1>1, <1>3, <1>4 DEF Local, Once
    <2>4. MustHold(x)'
      BY <1>1, <1>4 DEF MustHold
    <2>5. EntriesReady(x)'
      BY <1>3, <1>5, ListTypes DEF EntriesReady, Fine, Ready
    <2>6. OpenIn(x)'
      BY <1>1, <1>3 DEF Local, OpenIn
    <2> QED BY <2>1, <2>2, <2>3, <2>4, <2>5, <2>6 DEF Local
  <1>7. \A d \in Loadable \ {x} : \A r \in Resources :
          /\ holder'[r] = d => holder[r] = d
          /\ holder[r] = d => holder'[r] = d
    BY <1>1, <1>3
  <1> QED BY <1>1, <1>2, <1>6, <1>7, StepOf

\* Every step keeps the invariant.
LEMMA NextInv == Inv /\ [Next]_vars => Inv'
  <1> SUFFICES ASSUME Inv, [Next]_vars PROVE Inv'
    OBVIOUS
  <1>1. ASSUME NEW d \in Loadable,
               Load(d) \/ Claim(d) \/ FailIgnored(d) \/ FailUndo(d) \/ FailOops(d)
                 \/ InitReturns(d) \/ StayAnyway(d) \/ Unload(d) \/ GiveBack(d) \/ Leave(d)
                 \/ Open(d) \/ Close(d)
        PROVE  Inv'
    BY <1>1, LoadInv, ClaimInv, FailIgnoredInv, FailUndoInv, FailOopsInv, InitReturnsInv,
       StayAnywayInv, UnloadInv, GiveBackInv, LeaveInv, OpenInv, CloseInv
  <1>2. CASE UNCHANGED vars
    BY <1>2 DEF vars, Inv, TypeInv, Local, Quiet, Holds, Once, MustHold, EntriesReady, Held,
                OpenIn, Called, Dependents
  <1> QED BY <1>1, <1>2 DEF Next, Loaded

\* The invariant holds in every behaviour.
LEMMA Invariant == Spec => []Inv
  BY InitInv, NextInv, PTL DEF Spec

-----------------------------------------------------------------------------
(* The properties of Lifecycle.                                            *)

\* Whatever modules are loaded and unloaded side by side, and at whatever step
\* their init functions fail, one that is not loaded holds nothing, but for the
\* known leaks.
THEOREM NothingLeftAlways == Spec => []NothingLeft
  <1>1. Inv => NothingLeft
    BY DEF Inv, TypeInv, Local, Holds, NothingLeft, Leaky
  <1> QED BY <1>1, Invariant, PTL

\* No module gives back twice in one life what it had, but for the known cases.
THEOREM NotTwiceAlways == Spec => []NotTwice
  <1>1. Inv => NotTwice
    BY DEF Inv, Local, Once, NotTwice
  <1> QED BY <1>1, Invariant, PTL

\* An entry point is there only while all that its code uses is.
THEOREM EntryReadyAlways == Spec => []EntryReady
  <1>1. Inv => EntryReady
    BY DEF Inv, Local, EntriesReady, EntryReady
  <1> QED BY <1>1, Invariant, PTL

\* Nobody has open, has mounted or calls a module that is gone, but for those
\* known not to be pinned.
THEOREM UsersSafeAlways == Spec => []UsersSafe
  <1>1. Inv => UsersSafe
    BY DEF Inv, Local, OpenIn, Called, Dependents, Loaded, UsersSafe
  <1> QED BY <1>1, Invariant, PTL

\* No module loses what it holds by a step of another, but for the known theft:
\* above all not the major number that six of them ask for.
THEOREM UndisturbedAlways == Spec => Undisturbed
  <1>1. ASSUME Inv, [Next]_vars, NEW r \in Resources, holder[r] # None, holder'[r] # holder[r]
        PROVE  Moves(holder[r]) \/ \E d \in Loadable : Moves(d) /\ <<d, r>> \in KnownThefts
    <2>1. holder[r] \in Loadable
      BY <1>1 DEF Inv, TypeInv
    <2>2. PICK x \in Loadable : Claim(x) \/ GiveBack(x) \/ Leave(x)
      BY <1>1 DEF Next, Loaded, vars, Load, FailIgnored, FailUndo, FailOops, InitReturns, StayAnyway,
                  Unload, Open, Close
    <2>3. ~Claim(x)
      <3> SUFFICES ASSUME Claim(x) PROVE FALSE
        OBVIOUS
      <3>1. holder' = [holder EXCEPT ![Step(x).claim] = x] /\ holder[Step(x).claim] \in {None, x}
        BY DEF Claim, Free
      <3> QED BY <3>1, <1>1 DEF Inv, TypeInv
    <2>4. CASE GiveBack(x)
      BY <2>4, <1>1, Gives DEF Moves
    <2>5. CASE Leave(x)
      <3>1. holder[r] = x /\ st'[x] # st[x]
        BY <2>5, <1>1 DEF Leave, Inv, TypeInv
      <3> QED BY <3>1 DEF Moves
    <2> QED BY <2>2, <2>3, <2>4, <2>5
  <1>2. Inv /\ [Next]_vars =>
          [\A r \in Resources :
             holder[r] # None /\ holder'[r] # holder[r] =>
               \/ Moves(holder[r])
               \/ \E d \in Loadable : Moves(d) /\ <<d, r>> \in KnownThefts]_vars
    BY <1>1
  <1> QED BY <1>2, Invariant, PTL DEF Spec, Undisturbed

=============================================================================
