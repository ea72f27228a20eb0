------------------------------- MODULE Filter -------------------------------
(***************************************************************************)
(* The netfilter module of src/networking/1-2-netfilter: a hook, run for   *)
(* each packet, reports TCP connections to the address that an ioctl has   *)
(* set, or to any while none is set.  Nothing orders the two but the flag. *)
(*                                                                         *)
(* The hook changes nothing that another packet could see, so one packet   *)
(* at a time is enough.                                                    *)
(***************************************************************************)
EXTENDS Naturals

CONSTANTS
  Callers,      \* the processes that call the ioctl
  Addresses,    \* the addresses they set, and packets are sent to
  Zero          \* the address 0

VARIABLES
  ioctl_set, ioctl_set_addr,
  caller,       \* each process: "out", or the address and the step of its ioctl
  packet,       \* the packet in the hook, and what has become of it
  asked,        \* history: the addresses ioctls were called with
  faulted       \* history: the copy of one has failed

filter_vars == <<ioctl_set, ioctl_set_addr, caller, packet, asked, faulted>>

Out == [step |-> "out"]
NoPacket == [step |-> "none"]

Init ==
  /\ ioctl_set = 0 /\ ioctl_set_addr = Zero
  /\ caller = [c \in Callers |-> Out] /\ packet = NoPacket
  /\ asked = {} /\ faulted = FALSE

-----------------------------------------------------------------------------
(* my_ioctl.                                                               *)

CallIoctl_FlagFirst(c, a) ==    \* mutant: the flag is set before the address
  /\ caller[c] = Out
  /\ ioctl_set' = 1
  /\ caller' = [caller EXCEPT ![c] = [step |-> "copy", address |-> a]]
  /\ asked' = asked \cup {a}
  /\ UNCHANGED <<ioctl_set_addr, packet, faulted>>

CallIoctl(c, a) ==
  /\ caller[c] = Out
  /\ caller' = [caller EXCEPT ![c] = [step |-> "copy", address |-> a]]
  /\ asked' = asked \cup {a}
  /\ UNCHANGED <<ioctl_set, ioctl_set_addr, packet, faulted>>

\* copy_from_user; when it fails, which is not looked at, it clears the
\* destination or leaves it alone.
CopyAddress(c) ==
  /\ caller[c].step = "copy"
  /\ \/ ioctl_set_addr' = caller[c].address /\ UNCHANGED faulted
     \/ ioctl_set_addr' \in {Zero, ioctl_set_addr} /\ faulted' = TRUE
  /\ caller' = [caller EXCEPT ![c].step = "set"]
  /\ UNCHANGED <<ioctl_set, packet, asked>>

SetFlag(c) ==
  /\ caller[c].step = "set"
  /\ ioctl_set' = 1
  /\ caller' = [caller EXCEPT ![c] = Out]
  /\ UNCHANGED <<ioctl_set_addr, packet, asked, faulted>>

-----------------------------------------------------------------------------
(* my_hookfn and test_daddr.                                               *)

\* kind: "other" for what is not TCP, "syn" for an initiation packet, "tcp".
Packet(kind, a) ==
  /\ packet = NoPacket
  /\ packet' = [step |-> IF kind = "other" THEN "passed" ELSE "flag", kind |-> kind,
                address |-> a, early |-> ioctl_set = 0]
  /\ UNCHANGED <<ioctl_set, ioctl_set_addr, caller, asked, faulted>>

TestFlag ==
  /\ packet.step = "flag"
  /\ packet' = [packet EXCEPT !.step = IF ioctl_set = 0 THEN "header" ELSE "address"]
  /\ UNCHANGED <<ioctl_set, ioctl_set_addr, caller, asked, faulted>>

TestAddress ==
  /\ packet.step = "address"
  /\ packet' = [packet EXCEPT !.step =
                  IF packet.address = ioctl_set_addr THEN "header" ELSE "passed"]
  /\ UNCHANGED <<ioctl_set, ioctl_set_addr, caller, asked, faulted>>

TestHeader ==
  /\ packet.step = "header"
  /\ packet' = [packet EXCEPT !.step = IF packet.kind = "syn" THEN "reported" ELSE "passed"]
  /\ UNCHANGED <<ioctl_set, ioctl_set_addr, caller, asked, faulted>>

Accept ==
  /\ packet.step \in {"passed", "reported"}
  /\ packet' = NoPacket
  /\ UNCHANGED <<ioctl_set, ioctl_set_addr, caller, asked, faulted>>

-----------------------------------------------------------------------------
Next ==
  \/ \E c \in Callers :
       \/ \E a \in Addresses : CallIoctl(c, a)
       \/ CopyAddress(c) \/ SetFlag(c)
  \/ \E kind \in {"other", "syn", "tcp"}, a \in Addresses : Packet(kind, a)
  \/ TestFlag \/ TestAddress \/ TestHeader \/ Accept

Spec == Init /\ [][Next]_filter_vars

-----------------------------------------------------------------------------
TypeOK ==
  /\ ioctl_set \in {0, 1} /\ ioctl_set_addr \in Addresses \cup {Zero}
  /\ \A c \in Callers : caller[c].step \in {"out", "copy", "set"}
  /\ packet.step \in {"none", "flag", "address", "header", "passed", "reported"}
  /\ asked \subseteq Addresses /\ faulted \in BOOLEAN

\* A packet that came once an address was set is reported only if an ioctl has
\* asked for its address; and an initiation packet is passed over in silence
\* only if another address was asked for, or the copy of one had failed: no
\* packet sees the flag without an address (filter.c:90 and 91).
ReportsRight ==
  /\ packet.step = "reported" =>
       packet.kind = "syn" /\ (packet.early \/ packet.address \in asked)
  /\ packet.step = "passed" /\ packet.kind = "syn" =>
       asked \ {packet.address} # {} \/ faulted
=============================================================================
