------------------------------ MODULE KbdQueue ------------------------------
(***************************************************************************)
(* What the keyboard device promises (src/interrupts/kbd.c): a bounded     *)
(* first-in first-out queue of characters.  A key press is appended, or is *)
(* lost if and only if the queue is full; a read delivers the oldest       *)
(* characters in order and is short only if it has found the queue empty;  *)
(* a write empties the queue.  Every operation is a single step here.      *)
(***************************************************************************)
EXTENDS Naturals, Sequences

CONSTANTS
  Callers,      \* the threads that call read and write
  Chars,        \* the characters of the keyboard
  Capacity,     \* BUFFER_SIZE
  NoChar        \* no key press is being delivered

VARIABLES
  q,            \* the characters typed and not yet read
  pending,      \* the key press being delivered
  call,         \* what each caller is doing
  want,         \* how many characters its last read asked for
  got           \* the characters its last read has delivered

qvars == <<q, pending, call, want, got>>

QInit ==
  /\ q = <<>>
  /\ pending = NoChar
  /\ call = [t \in Callers |-> "idle"]
  /\ want = [t \in Callers |-> 0]
  /\ got  = [t \in Callers |-> <<>>]

Press ==
  /\ pending = NoChar
  /\ pending' \in Chars
  /\ UNCHANGED <<q, call, want, got>>

Accept ==
  /\ pending # NoChar
  /\ Len(q) < Capacity
  /\ q' = Append(q, pending)
  /\ pending' = NoChar
  /\ UNCHANGED <<call, want, got>>

Drop ==
  /\ pending # NoChar
  /\ Len(q) = Capacity
  /\ pending' = NoChar
  /\ UNCHANGED <<q, call, want, got>>

StartRead(t) ==
  /\ call[t] = "idle"
  /\ call' = [call EXCEPT ![t] = "read"]
  /\ want'[t] \in Nat
  /\ want' = [want EXCEPT ![t] = want'[t]]
  /\ got' = [got EXCEPT ![t] = <<>>]
  /\ UNCHANGED <<q, pending>>

Get(t) ==
  /\ call[t] = "read"
  /\ Len(got[t]) < want[t]
  /\ q # <<>>
  /\ got' = [got EXCEPT ![t] = Append(@, Head(q))]
  /\ q' = Tail(q)
  /\ UNCHANGED <<pending, call, want>>

FinishRead(t) ==
  /\ call[t] = "read"
  /\ Len(got[t]) = want[t] \/ q = <<>>
  /\ call' = [call EXCEPT ![t] = "idle"]
  /\ UNCHANGED <<q, pending, want, got>>

StartWrite(t) ==
  /\ call[t] = "idle"
  /\ call' = [call EXCEPT ![t] = "write"]
  /\ UNCHANGED <<q, pending, want, got>>

Empty(t) ==
  /\ call[t] = "write"
  /\ q' = <<>>
  /\ call' = [call EXCEPT ![t] = "idle"]
  /\ UNCHANGED <<pending, want, got>>

QNext ==
  \/ Press \/ Accept \/ Drop
  \/ \E t \in Callers :
       StartRead(t) \/ Get(t) \/ FinishRead(t) \/ StartWrite(t) \/ Empty(t)

QSpec == QInit /\ [][QNext]_qvars
=============================================================================
