------------------------------ MODULE Kthread ------------------------------
(***************************************************************************)
(* The kernel thread module of src/deferred_work/6-kthread: the thread of  *)
(* kthread_init sleeps until kthread_exit raises a flag and wakes it, and  *)
(* kthread_exit sleeps until the thread has raised another.                *)
(*                                                                         *)
(* wait_event puts its caller on the queue before it tests the condition,  *)
(* so that a wake_up after the test is not lost: test and sleep are one    *)
(* step, from "test" to "asleep", and wake_up takes a sleeper back.        *)
(***************************************************************************)
VARIABLES
  module,       \* "out", "live", or where kthread_exit is
  thread,       \* "none", or where my_thread_f is
  flag_stop_thread, flag_thread_terminated,
  signalled     \* history: a signal has ended kthread_exit's wait

kthread_vars ==
  <<module, thread, flag_stop_thread, flag_thread_terminated, signalled>>

Gone == {"none", "dead"}

Init ==
  /\ module = "out" /\ thread = "none"
  /\ flag_stop_thread = FALSE /\ flag_thread_terminated = FALSE
  /\ signalled = FALSE

-----------------------------------------------------------------------------
\* kthread_run may fail; kthread_init does not look at what it returns.
KthreadInit ==
  /\ module = "out" /\ thread \in Gone
  /\ module' = "live"
  /\ thread' \in {"none", "test"}
  /\ flag_stop_thread' = FALSE /\ flag_thread_terminated' = FALSE
  /\ signalled' = FALSE

WaitStop ==
  /\ module # "out" /\ thread = "test"
  /\ thread' = IF flag_stop_thread THEN "set" ELSE "asleep"
  /\ UNCHANGED <<module, flag_stop_thread, flag_thread_terminated, signalled>>

SetTerminated ==
  /\ module # "out" /\ thread = "set"
  /\ flag_thread_terminated' = TRUE
  /\ thread' = "wake"
  /\ UNCHANGED <<module, flag_stop_thread, signalled>>

WakeExit ==
  /\ module # "out" /\ thread = "wake"
  /\ module' = IF module = "asleep" THEN "test" ELSE module
  /\ thread' = "leaving"
  /\ UNCHANGED <<flag_stop_thread, flag_thread_terminated, signalled>>

DoExit ==
  /\ module # "out" /\ thread = "leaving"
  /\ thread' = "dead"
  /\ UNCHANGED <<module, flag_stop_thread, flag_thread_terminated, signalled>>

\* A thread whose code has gone does not come to its next step.
Oops ==
  /\ module = "out" /\ thread \notin Gone
  /\ thread' = "dead"
  /\ UNCHANGED <<module, flag_stop_thread, flag_thread_terminated, signalled>>

-----------------------------------------------------------------------------
KthreadExit ==
  /\ module = "live"
  /\ module' = "set"
  /\ UNCHANGED <<thread, flag_stop_thread, flag_thread_terminated, signalled>>

SetStop ==
  /\ module = "set"
  /\ flag_stop_thread' = TRUE
  /\ module' = "wake"
  /\ UNCHANGED <<thread, flag_thread_terminated, signalled>>

WakeThread_Forgotten ==         \* mutant: the flag alone, without wake_up
  /\ module = "wake"
  /\ module' = "test"
  /\ UNCHANGED <<thread, flag_stop_thread, flag_thread_terminated, signalled>>

WakeThread ==
  /\ module = "wake"
  /\ thread' = IF thread = "asleep" THEN "test" ELSE thread
  /\ module' = "test"
  /\ UNCHANGED <<flag_stop_thread, flag_thread_terminated, signalled>>

WaitTerminated_WrongFlag ==     \* mutant: waits for its own flag
  /\ module = "test"
  /\ module' = IF flag_stop_thread THEN "out" ELSE "asleep"
  /\ UNCHANGED <<thread, flag_stop_thread, flag_thread_terminated, signalled>>

\* The module goes as soon as kthread_exit returns.
WaitTerminated ==
  /\ module = "test"
  /\ module' = IF flag_thread_terminated THEN "out" ELSE "asleep"
  /\ UNCHANGED <<thread, flag_stop_thread, flag_thread_terminated, signalled>>

\* rmmod is interrupted; what the wait returns is not looked at.
Interrupted ==
  /\ module = "asleep"
  /\ module' = "out"
  /\ signalled' = ~flag_thread_terminated
  /\ UNCHANGED <<thread, flag_stop_thread, flag_thread_terminated>>

-----------------------------------------------------------------------------
ThreadStep == WaitStop \/ SetTerminated \/ WakeExit \/ DoExit
ExitStep   == SetStop \/ WakeThread \/ WaitTerminated

Next == KthreadInit \/ ThreadStep \/ Oops \/ KthreadExit \/ ExitStep \/ Interrupted

\* Both are scheduled; nothing says that a signal ever comes.
Fairness == WF_kthread_vars(ThreadStep) /\ WF_kthread_vars(ExitStep)

Spec == Init /\ [][Next]_kthread_vars

-----------------------------------------------------------------------------
TypeOK ==
  /\ module \in {"out", "live", "set", "wake", "test", "asleep"}
  /\ thread \in {"none", "test", "asleep", "set", "wake", "leaving", "dead"}
  /\ {flag_stop_thread, flag_thread_terminated, signalled} \subseteq BOOLEAN

\* What the thread may still have to run of the module after it has told
\* kthread_exit that it is over: kthread.c:36 to 39.
Tail == {"wake", "leaving"}

\* The module is not gone under its thread, but for the last lines of a thread
\* that has said it is over, and for a signal.
ToldBeforeGone == module = "out" => thread \in Gone \cup Tail \/ signalled

\* rmmod ends whenever there is a thread to answer it: neither wake-up is lost,
\* however the flags are set and tested (kthread.c:30 and 65).
ThreadUnloadEnds == (module = "set" /\ thread # "none") ~> (module = "out")
=============================================================================
