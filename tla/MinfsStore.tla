----------------------------- MODULE MinfsStore -----------------------------
(***************************************************************************)
(* What minfs promises of the names in its one directory: a lookup answers *)
(* rightly, a created name is there until the file system goes down and    *)
(* after a clean unmount, and a crash goes back to the names on the disk.  *)
(***************************************************************************)
CONSTANTS Names, MkfsNames

VARIABLES
  names,        \* the names in the directory
  stable,       \* those a crash would leave
  known,        \* what the last lookup of each name has answered
  up,           \* mounted
  crashed,      \* there has been a crash
  faulty        \* a block could not be read

svars == <<names, stable, known, up, crashed, faulty>>

Forgotten == [n \in Names |-> "unknown"]

SInit ==
  /\ names = MkfsNames /\ stable = MkfsNames
  /\ known = Forgotten
  /\ up = FALSE /\ crashed = FALSE /\ faulty = FALSE

Start == ~up /\ up' = TRUE /\ UNCHANGED <<names, stable, known, crashed, faulty>>

Look(n) ==
  /\ up
  /\ known' = [known EXCEPT ![n] = IF n \in names THEN "positive" ELSE "negative"]
  /\ UNCHANGED <<names, stable, up, crashed, faulty>>

\* A failed read: the answer is "no such name", right or wrong.
LookFailed(n) ==
  /\ up
  /\ known' = [known EXCEPT ![n] = "negative"]
  /\ faulty' = TRUE
  /\ UNCHANGED <<names, stable, up, crashed>>

\* A failed read that only makes a create fail.
CreateFailed ==
  /\ up /\ faulty' = TRUE
  /\ UNCHANGED <<names, stable, known, up, crashed>>

Forget(n) ==
  /\ known' = [known EXCEPT ![n] = "unknown"]
  /\ UNCHANGED <<names, stable, up, crashed, faulty>>

\* The name is in the directory first, and its lookup finds it next.
Make(n) ==
  /\ up /\ known[n] = "negative" /\ (n \notin names \/ faulty)
  /\ names' = names \cup {n}
  /\ UNCHANGED <<stable, known, up, crashed, faulty>>

Persist == stable' = names /\ UNCHANGED <<names, known, up, crashed, faulty>>

Stop ==
  /\ up /\ up' = FALSE
  /\ stable' = names /\ known' = Forgotten
  /\ UNCHANGED <<names, crashed, faulty>>

Crash ==
  /\ up /\ up' = FALSE /\ crashed' = TRUE
  /\ names' = stable /\ known' = Forgotten
  /\ UNCHANGED <<stable, faulty>>

SNext ==
  \/ Start \/ Persist \/ Stop \/ Crash \/ CreateFailed
  \/ \E n \in Names : Look(n) \/ LookFailed(n) \/ Forget(n) \/ Make(n)

SSpec == SInit /\ [][SNext]_svars
=============================================================================
