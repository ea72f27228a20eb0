--------------------------- MODULE ListSyncProofs ---------------------------
(***************************************************************************)
(* Proofs about ListSync, for any number of modules, pids and entries: no  *)
(* walk through the list stands on an entry that has been taken off it; a  *)
(* pid is listed at most once per module that can be adding it; nothing is *)
(* left when list_sync goes.                                               *)
(***************************************************************************)
EXTENDS ListSync, FiniteSetTheorems, TLAPS

\* pc and cur are functions on the modules; nothing else of the types matters.
FunctionsInv ==
  /\ pc = [a \in Modules |-> pc[a]]
  /\ cur = [a \in Modules |-> cur[a]]

WalkInv == FunctionsInv /\ WalkSafe

\* Where a walk goes on from an entry.
LEMMA NextListed == \A n : Next_(n) # End => Listed(Next_(n))
<1> SUFFICES ASSUME NEW n, Next_(n) # End PROVE Listed(Next_(n))
  OBVIOUS
<1> DEFINE after == {i \in DOMAIN list : i > 1 /\ list[i - 1] = n}
<1>1. after # {}
  BY DEF Next_
<1>2. PICK i \in after : Next_(n) = list[i]
  BY <1>1 DEF Next_
<1> QED BY <1>2 DEF Listed

\* While nobody holds read_lock the list may change: nobody walks, before the
\* step or after it.
LEMMA ChangeInv ==
  ASSUME WalkInv, WriteLock, NEW a \in Modules, NEW step, UNCHANGED cur,
         pc' = [pc EXCEPT ![a] = step], step \notin {"walk_in", "walk_out"}
  PROVE  WalkInv'
<1>1. FunctionsInv'
  BY DEF WalkInv, FunctionsInv
<1>2. \A b \in Modules : ~Walking(b)'
  BY DEF WriteLock, Walking, WalkInv, FunctionsInv
<1> QED BY <1>1, <1>2 DEF WalkInv, WalkSafe

\* A step that only changes entries of the list.
LEMMA StayInv ==
  ASSUME WalkInv, UNCHANGED <<list, pc, cur>>
  PROVE  WalkInv'
BY DEF WalkInv, FunctionsInv, WalkSafe, Walking, Listed

\* A step that leaves the list alone and begins no walk.
LEMMA OtherInv ==
  ASSUME WalkInv, NEW a \in Modules, NEW step, UNCHANGED <<list, cur>>,
         pc' = [pc EXCEPT ![a] = step], step \notin {"walk_in", "walk_out"}
  PROVE  WalkInv'
<1>1. FunctionsInv'
  BY DEF WalkInv, FunctionsInv
<1>2. \A b \in Modules : Walking(b)' => Walking(b)
  BY DEF Walking, WalkInv, FunctionsInv
<1> QED BY <1>1, <1>2 DEF WalkInv, WalkSafe, Listed

LEMMA CallInv ==
  ASSUME WalkInv, NEW a \in Modules, Call(a)
  PROVE  WalkInv'
<1>1. ASSUME NEW pid \in Pids, AddFound(a, pid) PROVE WalkInv'
  BY <1>1, StayInv DEF AddFound
<1>2. ASSUME NEW pid \in Pids, AddMissing(a, pid) PROVE WalkInv'
  BY <1>2, ChangeInv DEF AddMissing, Goto
<1>3. ASSUME NEW n \in Nodes, AddInsert(a, n) PROVE WalkInv'
  BY <1>3, ChangeInv DEF AddInsert, Goto
<1>4. CASE WalkBegin(a)
  <2>1. /\ list' = list
        /\ cur' = [cur EXCEPT ![a] = IF 1 \in DOMAIN list THEN list[1] ELSE End]
        /\ \/ pc' = [pc EXCEPT ![a] = "walk_in"]
           \/ pc' = [pc EXCEPT ![a] = "walk_out"]
    BY <1>4 DEF WalkBegin, Goto
  <2>2. FunctionsInv'
    BY <2>1 DEF WalkInv, FunctionsInv
  <2>3. \A b \in Modules \ {a} : pc'[b] = pc[b] /\ cur'[b] = cur[b]
    BY <2>1 DEF WalkInv, FunctionsInv
  <2>4. cur'[a] = IF 1 \in DOMAIN list THEN list[1] ELSE End
    BY <2>1 DEF WalkInv, FunctionsInv
  <2>5. cur'[a] # End => Listed(cur'[a])
    BY <2>4 DEF Listed
  <2> QED BY <2>1, <2>2, <2>3, <2>5 DEF WalkInv, WalkSafe, Walking, Listed
<1>5. CASE WalkStep(a)
  <2>1. /\ UNCHANGED <<list, pc>>
        /\ cur' = [cur EXCEPT ![a] = Next_(cur[a])]
    BY <1>5 DEF WalkStep
  <2>2. FunctionsInv'
    BY <2>1 DEF WalkInv, FunctionsInv
  <2>3. /\ \A b \in Modules \ {a} : cur'[b] = cur[b]
        /\ cur'[a] = Next_(cur[a])
    BY <2>1 DEF WalkInv, FunctionsInv
  <2>4. cur'[a] # End => Listed(cur'[a])
    BY <2>3, NextListed
  <2> QED BY <2>1, <2>2, <2>3, <2>4 DEF WalkInv, WalkSafe, Walking, Listed
<1>6. CASE WalkEnd(a)
  <2>1. PICK step \in {"sleep", "live", "purge", "out"} :
          pc' = [pc EXCEPT ![a] = step]
    BY <1>6 DEF WalkEnd, Walking, Goto
  <2> QED BY <1>6, <2>1, OtherInv DEF WalkEnd
<1>7. CASE Wake(a)
  BY <1>7, OtherInv DEF Wake, Goto
<1>8. CASE RemoveExpired(a)
  BY <1>8, ChangeInv DEF RemoveExpired, Goto
<1>9. CASE Purge(a)
  BY <1>9, ChangeInv DEF Purge, Goto
<1> QED BY <1>1, <1>2, <1>3, <1>4, <1>5, <1>6, <1>7, <1>8, <1>9 DEF Call

LEMMA NextInv == WalkInv /\ [Next]_vars => WalkInv'
<1> SUFFICES ASSUME WalkInv, [Next]_vars PROVE WalkInv'
  OBVIOUS
<1>1. ASSUME NEW a \in Modules, Insmod(a) PROVE WalkInv'
  BY <1>1, OtherInv DEF Insmod, Goto
<1>2. ASSUME NEW a \in Modules, Call(a) PROVE WalkInv'
  BY <1>2, CallInv
<1>3. ASSUME NEW a \in Modules, Rmmod(a) PROVE WalkInv'
  BY <1>3, OtherInv DEF Rmmod, Goto
<1>4. ASSUME NEW n \in Nodes, Age(n) PROVE WalkInv'
  BY <1>4, StayInv DEF Age
<1>5. CASE UNCHANGED vars
  BY <1>5, StayInv DEF vars
<1> QED BY <1>1, <1>2, <1>3, <1>4, <1>5 DEF Next

\* A module that prints the list under read_lock stands on an entry of it at
\* every step: entries are only removed and freed under write_lock.
THEOREM WalksAreSafe == Spec => []WalkSafe
<1>1. Init => WalkInv
  BY DEF Init, WalkInv, FunctionsInv, WalkSafe, Walking
<1>2. WalkInv => WalkSafe
  BY DEF WalkInv
<1> QED BY <1>1, <1>2, NextInv, PTL DEF Spec

-----------------------------------------------------------------------------
(* What the list holds.                                                    *)

\* A module that goes to insert has something to insert.
InsertInv == \A a \in Modules : pc[a] = "insert" => left[a] > 0 /\ want[a] \in Pids

\* The users of list_sync are there only while it is.
OwnerInv == pc[Owner] # "live" => \A c \in Clients : pc[c] = "out"

\* No entry is lost.
ListedInv == \A n \in Nodes : info[n] # Freed => Listed(n)

EmptyInv == pc[Owner] = "out" => list = <<>>

ListInv == TypeOK /\ InsertInv /\ OwnerInv /\ ListedInv /\ EmptyInv /\ FewDuplicates

Most == IF Clients = {} THEN 1 ELSE Cardinality(Clients)

\* The places of a list are finitely many.
LEMMA PlacesFinite ==
  ASSUME NEW l, l \in Seq(Nodes), NEW S \in SUBSET DOMAIN l
  PROVE  IsFiniteSet(S) /\ Cardinality(S) \in Nat
<1>1. DOMAIN l = 1..Len(l) /\ Len(l) \in Int
  OBVIOUS
<1>2. IsFiniteSet(DOMAIN l)
  BY <1>1, FS_Interval
<1> QED BY <1>2, FS_Subset, FS_CardinalityType

\* As many modules can be adding at once as there are users of the list.
LEMMA AddingBound ==
  ASSUME NEW S, S \subseteq Clients \/ S = {Owner}
  PROVE  IsFiniteSet(S) /\ Cardinality(S) \in Nat /\ Cardinality(S) <= Most /\ Most \in Nat
<1>0. Cardinality(Clients) \in Nat /\ Most \in Nat
  BY FS_CardinalityType, NameAssumption DEF Most
<1>1. CASE S \subseteq Clients
  <2>1. IsFiniteSet(S) /\ Cardinality(S) <= Cardinality(Clients) /\ Cardinality(S) \in Nat
    BY <1>1, FS_Subset, FS_CardinalityType, NameAssumption
  <2>2. CASE Clients = {}
    <3>1. Cardinality(S) = 0
      BY <1>1, <2>2, FS_EmptySet
    <3> QED BY <1>0, <2>1, <3>1, <2>2 DEF Most
  <2> QED BY <1>0, <2>1, <2>2 DEF Most
<1>2. CASE S = {Owner}
  <2>1. IsFiniteSet(S) /\ Cardinality(S) = 1
    BY <1>2, FS_Singleton
  <2>2. Clients # {} => Cardinality(Clients) # 0
    BY FS_EmptySet, NameAssumption
  <2> QED BY <2>1, <2>2, <1>0 DEF Most
<1> QED BY <1>1, <1>2

\* While list_sync is being loaded or unloaded no other module is there.
LEMMA AddingWho ==
  ASSUME OwnerInv, NEW pid
  PROVE  Adding(pid) \subseteq Clients \/ Adding(pid) = {Owner}
<1>1. CASE Owner \in Adding(pid)
  BY <1>1, NameAssumption DEF Adding, OwnerInv, Modules
<1>2. CASE Owner \notin Adding(pid)
  BY <1>2 DEF Adding, Modules
<1> QED BY <1>1, <1>2

\* No more places than before, when each entry has come from one of them.
LEMMA MovedPlaces ==
  ASSUME NEW S, NEW T, IsFiniteSet(T), NEW f \in [S -> T],
         \A i, j \in S : f[i] = f[j] => i = j
  PROVE  Cardinality(S) <= Cardinality(T)
<1>1. f \in Injection(S, T)
  BY DEF Injection, IsInjective
<1> QED BY <1>1, FS_Injection

\* A module goes on to a step that does not insert.
LEMMA MoveInv ==
  ASSUME ListInv, NEW a \in Modules, NEW step,
         pc' = [pc EXCEPT ![a] = step],
         step \in {"add", "walk_in", "sleep", "live", "expire", "print_out", "walk_out", "purge"}
           \/ (step = "out" /\ a # Owner),
         pc[a] # "insert",
         a # Owner => pc[Owner] = "live" \/ pc[a] # "out",
         a = Owner /\ pc[a] = "live" => \A c \in Clients : pc[c] = "out",
         UNCHANGED <<list, info, want>>,
         left' \in [Modules -> 0..Adds], \A b \in Modules \ {a} : left'[b] = left[b],
         cur' \in [Modules -> Nodes \cup {End}]
  PROVE  ListInv'
<1>1. /\ pc'[a] = step /\ \A b \in Modules \ {a} : pc'[b] = pc[b]
      /\ step # "insert" /\ (step # "out" \/ a # Owner)
  BY DEF ListInv, TypeOK
<1>2. TypeOK'
  BY DEF ListInv, TypeOK
<1>3. InsertInv'
  BY <1>1 DEF ListInv, TypeOK, InsertInv
<1>4. Owner \in Modules /\ Clients \subseteq Modules /\ Owner \notin Clients
      /\ (a = Owner \/ a \in Clients)
  BY NameAssumption DEF Modules
<1>5. OwnerInv'
  BY <1>1, <1>4 DEF ListInv, OwnerInv
<1>6. ListedInv' /\ EmptyInv'
  BY <1>1, <1>4 DEF ListInv, ListedInv, EmptyInv, Listed
<1>7. FewDuplicates'
  <2>1. \A pid \in Pids : Holds(pid)' = Holds(pid)
    BY DEF Holds
  <2>2. \A pid \in Pids : Adding(pid)' = Adding(pid)
    BY <1>1 DEF Adding
  <2> QED BY <2>1, <2>2 DEF ListInv, FewDuplicates
<1> QED BY <1>2, <1>3, <1>5, <1>6, <1>7 DEF ListInv

\* A step that changes entries of the list but not their pids.
LEMMA EntryInv ==
  ASSUME ListInv, UNCHANGED <<list, pc, want, cur>>,
         NEW n \in Nodes, info[n] # Freed, NEW e \in TaskInfo, e.pid = info[n].pid,
         info' = [info EXCEPT ![n] = e],
         left' \in [Modules -> 0..Adds],
         \A a \in Modules : pc[a] = "insert" => left'[a] = left[a]
  PROVE  ListInv'
<1>1. e # Freed
  BY FreedAssumption
<1>2. info'[n] = e /\ \A m \in Nodes \ {n} : info'[m] = info[m]
  BY DEF ListInv, TypeOK
<1>3. \A i \in DOMAIN list : list[i] \in Nodes
  BY DEF ListInv, TypeOK
<1>4. TypeOK'
  BY <1>1, <1>2, <1>3 DEF ListInv, TypeOK
<1>5. InsertInv' /\ OwnerInv' /\ EmptyInv'
  BY DEF ListInv, InsertInv, OwnerInv, EmptyInv
<1>6. ListedInv'
  BY <1>2 DEF ListInv, ListedInv, Listed
<1>7. FewDuplicates'
  <2>1. \A pid \in Pids : Holds(pid)' = Holds(pid)
    BY <1>2, <1>3 DEF Holds
  <2>2. \A pid \in Pids : Adding(pid)' = Adding(pid)
    BY DEF Adding
  <2> QED BY <2>1, <2>2 DEF ListInv, FewDuplicates
<1> QED BY <1>4, <1>5, <1>6, <1>7 DEF ListInv

\* The pid is found.
LEMMA FoundInv == ASSUME ListInv, NEW a \in Modules, NEW pid \in Pids, AddFound(a, pid) PROVE ListInv'
<1>1. PICK n \in Nodes :
        /\ find_pid(pid, n)
        /\ info' = [info EXCEPT ![n].old = FALSE,
                                ![n].count = IF @ < KeepCount THEN @ + 1 ELSE @]
  BY DEF AddFound
<1>2. info[n] \in TaskInfo /\ info[n] # Freed
  BY <1>1 DEF find_pid, Holds, ListInv, TypeOK
<1> DEFINE e == [info[n] EXCEPT !.old = FALSE,
                                !.count = IF @ < KeepCount THEN @ + 1 ELSE @]
<1>3. e \in TaskInfo /\ e.pid = info[n].pid
  <2>1. info[n].count \in 0..KeepCount /\ KeepCount \in Nat
    BY <1>2, NameAssumption DEF TaskInfo
  <2>2. (IF info[n].count < KeepCount THEN info[n].count + 1 ELSE info[n].count) \in 0..KeepCount
    BY <2>1
  <2> QED BY <1>2, <2>2 DEF TaskInfo
<1>4. info' = [info EXCEPT ![n] = e]
  BY <1>1, <1>2 DEF ListInv, TypeOK, TaskInfo
<1>5. left' \in [Modules -> 0..Adds] /\ \A b \in Modules : pc[b] = "insert" => left'[b] = left[b]
  <2>1. left[a] \in 0..Adds /\ left[a] > 0 /\ Adds \in Nat
    BY NameAssumption DEF AddFound, ListInv, TypeOK
  <2>2. left[a] - 1 \in 0..Adds
    BY <2>1
  <2> QED BY <2>2 DEF AddFound, ListInv, TypeOK
<1>6. UNCHANGED <<list, pc, want, cur>>
  BY DEF AddFound
<1> HIDE DEF e
<1> QED BY <1>2, <1>3, <1>4, <1>5, <1>6, EntryInv

\* The pid is not there: one more module is going to insert it.
LEMMA MissingInv == ASSUME ListInv, NEW a \in Modules, NEW pid \in Pids, AddMissing(a, pid) PROVE ListInv'
<1>1. /\ pc[a] = "add" /\ left[a] > 0 /\ Holds(pid) = {}
      /\ pc' = [pc EXCEPT ![a] = "insert"] /\ want' = [want EXCEPT ![a] = pid]
      /\ UNCHANGED <<list, info, left, cur>>
  BY DEF AddMissing, Goto
<1>2. /\ pc'[a] = "insert" /\ want'[a] = pid
      /\ \A b \in Modules \ {a} : pc'[b] = pc[b] /\ want'[b] = want[b]
  BY <1>1 DEF ListInv, TypeOK
<1>3. TypeOK' /\ InsertInv'
  BY <1>1, <1>2 DEF ListInv, TypeOK, InsertInv
<1>4. Owner \in Modules /\ Clients \subseteq Modules /\ Owner \notin Clients
      /\ (a = Owner \/ a \in Clients)
  BY NameAssumption DEF Modules
<1>5. OwnerInv'
  BY <1>1, <1>2, <1>4 DEF ListInv, OwnerInv
<1>6. ListedInv' /\ EmptyInv'
  BY <1>1, <1>2, <1>4 DEF ListInv, ListedInv, EmptyInv, Listed
<1>7. FewDuplicates'
  <2> SUFFICES ASSUME NEW q \in Pids
               PROVE  Cardinality(Holds(q)') + Cardinality(Adding(q)') <= Most
    BY DEF FewDuplicates, Most
  <2>1. Holds(q)' = Holds(q)
    BY <1>1 DEF Holds
  <2>2. CASE q = pid
    <3>1. Cardinality(Holds(q)') = 0
      BY <1>1, <2>1, <2>2, FS_EmptySet
    <3>2. Adding(q)' \subseteq Clients \/ Adding(q)' = {Owner}
      <4>1. CASE a = Owner
        BY <4>1, <1>2, <1>4, <1>5, NameAssumption DEF Adding, OwnerInv, Modules
      <4>2. CASE a \in Clients
        BY <4>2, <1>1, <1>2, <1>4, <1>5 DEF Adding, OwnerInv, ListInv, Modules
      <4> QED BY <1>4, <4>1, <4>2
    <3>3. Cardinality(Adding(q)') <= Most /\ Cardinality(Adding(q)') \in Nat
      BY <3>2, AddingBound
    <3> QED BY <3>1, <3>3
  <2>3. CASE q # pid
    <3>1. Adding(q)' = Adding(q)
      BY <1>1, <1>2, <2>3 DEF Adding
    <3> QED BY <2>1, <3>1 DEF ListInv, FewDuplicates, Most
  <2> QED BY <2>2, <2>3
<1> QED BY <1>3, <1>5, <1>6, <1>7 DEF ListInv

\* The entry is made and put in front.
LEMMA InsertedInv == ASSUME ListInv, NEW a \in Modules, NEW n \in Nodes, AddInsert(a, n) PROVE ListInv'
<1> DEFINE e == [pid |-> want[a], old |-> FALSE, count |-> 0]
<1>1. /\ pc[a] = "insert" /\ info[n] = Freed
      /\ info' = [info EXCEPT ![n] = e] /\ list' = <<n>> \o list
      /\ pc' = [pc EXCEPT ![a] = "add"]
      /\ left' = [left EXCEPT ![a] = @ - 1] /\ want' = [want EXCEPT ![a] = NoPid]
      /\ UNCHANGED cur
  BY DEF AddInsert, Goto
<1>2. want[a] \in Pids /\ left[a] > 0 /\ left[a] - 1 \in 0..Adds
  BY <1>1, NameAssumption DEF ListInv, InsertInv, TypeOK
<1>3. e \in TaskInfo /\ e # Freed /\ e.pid = want[a]
  <2>1. 0 \in 0..KeepCount
    BY NameAssumption
  <2>2. e \in TaskInfo
    BY <1>2, <2>1 DEF TaskInfo
  <2> QED BY <2>2, FreedAssumption
<1>4. list \in Seq(Nodes) /\ Len(list) \in Nat /\ \A i \in DOMAIN list : list[i] \in Nodes /\ list[i] # n
  BY <1>1 DEF ListInv, TypeOK
<1>5. /\ list' \in Seq(Nodes) /\ DOMAIN list' = 1..Len(list) + 1 /\ list'[1] = n
      /\ \A i \in DOMAIN list' : i \in Nat /\ (i # 1 => i - 1 \in DOMAIN list /\ list'[i] = list[i - 1])
      /\ \A i \in DOMAIN list : i \in Nat /\ i + 1 \in DOMAIN list' /\ list'[i + 1] = list[i]
  BY <1>1, <1>4
<1> HIDE DEF e
<1>6. /\ info'[n] = e /\ \A m \in Nodes \ {n} : info'[m] = info[m]
      /\ pc'[a] = "add" /\ want'[a] = NoPid
      /\ \A b \in Modules \ {a} : pc'[b] = pc[b] /\ want'[b] = want[b] /\ left'[b] = left[b]
  BY <1>1 DEF ListInv, TypeOK
<1>7. TypeOK'
  <2>1. info' \in [Nodes -> TaskInfo \cup {Freed}]
    BY <1>1, <1>3 DEF ListInv, TypeOK
  <2>2. \A i \in DOMAIN list' : info'[list'[i]] # Freed
    BY <1>3, <1>4, <1>5, <1>6 DEF ListInv, TypeOK
  <2>3. left' \in [Modules -> 0..Adds]
    BY <1>1, <1>2 DEF ListInv, TypeOK
  <2> QED BY <1>1, <1>5, <2>1, <2>2, <2>3 DEF ListInv, TypeOK
<1>8. InsertInv'
  BY <1>6 DEF ListInv, InsertInv
<1>9. Owner \in Modules /\ Clients \subseteq Modules /\ Owner \notin Clients
      /\ (a = Owner \/ a \in Clients)
  BY NameAssumption DEF Modules
<1>10. OwnerInv' /\ EmptyInv'
  <2>1. OwnerInv'
    BY <1>1, <1>6, <1>9 DEF ListInv, OwnerInv
  <2>2. pc[Owner] # "out"
    BY <1>1, <1>9 DEF ListInv, OwnerInv
  <2> QED BY <2>1, <2>2, <1>6, <1>9 DEF EmptyInv
<1>11. ListedInv'
  BY <1>5, <1>6 DEF ListInv, ListedInv, Listed
<1>12. FewDuplicates'
  <2> SUFFICES ASSUME NEW q \in Pids
               PROVE  Cardinality(Holds(q)') + Cardinality(Adding(q)') <= Most
    BY DEF FewDuplicates, Most
  <2>1. /\ Cardinality(Holds(q)) + Cardinality(Adding(q)) <= Most
        /\ IsFiniteSet(Holds(q)) /\ Cardinality(Holds(q)) \in Nat
        /\ IsFiniteSet(Adding(q)) /\ Cardinality(Adding(q)) \in Nat /\ Most \in Nat
    <3>1. Holds(q) \in SUBSET DOMAIN list
      BY DEF Holds
    <3>2. Adding(q) \subseteq Clients \/ Adding(q) = {Owner}
      BY AddingWho DEF ListInv
    <3>3. Cardinality(Holds(q)) + Cardinality(Adding(q)) <= Most
      BY DEF ListInv, FewDuplicates, Most
    <3> QED BY <3>1, <3>2, <3>3, <1>4, PlacesFinite, AddingBound
  <2>2. /\ \A i \in Holds(q)' : i \in Nat /\ ((i = 1 /\ q = want[a]) \/ (i # 1 /\ i - 1 \in Holds(q)))
    <3> SUFFICES ASSUME NEW i \in DOMAIN list', info'[list'[i]].pid = q
                 PROVE  i \in Nat /\ ((i = 1 /\ q = want[a]) \/ (i # 1 /\ i - 1 \in Holds(q)))
      BY DEF Holds
    <3>1. CASE i = 1
      <4>1. info'[list'[1]] = e
        BY <1>5, <1>6
      <4>2. e.pid = q
        BY <4>1, <3>1
      <4>3. e.pid = want[a]
        BY <1>3
      <4> QED BY <4>2, <4>3, <3>1
    <3>2. CASE i # 1
      BY <3>2, <1>4, <1>5, <1>6 DEF Holds
    <3> QED BY <3>1, <3>2
  <2> DEFINE f == [i \in Holds(q)' |-> i - 1]
  <2>3. /\ \A i, j \in Holds(q)' : f[i] = f[j] => i = j
        /\ \A i \in Holds(q)' : (f[i] = 0 /\ q = want[a]) \/ f[i] \in Holds(q)
    BY <2>2
  <2>4. Cardinality(Holds(q)') \in Nat
    <3>1. Holds(q)' \in SUBSET DOMAIN list'
      BY DEF Holds
    <3> QED BY <3>1, <1>5, PlacesFinite
  <2>5. CASE q = want[a]
    <3>1. f \in [Holds(q)' -> Holds(q) \cup {0}]
      BY <2>3
    <3>2. IsFiniteSet(Holds(q) \cup {0}) /\ Cardinality(Holds(q) \cup {0}) <= Cardinality(Holds(q)) + 1
          /\ Cardinality(Holds(q) \cup {0}) \in Nat
      <4>1. IsFiniteSet(Holds(q) \cup {0})
            /\ (Cardinality(Holds(q) \cup {0}) = Cardinality(Holds(q))
                \/ Cardinality(Holds(q) \cup {0}) = Cardinality(Holds(q)) + 1)
        BY <2>1, FS_AddElement
      <4> QED BY <2>1, <4>1
    <3>3. Cardinality(Holds(q)') <= Cardinality(Holds(q) \cup {0})
      <4> HIDE DEF f
      <4> QED BY <2>3, <3>1, <3>2, MovedPlaces
    <3>4. Adding(q)' = Adding(q) \ {a} /\ a \in Adding(q)
      <4>1. NoPid # q
        BY NameAssumption
      <4> QED BY <4>1, <1>1, <1>6, <2>5 DEF Adding
    <3>5. Cardinality(Adding(q)') = Cardinality(Adding(q)) - 1
      BY <2>1, <3>4, FS_RemoveElement
    <3> QED BY <2>1, <2>4, <3>2, <3>3, <3>5
  <2>6. CASE q # want[a]
    <3>1. f \in [Holds(q)' -> Holds(q)]
      BY <2>3, <2>6
    <3>2. Cardinality(Holds(q)') <= Cardinality(Holds(q))
      <4> HIDE DEF f
      <4> QED BY <2>1, <2>3, <3>1, MovedPlaces
    <3>3. Adding(q)' = Adding(q)
      BY <1>1, <1>6, <2>6 DEF Adding
    <3> QED BY <2>1, <2>4, <3>2, <3>3
  <2> QED BY <2>5, <2>6
<1> QED BY <1>7, <1>8, <1>10, <1>11, <1>12 DEF ListInv

\* The expired entries go, and no other.
LEMMA ExpiredInv == ASSUME ListInv, NEW a \in Modules, RemoveExpired(a) PROVE ListInv'
<1> DEFINE kept == {i \in DOMAIN list : ~Expired(list[i])}
<1>1. /\ pc[a] = "expire" /\ pc' = [pc EXCEPT ![a] = "print_out"]
      /\ info' = [n \in Nodes |-> IF Listed(n) /\ Expired(n) THEN Freed ELSE info[n]]
      /\ UNCHANGED <<left, want, cur>>
  BY DEF RemoveExpired, Goto
<1>2. PICK f \in Bijection(1..Cardinality(kept), kept) : list' = [i \in DOMAIN f |-> list[f[i]]]
  BY DEF RemoveExpired, DelExpired
<1>3. list \in Seq(Nodes) /\ \A i \in DOMAIN list : list[i] \in Nodes /\ info[list[i]] # Freed
  BY DEF ListInv, TypeOK
<1>4. Cardinality(kept) \in Nat
  BY <1>3, PlacesFinite
<1>5. /\ DOMAIN f = 1..Cardinality(kept)
      /\ \A i \in DOMAIN f : f[i] \in DOMAIN list /\ ~Expired(list[f[i]])
      /\ \A i, j \in DOMAIN f : f[i] = f[j] => i = j
      /\ \A k \in kept : \E i \in DOMAIN f : f[i] = k
  BY <1>2 DEF Bijection, Injection, Surjection, IsInjective
<1>6. DOMAIN list' = DOMAIN f /\ \A i \in DOMAIN list' : list'[i] = list[f[i]]
  BY <1>2
<1>7. list' \in Seq(Nodes)
  <2>1. list' \in [1..Cardinality(kept) -> Nodes]
    BY <1>2, <1>3, <1>5
  <2> HIDE DEF kept
  <2> QED BY <2>1, <1>4
<1> HIDE DEF kept
<1>8. \A i \in DOMAIN list' : info'[list'[i]] = info[list'[i]] /\ list'[i] \in Nodes
  BY <1>1, <1>3, <1>5, <1>6
<1>9. TypeOK'
  <2>1. info' \in [Nodes -> TaskInfo \cup {Freed}]
    BY <1>1 DEF ListInv, TypeOK
  <2>2. \A i \in DOMAIN list' : info'[list'[i]] # Freed
    BY <1>3, <1>5, <1>6, <1>8
  <2> QED BY <1>1, <1>7, <2>1, <2>2 DEF ListInv, TypeOK
<1>10. pc'[a] = "print_out" /\ \A b \in Modules \ {a} : pc'[b] = pc[b]
  BY <1>1 DEF ListInv, TypeOK
<1>11. Owner \in Modules /\ Clients \subseteq Modules /\ Owner \notin Clients
       /\ (a = Owner \/ a \in Clients)
  BY NameAssumption DEF Modules
<1>12. InsertInv' /\ OwnerInv'
  BY <1>1, <1>10, <1>11 DEF ListInv, InsertInv, OwnerInv
<1>13. EmptyInv'
  BY <1>1, <1>10, <1>11 DEF ListInv, OwnerInv, EmptyInv
<1>14. ListedInv'
  <2> SUFFICES ASSUME NEW n \in Nodes, info'[n] # Freed PROVE \E i \in DOMAIN list' : list'[i] = n
    BY DEF ListedInv, Listed
  <2>1. Listed(n) /\ ~Expired(n)
    BY <1>1 DEF ListInv, ListedInv
  <2>2. PICK k \in DOMAIN list : list[k] = n
    BY <2>1 DEF Listed
  <2>3. k \in kept
    BY <2>1, <2>2 DEF kept
  <2> QED BY <2>2, <2>3, <1>5, <1>6
<1>15. FewDuplicates'
  <2> SUFFICES ASSUME NEW q \in Pids
               PROVE  Cardinality(Holds(q)') + Cardinality(Adding(q)') <= Most
    BY DEF FewDuplicates, Most
  <2>1. Cardinality(Holds(q)) + Cardinality(Adding(q)) <= Most
    BY DEF ListInv, FewDuplicates, Most
  <2>2. Adding(q)' = Adding(q)
    BY <1>1, <1>10 DEF Adding
  <2> DEFINE g == [i \in Holds(q)' |-> f[i]]
  <2>3. g \in [Holds(q)' -> Holds(q)] /\ \A i, j \in Holds(q)' : g[i] = g[j] => i = j
    BY <1>5, <1>6, <1>8 DEF Holds
  <2> HIDE DEF g
  <2>4. Holds(q) \in SUBSET DOMAIN list /\ Holds(q)' \in SUBSET DOMAIN list'
    BY DEF Holds
  <2>5. IsFiniteSet(Holds(q)) /\ Cardinality(Holds(q)) \in Nat /\ Cardinality(Holds(q)') \in Nat
    BY <2>4, <1>3, <1>7, PlacesFinite
  <2>6. Cardinality(Holds(q)') <= Cardinality(Holds(q))
    BY <2>3, <2>5, MovedPlaces
  <2>7. Cardinality(Adding(q)) \in Nat /\ Most \in Nat
    BY AddingWho, AddingBound DEF ListInv
  <2> QED BY <2>1, <2>2, <2>5, <2>6, <2>7
<1> QED BY <1>9, <1>12, <1>13, <1>14, <1>15 DEF ListInv

\* list_sync frees what is left.
LEMMA PurgedInv == ASSUME ListInv, NEW a \in Modules, Purge(a) PROVE ListInv'
<1>1. /\ pc[a] = "purge" /\ pc' = [pc EXCEPT ![a] = "out"] /\ list' = <<>>
      /\ info' = [n \in Nodes |-> IF Listed(n) THEN Freed ELSE info[n]]
      /\ UNCHANGED <<left, want, cur>>
  BY DEF Purge, Goto
<1>2. pc'[a] = "out" /\ \A b \in Modules \ {a} : pc'[b] = pc[b]
  BY <1>1 DEF ListInv, TypeOK
<1>3. TypeOK'
  BY <1>1 DEF ListInv, TypeOK
<1>4. Owner \in Modules /\ Clients \subseteq Modules /\ Owner \notin Clients
      /\ (a = Owner \/ a \in Clients)
  BY NameAssumption DEF Modules
<1>5. InsertInv' /\ OwnerInv' /\ EmptyInv'
  BY <1>1, <1>2, <1>4 DEF ListInv, InsertInv, OwnerInv, EmptyInv
<1>6. ListedInv'
  BY <1>1 DEF ListInv, ListedInv
<1>7. FewDuplicates'
  <2> SUFFICES ASSUME NEW q \in Pids
               PROVE  Cardinality(Holds(q)') + Cardinality(Adding(q)') <= Most
    BY DEF FewDuplicates, Most
  <2>1. Holds(q)' = {} /\ Adding(q)' = Adding(q)
    BY <1>1, <1>2 DEF Holds, Adding
  <2>2. Cardinality(Holds(q)') = 0
    BY <2>1, FS_EmptySet
  <2>3. Cardinality(Adding(q)) <= Most /\ Cardinality(Adding(q)) \in Nat
    BY AddingWho, AddingBound DEF ListInv
  <2> QED BY <2>1, <2>2, <2>3
<1> QED BY <1>3, <1>5, <1>6, <1>7 DEF ListInv

\* A step of a call.
LEMMA CallListInv == ASSUME ListInv, NEW a \in Modules, Call(a) PROVE ListInv'
<1>1. ASSUME NEW pid \in Pids, AddFound(a, pid) PROVE ListInv'
  BY <1>1, FoundInv
<1>2. ASSUME NEW pid \in Pids, AddMissing(a, pid) PROVE ListInv'
  BY <1>2, MissingInv
<1>3. ASSUME NEW n \in Nodes, AddInsert(a, n) PROVE ListInv'
  BY <1>3, InsertedInv
<1>4. CASE WalkBegin(a)
  <2>1. PICK step \in {"walk_in", "walk_out"} : pc' = [pc EXCEPT ![a] = step]
    BY <1>4 DEF WalkBegin, Goto
  <2>2. cur' \in [Modules -> Nodes \cup {End}]
    BY <1>4 DEF WalkBegin, ListInv, TypeOK
  <2>3. pc[a] \in {"add", "print_out"} /\ UNCHANGED <<list, info, left, want>>
    BY <1>4 DEF WalkBegin
  <2> QED BY <2>1, <2>2, <2>3, MoveInv DEF ListInv, TypeOK
<1>5. CASE WalkStep(a)
  <2>1. UNCHANGED <<list, info, pc, left, want>> /\ cur' = [cur EXCEPT ![a] = Next_(cur[a])]
    BY <1>5 DEF WalkStep
  <2>2. Next_(cur[a]) \in Nodes \cup {End}
    BY NextListed DEF Listed, ListInv, TypeOK
  <2>3. TypeOK'
    BY <2>1, <2>2 DEF ListInv, TypeOK
  <2> QED BY <2>1, <2>3 DEF ListInv, InsertInv, OwnerInv, ListedInv, EmptyInv, FewDuplicates,
                            Holds, Adding, Listed
<1>6. CASE WalkEnd(a)
  <2>1. PICK step : /\ pc' = [pc EXCEPT ![a] = step]
                    /\ step \in {"sleep", "live", "purge"} \/ (step = "out" /\ a # Owner)
    BY <1>6 DEF WalkEnd, Walking, Goto
  <2>2. pc[a] \in {"walk_in", "walk_out"} /\ UNCHANGED <<list, info, left, want, cur>>
    BY <1>6 DEF WalkEnd, Walking
  <2> QED BY <2>1, <2>2, MoveInv DEF ListInv, TypeOK
<1>7. CASE Wake(a)
  BY <1>7, MoveInv DEF Wake, Goto, ListInv, TypeOK
<1>8. CASE RemoveExpired(a)
  BY <1>8, ExpiredInv
<1>9. CASE Purge(a)
  BY <1>9, PurgedInv
<1> QED BY <1>1, <1>2, <1>3, <1>4, <1>5, <1>6, <1>7, <1>8, <1>9 DEF Call

\* Every step keeps the invariant.
LEMMA ListStepInv == ListInv /\ [Next]_vars => ListInv'
<1> SUFFICES ASSUME ListInv, [Next]_vars PROVE ListInv'
  OBVIOUS
<1>1. ASSUME NEW a \in Modules, Insmod(a) PROVE ListInv'
  <2>1. Adds \in 0..Adds
    BY NameAssumption
  <2>2. left' \in [Modules -> 0..Adds] /\ \A b \in Modules \ {a} : left'[b] = left[b]
    BY <1>1, <2>1 DEF Insmod, ListInv, TypeOK
  <2> QED BY <1>1, <2>2, MoveInv DEF Insmod, Goto, ListInv, TypeOK
<1>2. ASSUME NEW a \in Modules, Call(a) PROVE ListInv'
  BY <1>2, CallListInv
<1>3. ASSUME NEW a \in Modules, Rmmod(a) PROVE ListInv'
  BY <1>3, MoveInv DEF Rmmod, Goto, ListInv, TypeOK
<1>4. ASSUME NEW n \in Nodes, Age(n) PROVE ListInv'
  <2>1. info[n] \in TaskInfo /\ info[n] # Freed
    BY <1>4 DEF Age, Listed, ListInv, TypeOK
  <2> DEFINE e == [info[n] EXCEPT !.old = TRUE]
  <2>2. e \in TaskInfo /\ e.pid = info[n].pid /\ info' = [info EXCEPT ![n] = e]
    BY <1>4, <2>1 DEF Age, ListInv, TypeOK, TaskInfo
  <2>3. UNCHANGED <<list, pc, want, cur, left>>
    BY <1>4 DEF Age
  <2> HIDE DEF e
  <2> QED BY <2>1, <2>2, <2>3, EntryInv DEF ListInv, TypeOK
<1>5. CASE UNCHANGED vars
  BY <1>5 DEF vars, ListInv, TypeOK, InsertInv, OwnerInv, ListedInv, EmptyInv, FewDuplicates,
              Holds, Adding, Listed
<1> QED BY <1>1, <1>2, <1>3, <1>4, <1>5 DEF Next

\* The list is empty at first.
LEMMA ListInitInv == Init => ListInv
<1> SUFFICES ASSUME Init PROVE ListInv
  OBVIOUS
<1>1. DOMAIN list = {} /\ list \in Seq(Nodes) /\ list = <<>>
  BY DEF Init
<1>2. TypeOK
  <2>1. 0 \in 0..Adds
    BY NameAssumption
  <2> QED BY <1>1, <2>1 DEF Init, TypeOK
<1>3. InsertInv /\ OwnerInv /\ ListedInv /\ EmptyInv
  BY <1>1 DEF Init, InsertInv, OwnerInv, ListedInv, EmptyInv, Modules
<1>4. FewDuplicates
  <2> SUFFICES ASSUME NEW q \in Pids
               PROVE  Cardinality(Holds(q)) + Cardinality(Adding(q)) <= Most
    BY DEF FewDuplicates, Most
  <2>1. Holds(q) = {} /\ Adding(q) = {}
    BY <1>1 DEF Init, Holds, Adding
  <2>2. Cardinality({}) = 0 /\ Cardinality({}) <= Most
    BY AddingBound, FS_EmptySet
  <2> QED BY <2>1, <2>2
<1> QED BY <1>2, <1>3, <1>4 DEF ListInv

\* The invariant holds in every behaviour.
LEMMA ListAlways == Spec => []ListInv
BY ListInitInv, ListStepInv, PTL DEF Spec

\* Every variable keeps its type: above all, what is on the list is a task_info
\* that has not been freed.
THEOREM ListTypes == Spec => []TypeOK
<1>1. ListInv => TypeOK
  BY DEF ListInv
<1> QED BY <1>1, ListAlways, PTL

\* A pid is listed at most once per module that can be adding it at the same
\* time, although it is searched for and inserted under the lock in two
\* sections (list-sync.c:63 and 73).
THEOREM FewDuplicatesAlways == Spec => []FewDuplicates
<1>1. ListInv => FewDuplicates
  BY DEF ListInv
<1> QED BY <1>1, ListAlways, PTL

\* When list_sync is not loaded its list is empty and every task_info freed.
THEOREM NothingLeftAlways == Spec => []NothingLeft
<1>1. ListInv => NothingLeft
  BY DEF ListInv, NothingLeft, EmptyInv, ListedInv, Listed
<1> QED BY <1>1, ListAlways, PTL
=============================================================================
