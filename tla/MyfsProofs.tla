----------------------------- MODULE MyfsProofs -----------------------------
(***************************************************************************)
(* Proofs about Myfs.                                                      *)
(***************************************************************************)
EXTENDS Myfs, FiniteSetTheorems, TLAPS

Finite == IsFiniteSet(Inodes) /\ IsFiniteSet(Names)
Apart == Root \notin Inodes /\ None \notin Inodes \cup {Root}

\* What is in a directory is in one that has not been removed, exists, and is
\* neither the root nor the directory itself.
TreeInv ==
  /\ kind[Root] = "dir"
  /\ \A d \in All, n \in Names : child[d][n] # None =>
       /\ kind[d] = "dir" /\ Linked(d)
       /\ child[d][n] \in Inodes /\ child[d][n] # d
       /\ kind[child[d][n]] \in {"file", "dir"}

\* A directory has one name at most.
OneName == \A i \in All : kind[i] = "dir" => \A x, y \in Entries(i) : x = y

Types ==
  /\ kind \in [All -> {"none", "file", "dir"}] /\ nlink \in [All -> Int]
  /\ child \in [All -> [Names -> All \cup {None}]]
  /\ opened \subseteq Inodes

MyfsInv == TypeOK /\ TreeInv /\ OneName /\ LinksExact

-----------------------------------------------------------------------------
(* Entries and sub-directories are finite, and how they are counted.       *)

\* The sets that are counted are finite.
LEMMA EntriesFinite ==
  ASSUME Finite, NEW S, S \subseteq All \X Names
  PROVE  IsFiniteSet(S) /\ Cardinality(S) \in Nat
<1>1. IsFiniteSet(All)
  <2>1. IsFiniteSet({Root})
    BY FS_Singleton
  <2> QED BY <2>1, FS_Union DEF Finite, All
<1>2. IsFiniteSet(All \X Names)
  BY <1>1, FS_Product DEF Finite
<1> QED BY <1>2, FS_Subset, FS_CardinalityType

\* The sets of names are finite.
LEMMA NamesFinite ==
  ASSUME Finite, NEW S, S \subseteq Names
  PROVE  IsFiniteSet(S) /\ Cardinality(S) \in Nat
BY FS_Subset, FS_CardinalityType DEF Finite

\* One more member, one fewer.
LEMMA CountOne ==
  ASSUME NEW S, IsFiniteSet(S), NEW x
  PROVE  /\ Cardinality(S) \in Nat
         /\ x \notin S => Cardinality(S \cup {x}) = Cardinality(S) + 1
         /\ x \in S => Cardinality(S \ {x}) = Cardinality(S) - 1
BY FS_AddElement, FS_RemoveElement, FS_CardinalityType

\* What the inodes are.
LEMMA Inode == ASSUME Apart PROVE /\ Root \in All /\ None \notin All /\ Inodes \subseteq All
                                  /\ \A i \in Inodes : i # Root
BY DEF Apart, All

-----------------------------------------------------------------------------
(* Init.                                                                   *)

\* The first state is a root and nothing else.
LEMMA InitInv == ASSUME Finite, Apart, Init PROVE MyfsInv
<1>1. \A d \in All, n \in Names : child[d][n] = None
  BY DEF Init
<1>2. /\ kind \in [All -> {"none", "file", "dir"}] /\ nlink \in [All -> Nat]
      /\ \A i \in All : kind[i] = IF i = Root THEN "dir" ELSE "none"
      /\ nlink[Root] = 2
  BY Inode DEF Init, LinksOfNew
<1>3. TypeOK
  BY <1>2 DEF Init, TypeOK
<1>4. \A i \in All : Entries(i) = {} /\ SubDirs(i) = {}
  BY <1>1, Inode DEF Entries, SubDirs
<1>5. TreeInv /\ OneName
  BY <1>1, <1>2, <1>4, Inode DEF TreeInv, OneName
<1>6. LinksExact
  <2>1. Cardinality({}) = 0
    BY FS_EmptySet
  <2> QED BY <1>2, <1>4, <2>1, Inode DEF LinksExact, Linked
<1> QED BY <1>3, <1>5, <1>6 DEF MyfsInv

-----------------------------------------------------------------------------
(* The steps.                                                              *)

\* One name of one directory is changed.
LEMMA PutChild ==
  ASSUME TypeOK, Apart, NEW d \in All, NEW n \in Names, NEW v \in All \cup {None},
         child' = Put(child, d, n, v)
  PROVE  /\ child' \in [All -> [Names -> All \cup {None}]]
         /\ \A x \in All, y \in Names :
              child'[x][y] = IF x = d /\ y = n THEN v ELSE child[x][y]
         /\ \A j \in All : Entries(j)' = IF j = v THEN Entries(j) \cup {<<d, n>>}
                                                 ELSE Entries(j) \ {<<d, n>>}
<1>1. child \in [All -> [Names -> All \cup {None}]]
  BY DEF TypeOK
<1>2. child' = [child EXCEPT ![d] = [child[d] EXCEPT ![n] = v]]
  BY <1>1 DEF Put
<1>3. child' \in [All -> [Names -> All \cup {None}]]
  BY <1>1, <1>2
<1>4. \A x \in All, y \in Names :
        child'[x][y] = IF x = d /\ y = n THEN v ELSE child[x][y]
  BY <1>1, <1>2
<1>5. ASSUME NEW j \in All
      PROVE  Entries(j)' = IF j = v THEN Entries(j) \cup {<<d, n>>}
                                    ELSE Entries(j) \ {<<d, n>>}
  <2>1. \A e \in All \X Names : e \in Entries(j)' <=> child'[e[1]][e[2]] = j
    BY DEF Entries
  <2>2. \A e \in All \X Names : e \in Entries(j) <=> child[e[1]][e[2]] = j
    BY DEF Entries
  <2>3. \A e \in All \X Names : e[1] \in All /\ e[2] \in Names
                                /\ (e = <<d, n>> <=> e[1] = d /\ e[2] = n)
    OBVIOUS
  <2>4. Entries(j) \subseteq All \X Names /\ Entries(j)' \subseteq All \X Names
    BY DEF Entries
  <2>5. \A e \in All \X Names :
          e \in Entries(j)' <=> IF e = <<d, n>> THEN j = v ELSE e \in Entries(j)
    BY <1>4, <2>1, <2>2, <2>3
  <2>6. <<d, n>> \in All \X Names
    OBVIOUS
  <2> QED BY <2>4, <2>5, <2>6
<1> QED BY <1>3, <1>4, <1>5

\* Exact counts are natural numbers.
LEMMA CountsNat ==
  Finite /\ Types /\ LinksExact /\ (\A i \in All : kind[i] = "none" => nlink[i] \in Nat)
    => TypeOK
<1> SUFFICES ASSUME Finite, Types, LinksExact, \A i \in All : kind[i] = "none" => nlink[i] \in Nat
             PROVE  TypeOK
  OBVIOUS
<1>1. ASSUME NEW i \in All PROVE nlink[i] \in Nat
  <2>1. Cardinality(Entries(i)) \in Nat
    BY EntriesFinite DEF Entries
  <2>2. Cardinality(SubDirs(i)) \in Nat
    BY NamesFinite DEF SubDirs
  <2>3. kind[i] \in {"none", "file", "dir"}
    BY DEF Types
  <2> QED BY <2>1, <2>2, <2>3 DEF LinksExact
<1> QED BY <1>1 DEF Types, TypeOK

\* What the four parts come to, after a step.
LEMMA TogetherInv ==
  ASSUME Finite, Types', TreeInv', OneName', LinksExact',
         \A i \in All : kind'[i] = "none" => nlink'[i] \in Nat
  PROVE  MyfsInv'
<1>1. TypeOK'
  <2>1. (Finite /\ Types /\ LinksExact /\ (\A i \in All : kind[i] = "none" => nlink[i] \in Nat)
           => TypeOK)'
    BY CountsNat, PTL
  <2> QED BY <2>1
<1> QED BY <1>1 DEF MyfsInv

\* A new inode has nothing in it and is in nothing.
LEMMA NewInode ==
  ASSUME MyfsInv, Apart, NEW i \in All, kind[i] = "none"
  PROVE  /\ \A x \in All, y \in Names : child[x][y] # i
         /\ \A y \in Names : child[i][y] = None
         /\ i # Root /\ Entries(i) = {}
<1>1. \A x \in All, y \in Names : child[x][y] # i
  BY Inode DEF MyfsInv, TreeInv
<1>2. \A y \in Names : child[i][y] = None
  BY DEF MyfsInv, TreeInv
<1> QED BY <1>1, <1>2, Inode DEF MyfsInv, TreeInv, Entries

\* What is made gets its name, and its directory a link when it is one too.
LEMMA MadeInv ==
  ASSUME Finite, Apart, MyfsInv, NEW d \in All, NEW n \in Names, NEW i \in Inodes,
         Create(d, n, i) \/ Mkdir(d, n, i)
  PROVE  MyfsInv'
<1>1. PICK k \in {"file", "dir"} :
        /\ Mknod(d, n, i, k)
        /\ k = "file" => nlink' = [nlink EXCEPT ![i] = 1]
        /\ k = "dir" => nlink' = [nlink EXCEPT ![i] = 2, ![d] = @ + 1]
  BY DEF Create, Mkdir, LinksOfNew
<1>2. /\ kind[d] = "dir" /\ Linked(d) /\ child[d][n] = None /\ kind[i] = "none"
      /\ kind' = [kind EXCEPT ![i] = k] /\ child' = Put(child, d, n, i) /\ opened' = opened
  BY <1>1 DEF Mknod, Dir
<1>3. TypeOK /\ i \in All /\ i # d /\ i # None
  BY <1>2, Inode DEF MyfsInv
<1>4. /\ \A x \in All, y \in Names : child[x][y] # i
      /\ \A y \in Names : child[i][y] = None
      /\ i # Root /\ Entries(i) = {}
  BY <1>2, <1>3, NewInode
<1>5. /\ child' \in [All -> [Names -> All \cup {None}]]
      /\ \A x \in All, y \in Names :
           child'[x][y] = IF x = d /\ y = n THEN i ELSE child[x][y]
      /\ \A j \in All : Entries(j)' = IF j = i THEN Entries(j) \cup {<<d, n>>}
                                               ELSE Entries(j) \ {<<d, n>>}
  BY <1>2, <1>3, PutChild
<1>6. \A j \in All : kind'[j] = IF j = i THEN k ELSE kind[j]
  BY <1>2, <1>3 DEF TypeOK
<1>7. Entries(i)' = {<<d, n>>} /\ \A j \in All : j # i => Entries(j)' = Entries(j)
  <2>1. \A j \in All : j # i => <<d, n>> \notin Entries(j)
    BY <1>2, Inode DEF Entries
  <2>2. Entries(i)' = {} \cup {<<d, n>>}
    BY <1>3, <1>4, <1>5
  <2>3. \A j \in All : j # i => Entries(j)' = Entries(j) \ {<<d, n>>}
    BY <1>5
  <2>4. ASSUME NEW j \in All, j # i PROVE Entries(j)' = Entries(j)
    <3>1. Entries(j)' = Entries(j) \ {<<d, n>>} /\ <<d, n>> \notin Entries(j)
      BY <2>1, <2>3, <2>4
    <3> QED BY <3>1
  <2> QED BY <2>2, <2>4
<1>8. \A j \in All : Linked(j)' <=> Linked(j) \/ j = i
  BY <1>7 DEF Linked
<1>9. Types'
  BY <1>1, <1>2, <1>3, <1>5 DEF TypeOK, Types
<1>10. TreeInv'
  <2>1. kind'[Root] = "dir"
    BY <1>4, <1>6, Inode DEF MyfsInv, TreeInv
  <2>2. ASSUME NEW x \in All, NEW y \in Names, child'[x][y] # None
        PROVE  /\ kind'[x] = "dir" /\ Linked(x)'
               /\ child'[x][y] \in Inodes /\ child'[x][y] # x
               /\ kind'[child'[x][y]] \in {"file", "dir"}
    <3>1. CASE x = d /\ y = n
      BY <3>1, <1>2, <1>3, <1>5, <1>6, <1>8
    <3>2. CASE ~(x = d /\ y = n)
      <4>1. child'[x][y] = child[x][y]
        BY <3>2, <1>5
      <4>2. /\ kind[x] = "dir" /\ Linked(x) /\ child[x][y] \in Inodes /\ child[x][y] # x
            /\ kind[child[x][y]] \in {"file", "dir"}
        BY <2>2, <4>1 DEF MyfsInv, TreeInv
      <4> QED BY <4>1, <4>2, <1>2, <1>6, <1>8, Inode
    <3> QED BY <3>1, <3>2
  <2> QED BY <2>1, <2>2 DEF TreeInv
<1>11. OneName'
  BY <1>6, <1>7 DEF MyfsInv, OneName
<1>12. /\ \A p \in All : p # d /\ p # i => SubDirs(p)' = SubDirs(p)
       /\ SubDirs(i)' = {}
       /\ k = "file" => SubDirs(d)' = SubDirs(d)
       /\ k = "dir" => SubDirs(d)' = SubDirs(d) \cup {n} /\ n \notin SubDirs(d)
  <2>1. \A p \in All, y \in Names : child[p][y] # None => child[p][y] \in All /\ child[p][y] # i
    BY <1>4, Inode DEF MyfsInv, TreeInv
  <2>2. \A p \in All, y \in Names : p # d \/ y # n =>
          (y \in SubDirs(p)' <=> y \in SubDirs(p))
    BY <2>1, <1>5, <1>6 DEF SubDirs
  <2>3. n \in SubDirs(d)' <=> k = "dir"
    BY <1>3, <1>5, <1>6 DEF SubDirs
  <2>4. n \notin SubDirs(d) /\ SubDirs(i) = {}
    BY <1>2, <1>4 DEF SubDirs
  <2>5. \A p \in All : SubDirs(p) \subseteq Names /\ SubDirs(p)' \subseteq Names
    BY DEF SubDirs
  <2> QED BY <2>2, <2>3, <2>4, <2>5, <1>3
<1>13. LinksExact'
  <2> SUFFICES ASSUME NEW j \in All
               PROVE  /\ kind'[j] = "file" => nlink'[j] = Cardinality(Entries(j)')
                      /\ kind'[j] = "dir" =>
                           nlink'[j] = IF Linked(j)' THEN 2 + Cardinality(SubDirs(j)') ELSE 0
    BY DEF LinksExact
  <2>1. /\ kind[j] = "file" => nlink[j] = Cardinality(Entries(j))
        /\ kind[j] = "dir" => nlink[j] = IF Linked(j) THEN 2 + Cardinality(SubDirs(j)) ELSE 0
    BY DEF MyfsInv, LinksExact
  <2>2. nlink \in [All -> Nat]
    BY <1>3 DEF TypeOK
  <2>3. CASE j = i
    <3>1. Cardinality({<<d, n>>}) = 1 /\ Cardinality({}) = 0
      BY FS_Singleton, FS_EmptySet
    <3>2. (k = "file" => nlink'[i] = 1) /\ (k = "dir" => nlink'[i] = 2)
      BY <1>1, <1>3, <2>2
    <3> QED BY <2>3, <3>1, <3>2, <1>3, <1>6, <1>7, <1>8, <1>12
  <2>4. CASE j = d
    <3>1. k = "file" => nlink'[d] = nlink[d]
      BY <1>1, <1>3, <2>2
    <3>2. k = "dir" => nlink'[d] = nlink[d] + 1
      BY <1>1, <1>3, <2>2
    <3>3. IsFiniteSet(SubDirs(d))
      BY NamesFinite DEF SubDirs
    <3>4. k = "dir" => Cardinality(SubDirs(d)') = Cardinality(SubDirs(d)) + 1
      BY <3>3, <1>12, CountOne
    <3>5. Cardinality(SubDirs(d)) \in Nat
      BY <3>3, CountOne
    <3> QED BY <2>1, <2>4, <3>1, <3>2, <3>4, <3>5, <1>2, <1>3, <1>6, <1>8, <1>12
  <2>5. CASE j # i /\ j # d
    <3>1. nlink'[j] = nlink[j]
      BY <1>1, <2>2, <2>5
    <3> QED BY <2>1, <2>5, <3>1, <1>6, <1>7, <1>8, <1>12
  <2> QED BY <2>3, <2>4, <2>5
<1>14. \A j \in All : kind'[j] = "none" => nlink'[j] \in Nat
  <2>1. nlink \in [All -> Nat]
    BY <1>3 DEF TypeOK
  <2>2. \A j \in All : nlink'[j] \in Nat
    BY <1>1, <2>1
  <2> QED BY <2>2
<1> QED BY <1>9, <1>10, <1>11, <1>13, <1>14, TogetherInv

\* What changes a name of a file, and nothing else of the tree: the part of
\* link, unlink and rename that is about directories.
LEMMA FileMoves ==
  ASSUME MyfsInv, Apart, UNCHANGED kind,
         child' \in [All -> [Names -> All \cup {None}]],
         \A j \in All : kind[j] = "dir" => Entries(j)' = Entries(j),
         \A x \in All, y \in Names : child'[x][y] # child[x][y] =>
           /\ child[x][y] # None => kind[child[x][y]] = "file"
           /\ child'[x][y] # None => /\ kind[x] = "dir" /\ Linked(x)
                                     /\ child'[x][y] \in Inodes /\ kind[child'[x][y]] = "file"
  PROVE  /\ TreeInv' /\ OneName'
         /\ \A j \in All : SubDirs(j)' = SubDirs(j)
         /\ \A j \in All : kind[j] = "dir" => (Linked(j)' <=> Linked(j))
<1>1. \A j \in All : kind[j] = "dir" => (Linked(j)' <=> Linked(j))
  BY DEF Linked
<1>2. OneName'
  BY DEF MyfsInv, OneName
<1>3. TreeInv'
  <2>1. kind'[Root] = "dir"
    BY DEF MyfsInv, TreeInv
  <2>2. ASSUME NEW x \in All, NEW y \in Names, child'[x][y] # None
        PROVE  /\ kind'[x] = "dir" /\ Linked(x)'
               /\ child'[x][y] \in Inodes /\ child'[x][y] # x
               /\ kind'[child'[x][y]] \in {"file", "dir"}
    <3>1. CASE child'[x][y] = child[x][y]
      <4>1. /\ kind[x] = "dir" /\ Linked(x) /\ child[x][y] \in Inodes /\ child[x][y] # x
            /\ kind[child[x][y]] \in {"file", "dir"}
        BY <2>2, <3>1 DEF MyfsInv, TreeInv
      <4> QED BY <3>1, <4>1, <1>1
    <3>2. CASE child'[x][y] # child[x][y]
      <4>1. /\ kind[x] = "dir" /\ Linked(x)
            /\ child'[x][y] \in Inodes /\ kind[child'[x][y]] = "file"
        BY <2>2, <3>2
      <4> QED BY <4>1, <1>1
    <3> QED BY <3>1, <3>2
  <2> QED BY <2>1, <2>2 DEF TreeInv
<1>4. ASSUME NEW j \in All PROVE SubDirs(j)' = SubDirs(j)
  <2>1. \A y \in Names : y \in SubDirs(j)' <=> y \in SubDirs(j)
    BY DEF SubDirs
  <2>2. SubDirs(j) \subseteq Names /\ SubDirs(j)' \subseteq Names
    BY DEF SubDirs
  <2> QED BY <2>1, <2>2
<1> QED BY <1>1, <1>2, <1>3, <1>4

\* A file's links and its names change together.
LEMMA LinkInv ==
  ASSUME Finite, Apart, MyfsInv, NEW d \in All, NEW n \in Names, NEW i \in Inodes,
         SimpleLink(d, n, i)
  PROVE  MyfsInv'
<1>1. /\ kind[d] = "dir" /\ Linked(d) /\ child[d][n] = None /\ kind[i] = "file"
      /\ child' = Put(child, d, n, i) /\ nlink' = [nlink EXCEPT ![i] = @ + 1]
      /\ kind' = kind /\ opened' = opened
  BY DEF SimpleLink, Dir
<1>2. TypeOK /\ i \in All /\ i # None
  BY Inode DEF MyfsInv
<1>3. /\ child' \in [All -> [Names -> All \cup {None}]]
      /\ \A x \in All, y \in Names :
           child'[x][y] = IF x = d /\ y = n THEN i ELSE child[x][y]
      /\ \A j \in All : Entries(j)' = IF j = i THEN Entries(j) \cup {<<d, n>>}
                                               ELSE Entries(j) \ {<<d, n>>}
  BY <1>1, <1>2, PutChild
<1>4. ASSUME NEW j \in All
      PROVE  /\ <<d, n>> \notin Entries(j)
             /\ j # i => Entries(j)' = Entries(j)
  <2>1. <<d, n>> \notin Entries(j)
    BY <1>1, Inode DEF Entries
  <2>2. j # i => Entries(j)' = Entries(j) \ {<<d, n>>}
    BY <1>3
  <2> QED BY <2>1, <2>2
<1>5. /\ TreeInv' /\ OneName'
      /\ \A j \in All : SubDirs(j)' = SubDirs(j)
      /\ \A j \in All : kind[j] = "dir" => (Linked(j)' <=> Linked(j))
  <2>1. \A j \in All : kind[j] = "dir" => Entries(j)' = Entries(j)
    BY <1>1, <1>4
  <2>2. \A x \in All, y \in Names : child'[x][y] # child[x][y] =>
          /\ child[x][y] # None => kind[child[x][y]] = "file"
          /\ child'[x][y] # None => /\ kind[x] = "dir" /\ Linked(x)
                                    /\ child'[x][y] \in Inodes /\ kind[child'[x][y]] = "file"
    BY <1>1, <1>3
  <2> QED BY <2>1, <2>2, <1>1, <1>3, FileMoves
<1>6. nlink \in [All -> Nat] /\ \A j \in All : nlink'[j] = IF j = i THEN nlink[j] + 1 ELSE nlink[j]
  BY <1>1, <1>2 DEF TypeOK
<1>7. Types'
  BY <1>1, <1>2, <1>3 DEF TypeOK, Types
<1>8. LinksExact'
  <2> SUFFICES ASSUME NEW j \in All
               PROVE  /\ kind[j] = "file" => nlink'[j] = Cardinality(Entries(j)')
                      /\ kind[j] = "dir" =>
                           nlink'[j] = IF Linked(j)' THEN 2 + Cardinality(SubDirs(j)') ELSE 0
    BY <1>1 DEF LinksExact
  <2>1. /\ kind[j] = "file" => nlink[j] = Cardinality(Entries(j))
        /\ kind[j] = "dir" => nlink[j] = IF Linked(j) THEN 2 + Cardinality(SubDirs(j)) ELSE 0
    BY DEF MyfsInv, LinksExact
  <2>2. CASE j = i
    <3>1. IsFiniteSet(Entries(i))
      BY EntriesFinite DEF Entries
    <3>2. Cardinality(Entries(i)') = Cardinality(Entries(i)) + 1
      BY <3>1, <1>2, <1>3, <1>4, CountOne
    <3> QED BY <2>1, <2>2, <3>2, <1>1, <1>6
  <2>3. CASE j # i
    BY <2>1, <2>3, <1>4, <1>5, <1>6
  <2> QED BY <2>2, <2>3
<1>9. \A j \in All : kind'[j] = "none" => nlink'[j] \in Nat
  BY <1>6
<1> QED BY <1>5, <1>7, <1>8, <1>9, TogetherInv

\* A name goes, and a link of its file.
LEMMA UnlinkInv ==
  ASSUME Finite, Apart, MyfsInv, NEW d \in All, NEW n \in Names, SimpleUnlink(d, n)
  PROVE  MyfsInv'
<1>0. PICK i : i = child[d][n]
  OBVIOUS
<1>1. /\ i # None /\ kind[i] = "file"
      /\ child' = Put(child, d, n, None) /\ nlink' = [nlink EXCEPT ![i] = @ - 1]
      /\ kind' = kind /\ opened' = opened
  BY <1>0 DEF SimpleUnlink
<1>2. TypeOK /\ i \in All /\ None \notin All
  BY <1>0, <1>1, Inode DEF MyfsInv, TypeOK
<1>3. \A e \in All \X Names : e[1] \in All /\ e[2] \in Names
                              /\ (e = <<d, n>> <=> e[1] = d /\ e[2] = n)
  OBVIOUS
<1>4. \A j \in All : <<d, n>> \in Entries(j) <=> j = i
  BY <1>0, <1>2, <1>3 DEF Entries
<1>5. /\ child' \in [All -> [Names -> All \cup {None}]]
      /\ \A x \in All, y \in Names :
           child'[x][y] = IF x = d /\ y = n THEN None ELSE child[x][y]
      /\ \A j \in All : Entries(j)' = IF j = None THEN Entries(j) \cup {<<d, n>>}
                                                  ELSE Entries(j) \ {<<d, n>>}
  BY <1>1, <1>2, PutChild
<1>6. ASSUME NEW j \in All
      PROVE  Entries(j)' = Entries(j) \ {<<d, n>>} /\ (j # i => Entries(j)' = Entries(j))
  <2>1. Entries(j)' = Entries(j) \ {<<d, n>>}
    BY <1>2, <1>5
  <2>2. j # i => <<d, n>> \notin Entries(j)
    BY <1>4
  <2> QED BY <2>1, <2>2
<1>7. /\ TreeInv' /\ OneName'
      /\ \A j \in All : SubDirs(j)' = SubDirs(j)
      /\ \A j \in All : kind[j] = "dir" => (Linked(j)' <=> Linked(j))
  <2>1. \A j \in All : kind[j] = "dir" => Entries(j)' = Entries(j)
    BY <1>1, <1>6
  <2>2. \A x \in All, y \in Names : child'[x][y] # child[x][y] =>
          /\ child[x][y] # None => kind[child[x][y]] = "file"
          /\ child'[x][y] # None => /\ kind[x] = "dir" /\ Linked(x)
                                    /\ child'[x][y] \in Inodes /\ kind[child'[x][y]] = "file"
    BY <1>0, <1>1, <1>5
  <2> QED BY <2>1, <2>2, <1>1, <1>5, FileMoves
<1>8. nlink \in [All -> Nat] /\ \A j \in All : nlink'[j] = IF j = i THEN nlink[j] - 1 ELSE nlink[j]
  BY <1>1, <1>2 DEF TypeOK
<1>9. Types'
  BY <1>1, <1>2, <1>5 DEF TypeOK, Types
<1>10. LinksExact'
  <2> SUFFICES ASSUME NEW j \in All
               PROVE  /\ kind[j] = "file" => nlink'[j] = Cardinality(Entries(j)')
                      /\ kind[j] = "dir" =>
                           nlink'[j] = IF Linked(j)' THEN 2 + Cardinality(SubDirs(j)') ELSE 0
    BY <1>1 DEF LinksExact
  <2>1. /\ kind[j] = "file" => nlink[j] = Cardinality(Entries(j))
        /\ kind[j] = "dir" => nlink[j] = IF Linked(j) THEN 2 + Cardinality(SubDirs(j)) ELSE 0
    BY DEF MyfsInv, LinksExact
  <2>2. CASE j = i
    <3>1. IsFiniteSet(Entries(i))
      BY EntriesFinite DEF Entries
    <3>2. Cardinality(Entries(i)') = Cardinality(Entries(i)) - 1
      BY <3>1, <1>2, <1>4, <1>6, CountOne
    <3> QED BY <2>1, <2>2, <3>2, <1>1, <1>8
  <2>3. CASE j # i
    BY <2>1, <2>3, <1>6, <1>7, <1>8
  <2> QED BY <2>2, <2>3
<1>11. \A j \in All : kind'[j] = "none" => nlink'[j] \in Nat
  BY <1>1, <1>8
<1> QED BY <1>7, <1>9, <1>10, <1>11, TogetherInv

\* A directory that has a name has one, and is no other name's; once it loses
\* that, it is removed.
LEMMA NameOfDir ==
  ASSUME MyfsInv, Apart, NEW d \in All, NEW n \in Names, NEW i,
         i = child[d][n], i # None, kind[i] = "dir"
  PROVE  /\ i \in All /\ i # Root /\ i # d /\ i # None /\ Linked(i) /\ Entries(i) = {<<d, n>>}
         /\ kind[d] = "dir" /\ Linked(d) /\ n \in SubDirs(d)
         /\ \A x \in All, y \in Names : child[x][y] = i <=> x = d /\ y = n
<1>1. /\ i \in All /\ i # Root /\ i # d /\ kind[d] = "dir" /\ Linked(d)
  BY Inode DEF MyfsInv, TreeInv
<1>2. \A x \in All, y \in Names : child[x][y] = i <=> <<x, y>> \in Entries(i)
  BY DEF Entries
<1>3. <<d, n>> \in Entries(i)
  BY <1>2
<1>4. \A e \in Entries(i) : e = <<d, n>>
  BY <1>1, <1>3 DEF MyfsInv, OneName
<1>5. Entries(i) = {<<d, n>>}
  BY <1>3, <1>4
<1>6. \A x \in All, y \in Names : child[x][y] = i <=> x = d /\ y = n
  BY <1>2, <1>5
<1>7. Linked(i)
  BY <1>3 DEF Linked
<1>8. n \in SubDirs(d)
  BY DEF SubDirs
<1> QED BY <1>1, <1>5, <1>6, <1>7, <1>8

\* A directory goes, the link that its "." was to it, and that its ".." was to
\* the other.
LEMMA RmdirInv ==
  ASSUME Finite, Apart, MyfsInv, NEW d \in All, NEW n \in Names, SimpleRmdir(d, n)
  PROVE  MyfsInv'
<1>0. PICK i : i = child[d][n]
  OBVIOUS
<1>1. /\ i # None /\ kind[i] = "dir" /\ IsEmpty(i)
      /\ nlink' = [nlink EXCEPT ![i] = @ - 2, ![d] = @ - 1]
      /\ child' = Put(child, d, n, None) /\ kind' = kind /\ opened' = opened
  BY <1>0 DEF SimpleRmdir
<1>2. TypeOK /\ None \notin All
  BY Inode DEF MyfsInv
<1>3. /\ i \in All /\ i # Root /\ i # d /\ i # None /\ Linked(i) /\ Entries(i) = {<<d, n>>}
      /\ kind[d] = "dir" /\ Linked(d) /\ n \in SubDirs(d)
      /\ \A x \in All, y \in Names : child[x][y] = i <=> x = d /\ y = n
  BY <1>0, <1>1, NameOfDir
<1>4. /\ child' \in [All -> [Names -> All \cup {None}]]
      /\ \A x \in All, y \in Names :
           child'[x][y] = IF x = d /\ y = n THEN None ELSE child[x][y]
      /\ \A j \in All : Entries(j)' = IF j = None THEN Entries(j) \cup {<<d, n>>}
                                                  ELSE Entries(j) \ {<<d, n>>}
  BY <1>1, <1>2, PutChild
<1>5. Entries(i)' = {} /\ \A j \in All : j # i => Entries(j)' = Entries(j)
  <2>1. ASSUME NEW j \in All PROVE Entries(j)' = Entries(j) \ {<<d, n>>}
    BY <1>2, <1>4
  <2>2. ASSUME NEW j \in All, j # i PROVE <<d, n>> \notin Entries(j)
    BY <2>2, <1>0 DEF Entries
  <2>3. Entries(i)' = {<<d, n>>} \ {<<d, n>>}
    BY <2>1, <1>3
  <2>4. ASSUME NEW j \in All, j # i PROVE Entries(j)' = Entries(j)
    BY <2>1, <2>2, <2>4
  <2> QED BY <2>3, <2>4
<1>6. ~Linked(i)' /\ \A j \in All : j # i => (Linked(j)' <=> Linked(j))
  BY <1>3, <1>5 DEF Linked
<1>7. TreeInv'
  <2>1. kind'[Root] = "dir"
    BY <1>1 DEF MyfsInv, TreeInv
  <2>2. ASSUME NEW x \in All, NEW y \in Names, child'[x][y] # None
        PROVE  /\ kind'[x] = "dir" /\ Linked(x)'
               /\ child'[x][y] \in Inodes /\ child'[x][y] # x
               /\ kind'[child'[x][y]] \in {"file", "dir"}
    <3>1. child'[x][y] = child[x][y]
      BY <2>2, <1>4
    <3>2. /\ kind[x] = "dir" /\ Linked(x) /\ child[x][y] \in Inodes /\ child[x][y] # x
          /\ kind[child[x][y]] \in {"file", "dir"}
      BY <2>2, <3>1 DEF MyfsInv, TreeInv
    <3>3. x # i
      BY <2>2, <3>1, <1>1 DEF IsEmpty
    <3> QED BY <3>1, <3>2, <3>3, <1>1, <1>6
  <2> QED BY <2>1, <2>2 DEF TreeInv
<1>8. OneName'
  BY <1>1, <1>5 DEF MyfsInv, OneName
<1>9. SubDirs(d)' = SubDirs(d) \ {n} /\ \A j \in All : j # d => SubDirs(j)' = SubDirs(j)
  <2>1. \A x \in All, y \in Names : y \in SubDirs(x)' <=> y \in SubDirs(x) /\ ~(x = d /\ y = n)
    BY <1>1, <1>4 DEF SubDirs
  <2>2. \A x \in All : SubDirs(x) \subseteq Names /\ SubDirs(x)' \subseteq Names
    BY DEF SubDirs
  <2> QED BY <2>1, <2>2
<1>10. nlink \in [All -> Nat]
       /\ \A j \in All : nlink'[j] = IF j = i THEN nlink[i] - 2
                                     ELSE IF j = d THEN nlink[d] - 1 ELSE nlink[j]
  BY <1>1, <1>2, <1>3 DEF TypeOK
<1>11. Types'
  BY <1>1, <1>2, <1>3, <1>4 DEF TypeOK, Types
<1>12. LinksExact'
  <2> SUFFICES ASSUME NEW j \in All
               PROVE  /\ kind[j] = "file" => nlink'[j] = Cardinality(Entries(j)')
                      /\ kind[j] = "dir" =>
                           nlink'[j] = IF Linked(j)' THEN 2 + Cardinality(SubDirs(j)') ELSE 0
    BY <1>1 DEF LinksExact
  <2>1. /\ kind[j] = "file" => nlink[j] = Cardinality(Entries(j))
        /\ kind[j] = "dir" => nlink[j] = IF Linked(j) THEN 2 + Cardinality(SubDirs(j)) ELSE 0
    BY DEF MyfsInv, LinksExact
  <2>2. CASE j = i
    <3>1. SubDirs(i) = {}
      BY <1>1 DEF SubDirs, IsEmpty
    <3>2. Cardinality({}) = 0
      BY FS_EmptySet
    <3> QED BY <2>1, <2>2, <3>1, <3>2, <1>1, <1>3, <1>6, <1>10
  <2>3. CASE j = d
    <3>1. IsFiniteSet(SubDirs(d))
      BY NamesFinite DEF SubDirs
    <3>2. Cardinality(SubDirs(d)') = Cardinality(SubDirs(d)) - 1 /\ Cardinality(SubDirs(d)) \in Nat
      BY <3>1, <1>3, <1>9, CountOne
    <3> QED BY <2>1, <2>3, <3>2, <1>3, <1>6, <1>10
  <2>4. CASE j # i /\ j # d
    BY <2>1, <2>4, <1>5, <1>6, <1>9, <1>10
  <2> QED BY <2>2, <2>3, <2>4
<1>13. \A j \in All : kind'[j] = "none" => nlink'[j] \in Nat
  BY <1>1, <1>3, <1>10
<1> QED BY <1>7, <1>8, <1>11, <1>12, <1>13, TogetherInv

\* Opening, closing: the tree stays.
LEMMA OpenInv ==
  ASSUME MyfsInv, NEW i \in Inodes, Open(i) \/ Close(i)
  PROVE  MyfsInv'
<1>1. UNCHANGED <<kind, nlink, child>> /\ opened' \subseteq Inodes
  BY DEF Open, Close, MyfsInv, TypeOK
<1>2. \A j \in All : Entries(j)' = Entries(j) /\ SubDirs(j)' = SubDirs(j)
                     /\ (Linked(j)' <=> Linked(j))
  BY <1>1 DEF Entries, SubDirs, Linked
<1>3. TypeOK'
  BY <1>1 DEF MyfsInv, TypeOK
<1>4. TreeInv' /\ OneName' /\ LinksExact'
  BY <1>1, <1>2 DEF MyfsInv, TreeInv, OneName, LinksExact
<1> QED BY <1>3, <1>4 DEF MyfsInv

\* An inode that goes is in no directory, and nothing is in it.
LEMMA EvictInv ==
  ASSUME Finite, Apart, MyfsInv, NEW i \in Inodes, Evict(i)
  PROVE  MyfsInv'
<1>1. /\ kind[i] # "none" /\ ~Linked(i) /\ kind' = [kind EXCEPT ![i] = "none"]
      /\ nlink' = [nlink EXCEPT ![i] = 0] /\ UNCHANGED <<child, opened>>
  BY DEF Evict
<1>2. TypeOK /\ i \in All /\ i # Root
  BY Inode DEF MyfsInv
<1>3. \A j \in All : /\ kind'[j] = IF j = i THEN "none" ELSE kind[j]
                     /\ nlink'[j] = IF j = i THEN 0 ELSE nlink[j]
                     /\ nlink[j] \in Nat
  BY <1>1, <1>2 DEF TypeOK
<1>4. \A x \in All, y \in Names : child[x][y] # i
  <2>1. \A x \in All, y \in Names : child[x][y] = i <=> <<x, y>> \in Entries(i)
    BY DEF Entries
  <2> QED BY <2>1, <1>1 DEF Linked
<1>5. \A x \in All, y \in Names : child[x][y] # None => x # i /\ child[x][y] \in All
  BY <1>1, Inode DEF MyfsInv, TreeInv
<1>6. \A j \in All : Entries(j)' = Entries(j) /\ (Linked(j)' <=> Linked(j))
  BY <1>1 DEF Entries, Linked
<1>7. \A j \in All : SubDirs(j)' = SubDirs(j)
  BY <1>1, <1>3, <1>4, <1>5 DEF SubDirs
<1>8. Types'
  BY <1>1, <1>2 DEF TypeOK, Types
<1>9. TreeInv'
  BY <1>1, <1>2, <1>3, <1>4, <1>5, <1>6, Inode DEF MyfsInv, TreeInv
<1>10. OneName'
  BY <1>3, <1>6 DEF MyfsInv, OneName
<1>11. LinksExact'
  BY <1>3, <1>6, <1>7 DEF MyfsInv, LinksExact
<1> QED BY <1>3, <1>8, <1>9, <1>10, <1>11, TogetherInv

\* The part of a rename that the child of every directory tells.
LEMMA RenameChild ==
  ASSUME TypeOK, Apart, NEW d \in All, NEW n \in Names, NEW e \in All, NEW m \in Names,
         NEW i \in All, NEW over, i = child[d][n], over = child[e][m], over # i,
         child' = Put(Put(child, d, n, None), e, m, i)
  PROVE  /\ child' \in [All -> [Names -> All \cup {None}]]
         /\ <<d, n>> # <<e, m>>
         /\ \A x \in All, y \in Names :
              child'[x][y] = IF x = e /\ y = m THEN i
                             ELSE IF x = d /\ y = n THEN None ELSE child[x][y]
         /\ Entries(i)' = (Entries(i) \ {<<d, n>>}) \cup {<<e, m>>}
         /\ <<d, n>> \in Entries(i) /\ <<e, m>> \notin Entries(i)
         /\ \A j \in All : j # i => Entries(j)' = Entries(j) \ {<<e, m>>}
         /\ \A j \in All : <<e, m>> \in Entries(j) <=> j = over
<1> DEFINE c == Put(child, d, n, None)
<1>1. child \in [All -> [Names -> All \cup {None}]] /\ None \notin All
  BY Inode DEF TypeOK
<1>2. /\ c \in [All -> [Names -> All \cup {None}]]
      /\ \A x \in All, y \in Names : c[x][y] = IF x = d /\ y = n THEN None ELSE child[x][y]
  <2>1. c = [child EXCEPT ![d] = [child[d] EXCEPT ![n] = None]]
    BY <1>1 DEF Put
  <2> HIDE DEF c
  <2> QED BY <1>1, <2>1
<1>3. child' = Put(c, e, m, i)
  OBVIOUS
<1> HIDE DEF c
<1>4. child' = [c EXCEPT ![e] = [c[e] EXCEPT ![m] = i]]
  BY <1>2, <1>3 DEF Put
<1>5. child' \in [All -> [Names -> All \cup {None}]]
  BY <1>2, <1>4
<1>6. \A x \in All, y \in Names :
        child'[x][y] = IF x = e /\ y = m THEN i
                       ELSE IF x = d /\ y = n THEN None ELSE child[x][y]
  BY <1>2, <1>4
<1>7. d # e \/ n # m
  OBVIOUS
<1>8. <<d, n>> # <<e, m>>
  BY <1>7
<1>9. \A x \in All, y \in Names, j \in All :
        /\ <<x, y>> \in Entries(j) <=> child[x][y] = j
        /\ <<x, y>> \in Entries(j)' <=> child'[x][y] = j
  BY DEF Entries
<1>10. \A j \in All : <<e, m>> \in Entries(j) <=> j = over
  BY <1>9
<1>11. <<d, n>> \in Entries(i) /\ <<e, m>> \notin Entries(i)
  BY <1>9
<1>12. \A j \in All : \A z \in Entries(j) \cup Entries(j)' :
          \E x \in All, y \in Names : z = <<x, y>>
  BY DEF Entries
<1>13. \A x \in All, y \in Names : (<<x, y>> = <<d, n>> <=> x = d /\ y = n)
                                   /\ (<<x, y>> = <<e, m>> <=> x = e /\ y = m)
  OBVIOUS
<1>14. Entries(i)' = (Entries(i) \ {<<d, n>>}) \cup {<<e, m>>}
  <2>1. \A x \in All, y \in Names :
          <<x, y>> \in Entries(i)' <=> (x = e /\ y = m) \/ (<<x, y>> \in Entries(i) /\ ~(x = d /\ y = n))
    BY <1>1, <1>6, <1>9
  <2> QED BY <2>1, <1>12, <1>13
<1>15. ASSUME NEW j \in All, j # i PROVE Entries(j)' = Entries(j) \ {<<e, m>>}
  <2>1. \A x \in All, y \in Names :
          <<x, y>> \in Entries(j)' <=> <<x, y>> \in Entries(j) /\ ~(x = e /\ y = m)
    BY <1>1, <1>6, <1>9, <1>15
  <2> QED BY <2>1, <1>12, <1>13
<1> QED BY <1>5, <1>6, <1>8, <1>10, <1>11, <1>14, <1>15

\* A file gets another name, and takes it from another file.
LEMMA RenameFileInv ==
  ASSUME Finite, Apart, MyfsInv, NEW d \in All, NEW n \in Names, NEW e \in All, NEW m \in Names,
         SimpleRename(d, n, e, m), kind[child[d][n]] # "dir"
  PROVE  MyfsInv'
<1>0. PICK i, over : i = child[d][n] /\ over = child[e][m]
  OBVIOUS
<1>1. /\ i # None /\ over # i /\ kind[e] = "dir" /\ Linked(e)
      /\ over # None => kind[over] = kind[i]
      /\ child' = Put(Put(child, d, n, None), e, m, i)
      /\ nlink' = IF over = None THEN nlink ELSE [nlink EXCEPT ![over] = @ - 1]
      /\ kind' = kind /\ opened' = opened /\ kind[i] # "dir"
  BY <1>0 DEF SimpleRename, RenameLinks, Dir
<1>2. TypeOK /\ None \notin All
  BY Inode DEF MyfsInv
<1>3. i \in All /\ i \in Inodes /\ kind[i] = "file" /\ over \in All \cup {None}
  BY <1>0, <1>1, Inode DEF MyfsInv, TreeInv, TypeOK
<1>4. /\ child' \in [All -> [Names -> All \cup {None}]]
      /\ <<d, n>> # <<e, m>>
      /\ \A x \in All, y \in Names :
           child'[x][y] = IF x = e /\ y = m THEN i
                          ELSE IF x = d /\ y = n THEN None ELSE child[x][y]
      /\ Entries(i)' = (Entries(i) \ {<<d, n>>}) \cup {<<e, m>>}
      /\ <<d, n>> \in Entries(i) /\ <<e, m>> \notin Entries(i)
      /\ \A j \in All : j # i => Entries(j)' = Entries(j) \ {<<e, m>>}
      /\ \A j \in All : <<e, m>> \in Entries(j) <=> j = over
  BY <1>0, <1>1, <1>2, <1>3, RenameChild
<1>5. ASSUME NEW j \in All, j # i, j # over PROVE Entries(j)' = Entries(j)
  <2>1. Entries(j)' = Entries(j) \ {<<e, m>>} /\ <<e, m>> \notin Entries(j)
    BY <1>4, <1>5
  <2> QED BY <2>1
<1>6. /\ TreeInv' /\ OneName'
      /\ \A j \in All : SubDirs(j)' = SubDirs(j)
      /\ \A j \in All : kind[j] = "dir" => (Linked(j)' <=> Linked(j))
  <2>1. \A j \in All : kind[j] = "dir" => Entries(j)' = Entries(j)
    BY <1>1, <1>2, <1>3, <1>5
  <2>2. \A x \in All, y \in Names : child'[x][y] # child[x][y] =>
          /\ child[x][y] # None => kind[child[x][y]] = "file"
          /\ child'[x][y] # None => /\ kind[x] = "dir" /\ Linked(x)
                                    /\ child'[x][y] \in Inodes /\ kind[child'[x][y]] = "file"
    BY <1>0, <1>1, <1>3, <1>4
  <2> QED BY <2>1, <2>2, <1>1, <1>4, FileMoves
<1>7. nlink \in [All -> Nat] /\ \A j \in All : nlink'[j] = IF j = over THEN nlink[j] - 1 ELSE nlink[j]
  BY <1>1, <1>2, <1>3 DEF TypeOK
<1>8. Types'
  <2>1. nlink' \in [All -> Int]
    BY <1>1, <1>3, <1>7
  <2> QED BY <2>1, <1>1, <1>2, <1>4 DEF TypeOK, Types
<1>9. LinksExact'
  <2> SUFFICES ASSUME NEW j \in All
               PROVE  /\ kind[j] = "file" => nlink'[j] = Cardinality(Entries(j)')
                      /\ kind[j] = "dir" =>
                           nlink'[j] = IF Linked(j)' THEN 2 + Cardinality(SubDirs(j)') ELSE 0
    BY <1>1 DEF LinksExact
  <2>1. /\ kind[j] = "file" => nlink[j] = Cardinality(Entries(j))
        /\ kind[j] = "dir" => nlink[j] = IF Linked(j) THEN 2 + Cardinality(SubDirs(j)) ELSE 0
    BY DEF MyfsInv, LinksExact
  <2>2. CASE j = i
    <3> DEFINE S == Entries(i)
    <3>1. IsFiniteSet(S) /\ IsFiniteSet(S \ {<<d, n>>}) /\ Cardinality(S) \in Nat
      BY EntriesFinite DEF Entries
    <3>2. Cardinality(S \ {<<d, n>>}) = Cardinality(S) - 1
      BY <3>1, <1>4, CountOne
    <3>3. Cardinality((S \ {<<d, n>>}) \cup {<<e, m>>}) = Cardinality(S \ {<<d, n>>}) + 1
      BY <3>1, <1>4, CountOne
    <3>4. Cardinality(Entries(i)') = Cardinality(S)
      BY <3>1, <3>2, <3>3, <1>4
    <3> QED BY <2>1, <2>2, <3>4, <1>1, <1>3, <1>7
  <2>3. CASE j = over
    <3>1. IsFiniteSet(Entries(j))
      BY EntriesFinite DEF Entries
    <3>2. Cardinality(Entries(j)') = Cardinality(Entries(j)) - 1
      <4>1. Entries(j)' = Entries(j) \ {<<e, m>>} /\ <<e, m>> \in Entries(j)
        BY <2>3, <1>1, <1>4
      <4> QED BY <3>1, <4>1, CountOne
    <3> QED BY <2>1, <2>3, <3>2, <1>1, <1>2, <1>3, <1>7
  <2>4. CASE j # i /\ j # over
    BY <2>1, <2>4, <1>5, <1>6, <1>7
  <2> QED BY <2>2, <2>3, <2>4
<1>10. \A j \in All : kind'[j] = "none" => nlink'[j] \in Nat
  BY <1>1, <1>2, <1>3, <1>7
<1> QED BY <1>6, <1>8, <1>9, <1>10, TogetherInv

\* A directory gets another name: the directory it leaves loses the link of its
\* "..", and the one it comes to gains it, but for that of an empty directory
\* that it replaces.
LEMMA RenameDirInv ==
  ASSUME Finite, Apart, MyfsInv, NEW d \in All, NEW n \in Names, NEW e \in All, NEW m \in Names,
         SimpleRename(d, n, e, m), kind[child[d][n]] = "dir"
  PROVE  MyfsInv'
<1>0. PICK i, over : i = child[d][n] /\ over = child[e][m]
  OBVIOUS
<1>1. /\ i # None /\ over # i /\ kind[e] = "dir" /\ Linked(e)
      /\ over # None => kind[over] = "dir" /\ IsEmpty(over)
      /\ child' = Put(Put(child, d, n, None), e, m, i)
      /\ kind' = kind /\ opened' = opened /\ kind[i] = "dir"
      /\ i \notin Above(e)
  BY <1>0 DEF SimpleRename, Dir
<1>2. TypeOK /\ None \notin All
  BY Inode DEF MyfsInv
<1>3. /\ i \in All /\ i # Root /\ i # d /\ Linked(i) /\ Entries(i) = {<<d, n>>}
      /\ kind[d] = "dir" /\ Linked(d) /\ n \in SubDirs(d)
      /\ \A x \in All, y \in Names : child[x][y] = i <=> x = d /\ y = n
  BY <1>0, <1>1, NameOfDir
<1>4. over # None =>
        /\ over \in All /\ over # Root /\ over # e /\ Linked(over) /\ Entries(over) = {<<e, m>>}
        /\ m \in SubDirs(e) /\ over # d
        /\ \A x \in All, y \in Names : child[x][y] = over <=> x = e /\ y = m
  <2>1. ASSUME over # None
        PROVE  /\ over \in All /\ over # Root /\ over # e /\ Linked(over) /\ Entries(over) = {<<e, m>>}
               /\ m \in SubDirs(e)
               /\ \A x \in All, y \in Names : child[x][y] = over <=> x = e /\ y = m
    BY <2>1, <1>0, <1>1, NameOfDir
  <2>2. over # None => over # d
    BY <1>0, <1>1 DEF IsEmpty
  <2> QED BY <2>1, <2>2
<1>5. /\ child' \in [All -> [Names -> All \cup {None}]]
      /\ <<d, n>> # <<e, m>>
      /\ \A x \in All, y \in Names :
           child'[x][y] = IF x = e /\ y = m THEN i
                          ELSE IF x = d /\ y = n THEN None ELSE child[x][y]
      /\ Entries(i)' = (Entries(i) \ {<<d, n>>}) \cup {<<e, m>>}
      /\ <<d, n>> \in Entries(i) /\ <<e, m>> \notin Entries(i)
      /\ \A j \in All : j # i => Entries(j)' = Entries(j) \ {<<e, m>>}
      /\ \A j \in All : <<e, m>> \in Entries(j) <=> j = over
  <2>1. i \in All /\ over # i /\ child' = Put(Put(child, d, n, None), e, m, i)
    BY <1>1, <1>3
  <2> QED BY <1>0, <1>2, <2>1, RenameChild
<1>6. i # e
  BY <1>1 DEF Above
<1>7. /\ Entries(i)' = {<<e, m>>}
      /\ over # None => Entries(over)' = {}
      /\ \A j \in All : j # i /\ j # over => Entries(j)' = Entries(j)
  <2>1. Entries(i)' = {<<e, m>>}
    BY <1>3, <1>5
  <2>2. over # None => Entries(over)' = {}
    BY <1>1, <1>4, <1>5
  <2>3. ASSUME NEW j \in All, j # i, j # over PROVE Entries(j)' = Entries(j)
    <3>1. Entries(j)' = Entries(j) \ {<<e, m>>} /\ <<e, m>> \notin Entries(j)
      BY <1>5, <2>3
    <3> QED BY <3>1
  <2> QED BY <2>1, <2>2, <2>3
<1>8. /\ over # None => ~Linked(over)'
      /\ \A j \in All : j # over => (Linked(j)' <=> Linked(j))
  BY <1>3, <1>4, <1>7 DEF Linked
<1>9. TreeInv'
  <2>1. kind'[Root] = "dir"
    BY <1>1 DEF MyfsInv, TreeInv
  <2>2. ASSUME NEW x \in All, NEW y \in Names, child'[x][y] # None
        PROVE  /\ kind'[x] = "dir" /\ Linked(x)'
               /\ child'[x][y] \in Inodes /\ child'[x][y] # x
               /\ kind'[child'[x][y]] \in {"file", "dir"}
    <3>1. CASE x = e /\ y = m
      <4>1. child'[x][y] = i /\ i \in Inodes
        BY <3>1, <1>3, <1>5 DEF All
      <4>2. over # e
        BY <1>2, <1>4
      <4> QED BY <3>1, <4>1, <4>2, <1>1, <1>6, <1>8
    <3>2. CASE ~(x = e /\ y = m)
      <4>1. child'[x][y] = child[x][y]
        BY <2>2, <3>2, <1>5
      <4>2. /\ kind[x] = "dir" /\ Linked(x) /\ child[x][y] \in Inodes /\ child[x][y] # x
            /\ kind[child[x][y]] \in {"file", "dir"}
        BY <2>2, <4>1 DEF MyfsInv, TreeInv
      <4>3. x # over
        BY <2>2, <4>1, <1>1, <1>2 DEF IsEmpty
      <4> QED BY <4>1, <4>2, <4>3, <1>1, <1>8
    <3> QED BY <3>1, <3>2
  <2> QED BY <2>1, <2>2 DEF TreeInv
<1>10. OneName'
  <2> SUFFICES ASSUME NEW j \in All, kind[j] = "dir", NEW x \in Entries(j)', NEW y \in Entries(j)'
               PROVE  x = y
    BY <1>1 DEF OneName
  <2>1. CASE j = i
    BY <2>1, <1>7
  <2>2. CASE j = over
    BY <2>2, <1>2, <1>7
  <2>3. CASE j # i /\ j # over
    BY <2>3, <1>7 DEF MyfsInv, OneName
  <2> QED BY <2>1, <2>2, <2>3
<1>11. /\ \A j \in All, y \in Names :
            y \in SubDirs(j)' <=> (j = e /\ y = m) \/ (y \in SubDirs(j) /\ ~(j = d /\ y = n))
       /\ \A j \in All : SubDirs(j) \subseteq Names /\ SubDirs(j)' \subseteq Names
  <2>1. ASSUME NEW j \in All, NEW y \in Names
        PROVE  y \in SubDirs(j)' <=> (j = e /\ y = m) \/ (y \in SubDirs(j) /\ ~(j = d /\ y = n))
    <3>1. CASE j = e /\ y = m
      BY <3>1, <1>1, <1>5 DEF SubDirs
    <3>2. CASE ~(j = e /\ y = m) /\ j = d /\ y = n
      BY <3>2, <1>5 DEF SubDirs
    <3>3. CASE ~(j = e /\ y = m) /\ ~(j = d /\ y = n)
      BY <3>3, <1>1, <1>5 DEF SubDirs
    <3> QED BY <3>1, <3>2, <3>3
  <2> QED BY <2>1 DEF SubDirs
<1>12. m \in SubDirs(e) <=> over # None
  BY <1>0, <1>1 DEF SubDirs
<1>13. \A j \in All : j # d /\ j # e => SubDirs(j)' = SubDirs(j)
  BY <1>11
<1>14. \A j \in All :
         /\ IsFiniteSet(SubDirs(j)) /\ Cardinality(SubDirs(j)) \in Nat
         /\ IsFiniteSet(SubDirs(j) \ {n}) /\ Cardinality(SubDirs(j) \ {n}) \in Nat
         /\ Cardinality(SubDirs(j)') \in Nat
  <2>1. ASSUME NEW j \in All
        PROVE  SubDirs(j) \subseteq Names /\ SubDirs(j)' \subseteq Names /\ SubDirs(j) \ {n} \subseteq Names
    BY DEF SubDirs
  <2> QED BY <2>1, NamesFinite
<1>15. Cardinality(SubDirs(d) \ {n}) = Cardinality(SubDirs(d)) - 1
  BY <1>3, <1>14, CountOne
<1>16. d # e => Cardinality(SubDirs(d)') = Cardinality(SubDirs(d)) - 1
  <2>1. d # e => SubDirs(d)' = SubDirs(d) \ {n}
    BY <1>11
  <2> QED BY <2>1, <1>15
<1>17. d # e => Cardinality(SubDirs(e)') = IF over = None THEN Cardinality(SubDirs(e)) + 1
                                           ELSE Cardinality(SubDirs(e))
  <2>1. d # e => SubDirs(e)' = SubDirs(e) \cup {m}
    BY <1>11
  <2>2. over = None => Cardinality(SubDirs(e) \cup {m}) = Cardinality(SubDirs(e)) + 1
    BY <1>12, <1>14, CountOne
  <2>3. over # None => SubDirs(e) \cup {m} = SubDirs(e)
    BY <1>12
  <2> QED BY <2>1, <2>2, <2>3
<1>18. d = e => Cardinality(SubDirs(d)') = IF over = None THEN Cardinality(SubDirs(d))
                                           ELSE Cardinality(SubDirs(d)) - 1
  <2> SUFFICES ASSUME d = e PROVE Cardinality(SubDirs(d)') = IF over = None THEN Cardinality(SubDirs(d))
                                           ELSE Cardinality(SubDirs(d)) - 1
    OBVIOUS
  <2>0. n # m
    BY <1>5
  <2>1. SubDirs(d)' = (SubDirs(d) \ {n}) \cup {m}
    BY <2>0, <1>11
  <2>2. over = None => Cardinality((SubDirs(d) \ {n}) \cup {m}) = Cardinality(SubDirs(d) \ {n}) + 1
    BY <1>12, <1>14, CountOne
  <2>3. over # None => (SubDirs(d) \ {n}) \cup {m} = SubDirs(d) \ {n}
    BY <2>0, <1>12
  <2>4. Cardinality(SubDirs(d) \ {n}) \in Nat /\ Cardinality(SubDirs(d)) \in Nat
    BY <1>14
  <2>5. CASE over = None
    BY <2>1, <2>2, <2>4, <2>5, <1>15
  <2>6. CASE over # None
    BY <2>1, <2>3, <2>6, <1>15
  <2> QED BY <2>5, <2>6
<1>19. /\ nlink \in [All -> Nat] /\ nlink' \in [All -> Int]
       /\ \A j \in All :
            nlink'[j] = IF j = over THEN nlink[j] - 2
                        ELSE IF over # None THEN IF j = d THEN nlink[j] - 1 ELSE nlink[j]
                        ELSE IF d = e THEN nlink[j]
                        ELSE IF j = d THEN nlink[j] - 1
                        ELSE IF j = e THEN nlink[j] + 1 ELSE nlink[j]
  <2>0. nlink \in [All -> Nat]
    BY <1>2 DEF TypeOK
  <2>1. nlink' = RenameLinks(d, e, i, over)
    BY <1>0 DEF SimpleRename
  <2>2. CASE over = None
    <3>1. nlink' = [[nlink EXCEPT ![d] = @ - 1] EXCEPT ![e] = @ + 1]
      BY <2>1, <2>2, <1>1 DEF RenameLinks
    <3> QED BY <2>0, <2>2, <3>1, <1>2
  <2>3. CASE over # None
    <3>1. nlink' = [[nlink EXCEPT ![over] = @ - 2] EXCEPT ![d] = @ - 1]
      BY <2>1, <2>3, <1>1 DEF RenameLinks
    <3> QED BY <2>0, <2>3, <3>1, <1>4
  <2> QED BY <2>0, <2>2, <2>3
<1>20. Types'
  BY <1>1, <1>2, <1>5, <1>19 DEF TypeOK, Types
<1>21. LinksExact'
  <2> SUFFICES ASSUME NEW j \in All
               PROVE  /\ kind[j] = "file" => nlink'[j] = Cardinality(Entries(j)')
                      /\ kind[j] = "dir" =>
                           nlink'[j] = IF Linked(j)' THEN 2 + Cardinality(SubDirs(j)') ELSE 0
    BY <1>1 DEF LinksExact
  <2>1. /\ kind[j] = "file" => nlink[j] = Cardinality(Entries(j))
        /\ kind[j] = "dir" => nlink[j] = IF Linked(j) THEN 2 + Cardinality(SubDirs(j)) ELSE 0
    BY DEF MyfsInv, LinksExact
  <2>2. CASE j = over
    <3>1. SubDirs(over) = {} /\ Cardinality({}) = 0
      BY <2>2, <1>1, <1>2, FS_EmptySet DEF SubDirs, IsEmpty
    <3> QED BY <2>1, <2>2, <3>1, <1>1, <1>2, <1>4, <1>8, <1>19
  <2>3. CASE j # over /\ j = d
    <3>1. Linked(d)' /\ nlink[d] = 2 + Cardinality(SubDirs(d))
      BY <2>1, <2>3, <1>3, <1>8
    <3>2. nlink'[d] = IF over # None THEN nlink[d] - 1 ELSE IF d = e THEN nlink[d] ELSE nlink[d] - 1
      BY <2>3, <1>19
    <3>3. Cardinality(SubDirs(d)) \in Nat /\ Cardinality(SubDirs(d)') \in Nat
      BY <1>14
    <3>4. nlink'[d] = 2 + Cardinality(SubDirs(d)')
      BY <3>1, <3>2, <3>3, <1>16, <1>18
    <3> QED BY <2>3, <3>1, <3>4, <1>3
  <2>4. CASE j # over /\ j # d /\ j = e
    <3>1. Linked(e)' /\ nlink[e] = 2 + Cardinality(SubDirs(e))
      BY <2>1, <2>4, <1>1, <1>8
    <3>2. nlink'[e] = IF over # None THEN nlink[e] ELSE nlink[e] + 1
      BY <2>4, <1>19
    <3>3. Cardinality(SubDirs(e)) \in Nat /\ Cardinality(SubDirs(e)') \in Nat
      BY <1>14
    <3>4. nlink'[e] = 2 + Cardinality(SubDirs(e)')
      BY <2>4, <3>1, <3>2, <3>3, <1>17
    <3> QED BY <2>4, <3>1, <3>4, <1>1
  <2>5. CASE j # over /\ j # d /\ j # e
    <3>1. nlink'[j] = nlink[j]
      BY <2>5, <1>19
    <3>2. kind[j] = "file" => Entries(j)' = Entries(j)
      BY <2>5, <1>1, <1>7
    <3> QED BY <2>1, <2>5, <3>1, <3>2, <1>8, <1>13
  <2> QED BY <2>2, <2>3, <2>4, <2>5
<1>22. \A j \in All : kind'[j] = "none" => nlink'[j] \in Nat
  <2> SUFFICES ASSUME NEW j \in All, kind[j] = "none" PROVE nlink'[j] = nlink[j]
    BY <1>1, <1>19
  <2>1. j # d /\ j # e /\ (over # None => j # over)
    BY <1>1, <1>3
  <2> QED BY <2>1, <1>2, <1>19
<1> QED BY <1>9, <1>10, <1>20, <1>21, <1>22, TogetherInv

\* Every step.
LEMMA StepInv ==
  ASSUME Finite, Apart
  PROVE  MyfsInv /\ [Next]_myfs_vars => MyfsInv'
<1> SUFFICES ASSUME MyfsInv, [Next]_myfs_vars PROVE MyfsInv'
  OBVIOUS
<1>1. ASSUME NEW d \in All, NEW n \in Names,
             \/ \E i \in Inodes : Create(d, n, i) \/ Mkdir(d, n, i) \/ SimpleLink(d, n, i)
             \/ SimpleUnlink(d, n) \/ SimpleRmdir(d, n)
             \/ \E e \in All, m \in Names : SimpleRename(d, n, e, m)
      PROVE  MyfsInv'
  BY <1>1, MadeInv, LinkInv, UnlinkInv, RmdirInv, RenameFileInv, RenameDirInv
<1>2. ASSUME NEW i \in Inodes, Open(i) \/ Close(i) \/ Evict(i) PROVE MyfsInv'
  BY <1>2, OpenInv, EvictInv
<1>3. CASE UNCHANGED myfs_vars
  <2>1. UNCHANGED <<kind, nlink, child, opened>>
    BY <1>3 DEF myfs_vars
  <2>2. \A j \in All : Entries(j)' = Entries(j) /\ SubDirs(j)' = SubDirs(j)
                       /\ (Linked(j)' <=> Linked(j))
    BY <2>1 DEF Entries, SubDirs, Linked
  <2> QED BY <2>1, <2>2 DEF MyfsInv, TypeOK, TreeInv, OneName, LinksExact
<1> QED BY <1>1, <1>2, <1>3 DEF Next

\* So whatever names are made, linked, moved and removed, the invariant holds.
LEMMA MyfsAlways ==
  ASSUME Finite, Apart
  PROVE  Init /\ [][Next]_myfs_vars => []MyfsInv
  BY InitInv, StepInv, PTL

\* Link counts are exact: an inode is let go of when its last name is gone and
\* never before (myfs.c:46 to 121, through the simple_ operations).
THEOREM LinksExactHolds ==
  ASSUME Finite, Apart
  PROVE  Init /\ [][Next]_myfs_vars => []LinksExact
<1>1. MyfsInv => LinksExact
  BY DEF MyfsInv
<1> QED BY <1>1, MyfsAlways, PTL
=============================================================================
