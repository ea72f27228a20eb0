-------------------------------- MODULE Myfs --------------------------------
(***************************************************************************)
(* The file system of src/filesystems/myfs, all of it in memory: its own   *)
(* mknod, create and mkdir beside the link, unlink, rmdir and rename that  *)
(* it takes from the kernel's library, and that count links with it.       *)
(*                                                                         *)
(* The VFS holds the locks of the directories it changes, and refuses what *)
(* the guards leave out: every operation is one step.                      *)
(***************************************************************************)
EXTENDS Integers, FiniteSets

CONSTANTS
  Root,         \* the inode of the root directory
  Inodes,       \* bound: the other inodes there may be
  Names,        \* bound: the names in a directory
  None          \* no inode

VARIABLES
  kind,         \* inode -> "none" while it does not exist, "file" or "dir"
  nlink,        \* inode -> i_nlink
  child,        \* directory -> name -> the inode it stands for, or None
  opened        \* the inodes some process has open

myfs_vars == <<kind, nlink, child, opened>>

All == Inodes \cup {Root}

Entries(i) == {e \in All \X Names : child[e[1]][e[2]] = i}

SubDirs(d) == {n \in Names : child[d][n] # None /\ kind[child[d][n]] = "dir"}

Linked(i) == i = Root \/ Entries(i) # {}

IsEmpty(d) == \A n \in Names : child[d][n] = None

\* A directory in which names can be made: one that has been removed cannot.
Dir(d) == kind[d] = "dir" /\ Linked(d)

Put(c, d, n, i) == [c EXCEPT ![d][n] = i]

\* The directories from which one comes to i: the least set with i that has
\* the directory of each of its members.
Closed(S) == \A d \in All : (\E n \in Names : child[d][n] \in S) => d \in S

Above(i) == {d \in All : \A S \in SUBSET All : i \in S /\ Closed(S) => d \in S}

-----------------------------------------------------------------------------
\* new_inode gives one link; myfs_get_inode adds one to a directory.
LinksOfNew(k) == IF k = "dir" THEN 2 ELSE 1

\* myfs_fill_super: the root.
Init ==
  /\ kind = [i \in All |-> IF i = Root THEN "dir" ELSE "none"]
  /\ nlink = [i \in All |-> IF i = Root THEN LinksOfNew("dir") ELSE 0]
  /\ child = [d \in All |-> [n \in Names |-> None]]
  /\ opened = {}

\* myfs_mknod; without a new inode it fails and nothing is changed.
Mknod(d, n, i, k) ==
  /\ Dir(d) /\ child[d][n] = None
  /\ kind[i] = "none"
  /\ kind' = [kind EXCEPT ![i] = k]
  /\ child' = Put(child, d, n, i)
  /\ UNCHANGED opened

Create(d, n, i) ==
  /\ Mknod(d, n, i, "file")
  /\ nlink' = [nlink EXCEPT ![i] = LinksOfNew("file")]

Mkdir_NoParent(d, n, i) ==      \* mutant: the parent's link is forgotten
  /\ Mknod(d, n, i, "dir")
  /\ nlink' = [nlink EXCEPT ![i] = LinksOfNew("dir")]

Mkdir(d, n, i) ==
  /\ Mknod(d, n, i, "dir")
  /\ nlink' = [nlink EXCEPT ![i] = LinksOfNew("dir"), ![d] = @ + 1]

-----------------------------------------------------------------------------
(* The kernel's library, on the counts that the above leaves.              *)

SimpleLink(d, n, i) ==
  /\ Dir(d) /\ child[d][n] = None
  /\ kind[i] = "file" /\ Linked(i)
  /\ child' = Put(child, d, n, i)
  /\ nlink' = [nlink EXCEPT ![i] = @ + 1]
  /\ UNCHANGED <<kind, opened>>

SimpleUnlink(d, n) ==
  /\ child[d][n] # None /\ kind[child[d][n]] = "file"
  /\ nlink' = [nlink EXCEPT ![child[d][n]] = @ - 1]
  /\ child' = Put(child, d, n, None)
  /\ UNCHANGED <<kind, opened>>

SimpleRmdir(d, n) ==
  /\ child[d][n] # None /\ kind[child[d][n]] = "dir" /\ IsEmpty(child[d][n])
  /\ nlink' = [nlink EXCEPT ![child[d][n]] = @ - 2, ![d] = @ - 1]
  /\ child' = Put(child, d, n, None)
  /\ UNCHANGED <<kind, opened>>

\* The links of the inode that the new name stood for and of both directories.
RenameLinks(d, e, i, over) ==
  LET replaced == IF over = None THEN nlink
                  ELSE [nlink EXCEPT ![over] = @ - (IF kind[i] = "dir" THEN 2 ELSE 1)]
      left     == IF kind[i] = "dir" THEN [replaced EXCEPT ![d] = @ - 1] ELSE replaced
  IN  IF kind[i] = "dir" /\ over = None THEN [left EXCEPT ![e] = @ + 1] ELSE left

SimpleRename(d, n, e, m) ==
  LET i == child[d][n]
      over == child[e][m]
  IN  /\ i # None /\ over # i /\ Dir(e)
      /\ over # None => kind[over] = kind[i] /\ (kind[i] = "dir" => IsEmpty(over))
      /\ i \notin Above(e) /\ over \notin Above(d)
      /\ child' = Put(Put(child, d, n, None), e, m, i)
      /\ nlink' = RenameLinks(d, e, i, over)
      /\ UNCHANGED <<kind, opened>>

Open(i) ==
  /\ kind[i] # "none" /\ Linked(i) /\ i \notin opened
  /\ opened' = opened \cup {i}
  /\ UNCHANGED <<kind, nlink, child>>

Close(i) ==
  /\ i \in opened
  /\ opened' = opened \ {i}
  /\ UNCHANGED <<kind, nlink, child>>

\* generic_delete_inode: an inode goes with the last reference to it.
Evict(i) ==
  /\ kind[i] # "none" /\ ~Linked(i) /\ i \notin opened
  /\ kind' = [kind EXCEPT ![i] = "none"]
  /\ nlink' = [nlink EXCEPT ![i] = 0]
  /\ UNCHANGED <<child, opened>>

-----------------------------------------------------------------------------
Next ==
  \/ \E d \in All, n \in Names :
       \/ \E i \in Inodes : Create(d, n, i) \/ Mkdir(d, n, i) \/ SimpleLink(d, n, i)
       \/ SimpleUnlink(d, n) \/ SimpleRmdir(d, n)
       \/ \E e \in All, m \in Names : SimpleRename(d, n, e, m)
  \/ \E i \in Inodes : Open(i) \/ Close(i) \/ Evict(i)

-----------------------------------------------------------------------------
TypeOK ==
  /\ kind \in [All -> {"none", "file", "dir"}] /\ nlink \in [All -> Nat]
  /\ child \in [All -> [Names -> All \cup {None}]]
  /\ opened \subseteq Inodes

\* A file has as many links as names, and a directory as sub-directories and
\* two more: its name, or being the root, and its own "."; one that has been
\* removed and is still open has none.  The links that myfs counts
\* (myfs.c:100 and 130) and those the kernel's library counts agree.
LinksExact ==
  \A i \in All :
    /\ kind[i] = "file" => nlink[i] = Cardinality(Entries(i))
    /\ kind[i] = "dir" => nlink[i] = IF Linked(i) THEN 2 + Cardinality(SubDirs(i)) ELSE 0
=============================================================================
