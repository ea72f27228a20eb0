---------------------------- MODULE MinfsProofs -----------------------------
(***************************************************************************)
(* Proofs about Minfs, for any names and any number of inodes and entries: *)
(* the directory behaves as MinfsStore says, has no name twice, and loses  *)
(* none in a listing, and every entry's inode has been filled.             *)
(***************************************************************************)
EXTENDS Minfs, WellFoundedInduction, TLAPS

Entry  == [ino : Inos, name : Names \cup {NoName}]
Blocks == [imap   : SUBSET Inos,
           inodes : [Inos -> {"set", "zero"}],
           dir    : [Slots -> Entry]]

TypeInv ==
  /\ state \in {"down", "up", "stuck"}
  /\ disk \in Blocks /\ buf \in Blocks
  /\ dcache \in [Names -> {"unknown", "negative", "positive"}]
  /\ imap \subseteq Inos /\ idirty \subseteq Inos
  /\ cpc \in {"idle", "link", "dirty"} /\ cino \in Inos
  /\ rpos \in -1..MINFS_NUM_ENTRIES
  /\ ioerr \in BOOLEAN /\ crashed \in BOOLEAN

\* What minfs_create holds on to between its steps: the name it makes has a
\* negative dentry, its inode is not inode 0, which marks a free entry.
CreateInv ==
  /\ 0 \in disk.imap /\ 0 \in buf.imap /\ (state # "down" => 0 \in imap)
  /\ cpc # "idle" => cname \in Names /\ dcache[cname] = "negative" /\ cino # 0
  /\ cpc = "dirty" => cname \in NamesOf(buf.dir)

\* What the buffer cache may differ in from the disk: a clean block in nothing,
\* the directory only in entries that are free on the disk.
CacheInv ==
  /\ state = "down" => buf = disk
  /\ "dir" \notin dirty => buf.dir = disk.dir
  /\ "inodes" \notin dirty => buf.inodes = disk.inodes
  /\ \A s \in Used(disk.dir) : buf.dir[s] = disk.dir[s]

\* A negative dentry is right, but for the name that is being linked.
NegativeInv ==
  ~ioerr => \A n \in Names :
    dcache[n] = "negative" /\ n \in NamesOf(buf.dir) => cpc = "dirty" /\ n = cname

FilledInv ==
  \A s \in Used(buf.dir) :
    LET ino == buf.dir[s].ino
    IN  \/ buf.inodes[ino] = "set"
        \/ state # "down" /\ (ino \in idirty \/ (cpc = "dirty" /\ ino = cino))
        \/ ino \in lost

\* A listing still has before it what it has neither shown nor passed over.
ListInv ==
  \A n \in missing : n \in refused \/ \E s \in Used(buf.dir) : rpos <= s /\ buf.dir[s].name = n

MinfsInv ==
  TypeInv /\ CreateInv /\ CacheInv /\ NegativeInv /\ NamesUnique /\ FilledInv /\ ListInv

-----------------------------------------------------------------------------
LEMMA MinOfIsLeast ==
  ASSUME NEW S \in SUBSET Nat, S # {}
  PROVE  MinOf(S) \in S /\ \A y \in S : MinOf(S) <= y
<1>1. PICK x \in S : \A y \in S : <<y, x>> \notin OpToRel(<, Nat)
  BY NatLessThanWellFounded, WFMin
<1>2. \A y \in S : ~(y < x)
  BY <1>1, Zenon DEF OpToRel
<1>3. \A y \in S : x <= y
  BY <1>2
<1> QED BY <1>3 DEF MinOf

LEMMA SlotsAreNats == Slots \subseteq Nat /\ 0 \in Slots
BY MinfsAssumption DEF Slots

\* The directory block once an entry is linked into its first free slot.
LEMMA LinkEntry ==
  ASSUME TypeInv, NEW e \in Entry, e.ino # 0, Slots \ Used(buf.dir) # {},
         buf' = [buf EXCEPT !.dir[MinOf(Slots \ Used(buf.dir))] = e]
  PROVE  \E s \in Slots \ Used(buf.dir) :
           /\ buf'.dir = [buf.dir EXCEPT ![s] = e]
           /\ buf' \in Blocks /\ buf'.imap = buf.imap /\ buf'.inodes = buf.inodes
           /\ Used(buf'.dir) = Used(buf.dir) \cup {s}
           /\ buf'.dir[s] = e
           /\ \A r \in Used(buf.dir) : buf'.dir[r] = buf.dir[r]
           /\ NamesOf(buf'.dir) = NamesOf(buf.dir) \cup {e.name}
<1> DEFINE free == Slots \ Used(buf.dir)
           s == MinOf(free)
<1>1. s \in free
  BY SlotsAreNats, MinOfIsLeast
<1> HIDE DEF s
<1>2. buf \in Blocks /\ buf' = [buf EXCEPT !.dir[s] = e]
  BY DEF TypeInv, s
<1>3. /\ buf'.dir = [buf.dir EXCEPT ![s] = e]
      /\ buf' \in Blocks /\ buf'.imap = buf.imap /\ buf'.inodes = buf.inodes
  <2>1. [buf.dir EXCEPT ![s] = e] \in [Slots -> Entry]
    BY <1>1, <1>2 DEF Blocks
  <2>2. buf' = [buf EXCEPT !.dir = [buf.dir EXCEPT ![s] = e]]
    BY <1>2 DEF Blocks
  <2> QED BY <1>2, <2>1, <2>2 DEF Blocks
<1>4. buf'.dir[s] = e /\ \A r \in Slots \ {s} : buf'.dir[r] = buf.dir[r]
  BY <1>1, <1>2, <1>3 DEF Blocks
<1>5. Used(buf'.dir) = Used(buf.dir) \cup {s}
  BY <1>1, <1>4 DEF Used
<1>6. \A r \in Used(buf.dir) : buf'.dir[r] = buf.dir[r]
  BY <1>1, <1>4 DEF Used
<1>7. NamesOf(buf'.dir) = NamesOf(buf.dir) \cup {e.name}
  <2>1. \A n \in NamesOf(buf'.dir) : n \in NamesOf(buf.dir) \/ n = e.name
    <3> TAKE n \in NamesOf(buf'.dir)
    <3>1. PICK r \in Used(buf'.dir) : n = buf'.dir[r].name
      BY DEF NamesOf
    <3>2. CASE r = s
      BY <1>4, <3>1, <3>2
    <3>3. CASE r \in Used(buf.dir)
      BY <1>6, <3>1, <3>3 DEF NamesOf
    <3> QED BY <1>5, <3>2, <3>3
  <2>2. \A n \in NamesOf(buf.dir) : n \in NamesOf(buf'.dir)
    BY <1>5, <1>6 DEF NamesOf
  <2>3. e.name \in NamesOf(buf'.dir)
    BY <1>4, <1>5 DEF NamesOf
  <2> QED BY <2>1, <2>2, <2>3
<1> QED BY <1>1, <1>3, <1>4, <1>5, <1>6, <1>7

\* minfs_write_inode changes the inode block and nothing else.
LEMMA WithInodesIs ==
  ASSUME TypeInv, NEW S \in SUBSET Inos
  PROVE  LET b == WithInodes(S)
         IN  /\ b \in Blocks /\ b.imap = buf.imap /\ b.dir = buf.dir
             /\ \A i \in Inos : b.inodes[i] = IF i \in S THEN "set" ELSE buf.inodes[i]
BY DEF WithInodes, TypeInv, Blocks

-----------------------------------------------------------------------------
LEMMA InitInv == Init => MinfsInv
<1> SUFFICES ASSUME Init PROVE MinfsInv
  OBVIOUS
<1>1. /\ Mkfs \in Blocks /\ Mkfs.imap = {0, 1}
      /\ Mkfs.dir = [s \in Slots |-> IF s = 0 THEN [ino |-> 1, name |-> FirstName] ELSE Empty]
      /\ \A i \in {0, 1} : Mkfs.inodes[i] = "set"
  BY MinfsAssumption DEF Mkfs, Blocks, Inos, Entry, Empty
<1>2. Used(Mkfs.dir) = {0} /\ Mkfs.dir[0].ino = 1
  BY <1>1, SlotsAreNats DEF Used, Empty
<1>3. TypeInv
  <2>1. -1 \in -1..MINFS_NUM_ENTRIES /\ 0 \in Inos
    BY MinfsAssumption DEF Inos
  <2> QED BY <1>1, <2>1 DEF Init, TypeInv, NoDentries
<1>4. CreateInv /\ CacheInv /\ NegativeInv
  BY <1>1 DEF Init, CreateInv, CacheInv, NegativeInv, NoDentries
<1>5. NamesUnique /\ FilledInv /\ ListInv
  BY <1>1, <1>2 DEF Init, NamesUnique, FilledInv, ListInv
<1> QED BY <1>3, <1>4, <1>5 DEF MinfsInv

-----------------------------------------------------------------------------
\* What a crash leaves of the invariant, and what an unmount has to add to it.
LEMMA DownInv ==
  ASSUME MinfsInv, GoDown, disk' \in Blocks, 0 \in disk'.imap,
         ioerr' = ioerr, crashed' \in BOOLEAN,
         disk'.dir = disk.dir \/ disk'.dir = buf.dir,
         \A s \in Used(disk'.dir) :
           disk'.inodes[disk'.dir[s].ino] = "set" \/ disk'.dir[s].ino \in lost'
  PROVE  MinfsInv'
<1>1. /\ state' = "down" /\ buf' = disk' /\ dirty' = {}
      /\ imap' = {} /\ idirty' = {} /\ dcache' = NoDentries
      /\ cpc' = "idle" /\ cname' = NoName /\ cino' = 0
      /\ rpos' = -1 /\ missing' = {} /\ refused' = {}
  BY DEF GoDown
<1>2. -1 \in -1..MINFS_NUM_ENTRIES /\ 0 \in Inos
  BY MinfsAssumption DEF Inos
<1>3. TypeInv'
  BY <1>1, <1>2 DEF MinfsInv, TypeInv, NoDentries
<1>4. CreateInv' /\ CacheInv' /\ NegativeInv' /\ FilledInv' /\ ListInv'
  BY <1>1 DEF CreateInv, CacheInv, NegativeInv, FilledInv, ListInv, NoDentries
<1>5. NamesUnique'
  <2>1. ASSUME ~ioerr, NEW r \in Used(disk.dir), NEW s \in Used(disk.dir),
               disk.dir[r].name = disk.dir[s].name
        PROVE  r = s
    <3>1. buf.dir[r] = disk.dir[r] /\ buf.dir[s] = disk.dir[s]
      BY DEF MinfsInv, CacheInv
    <3>2. r \in Used(buf.dir) /\ s \in Used(buf.dir)
      BY <3>1 DEF Used
    <3> QED BY <2>1, <3>1, <3>2 DEF MinfsInv, NamesUnique
  <2> QED BY <1>1, <2>1 DEF MinfsInv, NamesUnique
<1> QED BY <1>3, <1>4, <1>5 DEF MinfsInv

LEMMA MountInv ==
  ASSUME MinfsInv, Mount
  PROVE  MinfsInv'
<1>1. /\ state = "down" /\ state' = "up" /\ buf' = buf /\ buf = disk /\ dirty' = {}
      /\ imap' = disk.imap /\ idirty' = {} /\ disk' = disk
      /\ UNCHANGED <<dcache, cpc, cname, cino, rpos, missing, refused, crashed, ioerr, lost>>
  BY DEF Mount, creat, rdir, hist, MinfsInv, CacheInv
<1>2. TypeInv'
  BY <1>1 DEF MinfsInv, TypeInv, Blocks
<1>3. CreateInv' /\ CacheInv' /\ NegativeInv'
  BY <1>1 DEF MinfsInv, CreateInv, CacheInv, NegativeInv
<1>4. NamesUnique' /\ FilledInv' /\ ListInv'
  BY <1>1 DEF MinfsInv, NamesUnique, FilledInv, ListInv
<1> QED BY <1>2, <1>3, <1>4 DEF MinfsInv

\* An unmount writes both blocks and every inode, but for those it loses: what is
\* on the disk then is what the buffer cache had, with the inodes memory had.
LEMMA UmountIs ==
  ASSUME MinfsInv, Umount
  PROVE  /\ disk' \in Blocks /\ disk'.imap = disk.imap /\ disk'.dir = buf.dir
         /\ \A i \in Inos : \/ buf.inodes[i] = "set" \/ i \in idirty
                          => disk'.inodes[i] = "set" \/ i \in lost'
         /\ lost \subseteq lost'
<1>0. PICK failed \in SUBSET idirty :
        /\ disk' = [imap   |-> disk.imap,
                    inodes |-> IF idirty \ failed # {} \/ "inodes" \in dirty
                               THEN WithInodes(idirty \ failed).inodes ELSE disk.inodes,
                    dir    |-> IF "dir" \in dirty THEN buf.dir ELSE disk.dir]
        /\ lost' = lost \cup failed
  BY DEF Umount
<1> DEFINE written == idirty \ failed
           ib == IF written # {} \/ "inodes" \in dirty
                 THEN WithInodes(written).inodes ELSE disk.inodes
           db == IF "dir" \in dirty THEN buf.dir ELSE disk.dir
<1>1. disk' = [imap |-> disk.imap, inodes |-> ib, dir |-> db]
  BY <1>0
<1>2. /\ WithInodes(written) \in Blocks
      /\ \A i \in Inos : WithInodes(written).inodes[i] =
                           IF i \in written THEN "set" ELSE buf.inodes[i]
  <2>1. written \in SUBSET Inos
    BY DEF MinfsInv, TypeInv
  <2> QED BY <2>1, WithInodesIs DEF MinfsInv
<1>3. db = buf.dir /\ db \in [Slots -> Entry]
  BY DEF MinfsInv, CacheInv, TypeInv, Blocks
<1>4. /\ ib \in [Inos -> {"set", "zero"}]
      /\ \A i \in Inos : buf.inodes[i] = "set" \/ i \in written => ib[i] = "set"
  BY <1>2 DEF MinfsInv, CacheInv, TypeInv, Blocks
<1>5. disk.imap \in SUBSET Inos
  BY DEF MinfsInv, TypeInv, Blocks
<1>6. \A i \in Inos : i \in idirty => i \in written \/ i \in lost'
  BY <1>0
<1> HIDE DEF ib, db, written
<1>7. disk' \in Blocks /\ disk'.imap = disk.imap /\ disk'.dir = buf.dir /\ disk'.inodes = ib
  BY <1>1, <1>3, <1>4, <1>5 DEF Blocks
<1> QED BY <1>0, <1>4, <1>6, <1>7

LEMMA UmountInv ==
  ASSUME MinfsInv, Umount
  PROVE  MinfsInv'
<1>1. /\ GoDown /\ cpc = "idle"
      /\ ioerr' = ioerr /\ crashed' = crashed
  BY DEF Umount
<1>2. /\ disk' \in Blocks /\ disk'.imap = disk.imap /\ disk'.dir = buf.dir
      /\ \A i \in Inos : \/ buf.inodes[i] = "set" \/ i \in idirty
                       => disk'.inodes[i] = "set" \/ i \in lost'
      /\ lost \subseteq lost'
  BY UmountIs
<1>3. \A s \in Used(buf.dir) : buf.dir[s].ino \in Inos
  BY DEF MinfsInv, TypeInv, Blocks, Entry, Used
<1>4. \A s \in Used(disk'.dir) :
        disk'.inodes[disk'.dir[s].ino] = "set" \/ disk'.dir[s].ino \in lost'
  BY <1>1, <1>2, <1>3 DEF MinfsInv, FilledInv
<1>5. 0 \in disk'.imap /\ crashed' \in BOOLEAN
  BY <1>1, <1>2 DEF MinfsInv, CreateInv, TypeInv
<1> QED BY <1>1, <1>2, <1>4, <1>5, DownInv

\* A crash loses the inodes that had not come to the disk.
LEMMA CrashInv ==
  ASSUME MinfsInv, Crash
  PROVE  MinfsInv'
<1>1. /\ GoDown /\ disk' = disk /\ ioerr' = ioerr /\ crashed' = TRUE
      /\ lost' = lost \cup Unwritten
  BY DEF Crash
<1>2. disk' \in Blocks /\ 0 \in disk'.imap
  BY <1>1 DEF MinfsInv, TypeInv, CreateInv
<1>3. ASSUME NEW s \in Used(disk.dir)
      PROVE  disk.inodes[disk.dir[s].ino] = "set" \/ disk.dir[s].ino \in lost'
  <2> DEFINE ino == disk.dir[s].ino
  <2>1. buf.dir[s] = disk.dir[s] /\ s \in Used(buf.dir) /\ ino \in Inos
    BY DEF MinfsInv, CacheInv, TypeInv, Blocks, Entry, Used
  <2>2. \/ buf.inodes[ino] = "set" \/ ino \in idirty
        \/ (cpc = "dirty" /\ ino = cino) \/ ino \in lost
    BY <2>1 DEF MinfsInv, FilledInv
  <2> HIDE DEF ino
  <2>3. disk.inodes[ino] = "set" \/ ino \in lost'
    BY <1>1, <2>1, <2>2 DEF Unwritten
  <2> QED BY <2>3 DEF ino
<1> QED BY <1>1, <1>2, <1>3, DownInv

LEMMA WriteInodeInv ==
  ASSUME MinfsInv, NEW i \in Inos, WriteInode(i)
  PROVE  MinfsInv'
<1>1. /\ state # "down" /\ i \in idirty /\ buf' = WithInodes({i})
      /\ dirty' = dirty \cup {"inodes"} /\ idirty' = idirty \ {i}
      /\ UNCHANGED <<state, disk, imap, dcache, cpc, cname, cino, rpos, missing, refused,
                     crashed, ioerr, lost>>
  BY DEF WriteInode, creat, rdir, hist
<1>2. /\ buf' \in Blocks /\ buf'.imap = buf.imap /\ buf'.dir = buf.dir
      /\ \A j \in Inos : buf'.inodes[j] = IF j = i THEN "set" ELSE buf.inodes[j]
  BY <1>1, WithInodesIs DEF MinfsInv
<1>3. TypeInv'
  BY <1>1, <1>2 DEF MinfsInv, TypeInv
<1>4. CreateInv' /\ CacheInv' /\ NegativeInv'
  BY <1>1, <1>2 DEF MinfsInv, CreateInv, CacheInv, NegativeInv
<1>5. NamesUnique' /\ ListInv'
  <2>1. Used(buf'.dir) = Used(buf.dir)
    BY <1>2
  <2>2. NamesUnique'
    BY <1>1, <1>2, <2>1 DEF MinfsInv, NamesUnique
  <2>3. ListInv'
    BY <1>1, <1>2, <2>1 DEF MinfsInv, ListInv
  <2> QED BY <2>2, <2>3
<1>6. FilledInv'
  <2>1. \A s \in Used(buf.dir) : buf.dir[s].ino \in Inos
    BY DEF MinfsInv, TypeInv, Blocks, Entry, Used
  <2> QED BY <1>1, <1>2, <2>1 DEF MinfsInv, FilledInv
<1> QED BY <1>3, <1>4, <1>5, <1>6 DEF MinfsInv

LEMMA WriteInodeFailsInv ==
  ASSUME MinfsInv, NEW i \in Inos, WriteInodeFails(i)
  PROVE  MinfsInv'
<1>1. /\ state # "down" /\ i \in idirty
      /\ idirty' = idirty \ {i} /\ lost' = lost \cup {i}
      /\ UNCHANGED <<state, disk, buf, dirty, imap, dcache, cpc, cname, cino, rpos,
                     missing, refused, crashed, ioerr>>
  BY DEF WriteInodeFails, blocks, creat, rdir
<1>2. TypeInv' /\ CreateInv' /\ CacheInv' /\ NegativeInv'
  BY <1>1 DEF MinfsInv, TypeInv, CreateInv, CacheInv, NegativeInv
<1>3. NamesUnique' /\ FilledInv' /\ ListInv'
  BY <1>1 DEF MinfsInv, NamesUnique, FilledInv, ListInv
<1> QED BY <1>2, <1>3 DEF MinfsInv

LEMMA WriteBlockInv ==
  ASSUME MinfsInv, NEW b \in {"inodes", "dir"}, WriteBlock(b)
  PROVE  MinfsInv'
<1>1. /\ state # "down" /\ dirty' = dirty \ {b}
      /\ disk' = IF b = "dir" THEN [disk EXCEPT !.dir = buf.dir]
                 ELSE [disk EXCEPT !.inodes = buf.inodes]
      /\ UNCHANGED <<state, buf, imap, idirty, dcache, cpc, cname, cino, rpos,
                     missing, refused, crashed, ioerr, lost>>
  BY DEF WriteBlock, cache, creat, rdir, hist
<1>2. /\ disk' \in Blocks /\ disk'.imap = disk.imap
      /\ disk'.dir = IF b = "dir" THEN buf.dir ELSE disk.dir
      /\ disk'.inodes = IF b = "dir" THEN disk.inodes ELSE buf.inodes
  BY <1>1 DEF MinfsInv, TypeInv, Blocks
<1>3. TypeInv' /\ CreateInv'
  BY <1>1, <1>2 DEF MinfsInv, TypeInv, CreateInv
<1>4. CacheInv'
  BY <1>1, <1>2 DEF MinfsInv, CacheInv
<1>5. NegativeInv' /\ NamesUnique' /\ FilledInv' /\ ListInv'
  BY <1>1 DEF MinfsInv, NegativeInv, NamesUnique, FilledInv, ListInv
<1> QED BY <1>3, <1>4, <1>5 DEF MinfsInv

-----------------------------------------------------------------------------
\* A step that leaves the directory, the blocks and the create alone and does
\* no more than forget dentries or make them right.
LEMMA DentryInv ==
  ASSUME MinfsInv, NEW n \in Names, NEW answer \in {"unknown", "negative", "positive"},
         dcache' = [dcache EXCEPT ![n] = answer],
         answer = "negative" => ioerr' \/ n \notin NamesOf(buf.dir),
         cpc # "idle" => n # cname,
         ioerr' = ioerr \/ ioerr' = TRUE,
         UNCHANGED <<state, disk, buf, dirty, imap, idirty, cpc, cname, cino,
                     rpos, missing, refused, crashed, lost>>
  PROVE  MinfsInv'
<1>1. dcache'[n] = answer /\ \A m \in Names \ {n} : dcache'[m] = dcache[m]
  BY DEF MinfsInv, TypeInv
<1>2. TypeInv' /\ CreateInv' /\ CacheInv'
  BY <1>1 DEF MinfsInv, TypeInv, CreateInv, CacheInv
<1>3. NegativeInv'
  BY <1>1 DEF MinfsInv, NegativeInv
<1>4. NamesUnique' /\ FilledInv' /\ ListInv'
  BY DEF MinfsInv, NamesUnique, FilledInv, ListInv
<1> QED BY <1>2, <1>3, <1>4 DEF MinfsInv

LEMMA LookupInv ==
  ASSUME MinfsInv, NEW n \in Names, Lookup(n) \/ LookupFailedRead(n) \/ DropDentry(n)
  PROVE  MinfsInv'
<1>1. CASE Lookup(n)
  <2> DEFINE found == {s \in Used(buf.dir) : buf.dir[s].name = n}
             answer == IF found = {} THEN "negative" ELSE "positive"
  <2>1. found = {} => n \notin NamesOf(buf.dir)
    BY DEF NamesOf
  <2>2. /\ dcache' = [dcache EXCEPT ![n] = answer] /\ cpc = "idle"
        /\ UNCHANGED <<state, disk, buf, dirty, imap, idirty, cpc, cname, cino,
                       rpos, missing, refused, crashed, ioerr, lost>>
    BY <1>1 DEF Lookup, DirFree, blocks, creat, rdir, hist
  <2>3. PICK known : known = answer
    OBVIOUS
  <2> HIDE DEF found
  <2>4. known \in {"unknown", "negative", "positive"} /\ (known = "negative" => found = {})
    BY <2>3
  <2> QED BY <2>1, <2>2, <2>3, <2>4, DentryInv
<1>2. CASE LookupFailedRead(n)
  BY <1>2, DentryInv DEF LookupFailedRead, DirFree, blocks, creat, rdir
<1>3. CASE DropDentry(n)
  BY <1>3, DentryInv DEF DropDentry, blocks, creat, rdir, hist
<1> QED BY <1>1, <1>2, <1>3

LEMMA NewInodeInv ==
  ASSUME MinfsInv, NEW n \in Names, NewInode(n) \/ NewInodeFull(n)
  PROVE  MinfsInv'
<1>1. /\ state = "up" /\ cpc = "idle" /\ dcache[n] = "negative"
      /\ UNCHANGED <<disk, buf, dirty, idirty, dcache, rpos, missing, refused, crashed, ioerr, lost>>
  BY DEF NewInode, NewInodeFull, DirFree, blocks, cache, rdir, hist
<1>2. \/ /\ state' \in {"up", "stuck"} /\ UNCHANGED <<imap, cpc, cname, cino>>
      \/ /\ cpc' = "link" /\ cname' = n /\ UNCHANGED state
         /\ cino' \in Inos /\ cino' # 0
         /\ imap' = imap \/ imap' = imap \cup {cino'}
  <2>1. CASE NewInode(n)
    <3>1. FreeInos \subseteq Nat /\ FreeInos \subseteq Inos
      BY MinfsAssumption DEF FreeInos, Inos
    <3>2. cino' \in FreeInos
      BY <2>1, <3>1, MinOfIsLeast DEF NewInode
    <3>3. 0 \notin FreeInos
      BY <1>1 DEF FreeInos, MinfsInv, CreateInv
    <3> QED BY <2>1, <3>1, <3>2, <3>3 DEF NewInode
  <2>2. CASE NewInodeFull(n)
    <3>1. MINFS_NUM_INODES \in Inos /\ MINFS_NUM_INODES # 0
      BY MinfsAssumption DEF Inos
    <3> QED BY <1>1, <2>2, <3>1 DEF NewInodeFull, cache, creat
  <2> QED BY <2>1, <2>2
<1>3. TypeInv'
  BY <1>1, <1>2 DEF MinfsInv, TypeInv
<1>4. CreateInv' /\ CacheInv' /\ NegativeInv'
  BY <1>1, <1>2 DEF MinfsInv, CreateInv, CacheInv, NegativeInv
<1>5. NamesUnique' /\ FilledInv' /\ ListInv'
  BY <1>1, <1>2 DEF MinfsInv, NamesUnique, FilledInv, ListInv
<1> QED BY <1>3, <1>4, <1>5 DEF MinfsInv

LEMMA AddLinkInv ==
  ASSUME MinfsInv, AddLink
  PROVE  MinfsInv'
<1> DEFINE e == [ino |-> cino, name |-> cname]
<1>1. /\ cpc = "link" /\ cname \in Names /\ dcache[cname] = "negative" /\ cino # 0
      /\ cpc' = "dirty" /\ dirty' = dirty \cup {"dir"}
      /\ UNCHANGED <<state, disk, imap, idirty, dcache, cname, cino, rpos, missing, refused,
                     crashed, ioerr, lost>>
  BY DEF AddLink, cache, rdir, hist, MinfsInv, CreateInv
<1>2. e \in Entry /\ e.ino = cino /\ e.name = cname
  BY <1>1 DEF Entry, MinfsInv, TypeInv
<1>3. /\ Slots \ Used(buf.dir) # {}
      /\ buf' = [buf EXCEPT !.dir[MinOf(Slots \ Used(buf.dir))] = e]
  BY DEF AddLink
<1> HIDE DEF e
<1>4. PICK s \in Slots \ Used(buf.dir) :
        /\ buf' \in Blocks /\ buf'.imap = buf.imap /\ buf'.inodes = buf.inodes
        /\ Used(buf'.dir) = Used(buf.dir) \cup {s}
        /\ buf'.dir[s] = e
        /\ \A r \in Used(buf.dir) : buf'.dir[r] = buf.dir[r]
        /\ NamesOf(buf'.dir) = NamesOf(buf.dir) \cup {cname}
  BY <1>1, <1>2, <1>3, LinkEntry DEF MinfsInv
<1>5. TypeInv'
  BY <1>1, <1>4 DEF MinfsInv, TypeInv
<1>6. CreateInv'
  BY <1>1, <1>4 DEF MinfsInv, CreateInv
<1>7. CacheInv'
  <2>1. ASSUME NEW r \in Used(disk.dir) PROVE buf'.dir[r] = disk.dir[r]
    <3>1. buf.dir[r] = disk.dir[r]
      BY DEF MinfsInv, CacheInv
    <3>2. r \in Used(buf.dir)
      BY <3>1 DEF Used
    <3> QED BY <1>4, <3>1, <3>2
  <2>2. state # "down"
    BY DEF AddLink
  <2> QED BY <1>1, <1>4, <2>1, <2>2 DEF MinfsInv, CacheInv
<1>8. NegativeInv'
  BY <1>1, <1>4 DEF MinfsInv, NegativeInv
<1>9. NamesUnique'
  <2>1. ~ioerr => cname \notin NamesOf(buf.dir)
    BY <1>1 DEF MinfsInv, NegativeInv
  <2>2. ~ioerr => \A r \in Used(buf.dir) : buf.dir[r].name # cname
    BY <2>1 DEF NamesOf
  <2> QED BY <1>1, <1>2, <1>4, <2>2 DEF MinfsInv, NamesUnique
<1>10. FilledInv'
  <2>1. state # "down"
    BY DEF AddLink
  <2> QED BY <1>1, <1>2, <1>4, <2>1 DEF MinfsInv, FilledInv
<1>11. ListInv'
  BY <1>1, <1>4 DEF MinfsInv, ListInv
<1> QED BY <1>5, <1>6, <1>7, <1>8, <1>9, <1>10, <1>11 DEF MinfsInv

LEMMA AddLinkFailsInv ==
  ASSUME MinfsInv, AddLinkFails
  PROVE  MinfsInv'
<1>1. /\ cpc = "link" /\ cpc' = "idle" /\ cname' = NoName /\ cino' = 0
      /\ ioerr' \in {ioerr, TRUE}
      /\ UNCHANGED <<state, disk, buf, dirty, imap, idirty, dcache, rpos, missing, refused,
                     crashed, lost>>
  BY DEF AddLinkFails, CreateEnd, blocks, cache, rdir
<1>2. 0 \in Inos
  BY MinfsAssumption DEF Inos
<1>3. TypeInv'
  BY <1>1, <1>2 DEF MinfsInv, TypeInv
<1>4. CreateInv' /\ CacheInv' /\ NegativeInv'
  BY <1>1 DEF MinfsInv, CreateInv, CacheInv, NegativeInv
<1>5. NamesUnique' /\ FilledInv' /\ ListInv'
  BY <1>1 DEF MinfsInv, NamesUnique, FilledInv, ListInv
<1> QED BY <1>3, <1>4, <1>5 DEF MinfsInv

LEMMA InstantiateInv ==
  ASSUME MinfsInv, Instantiate
  PROVE  MinfsInv'
<1>1. /\ state = "up" /\ cpc = "dirty" /\ cpc' = "idle" /\ cname' = NoName /\ cino' = 0
      /\ dcache' = [dcache EXCEPT ![cname] = "positive"]
      /\ idirty' = idirty \cup {cino} /\ lost' = lost \ {cino}
      /\ UNCHANGED <<state, disk, buf, dirty, imap, rpos, missing, refused, crashed, ioerr>>
  BY DEF Instantiate, CreateEnd, blocks, rdir
<1>2. cname \in Names /\ 0 \in Inos
  BY <1>1, MinfsAssumption DEF MinfsInv, CreateInv, Inos
<1>3. TypeInv'
  BY <1>1, <1>2 DEF MinfsInv, TypeInv
<1>4. CreateInv' /\ CacheInv'
  BY <1>1 DEF MinfsInv, CreateInv, CacheInv
<1>5. dcache'[cname] = "positive" /\ \A n \in Names \ {cname} : dcache'[n] = dcache[n]
  BY <1>1, <1>2 DEF MinfsInv, TypeInv
<1>6. NegativeInv'
  BY <1>1, <1>5 DEF MinfsInv, NegativeInv
<1>7. NamesUnique' /\ FilledInv' /\ ListInv'
  BY <1>1 DEF MinfsInv, NamesUnique, FilledInv, ListInv
<1> QED BY <1>3, <1>4, <1>6, <1>7 DEF MinfsInv

-----------------------------------------------------------------------------
LEMMA ListingInv ==
  ASSUME MinfsInv, OpenDir \/ ReadDir \/ CloseDir
  PROVE  MinfsInv'
<1>1. UNCHANGED <<state, disk, buf, dirty, imap, idirty, dcache, cpc, cname, cino,
                  crashed, ioerr, lost>>
  BY DEF OpenDir, ReadDir, CloseDir, blocks, cache, creat, hist
<1>2. Slots = 0..(MINFS_NUM_ENTRIES - 1) /\ MINFS_NUM_ENTRIES \in Nat \ {0}
  BY MinfsAssumption DEF Slots
<1>3. Used(buf.dir) \subseteq Slots
  BY DEF Used
<1>4. rpos' \in -1..MINFS_NUM_ENTRIES /\ ListInv'
  <2>1. CASE OpenDir
    <3>1. rpos' = 0 /\ refused' = {} /\ missing' = NamesOf(buf.dir) /\ buf' = buf
      BY <1>1, <2>1 DEF OpenDir
    <3>2. \A n \in missing' : \E s \in Used(buf.dir) : buf.dir[s].name = n
      BY <3>1 DEF NamesOf
    <3> QED BY <1>2, <1>3, <3>1, <3>2 DEF ListInv
  <2>2. CASE CloseDir
    BY <1>2, <2>2 DEF CloseDir, ListInv
  <2>3. CASE ReadDir
    <3>1. rpos \in Nat
      BY <1>2, <2>3 DEF ReadDir
    <3>2. \E to \in 0..MINFS_NUM_ENTRIES :
            /\ refused' = refused \cup PassedOver(to)
            /\ \/ rpos' = to /\ missing' = missing /\ to = MINFS_NUM_ENTRIES
               \/ /\ to \in Used(buf.dir)
                  /\ rpos' = to + 1 /\ missing' = missing \ {buf.dir[to].name}
      BY <1>2, <1>3, <2>3 DEF ReadDir
    <3>3. PICK to \in 0..MINFS_NUM_ENTRIES :
            /\ refused' = refused \cup PassedOver(to)
            /\ \/ rpos' = to /\ missing' = missing /\ to = MINFS_NUM_ENTRIES
               \/ /\ to \in Used(buf.dir)
                  /\ rpos' = to + 1 /\ missing' = missing \ {buf.dir[to].name}
      BY <3>2
    <3>4. rpos' \in -1..MINFS_NUM_ENTRIES
      BY <1>2, <1>3, <3>3
    <3>5. ASSUME NEW n \in missing', n \notin refused'
          PROVE  \E s \in Used(buf.dir) : rpos' <= s /\ buf.dir[s].name = n
      <4>1. PICK s \in Used(buf.dir) : rpos <= s /\ buf.dir[s].name = n
        BY <3>3, <3>5 DEF MinfsInv, ListInv
      <4>2. s \in 0..(MINFS_NUM_ENTRIES - 1) /\ n \in missing
        BY <1>2, <1>3, <3>3, <3>5
      <4>3. ~(s < to)
        BY <3>3, <3>5, <4>1, <4>2 DEF PassedOver
      <4>4. CASE to \in Used(buf.dir) /\ rpos' = to + 1 /\ n # buf.dir[to].name
        <5>1. s # to
          BY <4>1, <4>4
        <5> QED BY <1>2, <1>3, <4>1, <4>2, <4>3, <4>4, <5>1
      <4>5. CASE rpos' = to
        BY <4>1, <4>2, <4>3, <4>5
      <4> QED BY <3>3, <3>5, <4>4, <4>5
    <3> QED BY <1>1, <3>4, <3>5 DEF ListInv
  <2> QED BY <2>1, <2>2, <2>3
<1>5. TypeInv' /\ CreateInv' /\ CacheInv'
  BY <1>1, <1>4 DEF MinfsInv, TypeInv, CreateInv, CacheInv
<1>6. NegativeInv' /\ NamesUnique' /\ FilledInv'
  BY <1>1 DEF MinfsInv, NegativeInv, NamesUnique, FilledInv
<1> QED BY <1>4, <1>5, <1>6 DEF MinfsInv

-----------------------------------------------------------------------------
LEMMA NextInv == MinfsInv /\ [Next]_vars => MinfsInv'
<1> SUFFICES ASSUME MinfsInv, [Next]_vars PROVE MinfsInv'
  OBVIOUS
<1>1. CASE Mount \/ Umount \/ Crash
  BY <1>1, MountInv, UmountInv, CrashInv
<1>2. ASSUME NEW i \in Inos, WriteInode(i) \/ WriteInodeFails(i) PROVE MinfsInv'
  BY <1>2, WriteInodeInv, WriteInodeFailsInv
<1>3. ASSUME NEW b \in {"inodes", "dir"}, WriteBlock(b) PROVE MinfsInv'
  BY <1>3, WriteBlockInv
<1>4. ASSUME NEW n \in Names, Lookup(n) \/ LookupFailedRead(n) \/ DropDentry(n)
      PROVE  MinfsInv'
  BY <1>4, LookupInv
<1>5. ASSUME NEW n \in Names, NewInode(n) \/ NewInodeFull(n) PROVE MinfsInv'
  BY <1>5, NewInodeInv
<1>6. CASE AddLink \/ AddLinkFails \/ Instantiate
  BY <1>6, AddLinkInv, AddLinkFailsInv, InstantiateInv
<1>7. CASE OpenDir \/ ReadDir \/ CloseDir
  BY <1>7, ListingInv
<1>8. CASE UNCHANGED vars
  <2>1. UNCHANGED <<state, disk, buf, dirty, imap, idirty, dcache, cpc, cname, cino,
                    rpos, missing, refused, crashed, ioerr, lost>>
    BY <1>8 DEF vars, blocks, cache, creat, rdir, hist
  <2>2. TypeInv' /\ CreateInv' /\ CacheInv'
    BY <2>1 DEF MinfsInv, TypeInv, CreateInv, CacheInv
  <2>3. NegativeInv' /\ NamesUnique' /\ FilledInv' /\ ListInv'
    BY <2>1 DEF MinfsInv, NegativeInv, NamesUnique, FilledInv, ListInv
  <2> QED BY <2>2, <2>3 DEF MinfsInv
<1> QED BY <1>1, <1>2, <1>3, <1>4, <1>5, <1>6, <1>7, <1>8 DEF Next

LEMMA MinfsInvHolds == Spec => []MinfsInv
BY InitInv, NextInv, PTL DEF Spec

\* No name is in the directory twice, however lookups, creates, write-back and
\* crashes follow each other, as long as no block fails to be read.
THEOREM NamesAreUnique == Spec => []NamesUnique
<1>1. MinfsInv => NamesUnique
  BY DEF MinfsInv
<1> QED BY <1>1, MinfsInvHolds, PTL

\* The inode of every entry has been filled, in memory or in its block, and on
\* the disk after an unmount or a crash, but for those lost to a failed write of
\* their own or to a crash before their write.
THEOREM InodesAreFilled == Spec => []InodesFilled
<1>1. MinfsInv => InodesFilled
  BY DEF MinfsInv, FilledInv, InodesFilled
<1> QED BY <1>1, MinfsInvHolds, PTL

\* A listing of the directory that has come to its end has offered to dir_emit
\* every name that was there when it began, with any creates between its calls.
THEOREM ListingsAreComplete == Spec => []ListingComplete
<1>1. MinfsInv => ListingComplete
  <2>1. \A s \in Used(buf.dir) : ~(MINFS_NUM_ENTRIES <= s)
    BY MinfsAssumption DEF Used, Slots
  <2> QED BY <2>1 DEF MinfsInv, ListInv, ListingComplete
<1> QED BY <1>1, MinfsInvHolds, PTL

-----------------------------------------------------------------------------
(* The refinement: each step of Minfs is a step of MinfsStore, or none.    *)

LEMMA StoreInit == Init => Store!SInit
<1> SUFFICES ASSUME Init PROVE Store!SInit
  OBVIOUS
<1>1. /\ \A s \in Slots : Mkfs.dir[s] = IF s = 0 THEN [ino |-> 1, name |-> FirstName] ELSE Empty
      /\ buf = Mkfs /\ disk = Mkfs
  BY DEF Init, Mkfs
<1>2. Used(Mkfs.dir) = {0} /\ Mkfs.dir[0].name = FirstName
  BY <1>1, SlotsAreNats DEF Used, Empty
<1>3. NamesOf(Mkfs.dir) = {FirstName}
  BY <1>2 DEF NamesOf
<1> QED BY <1>1, <1>3 DEF Init, Store!SInit, Store!Forgotten, NoDentries

\* Going down keeps the names on the disk, which are those it had or, after an
\* unmount, all of them.
LEMMA StoreDown ==
  ASSUME MinfsInv, Mount \/ Umount \/ Crash
  PROVE  Store!Start \/ Store!Stop \/ Store!Crash
<1>1. CASE Mount
  <2>1. state = "down" /\ state' = "up" /\ buf' = buf
    BY <1>1 DEF Mount, MinfsInv, CacheInv
  <2> QED BY <1>1, <2>1 DEF Mount, hist, Store!Start
<1>2. CASE Umount
  <2>1. disk'.dir = buf.dir /\ buf' = disk'
    BY <1>2, UmountIs DEF Umount, GoDown
  <2>2. NamesOf(buf'.dir) = NamesOf(buf.dir) /\ NamesOf(disk'.dir) = NamesOf(buf.dir)
    BY <2>1
  <2> QED BY <1>2, <2>2 DEF Umount, GoDown, hist, NoDentries, Store!Stop, Store!Forgotten
<1>3. CASE Crash
  <2>1. buf' = disk' /\ disk' = disk
    BY <1>3 DEF Crash, GoDown
  <2>2. NamesOf(buf'.dir) = NamesOf(disk.dir) /\ NamesOf(disk'.dir) = NamesOf(disk.dir)
    BY <2>1
  <2> QED BY <1>3, <2>2 DEF Crash, GoDown, NoDentries, Store!Crash, Store!Forgotten
<1> QED BY <1>1, <1>2, <1>3

\* Write-back makes the names on the disk those of the buffer, or changes none.
LEMMA StoreWrite ==
  ASSUME MinfsInv,
         \/ \E i \in Inos : WriteInode(i) \/ WriteInodeFails(i)
         \/ \E b \in {"inodes", "dir"} : WriteBlock(b)
  PROVE  Store!Persist \/ UNCHANGED Store!svars
<1>1. ASSUME NEW i \in Inos, WriteInode(i) PROVE UNCHANGED Store!svars
  <2>1. buf'.dir = buf.dir
    BY <1>1, WithInodesIs DEF WriteInode, MinfsInv
  <2> QED BY <1>1, <2>1 DEF WriteInode, hist, Store!svars
<1>4. ASSUME NEW i \in Inos, WriteInodeFails(i) PROVE UNCHANGED Store!svars
  BY <1>4 DEF WriteInodeFails, blocks, Store!svars
<1>2. CASE WriteBlock("dir")
  <2>1. disk'.dir = buf.dir /\ buf' = buf
    BY <1>2 DEF WriteBlock, MinfsInv, TypeInv, Blocks
  <2> QED BY <1>2, <2>1 DEF WriteBlock, cache, hist, Store!Persist
<1>3. CASE WriteBlock("inodes")
  <2>1. disk'.dir = disk.dir /\ buf' = buf
    BY <1>3 DEF WriteBlock, MinfsInv, TypeInv, Blocks
  <2> QED BY <1>3, <2>1 DEF WriteBlock, cache, hist, Store!svars
<1> QED BY <1>1, <1>2, <1>3, <1>4

LEMMA StoreLookup ==
  ASSUME MinfsInv, NEW n \in Names, Lookup(n) \/ LookupFailedRead(n) \/ DropDentry(n)
  PROVE  Store!Look(n) \/ Store!LookFailed(n) \/ Store!Forget(n)
<1>1. CASE Lookup(n)
  <2> DEFINE found == {s \in Used(buf.dir) : buf.dir[s].name = n}
  <2>1. found = {} <=> n \notin NamesOf(buf.dir)
    BY DEF NamesOf
  <2>2. /\ dcache' = [dcache EXCEPT ![n] = IF found = {} THEN "negative" ELSE "positive"]
        /\ state = "up" /\ UNCHANGED <<state, disk, buf, crashed, ioerr>>
    BY <1>1 DEF Lookup, DirFree, blocks, hist
  <2> HIDE DEF found
  <2> QED BY <2>1, <2>2 DEF Store!Look
<1>2. CASE LookupFailedRead(n)
  BY <1>2 DEF LookupFailedRead, DirFree, blocks, Store!LookFailed
<1>3. CASE DropDentry(n)
  BY <1>3 DEF DropDentry, blocks, hist, Store!Forget
<1> QED BY <1>1, <1>2, <1>3

\* A created name is made when its entry is linked, and known when its dentry
\* is instantiated.
LEMMA StoreCreate ==
  ASSUME MinfsInv, AddLink \/ AddLinkFails \/ Instantiate
  PROVE  \/ Store!CreateFailed \/ UNCHANGED Store!svars
         \/ \E n \in Names : Store!Make(n) \/ Store!Look(n)
<1>1. cpc = "link" \/ cpc = "dirty"
  BY DEF AddLink, AddLinkFails, Instantiate
<1>2. cname \in Names /\ dcache[cname] = "negative" /\ cino # 0
  BY <1>1 DEF MinfsInv, CreateInv
<1>3. CASE AddLink
  <2> DEFINE e == [ino |-> cino, name |-> cname]
  <2>1. e \in Entry /\ e.ino = cino /\ e.name = cname
    BY <1>2 DEF Entry, MinfsInv, TypeInv
  <2>2. /\ Slots \ Used(buf.dir) # {}
        /\ buf' = [buf EXCEPT !.dir[MinOf(Slots \ Used(buf.dir))] = e]
    BY <1>3 DEF AddLink
  <2> HIDE DEF e
  <2>3. NamesOf(buf'.dir) = NamesOf(buf.dir) \cup {cname}
    BY <1>2, <2>1, <2>2, LinkEntry DEF MinfsInv
  <2>4. cname \notin NamesOf(buf.dir) \/ ioerr
    BY <1>2, <1>3 DEF AddLink, MinfsInv, NegativeInv
  <2>5. Store!Make(cname)
    BY <1>2, <1>3, <2>3, <2>4 DEF AddLink, cache, hist, Store!Make
  <2> QED BY <1>2, <2>5
<1>4. CASE AddLinkFails
  <2>1. UNCHANGED <<state, disk, buf, dcache, crashed>> /\ state = "up"
    BY <1>4 DEF AddLinkFails, blocks, cache
  <2>2. ioerr' = ioerr \/ ioerr' = TRUE
    BY <1>4 DEF AddLinkFails
  <2> QED BY <2>1, <2>2 DEF Store!CreateFailed, Store!svars
<1>5. CASE Instantiate
  <2>1. cname \in NamesOf(buf.dir)
    BY <1>5 DEF Instantiate, MinfsInv, CreateInv
  <2>2. Store!Look(cname)
    BY <1>5, <2>1 DEF Instantiate, blocks, hist, Store!Look
  <2> QED BY <1>2, <2>2
<1> QED BY <1>3, <1>4, <1>5

\* minfs implements the store: to its callers the directory is a set of names
\* that only grows, but for a crash, which goes back to the names on the disk.
THEOREM MinfsIsAStore == Spec => ImplementsStore
<1>1. Init => Store!SInit
  BY StoreInit
<1>2. MinfsInv /\ [Next]_vars => [Store!SNext]_(Store!svars)
  <2> SUFFICES ASSUME MinfsInv, [Next]_vars PROVE Store!SNext \/ UNCHANGED Store!svars
    OBVIOUS
  <2>1. CASE Mount \/ Umount \/ Crash
    BY <2>1, StoreDown DEF Store!SNext
  <2>2. CASE \/ \E i \in Inos : WriteInode(i) \/ WriteInodeFails(i)
             \/ \E b \in {"inodes", "dir"} : WriteBlock(b)
    BY <2>2, StoreWrite DEF Store!SNext
  <2>3. ASSUME NEW n \in Names, Lookup(n) \/ LookupFailedRead(n) \/ DropDentry(n)
        PROVE  Store!SNext
    BY <2>3, StoreLookup DEF Store!SNext
  <2>4. ASSUME NEW n \in Names, NewInode(n) \/ NewInodeFull(n)
        PROVE  UNCHANGED Store!svars
    <3>1. /\ UNCHANGED <<disk, buf, dcache, crashed, ioerr>>
          /\ state = "up" /\ state' # "down"
      BY <2>4 DEF NewInode, NewInodeFull, DirFree, blocks, cache, hist
    <3> QED BY <3>1 DEF Store!svars
  <2>5. CASE AddLink \/ AddLinkFails \/ Instantiate
    BY <2>5, StoreCreate DEF Store!SNext
  <2>6. CASE OpenDir \/ ReadDir \/ CloseDir
    BY <2>6 DEF OpenDir, ReadDir, CloseDir, blocks, cache, hist, Store!svars
  <2>7. CASE UNCHANGED vars
    BY <2>7 DEF vars, blocks, cache, hist, Store!svars
  <2> QED BY <2>1, <2>2, <2>3, <2>4, <2>5, <2>6, <2>7 DEF Next
<1> QED BY <1>1, <1>2, MinfsInvHolds, PTL DEF Spec, ImplementsStore, Store!SSpec
=============================================================================
