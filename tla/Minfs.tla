------------------------------- MODULE Minfs --------------------------------
(***************************************************************************)
(* The minfs file system of src/filesystems/minfs: one directory block,    *)
(* one inode block and a bitmap of inodes in the superblock.  Blocks are   *)
(* changed in the buffer cache and reach the disk when the kernel writes   *)
(* them back, or at unmount; a crash loses what has not been written.      *)
(*                                                                         *)
(* The VFS calls create with the lock of the directory held, and lookup    *)
(* too, so one create is in progress at a time and excludes lookups;       *)
(* readdir of a directory excludes creates only during each call.  The     *)
(* contents of the files are left out: minfs keeps them in memory only.    *)
(***************************************************************************)
EXTENDS Integers, FiniteSets

CONSTANTS
  Names,                \* the names that are looked up and created
  FirstName,            \* the file mkfs.minfs has put on the disk
  NoName,
  MINFS_NUM_INODES,
  MINFS_NUM_ENTRIES

ASSUME MinfsAssumption ==
  /\ MINFS_NUM_INODES \in Nat /\ MINFS_NUM_INODES > 1
  /\ MINFS_NUM_ENTRIES \in Nat \ {0}
  /\ FirstName \in Names /\ NoName \notin Names

VARIABLES
  state,                \* "down", "up", or "stuck": an oops with the lock held
  disk,                 \* the blocks on the disk: [imap, inodes, dir]
  buf,                  \* the same blocks in the buffer cache
  dirty,                \* those of buf still to be written: "inodes", "dir"
  imap,                 \* sbi->imap
  idirty,               \* the inodes in memory that are still to be written
  dcache,               \* the dentries
  cpc, cname, cino,     \* minfs_create: its step, name and inode
  rpos,                 \* minfs_readdir: ctx->pos, -1 when nobody lists
  missing, refused,     \* of the names there when the listing began, those it
                        \* has not listed, and those dir_emit refused (history)
  crashed, ioerr,       \* there has been a crash, a failed read (history)
  lost                  \* the inodes that a failed write, or a crash before
                        \* their write, has lost (history)

blocks == <<disk, buf, dirty>>
cache  == <<imap, idirty, dcache>>
creat  == <<cpc, cname, cino>>
rdir   == <<rpos, missing, refused>>
hist   == <<crashed, ioerr, lost>>
vars   == <<state, blocks, cache, creat, rdir, hist>>

\* A full bitmap makes the search answer MINFS_NUM_INODES; the inode block has
\* room behind its last inode, so that index can be written and read.
Inos    == 0..MINFS_NUM_INODES
Slots   == 0..(MINFS_NUM_ENTRIES - 1)
Empty   == [ino |-> 0, name |-> NoName]
Used(dir) == {s \in Slots : dir[s].ino # 0}
NamesOf(dir) == {dir[s].name : s \in Used(dir)}

MinOf(S) == CHOOSE x \in S : \A y \in S : x <= y

-----------------------------------------------------------------------------
(* mkfs.minfs: inodes 0 and 1, the root and one file.                      *)

Mkfs ==
  [imap   |-> {0, 1},
   inodes |-> [i \in Inos |-> IF i \in {0, 1} THEN "set" ELSE "zero"],
   dir    |-> [s \in Slots |-> IF s = 0 THEN [ino |-> 1, name |-> FirstName] ELSE Empty]]

NoDentries == [n \in Names |-> "unknown"]

Init ==
  /\ state = "down"
  /\ disk = Mkfs /\ buf = Mkfs /\ dirty = {}
  /\ imap = {} /\ idirty = {}
  /\ dcache = NoDentries
  /\ cpc = "idle" /\ cname = NoName /\ cino = 0
  /\ rpos = -1 /\ missing = {} /\ refused = {}
  /\ crashed = FALSE /\ ioerr = FALSE /\ lost = {}

-----------------------------------------------------------------------------
(* Mount and unmount.                                                      *)

\* minfs_fill_super: the bitmap comes from the superblock, the root is read.
Mount ==
  /\ state = "down"
  /\ state' = "up"
  /\ buf' = disk /\ dirty' = {}
  /\ imap' = disk.imap
  /\ idirty' = {}
  /\ UNCHANGED <<disk, dcache, creat, rdir, hist>>

\* The blocks with the in-memory inodes written into them (minfs_write_inode).
WithInodes(written) ==
  [buf EXCEPT !.inodes = [i \in Inos |-> IF i \in written THEN "set" ELSE @[i]]]

GoDown ==
  /\ state' = "down"
  /\ buf' = disk' /\ dirty' = {}
  /\ imap' = {} /\ idirty' = {} /\ dcache' = NoDentries
  /\ cpc' = "idle" /\ cname' = NoName /\ cino' = 0
  /\ rpos' = -1 /\ missing' = {} /\ refused' = {}

\* The VFS writes back inodes, some of which fail, and blocks, and calls
\* minfs_put_super, which marks the superblock dirty: but its copy of the bitmap
\* has never been changed.
Umount ==
  /\ state = "up" /\ cpc = "idle" /\ rpos = -1
  /\ \E failed \in SUBSET idirty :
       LET written == idirty \ failed
       IN  /\ disk' = [imap   |-> disk.imap,
                       inodes |-> IF written # {} \/ "inodes" \in dirty
                                  THEN WithInodes(written).inodes ELSE disk.inodes,
                       dir    |-> IF "dir" \in dirty THEN buf.dir ELSE disk.dir]
           /\ lost' = lost \cup failed
  /\ GoDown
  /\ UNCHANGED <<crashed, ioerr>>

\* What has not reached the disk: dirty inodes, in memory and in their block,
\* and the one of a create in progress.
Unwritten ==
  idirty \cup (IF cpc = "dirty" THEN {cino} ELSE {})
         \cup {i \in Inos : buf.inodes[i] # disk.inodes[i]}

Crash ==
  /\ state # "down"
  /\ UNCHANGED <<disk, ioerr>>
  /\ GoDown
  /\ lost' = lost \cup Unwritten
  /\ crashed' = TRUE

-----------------------------------------------------------------------------
(* Writeback by the kernel, at any time.                                   *)

\* minfs_write_inode.
WriteInode(i) ==
  /\ state # "down" /\ i \in idirty
  /\ buf' = WithInodes({i})
  /\ dirty' = dirty \cup {"inodes"}
  /\ idirty' = idirty \ {i}
  /\ UNCHANGED <<state, disk, imap, dcache, creat, rdir, hist>>

\* Its read of the inode block fails: the kernel no longer takes the inode for
\* dirty, and will not have it written again.
WriteInodeFails(i) ==
  /\ state # "down" /\ i \in idirty
  /\ idirty' = idirty \ {i}
  /\ lost' = lost \cup {i}
  /\ UNCHANGED <<state, blocks, imap, dcache, creat, rdir, crashed, ioerr>>

WriteBlock(b) ==
  /\ state # "down" /\ b \in dirty
  /\ disk' = IF b = "dir" THEN [disk EXCEPT !.dir = buf.dir]
             ELSE [disk EXCEPT !.inodes = buf.inodes]
  /\ dirty' = dirty \ {b}
  /\ UNCHANGED <<state, buf, cache, creat, rdir, hist>>

-----------------------------------------------------------------------------
(* Lookup and the caches.                                                  *)

DirFree == state = "up" /\ cpc = "idle"

Lookup_FirstEntry(n) ==         \* mutant: the loop ends after one entry
  /\ DirFree
  /\ dcache[n] = "unknown"
  /\ LET found == {s \in Used(buf.dir) : buf.dir[s].name = n /\ s = 0}
     IN  IF found = {}
         THEN dcache' = [dcache EXCEPT ![n] = "negative"]
         ELSE dcache' = [dcache EXCEPT ![n] = "positive"]
  /\ UNCHANGED <<state, blocks, imap, idirty, creat, rdir, hist>>

\* minfs_lookup and minfs_find_entry go through every entry; minfs_iget then
\* reads the inode, which changes nothing here.
Lookup(n) ==
  /\ DirFree
  /\ dcache[n] = "unknown"
  /\ LET found == {s \in Used(buf.dir) : buf.dir[s].name = n}
     IN  IF found = {}
         THEN dcache' = [dcache EXCEPT ![n] = "negative"]
         ELSE dcache' = [dcache EXCEPT ![n] = "positive"]
  /\ UNCHANGED <<state, blocks, imap, idirty, creat, rdir, hist>>

\* A block that cannot be read: find_entry and iget answer NULL, and lookup
\* takes that for a name that does not exist.
LookupFailedRead(n) ==
  /\ DirFree
  /\ dcache[n] = "unknown"
  /\ dcache' = [dcache EXCEPT ![n] = "negative"]
  /\ ioerr' = TRUE
  /\ UNCHANGED <<state, blocks, imap, idirty, creat, rdir, crashed, lost>>

DropDentry(n) ==
  /\ state = "up" /\ dcache[n] # "unknown" /\ n # cname
  /\ dcache' = [dcache EXCEPT ![n] = "unknown"]
  /\ UNCHANGED <<state, blocks, imap, idirty, creat, rdir, hist>>

-----------------------------------------------------------------------------
(* minfs_create, called by the VFS for a negative dentry.                  *)

FreeInos == (0..(MINFS_NUM_INODES - 1)) \ imap

\* minfs_new_inode: the first free inode.  The bit is set in sbi->imap only.
NewInode(n) ==
  /\ DirFree
  /\ dcache[n] = "negative"
  /\ FreeInos # {}
  /\ cino' = MinOf(FreeInos)
  /\ imap' = imap \cup {cino'}
  /\ cpc' = "link" /\ cname' = n
  /\ UNCHANGED <<state, blocks, idirty, dcache, rdir, hist>>

\* With a full bitmap find_first_zero_bit answers MINFS_NUM_INODES, which
\* "idx < 0" does not catch: the bit that is set lies in the pointer behind the
\* bitmap.  The call goes on with that number, or oopses with the lock held.
NewInodeFull(n) ==
  /\ DirFree
  /\ dcache[n] = "negative"
  /\ FreeInos = {}
  /\ \/ /\ cino' = MINFS_NUM_INODES
        /\ cpc' = "link" /\ cname' = n
        /\ UNCHANGED state
     \/ /\ state' = "stuck"
        /\ UNCHANGED creat
  /\ UNCHANGED <<blocks, cache, rdir, hist>>

AddLink_NotDirty ==             \* mutant: the block is not marked dirty
  /\ state = "up" /\ cpc = "link"
  /\ LET free == Slots \ Used(buf.dir)
     IN  /\ free # {}
         /\ buf' = [buf EXCEPT !.dir[MinOf(free)] = [ino |-> cino, name |-> cname]]
  /\ cpc' = "dirty"
  /\ UNCHANGED <<state, disk, dirty, cache, cname, cino, rdir, hist>>

\* minfs_add_link: the entry goes into the first free slot.
AddLink ==
  /\ state = "up" /\ cpc = "link"
  /\ LET free == Slots \ Used(buf.dir)
     IN  /\ free # {}
         /\ buf' = [buf EXCEPT !.dir[MinOf(free)] = [ino |-> cino, name |-> cname]]
  /\ dirty' = dirty \cup {"dir"}
  /\ cpc' = "dirty"
  /\ UNCHANGED <<state, disk, cache, cname, cino, rdir, hist>>

CreateEnd == cpc' = "idle" /\ cname' = NoName /\ cino' = 0

\* No slot is left (-ENOSPC) or the block cannot be read: the inode goes away,
\* its bit in the bitmap stays.
AddLinkFails ==
  /\ state = "up" /\ cpc = "link"
  /\ ioerr' \in {ioerr, TRUE}
  /\ Used(buf.dir) # Slots => ioerr'
  /\ CreateEnd
  /\ UNCHANGED <<state, blocks, cache, rdir, crashed, lost>>

Instantiate_NotDirty ==         \* mutant: mark_inode_dirty forgotten
  /\ state = "up" /\ cpc = "dirty"
  /\ dcache' = [dcache EXCEPT ![cname] = "positive"]
  /\ CreateEnd
  /\ UNCHANGED <<state, blocks, imap, idirty, rdir, hist>>

\* d_instantiate and mark_inode_dirty.
Instantiate ==
  /\ state = "up" /\ cpc = "dirty"
  /\ dcache' = [dcache EXCEPT ![cname] = "positive"]
  /\ idirty' = idirty \cup {cino} /\ lost' = lost \ {cino}
  /\ CreateEnd
  /\ UNCHANGED <<state, blocks, imap, rdir, crashed, ioerr>>

-----------------------------------------------------------------------------
(* minfs_readdir: each call lists one entry, unless there are none left.   *)

OpenDir ==
  /\ state = "up" /\ rpos = -1
  /\ rpos' = 0 /\ missing' = NamesOf(buf.dir) /\ refused' = {}
  /\ UNCHANGED <<state, blocks, cache, creat, hist>>

\* What the loop has come past, from ctx->pos on, without listing it.
PassedOver(to) ==
  missing \cap {buf.dir[s].name : s \in {t \in Used(buf.dir) : rpos <= t /\ t < to}}

ReadDir_SkipsOne ==             \* mutant: ctx->pos is advanced twice
  /\ DirFree /\ rpos \in Slots
  /\ \/ \E s \in {t \in Used(buf.dir) : rpos <= t} :
          /\ rpos' = s + 2
          /\ missing' = missing \ {buf.dir[s].name}
          /\ refused' = refused \cup PassedOver(s)
     \/ /\ rpos' = MINFS_NUM_ENTRIES
        /\ refused' = refused \cup PassedOver(MINFS_NUM_ENTRIES)
        /\ UNCHANGED missing
  /\ UNCHANGED <<state, blocks, cache, creat, hist>>

\* The call returns with the first entry dir_emit takes.  An entry it does not
\* take, for want of room or of the page to copy it to, is passed over too.
ReadDir ==
  /\ DirFree /\ rpos \in Slots
  /\ \/ \E s \in {t \in Used(buf.dir) : rpos <= t} :
          /\ rpos' = s + 1
          /\ missing' = missing \ {buf.dir[s].name}
          /\ refused' = refused \cup PassedOver(s)
     \/ /\ rpos' = MINFS_NUM_ENTRIES
        /\ refused' = refused \cup PassedOver(MINFS_NUM_ENTRIES)
        /\ UNCHANGED missing
  /\ UNCHANGED <<state, blocks, cache, creat, hist>>

CloseDir ==
  /\ state = "up" /\ rpos # -1
  /\ rpos' = -1 /\ missing' = {} /\ refused' = {}
  /\ UNCHANGED <<state, blocks, cache, creat, hist>>

-----------------------------------------------------------------------------
Next ==
  \/ Mount \/ Umount \/ Crash
  \/ \E i \in Inos : WriteInode(i) \/ WriteInodeFails(i)
  \/ \E b \in {"inodes", "dir"} : WriteBlock(b)
  \/ \E n \in Names :
       \/ Lookup(n) \/ LookupFailedRead(n) \/ DropDentry(n)
       \/ NewInode(n) \/ NewInodeFull(n)
  \/ AddLink \/ AddLinkFails \/ Instantiate
  \/ OpenDir \/ ReadDir \/ CloseDir

Spec == Init /\ [][Next]_vars

-----------------------------------------------------------------------------
(* Properties.                                                             *)

\* The names behave as MinfsStore says, whatever the order of writeback, cache
\* shrinking, creates, unmounts and crashes: no name is lost by an unmount, a
\* lookup is wrong only about a name whose block could not be read, and until
\* that happens no name is created that is already there.
Store == INSTANCE MinfsStore WITH
  MkfsNames <- {FirstName},
  names     <- NamesOf(buf.dir),
  stable    <- NamesOf(disk.dir),
  known     <- dcache,
  up        <- state # "down",
  faulty    <- ioerr

ImplementsStore == Store!SSpec

\* No name is in the directory twice, unless a read has failed.
NamesUnique ==
  ~ioerr => \A r, s \in Used(buf.dir) : buf.dir[r].name = buf.dir[s].name => r = s

\* The inode of every entry has been filled, in memory or in its block while the
\* file system is up, on the disk when it is not, but for the inodes that were
\* not on the disk yet when there was a crash and those whose write has failed
\* (minfs.c:435), which nothing makes dirty again.
InodesFilled ==
  \A s \in Used(buf.dir) :
    \/ buf.inodes[buf.dir[s].ino] = "set"
    \/ state # "down" /\ buf.dir[s].ino \in idirty \cup {cino}
    \/ buf.dir[s].ino \in lost

\* A listing that has come to its end has offered to dir_emit every name that
\* was there when it began, whatever has been created meanwhile; what dir_emit
\* has refused (minfs.c:181) is missing from it.
ListingComplete == rpos = MINFS_NUM_ENTRIES => missing \subseteq refused

\* minfs_new_inode gives a new file an inode no other file has (minfs.c:300
\* "Find first available inode").
InodesDistinct ==
  ~crashed /\ ~ioerr =>
    \A r, s \in Used(buf.dir) : buf.dir[r].ino = buf.dir[s].ino => r = s
=============================================================================
