------------------------------- MODULE Inode -------------------------------
(***************************************************************************)
(* The lower layers of kernel/fs.c as operators on the state s of the file *)
(* system: the block allocator, inodes and their contents, directories.    *)
(* s.used is the free bitmap, s.din the inodes on disk, s.ip the inode     *)
(* table by inode number, s.ent and s.ind what a block holds when it is    *)
(* part of a directory or an indirect block; the bytes of files are not    *)
(* tracked.  Sizes and offsets count directory entries: a block holds      *)
(* BSIZE of them.  What the cache holds of the disk counts as the disk     *)
(* (Bcache, Log).  s.panic is the message of the panic the kernel met.     *)
(* An operator leaves its result in s.ret, s.tot (entries written) or s.ok *)
(* (success), which mean nothing between the steps of FileSys.             *)
(***************************************************************************)
EXTENDS Naturals, Sequences, FiniteSets, FiniteSetsExt

CONSTANTS NINODES,    \* inode numbers are 1..NINODES
          NBLOCKS,    \* data blocks are 1..NBLOCKS; 0 is no block
          NINODE,     \* entries of the in-memory inode table
          BSIZE,      \* entries that fit in a block
          NDIRECT,    \* direct blocks of an inode
          NINDIRECT,  \* addresses in an indirect block
          Name        \* file names, "." and ".." apart

ASSUME InodeAssumption ==
  /\ {NINODES, NBLOCKS, NINODE, BSIZE, NDIRECT, NINDIRECT} \subseteq Nat \ {0}
  /\ Name \cap {".", "..", ""} = {}

Inum == 1..NINODES
Blk == 1..NBLOCKS
ROOTINO == 1
MAXFILE == NDIRECT + NINDIRECT

NoEnt == [name |-> "", inum |-> 0]
NoDinode == [type |-> "FREE", major |-> 0, nlink |-> 0, size |-> 0,
             addrs |-> [k \in 0..NDIRECT |-> 0]]
NoInode == [ref |-> 0, valid |-> FALSE, d |-> NoDinode]

Panic(s, why) == [s EXCEPT !.panic = why]

-----------------------------------------------------------------------------
(* Blocks.                                                                 *)

TakeBlock(s, b) ==
  [s EXCEPT !.used = @ \cup {b}, !.ret = b,
            !.ent[b] = [k \in 0..BSIZE-1 |-> NoEnt],
            !.ind[b] = [k \in 0..NINDIRECT-1 |-> 0]]

\* The lowest free block, zeroed; 0 when the disk is full.
balloc(s) ==
  IF s.used = Blk THEN [s EXCEPT !.ret = 0] ELSE TakeBlock(s, Min(Blk \ s.used))

\* bfree of every block of B.
bfree(s, B) ==
  IF B \subseteq s.used THEN [s EXCEPT !.used = @ \ B]
                        ELSE Panic(s, "freeing free block")

-----------------------------------------------------------------------------
(* Inodes and the inode table.                                             *)

iupdate(s, i) == [s EXCEPT !.din[i] = s.ip[i].d]

iget(s, i) ==
  IF s.ip[i].ref > 0 THEN [s EXCEPT !.ip[i].ref = @ + 1]
  ELSE IF Cardinality({j \in Inum : s.ip[j].ref > 0}) = NINODE
    THEN Panic(s, "iget: no inodes")
    ELSE [s EXCEPT !.ip[i] = [NoInode EXCEPT !.ref = 1]]

idup(s, i) == [s EXCEPT !.ip[i].ref = @ + 1]

\* ip->ref--; what an entry without references holds is of no consequence.
DropRef(s, i) ==
  [s EXCEPT !.ip[i] = IF @.ref = 1 THEN NoInode ELSE [@ EXCEPT !.ref = @ - 1]]

TakeInode(s, i, type) ==
  iget([s EXCEPT !.din[i] = [NoDinode EXCEPT !.type = type], !.ret = i], i)

\* The lowest free inode, marked allocated and referenced; 0 if there is none.
ialloc(s, type) ==
  LET free == {i \in Inum : s.din[i].type = "FREE"} IN
  IF free = {} THEN [s EXCEPT !.ret = 0] ELSE TakeInode(s, Min(free), type)

\* What ilock does once it has the sleep lock: read the inode from the disk.
ilock(s, i) ==
  IF s.ip[i].valid THEN s
  ELSE [s EXCEPT !.ip[i].valid = TRUE, !.ip[i].d = s.din[i],
                 !.panic = IF s.din[i].type = "FREE" THEN "ilock: no type" ELSE @]

-----------------------------------------------------------------------------
(* The contents of an inode.                                               *)

\* The block bn of the file of inode record d, 0 if it has none.
Addr(s, d, bn) ==
  IF bn < NDIRECT THEN d.addrs[bn]
  ELSE IF d.addrs[NDIRECT] = 0 THEN 0 ELSE s.ind[d.addrs[NDIRECT]][bn - NDIRECT]

\* The blocks an inode record d owns, its indirect block included.
BlocksOf(s, d) ==
  ({d.addrs[k] : k \in 0..NDIRECT} \cup
   {Addr(s, d, bn) : bn \in NDIRECT..MAXFILE-1}) \ {0}

\* addrs[k] = balloc() unless there is a block already.
StoreDirect(s, i, k) == [s EXCEPT !.ip[i].d.addrs[k] = s.ret]
AllocDirect(s, i, k) ==
  IF s.ip[i].d.addrs[k] # 0 THEN [s EXCEPT !.ret = s.ip[i].d.addrs[k]]
                            ELSE StoreDirect(balloc(s), i, k)

StoreIndirect(s, i, k) == [s EXCEPT !.ind[s.ip[i].d.addrs[NDIRECT]][k] = s.ret]
AllocIndirect(s, i, k) == IF s.ret = 0 THEN s ELSE StoreIndirect(balloc(s), i, k)

\* The block of bn, allocated if necessary; 0 if out of blocks.  An indirect
\* block stays when the block it should point to could not be had.
bmap(s, i, bn) ==
  IF Addr(s, s.ip[i].d, bn) # 0 THEN [s EXCEPT !.ret = Addr(s, s.ip[i].d, bn)]
  ELSE IF bn < NDIRECT THEN AllocDirect(s, i, bn)
  ELSE AllocIndirect(AllocDirect(s, i, NDIRECT), i, bn - NDIRECT)

\* Mutant of OwnBlocks: the indirect block itself is not freed.
OwnDataBlocks(s, i) == BlocksOf(s, s.ip[i].d) \ {s.ip[i].d.addrs[NDIRECT]}

\* What itrunc frees.
OwnBlocks(s, i) == BlocksOf(s, s.ip[i].d)

itrunc(s, i) ==
  iupdate([bfree(s, OwnBlocks(s, i)) EXCEPT
             !.ip[i].d.addrs = NoDinode.addrs, !.ip[i].d.size = 0], i)

\* How many entries readi delivers from offset off.
readi(s, i, off, n) ==
  IF off > s.ip[i].d.size THEN 0 ELSE Min({n, s.ip[i].d.size - off})

\* A turn of writei's loop once bmap has found the block of offset at; copying
\* from the user fails past the first good entries.
CopyIn(s, w, at, n, good) ==
  LET m == Min({n - s.tot, BSIZE - (at % BSIZE)}) IN
  IF s.ret = 0 \/ s.tot + m > good THEN [s EXCEPT !.ok = FALSE]
  ELSE [s EXCEPT !.tot = @ + m,
                 !.ent[s.ret] = [k \in 0..BSIZE-1 |->
                    IF k - (at % BSIZE) \in 0..m-1 THEN w ELSE @[k]]]

WriteTurn(s, i, w, off, n, good) ==
  IF ~s.ok \/ s.tot = n THEN s
  ELSE CopyIn(bmap(s, i, (off + s.tot) \div BSIZE), w, off + s.tot, n, good)

\* The size and the addresses are written back even if nothing was written.
WriteEnd(s, i, off) == iupdate([s EXCEPT !.ip[i].d.size = Max({@, off + s.tot})], i)

\* Entry w is written n times from offset off, in at most n turns.
WriteLoop(s, i, w, off, n, good) ==
  LET turn[k \in 0..n] ==
        IF k = 0 THEN [s EXCEPT !.tot = 0, !.ok = TRUE]
                 ELSE WriteTurn(turn[k - 1], i, w, off, n, good)
  IN WriteEnd(turn[n], i, off)

\* s.tot is what was written; -1 and 0 mean the same to every caller.
writei(s, i, w, off, n, good) ==
  IF off > s.ip[i].d.size \/ off + n > MAXFILE * BSIZE
    THEN [s EXCEPT !.tot = 0] ELSE WriteLoop(s, i, w, off, n, good)

-----------------------------------------------------------------------------
(* Directories.                                                            *)

\* Entry k of the directory of inode record d.
Ent(s, d, k) == s.ent[Addr(s, d, k \div BSIZE)][k % BSIZE]
Slots(d) == 0..d.size - 1
Named(s, d, name) ==
  {k \in Slots(d) : Ent(s, d, k).inum # 0 /\ Ent(s, d, k).name = name}

\* The inode number dirlookup finds, 0 if there is none; iget is the caller's.
dirlookup(s, dp, name) ==
  LET found == Named(s, s.ip[dp].d, name) IN
  IF found = {} THEN 0 ELSE Ent(s, s.ip[dp].d, Min(found)).inum

\* The offset of the first free slot, or the end of the directory.
FreeSlot(s, d) == Min({k \in Slots(d) : Ent(s, d, k).inum = 0} \cup {d.size})

\* s.ok is success.  A name that is there is looked up, which needs iget.
LinkEnd(s) == [s EXCEPT !.ok = (s.tot = 1)]
dirlink(s, dp, name, inum) ==
  IF dirlookup(s, dp, name) # 0
    THEN [s EXCEPT !.ok = FALSE, !.panic = iget(s, dirlookup(s, dp, name)).panic]
    ELSE LinkEnd(writei(s, dp, [name |-> name, inum |-> inum],
                        FreeSlot(s, s.ip[dp].d), 1, 1))

\* Slots 0 and 1 are "." and "..".
isdirempty(s, d) == \A k \in Slots(d) \ {0, 1} : Ent(s, d, k).inum = 0

-----------------------------------------------------------------------------
(* The image mkfs writes.                                                  *)

Blank == [used |-> {}, panic |-> "", ret |-> 0, tot |-> 0, ok |-> TRUE,
          din |-> [i \in Inum |-> NoDinode],
          ip  |-> [i \in Inum |-> NoInode],
          ent |-> [b \in Blk |-> [k \in 0..BSIZE-1 |-> NoEnt]],
          ind |-> [b \in Blk |-> [k \in 0..NINDIRECT-1 |-> 0]]]

\* mkfs edits inodes on disk: they are kept in ip here until the end.
mk_ialloc(s, i, type) ==
  iupdate([s EXCEPT !.ip[i].d = [NoDinode EXCEPT !.type = type, !.nlink = 1]], i)

\* freeblock++ is the lowest free block of an image nothing was freed in.
iappend(s, i, name, inum) ==
  writei(s, i, [name |-> name, inum |-> inum], s.ip[i].d.size, 1, 1)

\* The size of the root directory is rounded up, by at least one entry.
RoundRoot(s) ==
  [iupdate([s EXCEPT !.ip[ROOTINO].d.size = (@ \div BSIZE + 1) * BSIZE], ROOTINO)
     EXCEPT !.ip = Blank.ip, !.ret = 0, !.tot = 0]

\* A root directory with one empty file.
mkfs(file) ==
  RoundRoot(iappend(mk_ialloc(
    iappend(iappend(mk_ialloc(Blank, ROOTINO, "DIR"), ROOTINO, ".", ROOTINO),
            ROOTINO, "..", ROOTINO), 2, "FILE"), ROOTINO, file, 2))
=============================================================================
