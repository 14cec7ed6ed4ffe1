-------------------------------- MODULE Sfs --------------------------------
(***************************************************************************)
(* The Simple File System of lab8 under its open files: the block map, the *)
(* free map and the in-memory inodes of kern/fs/sfs/sfs_inode.c, the block *)
(* transfers of sfs_io.c, the reference and open counts of                 *)
(* kern/fs/vfs/inode.c, and the operations of kern/fs/file.c and           *)
(* vfs/vfsfile.c that reach them.                                          *)
(*                                                                         *)
(* The disk is a RAM disk whose transfers neither sleep nor fail, and the  *)
(* kernel is not preempted, so every file operation is one step.  A cell   *)
(* is a word of a block: user data in a data block, a block number in an   *)
(* indirect block.  File operations come from system calls that move at    *)
(* most IOBUF_SIZE = SFS_BLKSIZE at a time.  The files exist on the disk   *)
(* from the start, since SFS can neither create nor remove one.            *)
(*                                                                         *)
(* A failed assertion or panic() stops the kernel: `panic' names it.       *)
(***************************************************************************)
EXTENDS Integers, Sequences, FiniteSets, FiniteSetsExt

CONSTANTS
  Files,
  Handles,            \* the slots of open-file tables (struct file)
  None,
  SFS_BLKSIZE,        \* cells in a block
  SFS_NDIRECT,
  SFS_MAX_FILE_SIZE,  \* in cells
  NBlocks,            \* super.blocks
  Marks,              \* the values user data takes, none of them 0
  MaxLost,            \* bound on the references that vfs_open loses
  WholeBlocks         \* whether requests may cover a whole block

Blocks == 0 .. NBlocks - 1
SFS_BLK_NENTRY == SFS_BLKSIZE

\* The superblock, the root directory's inode, the free map, and the inodes of
\* the files.
Reserved == 0 .. 2 + Cardinality(Files)

\* Inodes on the disk (struct sfs_disk_inode), inodes in memory and open files.
DiskInode == [size : Nat, blocks : Nat, direct : [0 .. SFS_NDIRECT - 1 -> Blocks], indirect : Blocks]
MemInode == [din : DiskInode, dirty : BOOLEAN, ref : Nat, open : Nat]
OpenFile == [node : Files, pos : Nat]

ASSUME SfsAssumption ==
  /\ SFS_BLKSIZE \in Nat \ {0} /\ SFS_NDIRECT \in Nat \ {0}
  /\ SFS_MAX_FILE_SIZE \in Nat /\ NBlocks \in Nat /\ WholeBlocks \in BOOLEAN
  /\ IsFiniteSet(Files) /\ Files # {} /\ IsFiniteSet(Handles) /\ Reserved \subseteq Blocks
  /\ 0 \notin Marks /\ None \notin MemInode \cup OpenFile

VARIABLES
  freemap,  \* the blocks marked free in sfs->freemap
  others,   \* the data blocks of files that nobody opens
  disk,     \* the contents of the disk blocks other than inodes
  dinode,   \* the inode of each file on the disk
  sin,      \* per file the inode in memory, None when it is not there
  file,     \* per handle what it has open, None: FD_NONE
  panic     \* the assertion that has failed, "" when none has

vars == <<freemap, others, disk, dinode, sin, file, panic>>

ZeroBlock == [i \in 0 .. SFS_BLKSIZE - 1 |-> 0]

\* A struct sfs_disk_inode of an empty file.
EmptyInode ==
  [size |-> 0, blocks |-> 0, direct |-> [i \in 0 .. SFS_NDIRECT - 1 |-> 0], indirect |-> 0]

Init ==
  /\ \E n \in 0 .. Cardinality(Blocks \ Reserved) : others = NBlocks - n .. NBlocks - 1
  /\ freemap = Blocks \ (Reserved \cup others)
  /\ disk = [b \in Blocks |-> ZeroBlock]
  /\ dinode = [f \in Files |-> EmptyInode]
  /\ sin = [f \in Files |-> None]
  /\ file = [h \in Handles |-> None]
  /\ panic = ""

-----------------------------------------------------------------------------
(***************************************************************************)
(* The block map.  The functions of sfs_inode.c work on a record st: the   *)
(* free map, the disk, the file's inode and its dirty bit, the block last  *)
(* found or allocated (ino), what was moved (alen, got), and ret: "ok", an *)
(* error, or the assertion that fails.                                     *)
(***************************************************************************)
Start(s) == [free |-> freemap, disk |-> disk, din |-> s.din, dirty |-> s.dirty,
             ino |-> 0, alen |-> 0, got |-> <<>>, ret |-> "ok"]

Errors == {"E_NO_MEM", "E_INVAL"}
Panicked(st) == st.ret \notin Errors \cup {"ok"}

Ceil(n) == (n + SFS_BLKSIZE - 1) \div SFS_BLKSIZE

\* The first block marked free.
bitmap_alloc(free) == Min(free)

(***************************************************************************)
(* Operators named M_... are deliberate bugs: each is the mutated form of  *)
(* the definition that follows it and occurs nowhere in the specification. *)
(***************************************************************************)
\* The block is handed out as its last owner left it.
M_sfs_block_alloc(st) ==
  IF st.free = {} THEN [st EXCEPT !.ret = "E_NO_MEM"]
  ELSE LET b == bitmap_alloc(st.free)
       IN  [st EXCEPT !.free = @ \ {b}, !.ino = b]

\* sfs_block_alloc: a free block, cleared.
sfs_block_alloc(st) ==
  IF st.free = {} THEN [st EXCEPT !.ret = "E_NO_MEM"]
  ELSE LET b == bitmap_alloc(st.free)
       IN  [st EXCEPT !.free = @ \ {b}, !.disk[b] = ZeroBlock, !.ino = b]

\* The new indirect block is not given back when there is no second block.
M_sub_create(st, i) ==
  LET ent  == st.din.indirect
      e    == IF ent = 0 THEN sfs_block_alloc(st) ELSE [st EXCEPT !.ino = ent]
      b    == sfs_block_alloc(e)
  IN  CASE e.ret # "ok" -> e
        [] e.ret = "ok" /\ b.ret # "ok" -> b
        [] OTHER -> [b EXCEPT !.disk[e.ino][i] = b.ino, !.din.indirect = e.ino,
                              !.dirty = @ \/ ent = 0]

\* The creating half of sfs_bmap_get_sub_nolock: a block, and first an indirect
\* block when there is none yet, which is given back if the block cannot be had.
sub_create(st, i) ==
  LET ent  == st.din.indirect
      e    == IF ent = 0 THEN sfs_block_alloc(st) ELSE [st EXCEPT !.ino = ent]
      b    == sfs_block_alloc(e)
  IN  CASE e.ret # "ok" -> e
        [] e.ret = "ok" /\ b.ret # "ok" -> [b EXCEPT !.free = IF ent = 0 THEN @ \cup {e.ino} ELSE @]
        [] OTHER -> [b EXCEPT !.disk[e.ino][i] = b.ino, !.din.indirect = e.ino,
                              !.dirty = @ \/ ent = 0]

sfs_bmap_get_sub_nolock(st, i, create) ==
  LET ent == st.din.indirect
      ino == IF ent = 0 THEN 0 ELSE st.disk[ent][i]
  IN  IF ino = 0 /\ create THEN sub_create(st, i) ELSE [st EXCEPT !.ino = ino]

\* The direct slots.
direct_get(st, index, create) ==
  LET b == sfs_block_alloc(st)
  IN  CASE st.din.direct[index] # 0 \/ ~create -> [st EXCEPT !.ino = st.din.direct[index]]
        [] st.din.direct[index] = 0 /\ create /\ b.ret # "ok" -> b
        [] OTHER -> [b EXCEPT !.din.direct[index] = b.ino, !.dirty = TRUE]

sfs_bmap_get_nolock(st, index, create) ==
  CASE index < SFS_NDIRECT -> direct_get(st, index, create)
    [] index - SFS_NDIRECT \in 0 .. SFS_BLK_NENTRY - 1 ->
         sfs_bmap_get_sub_nolock(st, index - SFS_NDIRECT, create)
    [] OTHER -> [st EXCEPT !.ret = "index_out_of_range"]

\* sfs_bmap_load_nolock: the disk block of block `index' of the file, a new one
\* just behind the last.
sfs_bmap_load_nolock(st, index) ==
  LET create == index = st.din.blocks
      g == sfs_bmap_get_nolock(st, index, create)
      found == st.ret = "ok" /\ index <= st.din.blocks /\ g.ret = "ok"
  IN  CASE st.ret # "ok" -> st
        [] st.ret = "ok" /\ index > st.din.blocks -> [st EXCEPT !.ret = "index_beyond_blocks"]
        [] found /\ g.ino = 0 -> [st EXCEPT !.ret = "block_out_of_range"]
        [] found /\ g.ino # 0 /\ create -> [g EXCEPT !.din.blocks = @ + 1]
        [] OTHER -> g

\* sfs_bmap_truncate_nolock: free the last block of the file.  The indirect block
\* stays.
sfs_bmap_truncate_nolock(st) ==
  LET ent   == st.din.indirect
      index == st.din.blocks - 1
      i     == index - SFS_NDIRECT
      ino == IF index < SFS_NDIRECT THEN st.din.direct[index]
             ELSE IF ent # 0 THEN st.disk[ent][i] ELSE 0
  IN  [st EXCEPT !.free = IF ino = 0 THEN @ ELSE @ \cup {ino},
                 !.din.direct = IF index < SFS_NDIRECT THEN [@ EXCEPT ![index] = 0] ELSE @,
                 !.disk = IF index >= SFS_NDIRECT /\ ent # 0 THEN [@ EXCEPT ![ent][i] = 0] ELSE @,
                 !.din.blocks = @ - 1,
                 !.dirty = TRUE]

\* The loops of sfs_truncfile, n times.
grow(st, n) ==
  LET g[k \in 0 .. n] == IF k = 0 THEN st
                         ELSE sfs_bmap_load_nolock(g[k - 1], st.din.blocks + k - 1)
  IN  g[n]

shrink(st, n) ==
  LET s[k \in 0 .. n] == IF k = 0 THEN st ELSE sfs_bmap_truncate_nolock(s[k - 1])
  IN  s[n]

sfs_truncfile(st, len) ==
  LET nblks == st.din.blocks
      tblks == Ceil(len)
      r == IF nblks < tblks THEN grow(st, tblks - nblks) ELSE shrink(st, nblks - tblks)
  IN  CASE st.din.size = len /\ tblks = nblks -> st
        [] st.din.size = len /\ tblks # nblks -> [st EXCEPT !.ret = "blocks_differ"]
        [] st.din.size # len /\ r.ret # "ok" -> r
        [] OTHER -> [r EXCEPT !.din.size = len, !.dirty = TRUE]

-----------------------------------------------------------------------------
\* The pieces sfs_io_nolock cuts a request into: the rest of the first block, a
\* block as a whole, the beginning of the last block.  One of length 0 is skipped.
Pieces(offset, endpos) ==
  LET blkno  == offset \div SFS_BLKSIZE
      nblks  == endpos \div SFS_BLKSIZE - blkno
      blkoff == offset % SFS_BLKSIZE
      skip   == IF blkoff # 0 THEN 1 ELSE 0
      head   == [blk |-> blkno, off |-> blkoff, whole |-> FALSE,
                 n |-> CASE blkoff = 0 -> 0
                         [] blkoff # 0 /\ nblks # 0 -> SFS_BLKSIZE - blkoff
                         [] OTHER -> endpos - offset]
      whole  == [blk |-> blkno + skip, off |-> 0, whole |-> TRUE,
                 n |-> IF nblks - skip > 0 THEN SFS_BLKSIZE ELSE 0]
      tail   == [blk |-> blkno + nblks, off |-> 0, whole |-> FALSE,
                 n |-> IF blkoff # 0 /\ nblks = 0 THEN 0 ELSE endpos % SFS_BLKSIZE]
  IN  [head |-> head, whole |-> whole, tail |-> tail]

\* The disk block a piece is moved from or to, when block `piece.blk' of the
\* file is the disk block ino.
Target(piece, ino) == IF piece.whole THEN piece.blk ELSE ino

\* The copy starts at the beginning of the block.
M_ReadPiece(st, piece) ==
  LET l == sfs_bmap_load_nolock(st, piece.blk)
      b == Target(piece, l.ino)
  IN  CASE piece.n = 0 -> st
        [] piece.n # 0 /\ l.ret # "ok" -> l
        [] piece.n # 0 /\ l.ret = "ok" /\ b = 0 -> [l EXCEPT !.ret = "blkno_is_0"]
        [] OTHER -> [l EXCEPT !.got = @ \o [k \in 1 .. piece.n |-> l.disk[b][k - 1]],
                              !.alen = @ + piece.n]

\* One piece of a request: load its block, then copy.
ReadPiece(st, piece) ==
  LET l == sfs_bmap_load_nolock(st, piece.blk)
      b == Target(piece, l.ino)
  IN  CASE piece.n = 0 -> st
        [] piece.n # 0 /\ l.ret # "ok" -> l
        [] piece.n # 0 /\ l.ret = "ok" /\ b = 0 -> [l EXCEPT !.ret = "blkno_is_0"]
        [] OTHER -> [l EXCEPT !.got = @ \o [k \in 1 .. piece.n |-> l.disk[b][piece.off + k - 1]],
                              !.alen = @ + piece.n]

WritePiece(v, st, piece) ==
  LET l == sfs_bmap_load_nolock(st, piece.blk)
      b == Target(piece, l.ino)
  IN  CASE piece.n = 0 -> st
        [] piece.n # 0 /\ l.ret # "ok" -> l
        [] piece.n # 0 /\ l.ret = "ok" /\ b = 0 -> [l EXCEPT !.ret = "blkno_is_0"]
        [] OTHER -> [l EXCEPT !.disk[b] = [i \in 0 .. SFS_BLKSIZE - 1 |->
                                IF i \in piece.off .. piece.off + piece.n - 1 THEN v ELSE l.disk[b][i]],
                              !.alen = @ + piece.n]

\* All three pieces, moved one after the other.
AllPieces(Move(_, _), st, p) == Move(Move(Move(st, p.head), p.whole), p.tail)

\* The end of sfs_io_nolock: the file has grown to where the transfer got.
Grown(st, offset) ==
  IF offset + st.alen > st.din.size
  THEN [st EXCEPT !.din.size = offset + st.alen, !.dirty = TRUE]
  ELSE st

\* sfs_io_nolock
sfs_read(st, offset, len) ==
  LET endpos == Min({offset + len, SFS_MAX_FILE_SIZE, st.din.size})
  IN  CASE offset >= SFS_MAX_FILE_SIZE -> [st EXCEPT !.ret = "E_INVAL"]
        [] offset < SFS_MAX_FILE_SIZE /\ offset >= st.din.size -> st
        [] OTHER -> Grown(AllPieces(ReadPiece, st, Pieces(offset, endpos)), offset)

sfs_write(st, offset, len, v) ==
  LET endpos == Min({offset + len, SFS_MAX_FILE_SIZE})
  IN  IF offset >= SFS_MAX_FILE_SIZE
      THEN [st EXCEPT !.ret = "E_INVAL"]
      ELSE Grown(AllPieces(LAMBDA s, p : WritePiece(v, s, p), st, Pieces(offset, endpos)), offset)

-----------------------------------------------------------------------------
Running == panic = ""

\* The outcome st of an operation on file f, whose inode is otherwise s.
Commit(f, s, st) ==
  /\ freemap' = st.free
  /\ disk' = st.disk
  /\ sin' = [sin EXCEPT ![f] = [s EXCEPT !.din = st.din, !.dirty = st.dirty]]
  /\ UNCHANGED <<others, dinode>>

\* A failed assertion stops everything where it was.
Halt(st) ==
  /\ panic' = st.ret
  /\ UNCHANGED <<freemap, others, disk, dinode, sin, file>>

\* sfs_load_inode with lookup_sfs_nolock: the inode with one more reference.
Loaded(f) ==
  IF sin[f] = None THEN [din |-> dinode[f], dirty |-> FALSE, ref |-> 1, open |-> 0]
  ELSE [sin[f] EXCEPT !.ref = @ + 1]

\* file_open of a file that exists: vfs_open opens it, empties it when O_TRUNC or
\* O_CREAT is given, and the position is 0, or the end with O_APPEND.
file_open(h, f, mode) ==
  LET s  == [Loaded(f) EXCEPT !.open = @ + 1]
      st == IF mode = "trunc" THEN sfs_truncfile(Start(s), 0) ELSE Start(s)
  IN  /\ Running
      /\ file[h] = None
      /\ IF Panicked(st) THEN Halt(st)
         ELSE /\ Commit(f, s, st)
              /\ file' = [file EXCEPT ![h] =
                            [node |-> f, pos |-> IF mode = "append" THEN st.din.size ELSE 0]]
              /\ UNCHANGED panic

\* How many references belong to no handle; MaxLost bounds them.
Lost(f) == IF sin[f] = None THEN 0 ELSE sin[f].ref - sin[f].open
MayLose == MapThenSumSet(Lost, Files) < MaxLost

\* file_open with O_CREAT and O_EXCL: vfs_open returns -E_EXISTS and keeps the
\* reference it got from vfs_lookup.
file_open_excl(f) ==
  /\ Running
  /\ MayLose
  /\ sin' = [sin EXCEPT ![f] = Loaded(f)]
  /\ UNCHANGED <<freemap, others, disk, dinode, file, panic>>

\* sfs_fsync on x, an inode in memory and its copy on the disk.
sfs_fsync(x) ==
  [s |-> [x.s EXCEPT !.dirty = FALSE], d |-> IF x.s.dirty THEN x.s.din ELSE x.d]

\* The last close does not write the inode.
M_sfs_close(x) == x

sfs_close(x) == sfs_fsync(x)

\* sfs_reclaim: nobody refers to the inode; it is written if it is dirty, and
\* leaves the memory.  (All the files have links.)
sfs_reclaim(x) == [s |-> None, d |-> sfs_fsync(x).d]

inode_open_dec(x) ==
  LET y == [x EXCEPT !.s.open = @ - 1] IN IF y.s.open = 0 THEN sfs_close(y) ELSE y

inode_ref_dec(x) ==
  LET y == [x EXCEPT !.s.ref = @ - 1] IN IF y.s.ref = 0 THEN sfs_reclaim(y) ELSE y

vfs_close(x) == inode_ref_dec(inode_open_dec(x))

\* file_close with fd_array_close and fd_array_free.
file_close(h) ==
  /\ Running
  /\ file[h] # None
  /\ LET f == file[h].node
         x == vfs_close([s |-> sin[f], d |-> dinode[f]])
     IN  dinode' = [dinode EXCEPT ![f] = x.d] /\ sin' = [sin EXCEPT ![f] = x.s]
  /\ file' = [file EXCEPT ![h] = None]
  /\ UNCHANGED <<freemap, others, disk, panic>>

\* The duplicate is not counted as an opening.
M_fd_array_dup(s) == [s EXCEPT !.ref = @ + 1]

\* What fd_array_dup does to the inode.
fd_array_dup(s) == [s EXCEPT !.ref = @ + 1, !.open = @ + 1]

\* file_dup, and what dup_files does for each open file at fork: the copy has a
\* position of its own.
file_dup(h, h2) ==
  /\ Running
  /\ file[h] # None /\ file[h2] = None
  /\ file' = [file EXCEPT ![h2] = file[h]]
  /\ sin' = [sin EXCEPT ![file[h].node] = fd_array_dup(@)]
  /\ UNCHANGED <<freemap, others, disk, dinode, panic>>

\* file_read and file_write.
file_read(h, len) ==
  /\ Running
  /\ file[h] # None
  /\ LET f  == file[h].node
         st == sfs_read(Start(sin[f]), file[h].pos, len)
     IN  IF Panicked(st) THEN Halt(st)
         ELSE /\ Commit(f, sin[f], st)
              /\ file' = [file EXCEPT ![h].pos = @ + st.alen]
              /\ UNCHANGED panic

file_write(h, len, v) ==
  /\ Running
  /\ file[h] # None
  /\ LET f  == file[h].node
         st == sfs_write(Start(sin[f]), file[h].pos, len, v)
     IN  IF Panicked(st) THEN Halt(st)
         ELSE /\ Commit(f, sin[f], st)
              /\ file' = [file EXCEPT ![h].pos = @ + st.alen]
              /\ UNCHANGED panic

\* sfs_tryseek: a position behind the end lengthens the file.
sfs_tryseek(st, pos) == IF pos > st.din.size THEN sfs_truncfile(st, pos) ELSE st

\* file_seek
file_seek(h, pos) ==
  /\ Running
  /\ file[h] # None
  /\ LET f  == file[h].node
         st == sfs_tryseek(Start(sin[f]), pos)
     IN  IF Panicked(st) THEN Halt(st)
         ELSE /\ Commit(f, sin[f], st)
              /\ file' = [file EXCEPT ![h].pos = IF st.ret = "ok" THEN pos ELSE @]
              /\ UNCHANGED panic

\* file_fsync
file_fsync(h) ==
  /\ Running
  /\ file[h] # None
  /\ LET f == file[h].node
         x == sfs_fsync([s |-> sin[f], d |-> dinode[f]])
     IN  dinode' = [dinode EXCEPT ![f] = x.d] /\ sin' = [sin EXCEPT ![f] = x.s]
  /\ UNCHANGED <<freemap, others, disk, file, panic>>

\* __panic shuts the machine down.
shutdown == ~Running /\ UNCHANGED vars

\* The request lengths that are tried: sysfile_read and sysfile_write move a
\* long request in pieces of IOBUF_SIZE.
Lengths(pos) == {n \in 1..SFS_BLKSIZE : WholeBlocks \/ n < SFS_BLKSIZE \/ pos % SFS_BLKSIZE # 0}

Next ==
  \/ \E h \in Handles, f \in Files, mode \in {"plain", "trunc", "append"} : file_open(h, f, mode)
  \/ \E f \in Files : file_open_excl(f)
  \/ \E h \in Handles : file_close(h)
  \/ \E h, h2 \in Handles : file_dup(h, h2)
  \/ \E h \in Handles : file[h] # None /\ \E n \in Lengths(file[h].pos) : file_read(h, n)
  \/ \E h \in Handles, v \in Marks :
       file[h] # None /\ \E n \in Lengths(file[h].pos) : file_write(h, n, v)
  \/ \E h \in Handles, pos \in 0 .. SFS_MAX_FILE_SIZE - 1 : file_seek(h, pos)
  \/ \E h \in Handles : file_fsync(h)
  \/ shutdown

Spec == Init /\ [][Next]_vars

-----------------------------------------------------------------------------
\* The inode of a file, in memory or on the disk.
Din(f) == IF sin[f] # None THEN sin[f].din ELSE dinode[f]

\* The disk block behind block k of a file with inode d, 0 when there is none.
BlockOf(d, k) ==
  IF k < SFS_NDIRECT THEN d.direct[k]
  ELSE IF d.indirect = 0 THEN 0 ELSE disk[d.indirect][k - SFS_NDIRECT]

\* The contents of the file that inode d describes.
Contents(d) ==
  [i \in 1 .. d.size |->
     LET b == BlockOf(d, (i - 1) \div SFS_BLKSIZE)
     IN  IF b = 0 THEN 0 ELSE disk[b][(i - 1) % SFS_BLKSIZE]]

Store == INSTANCE FileStore WITH
  data <- [f \in Files |-> Contents(Din(f))],
  Cells <- Marks, MaxLength <- SFS_MAX_FILE_SIZE, MaxWrite <- SFS_BLKSIZE

\* Sfs implements FileStore, step by step: whatever the order of opens, writes,
\* seeks and truncations through several handles, on a disk that fills up and
\* whose blocks are freed and used again, a write changes the cells it covers in
\* its own file and nothing else, and cells never written are zero.
StoreSpec == Store!Spec

\* What a read through any handle would return now are the file's cells at the
\* handle's position, up to the end of the file.
ReadsTrue ==
  \A h \in Handles : Running /\ file[h] # None =>
    LET f == file[h].node
        s == Contents(Din(f))
    IN  \A n \in Lengths(file[h].pos) :
          LET st == sfs_read(Start(sin[f]), file[h].pos, n)
          IN  st.ret = "ok" => st.got = SubSeq(s, file[h].pos + 1, Min({file[h].pos + n, Len(s)}))

\* The blocks an inode refers to, with the place that does.
Slots(f) ==
  LET d == Din(f)
  IN  {s \in {<<f, "direct", i, d.direct[i]>> : i \in DOMAIN d.direct}
             \cup {<<f, "indirect", 0, d.indirect>>}
             \cup (IF d.indirect = 0 THEN {}
                   ELSE {<<f, "entry", i, disk[d.indirect][i]>> : i \in DOMAIN disk[d.indirect]}) :
         s[4] # 0}

\* Every block is reserved, or free, or in exactly one place of one file: no
\* block is shared, handed out twice, freed while in use, or lost, also when an
\* allocation fails half way.
BlocksExact ==
  LET slots == UNION {Slots(f) : f \in Files}
      used  == {s[4] : s \in slots}
  IN  /\ Cardinality(used) = Cardinality(slots)
      /\ used \cap (freemap \cup others \cup Reserved) = {}
      /\ used \cup freemap \cup others \cup Reserved = Blocks

\* An inode is in memory as long as a handle refers to it, open_count counts
\* these handles, and ref_count >= open_count (inode_check's assertion).
CountsExact ==
  \A f \in Files :
    LET n == Cardinality({h \in Handles : file[h] # None /\ file[h].node = f})
    IN  IF sin[f] = None THEN n = 0 ELSE sin[f].open = n /\ sin[f].ref >= n

\* A file that nobody has open is on the disk as it was left: its inode there
\* yields the same contents as the one that may still be in memory.
ClosedIsSaved ==
  \A f \in Files : (sin[f] # None => sin[f].open = 0) => Contents(dinode[f]) = Contents(Din(f))
=============================================================================
