----------------------------- MODULE FileIndex -----------------------------
(***************************************************************************)
(* The block index of a file (inode.c) and the free map it allocates from  *)
(* (free-map.c), as operators.  An index has one direct block (sp), a table *)
(* of PTRS blocks (ind) and a table of PTRS tables (din); the code's 129 is *)
(* INDIRECT.                                                               *)
(*                                                                         *)
(* An operator takes and returns a store: [used, disk, data], the sectors  *)
(* marked in the free map, the contents of all sectors and the inode_disk  *)
(* at work.  Contents are cells that hold a byte or a pointer.  The free   *)
(* map file always holds what the bitmap holds, and is left out; so is the *)
(* buffer cache, which module Cache shows to be invisible.                 *)
(***************************************************************************)
EXTENDS Integers, FiniteSets, FiniteSetsExt, Sequences, SequencesExt

CONSTANTS
  SECTOR_SIZE,  \* BLOCK_SECTOR_SIZE, 512
  PTRS,         \* the entries of struct index, 128
  NSECTORS      \* block_size (fs_device)

ASSUME FileIndexAssumption ==
  SECTOR_SIZE \in Nat \ {0} /\ PTRS \in Nat \ {0} /\ NSECTORS \in Nat \ {0, 1}

Sectors == 0 .. NSECTORS - 1
FREE_MAP_SECTOR == 0
ROOT_DIR_SECTOR == 1
INDIRECT == 1 + PTRS
Cells == 0 .. (IF SECTOR_SIZE > PTRS THEN SECTOR_SIZE ELSE PTRS) - 1
Zeros == [c \in Cells |-> 0]
inode_disk == [length : Nat, sp : Sectors, ind : Sectors, din : Sectors]

\* lo, lo + 1, ..., hi.
UpTo(lo, hi) == [k \in 1 .. hi - lo + 1 |-> lo + k - 1]

-----------------------------------------------------------------------------
\* Mutant: the sector is handed out and stays free.
free_map_allocate_unmarked(st) == st.used

\* free_map_allocate(1, &p): the first free sector is marked ...
free_map_allocate(st) ==
  LET free == Sectors \ st.used IN st.used \cup (IF free = {} THEN {} ELSE {Min(free)})

\* ... and stored in p, which keeps its old value when there is none.  No caller
\* in inode.c looks at the result.
allocated(st, old) ==
  LET free == Sectors \ st.used IN IF free = {} THEN old ELSE Min(free)

free_map_release(used, S) == used \ S

\* memset of a block from cell c to its end.
zero_from(st, s, c) ==
  [st EXCEPT !.disk[s] = [k \in Cells |-> IF k < c THEN @[k] ELSE 0]]

\* Entry k of table t gets a new sector, which is zeroed when it is a data block.
table_entry(st, t, k) ==
  [st EXCEPT !.used = free_map_allocate(st), !.disk[t][k] = allocated(st, @)]

data_entry(st, t, k) ==
  LET st1 == table_entry(st, t, k) IN zero_from(st1, st1.disk[t][k], 0)

\* Where byte pos is, -1 beyond the end of the file.
byte_to_sector(st, pos) ==
  LET b == pos \div SECTOR_SIZE
      d == b - INDIRECT
  IN  CASE pos >= st.data.length -> -1
        [] pos < st.data.length /\ b < 1 -> st.data.sp
        [] pos < st.data.length /\ b \in 1 .. INDIRECT - 1 -> st.disk[st.data.ind][b - 1]
        [] OTHER -> st.disk[st.disk[st.data.din][d \div PTRS]][d % PTRS]

-----------------------------------------------------------------------------
(***************************************************************************)
(* file_growth: length and current are its variables length and            *)
(* block_current, block the block of the new end of the file.              *)
(***************************************************************************)

\* The growth stays inside a block that is in use.  The code zeroes the pos -
\* length bytes after the old end, counting from the start of the block: this
\* leaves the block when pos < length, or when pos > length in a later block.
Overruns(length, pos, size) ==
  LET block == (pos + size) \div SECTOR_SIZE
  IN  /\ block = length \div SECTOR_SIZE /\ length % SECTOR_SIZE # 0
      /\ pos < length \/ (pos > length /\ block >= 1)

grow_within(st, length, pos) ==
  LET s == byte_to_sector(st, length)
  IN  [st EXCEPT !.disk[s] =
         [k \in Cells |-> IF k \in length .. pos - 1 THEN 0 ELSE @[k]]]

\* Mutant: the rest of the first block is not zeroed.
grow_first_dirty(st, length) ==
  IF length = 0 THEN [st EXCEPT !.used = free_map_allocate(st), !.data.sp = allocated(st, @)]
                ELSE st

\* The first block: allocated in an empty file, and zeroed from the old end.
grow_first(st, length) ==
  LET st1 == IF length = 0
               THEN [st EXCEPT !.used = free_map_allocate(st), !.data.sp = allocated(st, @)]
               ELSE st
  IN  IF length < SECTOR_SIZE THEN zero_from(st1, st1.data.sp, length) ELSE st1

\* Blocks under ind: zero the block the old end is in, allocate those after it.
grow_ind(st, length, current, block) ==
  LET inside == length % SECTOR_SIZE # 0
      st1 == IF inside
               THEN zero_from(st, st.disk[st.data.ind][current - 1], length % SECTOR_SIZE)
               ELSE st
  IN  FoldLeft(LAMBDA f, k : data_entry(f, f.data.ind, k - 1), st1,
               UpTo(IF inside THEN current + 1 ELSE current, block))

\* The file will go on under din: ind is filled up first.
fill_ind(st, length, current) ==
  IF length < INDIRECT * SECTOR_SIZE THEN grow_ind(st, length, current, INDIRECT - 1) ELSE st

\* din itself, and the rest of the block the old end is in.
grow_din(st, length, current) ==
  LET d == current - INDIRECT
      st1 == IF length = INDIRECT * SECTOR_SIZE
               THEN [st EXCEPT !.used = free_map_allocate(st), !.data.din = allocated(st, @)]
               ELSE st
  IN  IF length % SECTOR_SIZE = 0 THEN st1
        ELSE zero_from(st1, st1.disk[st1.disk[st1.data.din][d \div PTRS]][d % PTRS],
                       length % SECTOR_SIZE)

\* The tables under din: one when current is the first block of a table.  The
\* loop that should allocate the others runs mj - mi <= 0 times.
grow_tables(st, current, block) ==
  LET mj == (current - INDIRECT) \div PTRS
  IN  IF (current - INDIRECT) % PTRS = 0 THEN table_entry(st, st.data.din, mj) ELSE st

\* The blocks under those tables.
grow_blocks(st, current, block) ==
  FoldLeft(LAMBDA f, d : data_entry(f, f.disk[f.data.din][d \div PTRS], d % PTRS), st,
           UpTo(current - INDIRECT, block - INDIRECT))

file_growth(st, pos, size) ==
  LET end == pos + size
      block == end \div SECTOR_SIZE
      old == st.data.length
      st0 == [st EXCEPT !.data.length = end]
      \* after the first block
      length == IF old < SECTOR_SIZE THEN SECTOR_SIZE ELSE old
      current == length \div SECTOR_SIZE
      st1 == grow_first(st0, old)
      st2 == IF length = SECTOR_SIZE
               THEN [st1 EXCEPT !.used = free_map_allocate(st1), !.data.ind = allocated(st1, @)]
               ELSE st1
      \* after ind
      st3 == fill_ind(st2, length, current)
      length3 == IF length < INDIRECT * SECTOR_SIZE THEN INDIRECT * SECTOR_SIZE ELSE length
      current3 == length3 \div SECTOR_SIZE
      st4 == grow_din(st3, length3, current3)
      current4 == IF length3 % SECTOR_SIZE = 0 THEN current3 ELSE current3 + 1
  IN  IF block = old \div SECTOR_SIZE /\ old % SECTOR_SIZE # 0 THEN grow_within(st0, old, pos)
      ELSE IF end = SECTOR_SIZE THEN st1
      ELSE IF block < INDIRECT THEN grow_ind(st2, length, current, block)
      ELSE IF end = INDIRECT * SECTOR_SIZE THEN st3
      ELSE grow_blocks(grow_tables(st4, current4, block), current4, block)

-----------------------------------------------------------------------------
\* The sectors inode_delete releases.  Under ind it starts at the entry of the
\* last block instead of the first.
inode_delete(st) ==
  LET length == st.data.length
      current == length \div SECTOR_SIZE
      d == current - INDIRECT
      ind == st.disk[st.data.ind]
      din == st.disk[st.data.din]
  IN  {st.data.sp}
      \cup (IF current >= 1 /\ length # SECTOR_SIZE
              THEN {st.data.ind} \cup {ind[current + i - 1] : i \in 0 .. current - 1} ELSE {})
      \cup (IF current >= INDIRECT /\ length # INDIRECT * SECTOR_SIZE
              THEN {st.data.din} \cup {din[i] : i \in 0 .. d \div PTRS}
                   \cup {st.disk[din[j \div PTRS]][j % PTRS] : j \in 0 .. d}
              ELSE {})
=============================================================================
