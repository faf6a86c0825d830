------------------------------- MODULE Inode -------------------------------
(***************************************************************************)
(* Inodes (inode.c) and open files (file.c).  An inode in use has a copy   *)
(* in memory, shared by its openers, that reaches the disk when the last   *)
(* of them closes it; an inode that is removed keeps its blocks until then.*)
(*                                                                         *)
(* Every call is one step: the callers in syscall.c hold file_lock, and    *)
(* inode_open and inode_close take it themselves.  Directories are reduced *)
(* to the set of inodes that have an entry.                                *)
(***************************************************************************)
EXTENDS FileIndex

CONSTANTS
  Files,             \* the struct file a caller can have
  Values,            \* the bytes that are written, besides 0
  Sizes,             \* the sizes of writes and of new files
  Positions,         \* the positions of writes, besides appends
  MaxLength,         \* bound on the length of a file
  MaxRemoved,        \* bound on the length of a file that is removed
  MaxCalls,          \* bound on the number of inode_create and inode_write_at
  Reserve            \* callers grow files only while so many sectors are free

ASSUME InodeAssumption ==
  /\ IsFiniteSet(Files)
  /\ Sizes \subseteq Nat /\ Positions \subseteq 0 .. MaxLength /\ Values \subseteq Nat
  /\ MaxLength \in Nat /\ MaxRemoved \in Nat /\ MaxCalls \in Nat /\ Reserve \in Nat

VARIABLES
  used, disk,    \* the free map and the contents of the sectors
  on_disk,       \* the sectors' contents as struct inode_disk
  open_inodes,   \* struct inode, by sector
  files,         \* struct file
  named,         \* the inodes that have a directory entry
  calls          \* number of inode_create and inode_write_at

vars == <<used, disk, on_disk, open_inodes, files, named, calls>>

NoInode == [length |-> 0, sp |-> 0, ind |-> 0, din |-> 0]
NotOpen == [open_cnt |-> 0, removed |-> FALSE, deny_write_cnt |-> 0, data |-> NoInode]
NoFile == [inode |-> -1, deny_write |-> FALSE]
struct_inode == [open_cnt : Nat, removed : BOOLEAN, deny_write_cnt : Nat, data : inode_disk]
struct_file == [inode : Sectors, deny_write : BOOLEAN]

IsOpen(s) == open_inodes[s].open_cnt > 0
OpenFiles == {f \in Files : files[f] # NoFile}
\* The inodes whose blocks are in use.
Inodes == named \cup {s \in Sectors : IsOpen(s)}
data(s) == IF IsOpen(s) THEN open_inodes[s].data ELSE on_disk[s]
Store(d) == [used |-> used, disk |-> disk, data |-> d]

\* Every variable has its type.
TypeOK ==
  /\ used \subseteq Sectors
  /\ disk \in [Sectors -> [Cells -> Nat]]
  /\ on_disk \in [Sectors -> inode_disk]
  /\ open_inodes \in [Sectors -> struct_inode]
  /\ files \in [Files -> struct_file \cup {NoFile}]
  /\ named \subseteq Sectors /\ calls \in 0 .. MaxCalls

\* A formatted disk; the root directory is not one of the files.
Init ==
  /\ used = {FREE_MAP_SECTOR, ROOT_DIR_SECTOR}
  /\ disk = [s \in Sectors |-> Zeros]
  /\ on_disk = [s \in Sectors |-> NoInode]
  /\ open_inodes = [s \in Sectors |-> NotOpen]
  /\ files = [f \in Files |-> NoFile]
  /\ named = {} /\ calls = 0

Room == Cardinality(Sectors \ used) >= Reserve

-----------------------------------------------------------------------------
\* filesys_create: a sector for the inode, inode_create (which allocates the
\* blocks by growing an empty inode and always returns true), dir_add.
inode_create(length) ==
  /\ calls < MaxCalls /\ Room
  /\ Sectors \ used # {}
  /\ LET s == allocated(Store(NoInode), 0)
         st == file_growth([Store(NoInode) EXCEPT !.used = free_map_allocate(Store(NoInode))],
                           0, length)
     IN  /\ used' = st.used /\ disk' = st.disk
         /\ on_disk' = [on_disk EXCEPT ![s] = st.data]
         /\ named' = named \cup {s}
  /\ calls' = calls + 1
  /\ UNCHANGED <<open_inodes, files>>

\* The inodes after one more open of s; inode_reopen when s is open.
inode_open(inodes, s) ==
  LET i == inodes[s]
  IN  [inodes EXCEPT ![s] = IF i.open_cnt > 0 THEN [i EXCEPT !.open_cnt = @ + 1]
                            ELSE [NotOpen EXCEPT !.open_cnt = 1, !.data = on_disk[s]]]

\* inode_close, inodes being the inodes in memory: the last close writes the inode
\* to disk, and frees its blocks if it has been removed.
inode_close(inodes, s) ==
  LET i == inodes[s]
  IN  /\ open_inodes' = [inodes EXCEPT ![s] =
                           IF i.open_cnt = 1 THEN NotOpen ELSE [i EXCEPT !.open_cnt = @ - 1]]
      /\ on_disk' = IF i.open_cnt = 1 THEN [on_disk EXCEPT ![s] = i.data] ELSE on_disk
      /\ used' = IF i.open_cnt = 1 /\ i.removed
                   THEN free_map_release(used, inode_delete(Store(i.data)) \cup {s}) ELSE used

\* dir_remove: the entry goes, the inode is opened, marked and closed.
inode_remove(s) ==
  /\ s \in named /\ data(s).length <= MaxRemoved
  /\ named' = named \ {s}
  /\ inode_close([inode_open(open_inodes, s) EXCEPT ![s].removed = TRUE], s)
  /\ UNCHANGED <<disk, files, calls>>

-----------------------------------------------------------------------------
file_open(f, s) ==
  /\ files[f] = NoFile /\ s \in named
  /\ files' = [files EXCEPT ![f] = [NoFile EXCEPT !.inode = s]]
  /\ open_inodes' = inode_open(open_inodes, s)
  /\ UNCHANGED <<used, disk, on_disk, named, calls>>

\* file_reopen(file) with the new struct file f.
file_reopen(f, file) ==
  /\ files[f] = NoFile /\ file \in OpenFiles
  /\ files' = [files EXCEPT ![f] = [NoFile EXCEPT !.inode = files[file].inode]]
  /\ open_inodes' = inode_open(open_inodes, files[file].inode)
  /\ UNCHANGED <<used, disk, on_disk, named, calls>>

\* Mutant: writes are allowed again by files that did not deny them.
file_allow_write_always(inodes, f) == [inodes EXCEPT ![files[f].inode].deny_write_cnt = @ - 1]

\* Mutant: a close leaves the inode denied.
file_allow_write_never(inodes, f) == inodes

\* file_allow_write: the inodes after f no longer denies writes.
file_allow_write(inodes, f) ==
  IF files[f].deny_write
    THEN [inodes EXCEPT ![files[f].inode].deny_write_cnt = @ - 1] ELSE inodes

file_close(f) ==
  /\ f \in OpenFiles
  /\ files' = [files EXCEPT ![f] = NoFile]
  /\ inode_close(file_allow_write(open_inodes, f), files[f].inode)
  /\ UNCHANGED <<disk, named, calls>>

file_deny_write(f) ==
  /\ f \in OpenFiles /\ ~files[f].deny_write
  /\ files' = [files EXCEPT ![f].deny_write = TRUE]
  /\ open_inodes' = [open_inodes EXCEPT ![files[f].inode].deny_write_cnt = @ + 1]
  /\ UNCHANGED <<used, disk, on_disk, named, calls>>

\* The bytes inode_read_at copies: up to the end of the file.
inode_read_at(s, size, offset) ==
  LET st == Store(data(s))
      left == st.data.length - offset
  IN  [k \in 1 .. (IF size < left THEN size ELSE left) |->
         disk[byte_to_sector(st, offset + k - 1)][(offset + k - 1) % SECTOR_SIZE]]

\* The loop of inode_write_at, once the file is long enough.
write_bytes(st, pos, size, v) ==
  FoldLeft(LAMBDA d, k : [d EXCEPT ![byte_to_sector([st EXCEPT !.disk = d], k)][k % SECTOR_SIZE] = v],
           st.disk, UpTo(pos, pos + size - 1))

\* Mutant: a denied inode is written.
inode_write_at_denied(s, size, offset, v) ==
  LET d == open_inodes[s].data
      st == IF offset + size > d.length THEN file_growth(Store(d), offset, size) ELSE Store(d)
  IN  /\ used' = st.used
      /\ disk' = write_bytes(st, offset, size, v)
      /\ open_inodes' = [open_inodes EXCEPT ![s].data = st.data]

\* inode_write_at: nothing when writes are denied; growth, then the bytes.
inode_write_at(s, size, offset, v) ==
  LET d == open_inodes[s].data
      st == IF offset + size > d.length THEN file_growth(Store(d), offset, size) ELSE Store(d)
  IN  IF open_inodes[s].deny_write_cnt > 0 THEN UNCHANGED <<used, disk, open_inodes>>
      ELSE /\ used' = st.used
           /\ disk' = write_bytes(st, offset, size, v)
           /\ open_inodes' = [open_inodes EXCEPT ![s].data = st.data]

\* file_write_at; the callers keep within the bounds, and off the writes after which
\* memory outside the block has been overwritten.
file_write_at(f, size, ofs, v) ==
  /\ Room /\ calls < MaxCalls
  /\ LET i == open_inodes[files[f].inode]
     IN  /\ ofs + size <= (IF i.removed THEN MaxRemoved ELSE MaxLength)
         /\ ~Overruns(i.data.length, ofs, size)
  /\ inode_write_at(files[f].inode, size, ofs, v)
  /\ calls' = calls + 1
  /\ UNCHANGED <<on_disk, files, named>>

-----------------------------------------------------------------------------
Next ==
  \/ \E length \in Sizes \cup {0} : inode_create(length)
  \/ \E s \in Sectors : inode_remove(s)
  \/ \E f \in Files :
       \/ \E s \in Sectors : file_open(f, s)
       \/ \E file \in Files : file_reopen(f, file)
       \/ file_close(f) \/ file_deny_write(f)
       \/ /\ f \in OpenFiles
          /\ \E size \in Sizes, v \in Values, ofs \in Positions \cup {data(files[f].inode).length} :
               file_write_at(f, size, ofs, v)

Spec == Init /\ [][Next]_vars

-----------------------------------------------------------------------------
\* What file s holds, read through its index.
Content(s) ==
  IF s \in Inodes THEN inode_read_at(s, data(s).length, 0) ELSE <<-1>>

\* inode.c and file.c implement files that are sequences of bytes: whatever the
\* order of growth, overwrites, opens, closes and removals, no write shows up in
\* another file or elsewhere in the same one, and what was not written reads as 0.
AbstractFiles ==
  INSTANCE FileStore WITH content <- [s \in Sectors |-> Content(s)]
FilesSpec == AbstractFiles!Spec

\* The sectors that hold the bytes of s, with the offset of their first byte, and
\* the tables byte_to_sector goes through to reach them.
DataBlocks(s) ==
  {<<byte_to_sector(Store(data(s)), k), k>> :
     k \in {j \in 0 .. data(s).length - 1 : j % SECTOR_SIZE = 0}}
Tables(s) ==
  LET d == data(s)
  IN  (IF d.length > SECTOR_SIZE THEN {<<d.ind, -1>>} ELSE {})
      \cup (IF d.length > INDIRECT * SECTOR_SIZE
              THEN {<<d.din, -2>>}
                   \cup {<<disk[d.din][i], -3 - i>> :
                           i \in 0 .. ((d.length - 1) \div SECTOR_SIZE - INDIRECT) \div PTRS}
              ELSE {})
Uses(s) == DataBlocks(s) \cup Tables(s) \cup {<<s, -100>>}

\* A sector serves one purpose: every sector that an inode, a table or a block of a
\* file lies in is marked in the free map, and no two of them are the same sector,
\* within a file or across files.
OnePurpose ==
  \A s \in Inodes : \A u \in Uses(s) :
    /\ u[1] \in used \ {FREE_MAP_SECTOR, ROOT_DIR_SECTOR}
    /\ \A r \in Inodes : \A v \in Uses(r) : u[1] = v[1] => s = r /\ u = v

\* The counts of an inode in memory are those of the files open on it, as the
\* assertions deny_write_cnt <= open_cnt and deny_write_cnt > 0 of inode.c need.
CountsOpeners ==
  \A s \in Sectors :
    /\ open_inodes[s].open_cnt = Cardinality({f \in OpenFiles : files[f].inode = s})
    /\ open_inodes[s].deny_write_cnt =
         Cardinality({f \in OpenFiles : files[f].inode = s /\ files[f].deny_write})

\* While one open file denies writes to an inode (a running executable), nobody
\* changes what it holds, by whichever file they write.
DenyHolds ==
  [][\A f \in Files : files[f].deny_write /\ files'[f].deny_write =>
       Content(files[f].inode)' = Content(files[f].inode)]_vars

\* inode_close: "If INODE was also a removed inode, frees its blocks."  Every
\* sector in use belongs to a file or is reachable from its tables.
FreesItsBlocks ==
  LET reach(s) == LET d == data(s)
                  IN  {s, d.sp, d.ind, d.din} \cup {disk[d.ind][c] : c \in Cells}
                      \cup UNION {{t} \cup {disk[t][c] : c \in Cells} :
                                    t \in {disk[d.din][c] : c \in Cells} \cap Sectors}
  IN  used \subseteq {FREE_MAP_SECTOR, ROOT_DIR_SECTOR} \cup UNION {reach(s) : s \in Inodes}
=============================================================================
