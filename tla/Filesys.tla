------------------------------ MODULE Filesys ------------------------------
(***************************************************************************)
(* Directories and path names (directory.c, filesys.c), with the part of   *)
(* inode.c they rely on: the copy in memory, its open count, the parent of *)
(* a directory, removal at the last close.  The blocks of files are left   *)
(* to module Inode.                                                        *)
(*                                                                         *)
(* A call resolves its path (true_dir), looks its name up and acts on what *)
(* it found.  These are separate steps: inode.c locks each access of an    *)
(* inode, and nothing in filesys.c keeps others out in between.            *)
(***************************************************************************)
EXTENDS Integers, FiniteSets, FiniteSetsExt, Functions, Sequences, SequencesExt

CONSTANTS
  Procs,      \* the threads that call the file system
  Names,      \* the names of files
  Paths,      \* the paths in calls: components from Names, "." and ".."
  Handles,    \* the struct file and struct dir that filesys_open returns
  NSECTORS,   \* number of sectors for inodes
  RootSlots,  \* the entries the root directory is created with, 16
  MaxLeaks    \* bound on the number of directories left open by failed calls

ASSUME FilesysAssumption ==
  /\ NSECTORS \in Nat \ {0, 1} /\ RootSlots \in Nat /\ MaxLeaks \in Nat
  /\ {"", ".", ".."} \cap Names = {}
  /\ Paths \subseteq Seq(Names \cup {".", ".."})

Sectors == 0 .. NSECTORS - 1
FREE_MAP_SECTOR == 0
ROOT_DIR_SECTOR == 1
NONE == -1   \* a null pointer to an inode or a directory
NULL == ""   \* a null name

VARIABLES
  used,         \* the sectors marked in the free map
  on_disk,      \* struct inode_disk, by sector
  entries,      \* the entries of a directory, by sector
  open_inodes,  \* struct inode, by sector
  handles,      \* the sector of the inode a handle is open on, or NONE
  call,         \* what each thread is doing
  leaked        \* the open directories that failed calls have forgotten

vars == <<used, on_disk, entries, open_inodes, handles, call, leaked>>

dir_entry == [in_use : BOOLEAN, name : Names \cup {NULL}, inode_sector : Sectors]
inode_disk == [isdir : BOOLEAN, parent : Sectors]
struct_inode == [open_cnt : Nat, removed : BOOLEAN, data : inode_disk]

NoEntry == [in_use |-> FALSE, name |-> NULL, inode_sector |-> 0]
NotOpen == [open_cnt |-> 0, removed |-> FALSE, data |-> [isdir |-> FALSE, parent |-> 0]]
\* The call of an idle thread.  dir and name are the result of true_dir, found the
\* sector of the inode at work.
Idle == [at |-> "idle", op |-> "none", isdir |-> FALSE, path |-> <<>>,
         dir |-> NONE, name |-> NULL, found |-> NONE, slot |-> 0]

\* Every variable has its type.
TypeOK ==
  /\ used \subseteq Sectors
  /\ on_disk \in [Sectors -> inode_disk]
  /\ \A s \in Sectors : \A k \in DOMAIN entries[s] : entries[s][k] \in dir_entry
  /\ open_inodes \in [Sectors -> struct_inode]
  /\ handles \in [Handles -> Sectors \cup {NONE}]
  /\ \A p \in Procs :
       /\ call[p].at \in {"idle", "resolved", "found", "down"}
       /\ call[p].op \in {"none", "create", "open", "remove"}
       /\ call[p].dir \in Sectors \cup {NONE} /\ call[p].found \in Sectors \cup {NONE}
  /\ leaked \in [Sectors -> 0 .. MaxLeaks]

\* do_format and free_map_open: an empty root, its own parent, and the free map,
\* which stays open.
Init ==
  /\ used = {FREE_MAP_SECTOR, ROOT_DIR_SECTOR}
  /\ on_disk = [s \in Sectors |-> [isdir |-> s = ROOT_DIR_SECTOR, parent |-> ROOT_DIR_SECTOR]]
  /\ entries = [s \in Sectors |->
                  IF s = ROOT_DIR_SECTOR THEN [k \in 1 .. RootSlots |-> NoEntry] ELSE <<>>]
  /\ open_inodes = [s \in Sectors |->
                      IF s = FREE_MAP_SECTOR
                        THEN [NotOpen EXCEPT !.open_cnt = 1, !.data = on_disk[s]] ELSE NotOpen]
  /\ handles = [h \in Handles |-> NONE]
  /\ call = [p \in Procs |-> Idle]
  /\ leaked = [s \in Sectors |-> 0]

data(s) == IF open_inodes[s].open_cnt > 0 THEN open_inodes[s].data ELSE on_disk[s]

-----------------------------------------------------------------------------
(***************************************************************************)
(* inode.c, on a record m of what it changes: [used, on_disk, open_inodes].*)
(***************************************************************************)

Mem == [used |-> used, on_disk |-> on_disk, open_inodes |-> open_inodes]

inode_open(m, s) ==
  [m EXCEPT !.open_inodes[s] =
     IF @.open_cnt > 0 THEN [@ EXCEPT !.open_cnt = @ + 1]
     ELSE [NotOpen EXCEPT !.open_cnt = 1, !.data = m.on_disk[s]]]

\* Mutant: the sector of a removed inode is not released.
inode_close_keep(m, s) ==
  LET i == m.open_inodes[s]
  IN  IF i.open_cnt # 1 THEN [m EXCEPT !.open_inodes[s].open_cnt = @ - 1]
      ELSE [m EXCEPT !.open_inodes[s] = NotOpen, !.on_disk[s] = i.data]

\* The last close writes the inode back, and releases its sector when the inode has
\* been removed; its block is then dropped from the cache.
inode_close(m, s) ==
  LET i == m.open_inodes[s]
  IN  IF i.open_cnt # 1 THEN [m EXCEPT !.open_inodes[s].open_cnt = @ - 1]
      ELSE [m EXCEPT !.open_inodes[s] = NotOpen,
                     !.on_disk[s] = IF i.removed THEN NotOpen.data ELSE i.data,
                     !.used = IF i.removed THEN @ \ {s} ELSE @]

\* Mutant: the directory stays open.
dir_close_not(m, d) == m

\* Mutant: the inode is closed twice.
dir_close_twice(m, d) == inode_close(inode_close(m, d), d)

dir_close(m, d) == inode_close(m, d)

Becomes(m) ==
  used' = m.used /\ on_disk' = m.on_disk /\ open_inodes' = m.open_inodes

-----------------------------------------------------------------------------
(***************************************************************************)
(* directory.c: lookups and paths.                                         *)
(***************************************************************************)

\* The slots of directory d that bind name; lookup takes the first.
slots_of(d, name) ==
  {k \in DOMAIN entries[d] : entries[d][k].in_use /\ entries[d][k].name = name}

lookup(d, name) ==
  IF slots_of(d, name) = {} THEN NONE ELSE entries[d][Min(slots_of(d, name))].inode_sector

dir_is_empty(d) == \A k \in DOMAIN entries[d] : ~entries[d][k].in_use

\* One component of true_dir's walk.  A "." is never passed: the loop runs on to the
\* end of the path with it.  A file is skipped, and the directory stays.
true_dir_step(w, token) ==
  LET next == CASE token = "." -> w.inode
                [] token = ".." -> data(w.inode).parent
                [] OTHER -> lookup(w.dir, token)
  IN  IF w.end # "no" THEN w
      ELSE IF token = "." THEN [w EXCEPT !.end = "dot"]
      ELSE IF next = NONE \/ (token = ".." /\ next = 0) THEN [w EXCEPT !.end = "null"]
      ELSE [w EXCEPT !.inode = next, !.dir = IF data(next).isdir THEN next ELSE @]

true_dir_walk(path) ==
  FoldLeft(true_dir_step, [dir |-> ROOT_DIR_SECTOR, inode |-> ROOT_DIR_SECTOR, end |-> "no"],
           SubSeq(path, 1, Len(path) - 1))

\* true_dir: NONE as dir when it returns a null pointer; the walk then leaves the
\* directory it stopped in open.
true_dir(path) ==
  LET w == true_dir_walk(path)
  IN  [dir |-> IF w.end = "null" THEN NONE ELSE w.dir,
       name |-> IF path = <<>> THEN NULL ELSE IF w.end = "dot" THEN "." ELSE Last(path),
       left |-> w.dir]

\* A ".." after a file reads the struct inode that has just been closed: callers keep
\* off such paths, and off the root's "/" in filesys_create, where the name is null.
Defined(op, path) ==
  /\ op = "create" => path # <<>>
  /\ \A k \in 2 .. Len(path) - 1 :
       path[k] = ".." => data(true_dir_walk(SubSeq(path, 1, k)).inode).isdir

-----------------------------------------------------------------------------
(***************************************************************************)
(* filesys.c                                                               *)
(***************************************************************************)

\* A call starts: it resolves its path and has its directory open.
filesys_call(p, op, isdir, path) ==
  LET t == true_dir(path)
  IN  /\ call[p] = Idle /\ Defined(op, path)
      /\ Becomes(inode_open(Mem, t.left))
      /\ \/ /\ t.dir # NONE
            /\ call' = [call EXCEPT ![p] = [Idle EXCEPT
                          !.at = "resolved", !.op = op, !.isdir = isdir, !.path = path,
                          !.dir = t.dir, !.name = t.name]]
            /\ UNCHANGED leaked
         \/ /\ t.dir = NONE /\ FoldFunction(+, 0, leaked) < MaxLeaks
            /\ leaked' = [leaked EXCEPT ![t.left] = @ + 1]
            /\ UNCHANGED call
      /\ UNCHANGED <<entries, handles>>

Finish(p) == call' = [call EXCEPT ![p] = Idle]
Found(p, s) == call' = [call EXCEPT ![p].at = "found", ![p].found = s]

\* filesys_open: the directory itself for "/" and ".", the parent for "..", a lookup
\* for a name.
open_lookup(p, h) ==
  LET c == call[p]
      s == IF c.name = ".." THEN data(c.dir).parent ELSE lookup(c.dir, c.name)
  IN  /\ c.at = "resolved" /\ c.op = "open" /\ handles[h] = NONE
      /\ \/ /\ c.name \in {NULL, "."}
            /\ handles' = [handles EXCEPT ![h] = c.dir] /\ Finish(p) /\ Becomes(Mem)
         \/ /\ c.name \notin {NULL, "."} /\ s \in {NONE, 0}
            /\ Becomes(dir_close(Mem, c.dir)) /\ Finish(p) /\ UNCHANGED handles
         \/ /\ c.name \notin {NULL, "."} /\ s \notin {NONE, 0}
            /\ Found(p, s) /\ Becomes(Mem) /\ UNCHANGED handles
      /\ UNCHANGED <<entries, leaked>>

\* filesys_open, the rest: the inode is opened.
filesys_open(p, h) ==
  LET c == call[p]
  IN  /\ c.at = "found" /\ c.op = "open" /\ handles[h] = NONE
      /\ Becomes(dir_close(inode_open(Mem, c.found), c.dir))
      /\ handles' = [handles EXCEPT ![h] = c.found]
      /\ Finish(p)
      /\ UNCHANGED <<entries, leaked>>

\* file_close and dir_close of a handle.
close(h) ==
  /\ handles[h] # NONE
  /\ Becomes(inode_close(Mem, handles[h]))
  /\ handles' = [handles EXCEPT ![h] = NONE]
  /\ UNCHANGED <<entries, call, leaked>>

\* dir_add fails when the name is in use.
name_in_use(d, name) == slots_of(d, name) # {}

\* The slot dir_add writes: the first that is free, else one more at the end.
dir_add_slot(d) ==
  Min({k \in DOMAIN entries[d] : ~entries[d][k].in_use} \cup {Len(entries[d]) + 1})

\* Mutant: a directory keeps the parent inode_create gave it.
set_parent_none(m, s, parent) == m

\* inode_open, inode_set_parent and inode_close of a new directory.
set_parent(m, s, parent) ==
  inode_close([inode_open(m, s) EXCEPT !.open_inodes[s].data.parent = parent], s)

\* filesys_create: a sector, inode_create, and the lookup of dir_add.  Without a
\* sector the new directory's parent is stored in the inode of sector 0.
create_lookup(p) ==
  LET c == call[p]
      free == Sectors \ used
      s == Min(free)
  IN  /\ c.at = "resolved" /\ c.op = "create"
      /\ \/ /\ c.name \in {".", ".."}
            /\ Becomes(dir_close(Mem, c.dir)) /\ Finish(p) /\ UNCHANGED entries
         \/ /\ c.name \notin {".", ".."} /\ free = {}
            /\ Becomes(dir_close(IF c.isdir THEN set_parent(Mem, 0, c.dir) ELSE Mem, c.dir))
            /\ Finish(p) /\ UNCHANGED entries
         \/ /\ c.name \notin {".", ".."} /\ free # {}
            /\ used' = used \cup {s}
            /\ on_disk' = [on_disk EXCEPT ![s] = [isdir |-> c.isdir, parent |-> ROOT_DIR_SECTOR]]
            /\ entries' = [entries EXCEPT ![s] = <<>>]
            /\ call' = [call EXCEPT ![p].at = "found", ![p].found = s,
                                    ![p].slot = IF name_in_use(c.dir, c.name) THEN NONE ELSE 0]
            /\ UNCHANGED open_inodes
      /\ UNCHANGED <<handles, leaked>>

\* dir_add looks for a slot.
create_scan(p) ==
  /\ call[p].at = "found" /\ call[p].op = "create" /\ call[p].slot = 0
  /\ call' = [call EXCEPT ![p].slot = dir_add_slot(call[p].dir)]
  /\ UNCHANGED <<used, on_disk, entries, open_inodes, handles, leaked>>

\* filesys_create, the rest: the entry is written, or the sector is given back.
filesys_create(p) ==
  LET c == call[p]
      e == [in_use |-> TRUE, name |-> c.name, inode_sector |-> c.found]
      m == IF c.slot = NONE THEN [Mem EXCEPT !.used = @ \ {c.found}] ELSE Mem
  IN  /\ c.at = "found" /\ c.op = "create" /\ c.slot # 0
      /\ entries' = IF c.slot = NONE THEN entries
                    ELSE [entries EXCEPT ![c.dir] =
                            IF c.slot > Len(@) THEN Append(@, e) ELSE [@ EXCEPT ![c.slot] = e]]
      /\ Becomes(dir_close(IF c.isdir THEN set_parent(m, c.found, c.dir) ELSE m, c.dir))
      /\ Finish(p)
      /\ UNCHANGED <<handles, leaked>>

\* filesys_remove, dir_remove: the entry is looked up.
remove_lookup(p) ==
  LET c == call[p]
      slots == slots_of(c.dir, c.name)
  IN  /\ c.at = "resolved" /\ c.op = "remove"
      /\ \/ /\ slots = {}
            /\ Becomes(dir_close(Mem, c.dir)) /\ Finish(p)
         \/ /\ slots # {}
            /\ Becomes(Mem)
            /\ call' = [call EXCEPT ![p].at = "found", ![p].found = lookup(c.dir, c.name),
                                    ![p].slot = Min(slots)]
      /\ UNCHANGED <<entries, handles, leaked>>

\* Mutant: directories are removed with what they hold.
may_remove_full(m, s) == m.open_inodes[s].data.isdir => m.open_inodes[s].open_cnt <= 2

\* A directory is removed only empty and with at most one other opener.
may_remove(m, s) ==
  m.open_inodes[s].data.isdir => dir_is_empty(s) /\ m.open_inodes[s].open_cnt <= 2

\* dir_remove, the rest: the inode is opened and checked, the entry erased (what a free
\* slot still holds is never read), the inode marked and closed.
filesys_remove(p) ==
  LET c == call[p]
      m == inode_open(Mem, c.found)
      marked == [m EXCEPT !.open_inodes[c.found].removed = TRUE]
      ok == may_remove(m, c.found)
  IN  /\ c.at = "found" /\ c.op = "remove"
      /\ entries' = IF ok THEN [entries EXCEPT ![c.dir][c.slot] = NoEntry] ELSE entries
      /\ Becomes(dir_close(inode_close(IF ok THEN marked ELSE m, c.found), c.dir))
      /\ Finish(p)
      /\ UNCHANGED <<handles, leaked>>

\* inode_close_all: every directory in memory is closed for good.
inode_close_all(m) ==
  FoldSet(LAMBDA s, f : inode_close([f EXCEPT !.open_inodes[s].open_cnt = 1], s), m,
          {s \in Sectors \ {0} : m.open_inodes[s].open_cnt > 0 /\ m.open_inodes[s].data.isdir})

\* filesys_done: the directories and the free map are closed.
filesys_done ==
  /\ \A p \in Procs : call[p].at = "idle"
  /\ Becomes(inode_close(inode_close_all(Mem), FREE_MAP_SECTOR))
  /\ handles' = [h \in Handles |->
                   IF handles[h] # NONE /\ data(handles[h]).isdir THEN NONE ELSE handles[h]]
  /\ leaked' = [s \in Sectors |-> 0]
  /\ call' = [p \in Procs |-> [Idle EXCEPT !.at = "down"]]
  /\ UNCHANGED entries

-----------------------------------------------------------------------------
Next ==
  \/ \E p \in Procs :
       \/ \E path \in Paths :
            \/ \E op \in {"open", "remove"} : filesys_call(p, op, FALSE, path)
            \/ \E isdir \in BOOLEAN : filesys_call(p, "create", isdir, path)
       \/ \E h \in Handles : open_lookup(p, h) \/ filesys_open(p, h)
       \/ create_lookup(p) \/ create_scan(p) \/ filesys_create(p)
       \/ remove_lookup(p) \/ filesys_remove(p)
  \/ \E h \in Handles : close(h)
  \/ filesys_done

Spec == Init /\ [][Next]_vars

-----------------------------------------------------------------------------
Down == \E p \in Procs : call[p].at = "down"
Bindings ==
  {<<d, entries[d][k].name, entries[d][k].inode_sector>> :
     <<d, k>> \in {<<d, k>> \in Sectors \X (1 .. RootSlots + NSECTORS) :
                     k \in DOMAIN entries[d] /\ entries[d][k].in_use}}
IsBound(s) == \E b \in Bindings : b[3] = s

\* One thread's calls implement the name space of module Namespace, whichever slots
\* and sectors are reused: no name is bound twice, no entry changes its file, no
\* directory goes while it holds an entry.
NameSpace == INSTANCE Namespace WITH names <- Bindings, Root <- ROOT_DIR_SECTOR
NamesSpec == NameSpace!Spec

\* Every entry leads to an inode in use that is not removed and that no other entry
\* leads to, and every inode in use has an entry, a call that is about to give it
\* one, or an opener: nothing dangles and nothing is lost, also after filesys_done,
\* when only the files still open keep their sectors.
NothingLost ==
  /\ \A b \in Bindings :
       /\ b[3] \in used \ {FREE_MAP_SECTOR, ROOT_DIR_SECTOR} /\ ~open_inodes[b[3]].removed
       /\ \A c \in Bindings : b[3] = c[3] => b = c
  /\ \A s \in used \ {FREE_MAP_SECTOR, ROOT_DIR_SECTOR} :
       \/ IsBound(s) \/ open_inodes[s].open_cnt > 0
       \/ \E p \in Procs : call[p].op = "create" /\ call[p].found = s

\* The open count of an inode is the number of those that will close it: handles,
\* calls on their way, and the directories failed calls have left open.
CountsHolders ==
  \A s \in Sectors :
    open_inodes[s].open_cnt =
      Cardinality({h \in Handles : handles[h] = s}) + Cardinality({p \in Procs : call[p].dir = s})
      + leaked[s] + (IF s = FREE_MAP_SECTOR /\ ~Down THEN 1 ELSE 0)

\* Reference: where path leads from the root by entries, ".." going back to the
\* directory that holds the entry.
LeadsTo(path) ==
  LET step(S, c) ==
        CASE c = "." -> S
          [] c = ".." -> {b[1] : b \in {b \in Bindings : b[3] \in S}} \cup (S \cap {ROOT_DIR_SECTOR})
          [] OTHER -> {b[3] : b \in {b \in Bindings : b[1] \in S /\ b[2] = c}}
  IN  FoldLeft(step, {ROOT_DIR_SECTOR}, path)

\* true_dir follows paths: when the directories of the path exist and none is ".",
\* the call works in the directory the path leads to.
FollowsPath ==
  \A p \in Procs :
    LET c == call[p]
        dirs == SubSeq(c.path, 1, Len(c.path) - 1)
        plain == /\ \A k \in DOMAIN dirs : dirs[k] # "."
                 /\ \E s \in LeadsTo(dirs) : data(s).isdir
    IN  c.at = "resolved" /\ plain => c.dir \in LeadsTo(dirs)

\* filesys_open: "Fails if no file named NAME exists".  What it opens is what the
\* path leads to.
OpensOnlyNamed ==
  \A p \in Procs : call[p].at = "found" /\ call[p].op = "open" =>
    call[p].found \in LeadsTo(call[p].path)

\* free_map_release asserts bitmap_all (free_map, sector, cnt): when a thread's next step
\* is to remove an inode nobody has open, its sector is marked in the free map.
ReleasesMarked ==
  \A p \in Procs :
    LET c == call[p]
    IN  /\ c.at = "found" /\ c.op = "remove" /\ open_inodes[c.found].open_cnt = 0
        /\ may_remove(inode_open(Mem, c.found), c.found)
        => c.found \in used
=============================================================================
