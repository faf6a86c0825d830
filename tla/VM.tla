--------------------------------- MODULE VM ---------------------------------
(***************************************************************************)
(* Demand paging: the frame table, swap, the supplemental page tables, the *)
(* page directories, the page fault handler and memory mapped files        *)
(* (frame.c, swap.c, suppage.c, pagedir.c, exception.c, and the parts of   *)
(* process.c and syscall.c that use them).                                 *)
(*                                                                         *)
(* A page <<p, u>> is upage u of process p.  Frames are never shared       *)
(* (NeverShared shows it), so a struct frame_elem, its struct              *)
(* sup_page_table and its page table entry are all named by the page.      *)
(* What a page holds is a version of itself, <<page, 0 or 1>>.  Memory and *)
(* slots that are free are blank, and so are the fields of a frame that    *)
(* wait to be set again.                                                   *)
(*                                                                         *)
(* A fault is served in steps, between which other processes run: a frame  *)
(* is evicted, a frame is taken and filled.  munmap and exit give up one   *)
(* page in a step.  The pool of kernel pages never runs out.               *)
(***************************************************************************)
EXTENDS OrderedList

CONSTANTS
  Procs,
  ExecPages,   \* the upages of the executable's segments
  StackPages,  \* the upages the stack may grow to
  StackTop,    \* the first of them
  MapPages,    \* the upages mmap is called for: the file has as many pages
  Buffers,     \* the buffers of read system calls: sequences of upages
  NPages,      \* the size of the user pool
  NSlots       \* the size of swap_bitmap

ASSUME VMAssumption ==
  /\ NPages \in Nat \ {0} /\ NSlots \in Nat /\ StackTop \in StackPages
  /\ ExecPages \cap StackPages = {} /\ MapPages \cap (ExecPages \cup StackPages) = {}
  /\ Buffers \subseteq Seq(ExecPages \cup StackPages \cup MapPages)

Upages == ExecPages \cup StackPages \cup MapPages
Pages == Procs \X Upages
Kpages == 1 .. NPages
Slots == 0 .. NSlots - 1
NONE == "none"
Held == Pages \X {0, 1}
Zero(pg) == <<pg, 0>>
Blank == <<>>

VARIABLES
  pte,          \* page table entries: present, frame, dirty, accessed
  frame,        \* struct frame_elem; spt tells whether frame->spt has been set
  frame_table,  \* the list of frames that are loaded
  pool,         \* the free pages of the user pool
  mem,          \* what the pages of the user pool hold
  kdirty,       \* those the kernel has written through its own mapping
  swap,         \* what the swap slots hold
  swap_bitmap,  \* the slots in use
  file,         \* what the files behind executable and mapped pages hold
  file_lock,    \* the holder of file_lock
  op            \* what each process is doing in the kernel

vars == <<pte, frame, frame_table, pool, mem, kdirty, swap, swap_bitmap, file, file_lock, op>>

NoPte == [p |-> FALSE, kpage |-> 0, d |-> FALSE, a |-> FALSE]
NoFrame == [type |-> NONE, load |-> FALSE, kpage |-> 0, index |-> -1, spt |-> FALSE]
\* fault is the upage being brought in, new the frame on its way into the table;
\* a read call goes through todo twice.
Idle == [call |-> NONE, fault |-> NONE, new |-> FALSE, buffer |-> <<>>, todo |-> <<>>]

\* Every variable has its type.
TypeOK ==
  /\ pte \in [Pages -> [p : BOOLEAN, kpage : Kpages \cup {0}, d : BOOLEAN, a : BOOLEAN]]
  /\ frame \in [Pages -> [type : {NONE, "FILE", "MMAP", "SWAP"}, load : BOOLEAN,
                          kpage : Kpages \cup {0}, index : Slots \cup {-1}, spt : BOOLEAN]]
  /\ \A k \in DOMAIN frame_table : frame_table[k] \in Pages
  /\ pool \subseteq Kpages /\ kdirty \subseteq Kpages /\ swap_bitmap \subseteq Slots
  /\ mem \in [Kpages -> Held \cup {Blank}] /\ swap \in [Slots -> Held \cup {Blank}]
  /\ file \in [Pages -> Held] /\ file_lock \in Procs \cup {NONE}
  /\ \A p \in Procs : op[p].call \in {NONE, "out", "load", "check", "copy", "munmap", "exit"}

\* No process has been loaded.
Init ==
  /\ pte = [pg \in Pages |-> NoPte] /\ frame = [pg \in Pages |-> NoFrame]
  /\ frame_table = <<>> /\ pool = Kpages /\ mem = [k \in Kpages |-> Blank] /\ kdirty = {}
  /\ swap = [s \in Slots |-> Blank] /\ swap_bitmap = {}
  /\ file = [pg \in Pages |-> Zero(pg)] /\ file_lock = NONE
  /\ op = [p \in Procs |-> [Idle EXCEPT !.call = "out"]]

\* Mutant: file_lock is taken also by a process that holds it.
CanLock_free(p) == file_lock = NONE

\* The code takes file_lock if the process does not hold it.
CanLock(p) == file_lock \in {NONE, p}

-----------------------------------------------------------------------------
(***************************************************************************)
(* swap.c                                                                  *)
(***************************************************************************)

\* evict looks the bits of a frame up in the page directory of the process that
\* needs a page, whichever process the frame belongs to.  An accessed bit that the
\* scan has met it has cleared.
is_dirty(p, pg) == pte[<<p, pg[2]>>].d
is_accessed(p, k) ==
  /\ pte[<<p, frame_table[k][2]>>].a
  /\ \A j \in 1 .. k - 1 : frame_table[j][2] # frame_table[k][2]

\* The first frame that is neither accessed nor dirty, else the first frame.
clean(p) == {k \in DOMAIN frame_table : ~is_accessed(p, k) /\ ~is_dirty(p, frame_table[k])}
victim(p) == IF clean(p) = {} THEN 1 ELSE Min(clean(p))

\* The scan clears the accessed bits of the frames it passes.
scanned(p) ==
  LET last == IF clean(p) = {} THEN Len(frame_table) ELSE victim(p)
      passed == {<<p, frame_table[k][2]>> : k \in 1 .. last}
  IN  [pg \in Pages |-> IF pg \in passed THEN [pte[pg] EXCEPT !.a = FALSE] ELSE pte[pg]]

\* Mutant: the pages of the executable are never written to swap.
to_swap_anonymous(p, pg) == frame[pg].type = "SWAP"

\* Clean pages of the executable are read again from the file; all else but mapped
\* pages goes to swap.
to_swap(p, pg) ==
  frame[pg].type # "MMAP" /\ (frame[pg].type # "FILE" \/ is_dirty(p, pg))

to_file(p, pg) == frame[pg].type = "MMAP" /\ is_dirty(p, pg)

\* evict, sout.  A mapped page is written to its file under file_lock, which is
\* released even if the process held it before.  What the code does when swap is
\* full, and with a frame whose spt has not been set, is left out.
evict(p) ==
  LET pg == frame_table[victim(p)]
      k == frame[pg].kpage
      slot == Min(Slots \ swap_bitmap)
      out == to_swap(p, pg)
  IN  /\ op[p].fault # NONE /\ ~op[p].new /\ pool = {} /\ frame_table # <<>>
      /\ \A g \in Range(frame_table) : frame[g].spt
      /\ out => Slots \ swap_bitmap # {}
      /\ to_file(p, pg) => CanLock(p)
      /\ frame_table' = RemoveAt(frame_table, victim(p))
      /\ frame' = [frame EXCEPT ![pg] =
           [frame[pg] EXCEPT !.load = FALSE, !.kpage = 0,
                             !.type = IF out THEN "SWAP" ELSE frame[pg].type,
                             !.index = IF out THEN slot ELSE frame[pg].index]]
      /\ swap' = IF out THEN [swap EXCEPT ![slot] = mem[k]] ELSE swap
      /\ swap_bitmap' = IF out THEN swap_bitmap \cup {slot} ELSE swap_bitmap
      /\ file' = IF to_file(p, pg) THEN [file EXCEPT ![pg] = mem[k]] ELSE file
      /\ file_lock' = IF to_file(p, pg) THEN NONE ELSE file_lock
      /\ pte' = [scanned(p) EXCEPT ![pg].p = FALSE, ![pg].kpage = 0]
      /\ pool' = pool \cup {k} /\ mem' = [mem EXCEPT ![k] = Blank]
      /\ UNCHANGED <<kdirty, op>>

\* palloc_get_page: the first free page.
kpage == Min(pool)

\* install_page, pagedir_set_page: a fresh entry.
install_page(pg, k) == [pte EXCEPT ![pg] = [NoPte EXCEPT !.p = TRUE, !.kpage = k]]

\* Mutant: the slot is not given back.
sback_keep(index) == swap_bitmap

\* sback frees the slot it reads.
sback(index) == swap_bitmap \ {index}

\* Mutant: the frame is filled through the mapping of the process.
Loaded_user(p, pg) ==
  /\ pool' = pool \ {kpage} /\ kdirty' = kdirty
  /\ frame' = [frame EXCEPT ![pg].load = TRUE, ![pg].kpage = kpage, ![pg].index = -1]
  /\ frame_table' = Append(frame_table, pg)
  /\ pte' = install_page(pg, kpage)
  /\ op' = [op EXCEPT ![p].fault = NONE]

\* The frame has been filled: it is mapped and goes on the list.
Loaded(p, pg) ==
  /\ pool' = pool \ {kpage} /\ kdirty' = kdirty \cup {kpage}
  /\ frame' = [frame EXCEPT ![pg].load = TRUE, ![pg].kpage = kpage, ![pg].index = -1]
  /\ frame_table' = Append(frame_table, pg)
  /\ pte' = install_page(pg, kpage)
  /\ op' = [op EXCEPT ![p].fault = NONE]

\* page_back: from swap.
page_back(p) ==
  LET pg == <<p, op[p].fault>>
  IN  /\ op[p].fault # NONE /\ pool # {} /\ frame[pg].type = "SWAP" /\ ~op[p].new
      /\ mem' = [mem EXCEPT ![kpage] = swap[frame[pg].index]]
      /\ swap_bitmap' = sback(frame[pg].index)
      /\ swap' = [swap EXCEPT ![frame[pg].index] = Blank]
      /\ Loaded(p, pg)
      /\ UNCHANGED <<file, file_lock>>

\* file_back: from the file, under file_lock, which is released even if the process
\* held it before.
file_back(p) ==
  LET pg == <<p, op[p].fault>>
  IN  /\ op[p].fault # NONE /\ pool # {} /\ frame[pg].type \in {"FILE", "MMAP"} /\ CanLock(p)
      /\ mem' = [mem EXCEPT ![kpage] = file[pg]]
      /\ file_lock' = NONE
      /\ Loaded(p, pg)
      /\ UNCHANGED <<swap, swap_bitmap, file>>

-----------------------------------------------------------------------------
(***************************************************************************)
(* process.c, exception.c, syscall.c                                       *)
(***************************************************************************)

\* check_match: the frames a new mapping may share.  It looks for the dirty bit of the
\* kernel's mapping of the frame, in the page table every process has a copy of.
check_match == {k \in DOMAIN frame_table : frame[frame_table[k]].kpage \notin kdirty}

\* install_file, which finds no frame to share: the page waits in its file.
install_file(new, type) ==
  [pg \in Pages |-> IF pg \in new THEN [NoFrame EXCEPT !.type = type, !.spt = TRUE] ELSE frame[pg]]

\* load_segment, under file_lock; then setup_stack needs a frame ...
load(p) ==
  /\ op[p].call = "out" /\ file_lock = NONE
  /\ frame' = install_file({pg \in Pages : pg[1] = p /\ pg[2] \in ExecPages}, "FILE")
  /\ file_lock' = p
  /\ op' = [op EXCEPT ![p] = [Idle EXCEPT !.call = "load", !.fault = StackTop]]
  /\ UNCHANGED <<pte, frame_table, pool, mem, kdirty, swap, swap_bitmap, file>>

\* ... and the program starts.
load_end(p) ==
  /\ op[p].call = "load" /\ op[p].fault = NONE
  /\ file_lock' = NONE
  /\ op' = [op EXCEPT ![p] = Idle]
  /\ UNCHANGED <<pte, frame, frame_table, pool, mem, kdirty, swap, swap_bitmap, file>>

\* A new page of the stack: a zeroed frame, which frame_table_insert puts on the
\* list ...
frame_table_insert(p) ==
  LET pg == <<p, op[p].fault>>
  IN  /\ op[p].fault # NONE /\ pool # {} /\ frame[pg] = NoFrame
      /\ mem' = [mem EXCEPT ![kpage] = Zero(pg)]
      /\ pool' = pool \ {kpage} /\ kdirty' = kdirty \cup {kpage}
      /\ frame' = [frame EXCEPT ![pg] = [NoFrame EXCEPT !.type = "SWAP", !.load = TRUE, !.kpage = kpage]]
      /\ frame_table' = Append(frame_table, pg)
      /\ op' = [op EXCEPT ![p].new = TRUE]
      /\ UNCHANGED <<pte, swap, swap_bitmap, file, file_lock>>

\* ... and its entries in the supplemental page table and the page directory.
spt_init(p) ==
  LET pg == <<p, op[p].fault>>
  IN  /\ op[p].new
      /\ frame' = [frame EXCEPT ![pg].spt = TRUE]
      /\ pte' = install_page(pg, frame[pg].kpage)
      /\ op' = [op EXCEPT ![p].new = FALSE, ![p].fault = NONE]
      /\ UNCHANGED <<frame_table, pool, mem, kdirty, swap, swap_bitmap, file, file_lock>>

\* The processor writes or reads a page that is present.
Touch(pg, write) ==
  /\ pte' = [pte EXCEPT ![pg].a = TRUE, ![pg].d = @ \/ write]
  /\ mem' = IF write THEN [mem EXCEPT ![pte[pg].kpage] = <<pg, 1 - @[2]>>] ELSE mem

\* page_fault, check_valid_esp: a page with an entry in the supplemental table, or a
\* new page of the stack, is brought in.
MayFault(p, u) == ~pte[<<p, u>>].p /\ (frame[<<p, u>>] # NoFrame \/ u \in StackPages)
page_fault(p, u) ==
  MayFault(p, u) /\ op' = [op EXCEPT ![p].fault = u]
  /\ UNCHANGED <<pte, frame, frame_table, pool, mem, kdirty, swap, swap_bitmap, file, file_lock>>

Running(p) == op[p] = Idle

\* An instruction of the user program.
user(p, u, write) ==
  /\ Running(p)
  /\ \/ page_fault(p, u)
     \/ /\ pte[<<p, u>>].p /\ Touch(<<p, u>>, write)
        /\ UNCHANGED <<frame, frame_table, pool, kdirty, swap, swap_bitmap, file, file_lock, op>>

\* mmap of a file: one page after the other is entered, none is read yet.
mmap(p) ==
  LET new == {pg \in Pages : pg[1] = p /\ pg[2] \in MapPages}
  IN  /\ Running(p) /\ new # {} /\ \A pg \in new : frame[pg] = NoFrame
      /\ file_lock = NONE
      /\ frame' = install_file(new, "MMAP")
      /\ UNCHANGED <<pte, frame_table, pool, mem, kdirty, swap, swap_bitmap, file, file_lock, op>>

\* mmap of a descriptor that is not open: the call returns with file_lock held.
mmap_fails(p) ==
  /\ Running(p) /\ file_lock = NONE
  /\ file_lock' = p
  /\ UNCHANGED <<pte, frame, frame_table, pool, mem, kdirty, swap, swap_bitmap, file, op>>

\* Mutant: a page that is not in memory gives a frame back, too.
frame_free_any(pg) ==
  /\ frame_table' = list_remove(frame_table, pg)
  /\ pool' = pool \cup {frame[pg].kpage}
  /\ UNCHANGED <<mem, swap, swap_bitmap>>

\* frame_free: a page in memory gives its frame back, a page in swap its slot.
frame_free(pg) ==
  \/ /\ frame[pg].load
     /\ frame_table' = list_remove(frame_table, pg)
     /\ pool' = pool \cup {frame[pg].kpage} /\ mem' = [mem EXCEPT ![frame[pg].kpage] = Blank]
     /\ UNCHANGED <<swap, swap_bitmap>>
  \/ /\ ~frame[pg].load /\ frame[pg].type = "SWAP"
     /\ swap_bitmap' = swap_bitmap \ {frame[pg].index}
     /\ swap' = [swap EXCEPT ![frame[pg].index] = Blank]
     /\ UNCHANGED <<frame_table, pool, mem>>
  \/ /\ ~frame[pg].load /\ frame[pg].type # "SWAP"
     /\ UNCHANGED <<frame_table, pool, mem, swap, swap_bitmap>>

\* A page leaves the process: spt_free and frame_free, and before them the write of
\* a mapped page that is dirty.
spt_free(p, pg) ==
  /\ file' = IF frame[pg].load /\ to_file(p, pg)
               THEN [file EXCEPT ![pg] = mem[frame[pg].kpage]] ELSE file
  /\ pte' = IF frame[pg].load THEN [pte EXCEPT ![pg].p = FALSE, ![pg].kpage = 0] ELSE pte
  /\ frame_free(pg)
  /\ frame' = [frame EXCEPT ![pg] = NoFrame]
  /\ UNCHANGED <<kdirty, file_lock, op>>

\* The pages of p among the upages U that have not left it.
Left(p, U) == {pg \in Pages : pg[1] = p /\ pg[2] \in U /\ frame[pg] # NoFrame}

\* munmap, and the same loop in process_exit (munmap_all): page after page.  The struct
\* file of the mapping, which munmap closes with the first page, is left out.
munmap_call(p) ==
  /\ Running(p) /\ Left(p, MapPages) # {}
  /\ op' = [op EXCEPT ![p].call = "munmap"]
  /\ UNCHANGED <<pte, frame, frame_table, pool, mem, kdirty, swap, swap_bitmap, file, file_lock>>

munmap(p) ==
  op[p].call \in {"munmap", "exit"} /\ \E pg \in Left(p, MapPages) : spt_free(p, pg)

munmap_return(p) ==
  /\ op[p].call = "munmap" /\ Left(p, MapPages) = {}
  /\ op' = [op EXCEPT ![p] = Idle]
  /\ UNCHANGED <<pte, frame, frame_table, pool, mem, kdirty, swap, swap_bitmap, file, file_lock>>

exit_call(p) ==
  /\ op' = [op EXCEPT ![p] = [Idle EXCEPT !.call = "exit"]]
  /\ UNCHANGED <<pte, frame, frame_table, pool, mem, kdirty, swap, swap_bitmap, file, file_lock>>

\* process_exit after munmap_all: the supplemental page table ...
exit_pages(p) ==
  /\ op[p].call = "exit" /\ Left(p, MapPages) = {}
  /\ \E pg \in Left(p, Upages) : spt_free(p, pg)

\* ... and pagedir_destroy.  After it thread_exit releases the locks the thread holds.
process_exit(p) ==
  /\ op[p].call = "exit" /\ Left(p, Upages) = {}
  /\ pte' = [pg \in Pages |-> IF pg[1] = p THEN NoPte ELSE pte[pg]]
  /\ op' = [op EXCEPT ![p].call = "out"]
  /\ file_lock' = IF file_lock = p THEN NONE ELSE file_lock
  /\ UNCHANGED <<frame, frame_table, pool, mem, kdirty, swap, swap_bitmap, file>>

\* read: every page of the buffer is checked, and brought in if need be ...
read(p, buffer) ==
  /\ Running(p)
  /\ op' = [op EXCEPT ![p] = [Idle EXCEPT !.call = "check", !.buffer = buffer, !.todo = buffer]]
  /\ UNCHANGED <<pte, frame, frame_table, pool, mem, kdirty, swap, swap_bitmap, file, file_lock>>

check_valid_esp(p) ==
  /\ op[p].call = "check" /\ op[p].fault = NONE
  /\ \/ op[p].todo # <<>> /\ page_fault(p, Head(op[p].todo))
     \/ /\ op[p].todo # <<>> /\ pte[<<p, Head(op[p].todo)>>].p
        /\ op' = [op EXCEPT ![p].todo = Tail(@)]
        /\ UNCHANGED <<pte, frame, frame_table, pool, mem, kdirty, swap, swap_bitmap, file, file_lock>>
     \/ /\ op[p].todo # <<>> /\ frame[<<p, Head(op[p].todo)>>] = NoFrame
        /\ Head(op[p].todo) \notin StackPages
        /\ exit_call(p)
     \/ /\ op[p].todo = <<>> /\ file_lock = NONE
        /\ file_lock' = p
        /\ op' = [op EXCEPT ![p].call = "copy", ![p].todo = op[p].buffer]
        /\ UNCHANGED <<pte, frame, frame_table, pool, mem, kdirty, swap, swap_bitmap, file>>

\* ... and then written under file_lock.
file_read(p) ==
  /\ op[p].call = "copy" /\ op[p].fault = NONE
  /\ \/ op[p].todo # <<>> /\ page_fault(p, Head(op[p].todo))
     \/ /\ op[p].todo # <<>> /\ pte[<<p, Head(op[p].todo)>>].p
        /\ Touch(<<p, Head(op[p].todo)>>, TRUE)
        /\ op' = [op EXCEPT ![p].todo = Tail(@)]
        /\ UNCHANGED <<frame, frame_table, pool, kdirty, swap, swap_bitmap, file, file_lock>>
     \/ /\ op[p].todo = <<>> /\ file_lock' = NONE /\ op' = [op EXCEPT ![p] = Idle]
        /\ UNCHANGED <<pte, frame, frame_table, pool, mem, kdirty, swap, swap_bitmap, file>>

-----------------------------------------------------------------------------
serve(p) == evict(p) \/ page_back(p) \/ file_back(p) \/ frame_table_insert(p) \/ spt_init(p)

Next ==
  \E p \in Procs :
    \/ load(p) \/ load_end(p) \/ serve(p)
    \/ \E u \in Upages, write \in BOOLEAN : user(p, u, write)
    \/ mmap(p) \/ mmap_fails(p) \/ munmap_call(p) \/ munmap(p) \/ munmap_return(p)
    \/ (Running(p) /\ exit_call(p)) \/ exit_pages(p) \/ process_exit(p)
    \/ \E buffer \in Buffers : read(p, buffer)
    \/ check_valid_esp(p) \/ file_read(p)

\* A thread that is ready is scheduled.
Spec == Init /\ [][Next]_vars /\ \A p \in Procs : WF_vars(serve(p))

-----------------------------------------------------------------------------
\* What a process finds in a page, or would find in a mapped file.
Content(pg) ==
  IF frame[pg].load THEN mem[frame[pg].kpage]
  ELSE IF frame[pg].type = "SWAP" THEN swap[frame[pg].index] ELSE file[pg]

\* Paging is invisible to a process that has the memory to itself: whatever is evicted,
\* read back, mapped and unmapped, the content of a page and of a mapped file changes
\* only when the process writes it.
KeepsContent ==
  [][\A pg \in Pages :
       (frame[pg] # NoFrame /\ frame'[pg] # NoFrame) \/ pg[2] \in MapPages =>
         \/ Content(pg)' = Content(pg)
         \/ pte[pg].p /\ pte'[pg].p /\ pte'[pg].d]_vars

\* Nothing is used twice and nothing is lost: a page of the user pool is free or
\* belongs to one frame on the frame table, which is where its page is mapped to; a
\* swap slot in use holds one page that is not in memory.
FramesAccounted ==
  LET loaded == {pg \in Pages : frame[pg].load}
      swapped == {pg \in Pages : frame[pg].type = "SWAP" /\ ~frame[pg].load}
  IN  /\ Range(frame_table) = loaded /\ IsInjective(frame_table)
      /\ pool = Kpages \ {frame[pg].kpage : pg \in loaded}
      /\ \A pg, g \in loaded : frame[pg].kpage = frame[g].kpage => pg = g
      /\ \A pg \in Pages : pte[pg].p => frame[pg].load /\ pte[pg].kpage = frame[pg].kpage
      /\ swap_bitmap = {frame[pg].index : pg \in swapped}
      /\ \A pg, g \in swapped : frame[pg].index = frame[g].index => pg = g

\* check_match finds nothing, so that install_file never shares a frame: it asks for a
\* frame whose kernel mapping is clean, and the kernel has filled every frame through it.
NeverShared == check_match = {}

\* The loop "while (!kpage) evict ()" ends: a page fault is served.
FaultServed == \A p \in Procs : op[p].fault # NONE ~> op[p].fault = NONE

\* lock_release: "Releases LOCK, which must be owned by the current thread."  read
\* still owns file_lock when it has copied the data, and load when it has a stack.
ReleasesOwnLock ==
  \A p \in Procs :
    op[p].call \in {"load", "copy"} /\ op[p].todo = <<>> /\ op[p].fault = NONE => file_lock = p
=============================================================================
