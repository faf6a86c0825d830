------------------------------- MODULE Cache -------------------------------
(***************************************************************************)
(* The buffer cache of cache.c: a list of at most CACHE_SIZE blocks, looked *)
(* up, created, evicted by second chance and written back, by the threads  *)
(* that use the file system and by the write-behind thread (cwf).          *)
(*                                                                         *)
(* cache_lock protects the list; the lock io of a block (module ReadWrite) *)
(* its contents.  Code under cache_lock is one step per block visited,     *)
(* since it waits for that block's io.  A client is at                     *)
(*   "idle"    outside the cache                                           *)
(*   "find"    in find_cache                                               *)
(*   "touch"   cache_block: block found, access and dirty bits not set yet *)
(*   "create"  cache_block: not found, create_cache to come                *)
(*   "fill"    create_cache: holds cache_lock                              *)
(*   "io"      has its block; read_cache or write_cache to come            *)
(*   "copy"    read: counted as a reader, data not copied yet              *)
(*   "leave"   read: data copied, end_read to come                         *)
(*   "write"   in write_cache or writing                                   *)
(*   "remove"  has its block; cache_remove to come                         *)
(*   "flush"   free_cache: holds cache_lock                                *)
(*   "off"     filesys_done has returned                                   *)
(* and the write-behind thread at "sleep" or "walk".                       *)
(***************************************************************************)
EXTENDS ReadWrite, OrderedList

CONSTANTS
  Clients,     \* the threads that use the file system
  Daemon,      \* the thread cwf
  DaemonRuns,  \* FALSE: a stretch of time in which cwf sleeps
  Sectors, Values,
  CACHE_SIZE,
  Ops,         \* the operations the clients use
  MaxRemoves   \* bound on the number of cache_remove

Blocks == Objects  \* the addresses malloc returns for struct cache

ASSUME CacheAssumption ==
  /\ Clients \subseteq Threads /\ Daemon \in Threads \ Clients
  /\ CACHE_SIZE \in Nat \ {0} /\ MaxRemoves \in Nat
  /\ Blocks # {} /\ Sectors # {} /\ Values # {}

VARIABLES
  cache_list, used_cache, cache_lock,
  sid, AB, DB, data,   \* struct cache, by block
  disk,                \* fs_device
  pc,                  \* where each thread is
  op,                  \* the sector and, for a write, the value of the call
  cur,                 \* the block each client works on
  hand,                \* the list position a loop over cache_list is at
  got,                 \* what each client read last
  removes, freed,      \* number of cache_remove; sectors no longer in use
  latest               \* history: the value last written to each sector

listVars == <<cache_list, used_cache>>
blockVars == <<sid, AB, DB, data>>
callVars == <<op, cur>>
histVars == <<removes, freed, latest>>
vars == <<rwVars, listVars, cache_lock, blockVars, disk, pc, callVars, hand, got,
          histVars>>

\* Every variable has its type.
TypeOK ==
  /\ RWTypeOK
  /\ cache_list \in Seq(Blocks)
  /\ used_cache \in Nat
  /\ cache_lock \in Threads \cup {NoThread}
  /\ sid \in [Blocks -> Sectors]
  /\ AB \in [Blocks -> BOOLEAN] /\ DB \in [Blocks -> BOOLEAN]
  /\ data \in [Blocks -> Values] /\ disk \in [Sectors -> Values]
  /\ pc \in [Threads -> {"idle", "find", "touch", "create", "fill", "io", "copy",
                         "leave", "write", "remove", "flush", "off", "sleep", "walk"}]
  /\ op \in [Clients -> [kind : {"none", "read", "write", "remove"}, sector : Sectors,
                         value : Values]]
  /\ cur \in [Clients -> Blocks]
  /\ hand \in [Threads -> Nat]
  /\ got \in [Clients -> Values]
  /\ latest \in [Sectors -> Values] /\ removes \in Nat /\ freed \subseteq Sectors

\* The value of a field nobody reads before it is set.
Unset(S) == CHOOSE x \in S : TRUE

NoCall == [kind |-> "none", sector |-> Unset(Sectors), value |-> Unset(Values)]

\* cache_system_init, on a disk of any contents.
Init ==
  /\ RWInit /\ on = [p \in Threads |-> Unset(Blocks)]
  /\ cache_list = <<>> /\ used_cache = 0 /\ cache_lock = NoThread
  /\ disk \in [Sectors -> Values] /\ latest = disk
  /\ sid = [b \in Blocks |-> Unset(Sectors)] /\ data = [b \in Blocks |-> Unset(Values)]
  /\ op = [p \in Clients |-> NoCall]
  /\ got = [p \in Clients |-> Unset(Values)]
  /\ AB = [b \in Blocks |-> FALSE] /\ DB = [b \in Blocks |-> FALSE]
  /\ pc = [p \in Threads |-> IF p = Daemon THEN "sleep" ELSE "idle"]
  /\ cur = [p \in Clients |-> Unset(Blocks)]
  /\ hand = [p \in Threads |-> 1]
  /\ removes = 0 /\ freed = {}

-----------------------------------------------------------------------------
GoTo(p, l) == pc' = [pc EXCEPT ![p] = l]
Free(b) == io[b] = NoThread

\* The call of p is over, and its local variables are gone.
Return(p) ==
  /\ GoTo(p, "idle")
  /\ op' = [op EXCEPT ![p] = NoCall]
  /\ cur' = [cur EXCEPT ![p] = Unset(Blocks)]

\* inode.c calls the cache for a sector in use: cache_block then a read or a
\* write of the block, or find_cache then cache_remove.
call(p, k, s, v) ==
  /\ pc[p] = "idle" /\ k \in Ops
  /\ k \in {"read", "remove"} => s \notin freed /\ v = Unset(Values)
  /\ k = "remove" => removes < MaxRemoves
  /\ op' = [op EXCEPT ![p] = [kind |-> k, sector |-> s, value |-> v]]
  /\ GoTo(p, "find")
  /\ UNCHANGED <<rwVars, listVars, cache_lock, blockVars, disk, cur, hand, got, histVars>>

\* The blocks on the list that hold sector s, by position.
Hits(s) == {i \in DOMAIN cache_list : sid[cache_list[i]] = s}

\* Mutant: the last block of the list is not looked at.
find_cache_short(p) ==
  LET hits == {i \in Hits(op[p].sector) : i < Len(cache_list)}
  IN  /\ pc[p] = "find" /\ cache_lock = NoThread
      /\ IF hits # {}
           THEN /\ cur' = [cur EXCEPT ![p] = cache_list[Min(hits)]]
                /\ GoTo(p, IF op[p].kind = "remove" THEN "remove" ELSE "touch")
                /\ UNCHANGED op
           ELSE IF op[p].kind = "remove" THEN Return(p)
                ELSE GoTo(p, "create") /\ UNCHANGED callVars
      /\ freed' = IF op[p].kind = "remove" /\ hits = {} THEN freed \cup {op[p].sector}
                  ELSE freed
      /\ UNCHANGED <<rwVars, listVars, cache_lock, blockVars, disk, hand, got, removes,
                     latest>>

\* find_cache, under cache_lock: the first block of the sector.  inode_delete
\* frees the sector whether or not it is cached.
find_cache(p) ==
  LET hits == Hits(op[p].sector)
  IN  /\ pc[p] = "find" /\ cache_lock = NoThread
      /\ IF hits # {}
           THEN /\ cur' = [cur EXCEPT ![p] = cache_list[Min(hits)]]
                /\ GoTo(p, IF op[p].kind = "remove" THEN "remove" ELSE "touch")
                /\ UNCHANGED op
           ELSE IF op[p].kind = "remove" THEN Return(p)
                ELSE GoTo(p, "create") /\ UNCHANGED callVars
      /\ freed' = IF op[p].kind = "remove" /\ hits = {} THEN freed \cup {op[p].sector}
                  ELSE freed
      /\ UNCHANGED <<rwVars, listVars, cache_lock, blockVars, disk, hand, got, removes,
                     latest>>

\* Mutant: a read access clears the dirty bit.
touch_clears(p) ==
  LET c == cur[p]
  IN  /\ pc[p] = "touch" /\ Free(c)
      /\ AB' = [AB EXCEPT ![c] = TRUE]
      /\ DB' = [DB EXCEPT ![c] = op[p].kind = "write"]
      /\ GoTo(p, "io")
      /\ UNCHANGED <<rwVars, listVars, cache_lock, sid, data, disk, callVars, hand, got,
                     histVars>>

\* cache_block found the block: set its access and dirty bits, under io.
touch(p) ==
  LET c == cur[p]
  IN  /\ pc[p] = "touch" /\ Free(c)
      /\ AB' = [AB EXCEPT ![c] = TRUE]
      /\ DB' = [DB EXCEPT ![c] = @ \/ op[p].kind = "write"]
      /\ GoTo(p, "io")
      /\ UNCHANGED <<rwVars, listVars, cache_lock, sid, data, disk, callVars, hand, got,
                     histVars>>

\* create_cache takes cache_lock; whether another thread has created the block
\* since find_cache is not looked at.
create_lock(p) ==
  /\ pc[p] = "create" /\ cache_lock = NoThread
  /\ cache_lock' = p
  /\ hand' = [hand EXCEPT ![p] = 1]
  /\ GoTo(p, "fill")
  /\ UNCHANGED <<rwVars, listVars, blockVars, disk, callVars, got, histVars>>

\* The next position of a loop that starts again at the end of the list.
Wrap(i) == IF i < Len(cache_list) THEN i + 1 ELSE 1

\* Mutant: a block is evicted before the cache is full.
cache_evict_early(p) ==
  LET c == cache_list[hand[p]]
  IN  /\ pc[p] = "fill" /\ used_cache + 1 >= CACHE_SIZE
      /\ cache_list # <<>> /\ Free(c)
      /\ IF AB[c]
           THEN /\ AB' = [AB EXCEPT ![c] = FALSE]
                /\ hand' = [hand EXCEPT ![p] = Wrap(@)]
                /\ UNCHANGED <<listVars, disk>>
           ELSE /\ disk' = IF DB[c] THEN [disk EXCEPT ![sid[c]] = data[c]] ELSE disk
                /\ cache_list' = RemoveAt(cache_list, hand[p])
                /\ used_cache' = used_cache - 1
                /\ hand' = [hand EXCEPT ![p] = 1]
                /\ UNCHANGED AB
      /\ UNCHANGED <<rwVars, cache_lock, sid, DB, data, pc, callVars, got, histVars>>

\* cache_evict visits a block: one that was accessed gets a second chance,
\* the first that was not is written if dirty, and freed.
cache_evict(p) ==
  LET c == cache_list[hand[p]]
  IN  /\ pc[p] = "fill" /\ used_cache >= CACHE_SIZE
      /\ cache_list # <<>> /\ Free(c)
      /\ IF AB[c]
           THEN /\ AB' = [AB EXCEPT ![c] = FALSE]
                /\ hand' = [hand EXCEPT ![p] = Wrap(@)]
                /\ UNCHANGED <<listVars, disk>>
           ELSE /\ disk' = IF DB[c] THEN [disk EXCEPT ![sid[c]] = data[c]] ELSE disk
                /\ cache_list' = RemoveAt(cache_list, hand[p])
                /\ used_cache' = used_cache - 1
                /\ hand' = [hand EXCEPT ![p] = 1]
                /\ UNCHANGED AB
      /\ UNCHANGED <<rwVars, cache_lock, sid, DB, data, pc, callVars, got, histVars>>

\* Mutant: one block too many.
create_cache_full(p, c) ==
  /\ pc[p] = "fill" /\ used_cache <= CACHE_SIZE
  /\ cache_list' = Append(cache_list, c)
  /\ used_cache' = used_cache + 1
  /\ read_cnt' = [read_cnt EXCEPT ![c] = 0] /\ read_end' = [read_end EXCEPT ![c] = {}]
  /\ sid' = [sid EXCEPT ![c] = op[p].sector]
  /\ AB' = [AB EXCEPT ![c] = TRUE]
  /\ DB' = [DB EXCEPT ![c] = op[p].kind = "write"]
  /\ data' = [data EXCEPT ![c] = disk[op[p].sector]]
  /\ cur' = [cur EXCEPT ![p] = c]
  /\ cache_lock' = NoThread
  /\ GoTo(p, "io")
  /\ UNCHANGED <<io, at, on, disk, op, hand, got, histVars>>

\* The rest of create_cache, with c from malloc: read the sector into a block
\* at the end of the list.
create_cache(p, c) ==
  /\ pc[p] = "fill" /\ used_cache < CACHE_SIZE
  /\ cache_list' = Append(cache_list, c)
  /\ used_cache' = used_cache + 1
  /\ read_cnt' = [read_cnt EXCEPT ![c] = 0] /\ read_end' = [read_end EXCEPT ![c] = {}]
  /\ sid' = [sid EXCEPT ![c] = op[p].sector]
  /\ AB' = [AB EXCEPT ![c] = TRUE]
  /\ DB' = [DB EXCEPT ![c] = op[p].kind = "write"]
  /\ data' = [data EXCEPT ![c] = disk[op[p].sector]]
  /\ cur' = [cur EXCEPT ![p] = c]
  /\ cache_lock' = NoThread
  /\ GoTo(p, "io")
  /\ UNCHANGED <<io, at, on, disk, op, hand, got, histVars>>

\* inode_read_at: count as a reader, copy the data out, leave.
read_begin(p) ==
  /\ pc[p] = "io" /\ op[p].kind = "read"
  /\ read_cache(p, cur[p])
  /\ GoTo(p, "copy")
  /\ UNCHANGED <<listVars, cache_lock, blockVars, disk, callVars, hand, got, histVars>>

read_copy(p) ==
  /\ pc[p] = "copy"
  /\ got' = [got EXCEPT ![p] = data[cur[p]]]
  /\ GoTo(p, "leave")
  /\ UNCHANGED <<rwVars, listVars, cache_lock, blockVars, disk, callVars, hand, histVars>>

read_done(p) ==
  /\ pc[p] = "leave"
  /\ end_read(p)
  /\ Return(p)
  /\ UNCHANGED <<listVars, cache_lock, blockVars, disk, hand, got, histVars>>

\* inode_write_at: enter as a writer, change the data, leave.
write_begin(p) ==
  /\ pc[p] = "io" /\ op[p].kind = "write"
  /\ write_cache(p, cur[p])
  /\ GoTo(p, "write")
  /\ UNCHANGED <<listVars, cache_lock, blockVars, disk, callVars, hand, got, histVars>>

write_wake(p) ==
  /\ pc[p] = "write"
  /\ write_resume(p)
  /\ UNCHANGED <<listVars, cache_lock, blockVars, disk, pc, callVars, hand, got, histVars>>

write_done(p) ==
  /\ pc[p] = "write"
  /\ data' = [data EXCEPT ![cur[p]] = op[p].value]
  /\ latest' = [latest EXCEPT ![op[p].sector] = op[p].value]
  /\ freed' = freed \ {op[p].sector}
  /\ end_write(p)
  /\ Return(p)
  /\ UNCHANGED <<listVars, cache_lock, sid, AB, DB, disk, hand, got, removes>>

\* cache_remove, for a sector of a deleted file: used_cache stays as it is.
cache_remove(p) ==
  /\ pc[p] = "remove" /\ cache_lock = NoThread
  /\ cache_list' = list_remove(cache_list, cur[p])
  /\ freed' = freed \cup {op[p].sector}
  /\ removes' = removes + 1
  /\ Return(p)
  /\ UNCHANGED <<rwVars, used_cache, cache_lock, blockVars, disk, hand, got,
                 latest>>

\* filesys_done calls free_cache: every block is written, dirty or not, and
\* freed, from the front of the list.
flush_lock(p) ==
  /\ pc[p] = "idle" /\ "done" \in Ops /\ cache_lock = NoThread
  /\ cache_lock' = p
  /\ GoTo(p, "flush")
  /\ UNCHANGED <<rwVars, listVars, blockVars, disk, callVars, hand, got, histVars>>

free_cache(p) ==
  LET c == Head(cache_list)
  IN  /\ pc[p] = "flush" /\ cache_list # <<>> /\ Free(c)
      /\ disk' = [disk EXCEPT ![sid[c]] = data[c]]
      /\ cache_list' = Tail(cache_list)
      /\ used_cache' = used_cache - 1
      /\ UNCHANGED <<rwVars, cache_lock, blockVars, pc, callVars, hand, got, histVars>>

flush_done(p) ==
  /\ pc[p] = "flush" /\ cache_list = <<>>
  /\ cache_lock' = NoThread
  /\ GoTo(p, "off")
  /\ UNCHANGED <<rwVars, listVars, blockVars, disk, callVars, hand, got, histVars>>

\* cache_writeback_func wakes up and takes cache_lock.
cwf_lock ==
  /\ DaemonRuns /\ pc[Daemon] = "sleep" /\ cache_lock = NoThread
  /\ cache_lock' = Daemon
  /\ hand' = [hand EXCEPT ![Daemon] = 1]
  /\ GoTo(Daemon, "walk")
  /\ UNCHANGED <<rwVars, listVars, blockVars, disk, callVars, got, histVars>>

\* write_to_disk: a dirty block is written and is clean then, under io.
write_to_disk ==
  LET i == hand[Daemon]
      c == cache_list[i]
  IN  /\ pc[Daemon] = "walk" /\ i <= Len(cache_list) /\ Free(c)
      /\ disk' = IF DB[c] THEN [disk EXCEPT ![sid[c]] = data[c]] ELSE disk
      /\ DB' = [DB EXCEPT ![c] = FALSE]
      /\ hand' = [hand EXCEPT ![Daemon] = i + 1]
      /\ UNCHANGED <<rwVars, listVars, cache_lock, sid, AB, data, pc, callVars, got, histVars>>

cwf_unlock ==
  /\ pc[Daemon] = "walk" /\ hand[Daemon] > Len(cache_list)
  /\ cache_lock' = NoThread
  /\ GoTo(Daemon, "sleep")
  /\ UNCHANGED <<rwVars, listVars, blockVars, disk, callVars, hand, got, histVars>>

\* A step of a thread in the file system.
ClientStep(p) ==
  \/ \E k \in {"read", "write", "remove"}, s \in Sectors, v \in Values : call(p, k, s, v)
  \/ find_cache(p) \/ touch(p)
  \/ create_lock(p) \/ cache_evict(p)
  \/ \E c \in Blocks \ Range(cache_list) : create_cache(p, c)
  \/ read_begin(p) \/ read_copy(p) \/ read_done(p)
  \/ write_begin(p) \/ write_wake(p) \/ write_done(p)
  \/ cache_remove(p)
  \/ flush_lock(p) \/ free_cache(p) \/ flush_done(p)

Next == (\E p \in Clients : ClientStep(p)) \/ cwf_lock \/ write_to_disk \/ cwf_unlock

Spec == Init /\ [][Next]_vars

-----------------------------------------------------------------------------
\* What a thread that looks for sector s now would find; nobody looks for a
\* sector that was freed, until it is written again.
Lookup(s) ==
  IF s \in freed THEN latest[s]
  ELSE IF Hits(s) = {} THEN disk[s] ELSE data[cache_list[Min(Hits(s))]]

\* The cache implements a store of sectors: apart from a write, no step, and
\* no eviction or shutdown, changes what a sector holds, and a read returns it.
Store == INSTANCE BlockStore WITH content <- [s \in Sectors |-> Lookup(s)]
StoreSpec == Store!Spec

\* One block per sector: find_cache and create_cache are two critical
\* sections, and a sector held twice would be written and read in two places.
OneBlockPerSector ==
  /\ \A s \in Sectors : Cardinality(Hits(s)) <= 1
  /\ Cardinality(Range(cache_list)) = Len(cache_list)

\* The list never outgrows the count that limits it, nor the count CACHE_SIZE.
Capacity == Len(cache_list) <= used_cache /\ used_cache <= CACHE_SIZE

\* A client between cache_block and the end of its access works on a block
\* that is on the list and holds its sector: no eviction has freed it.
HoldsItsBlock ==
  \A p \in Clients : pc[p] \in {"touch", "io", "copy", "leave", "write"} =>
    /\ Contains(cache_list, cur[p])
    /\ sid[cur[p]] = op[p].sector

\* filesys_done writes any unwritten data to disk.
ShutdownWritesAll ==
  (\E p \in Clients : pc[p] = "off") => \A s \in Sectors \ freed : disk[s] = latest[s]
=============================================================================
