----------------------------- MODULE BlockStore -----------------------------
(***************************************************************************)
(* What the buffer cache promises to inode.c: a store of sectors in which  *)
(* a read returns what was last written, and only the write of a client    *)
(* changes a sector.  Caching, eviction, write-back and shutdown are       *)
(* invisible.                                                              *)
(***************************************************************************)
CONSTANTS Clients, Sectors, Values, NoCall

VARIABLES
  content,   \* what each sector holds
  op,        \* the call of each client: kind, sector, value
  got        \* what each client read last

Init ==
  /\ content \in [Sectors -> Values]
  /\ op = [p \in Clients |-> NoCall]
  /\ got \in [Clients -> Values]

Call(p, k, s, v) ==
  /\ op[p] = NoCall
  /\ op' = [op EXCEPT ![p] = [kind |-> k, sector |-> s, value |-> v]]
  /\ UNCHANGED <<content, got>>

Read(p) ==
  /\ op[p].kind = "read"
  /\ got' = [got EXCEPT ![p] = content[op[p].sector]]
  /\ UNCHANGED <<content, op>>

Write(p) ==
  /\ op[p].kind = "write"
  /\ content' = [content EXCEPT ![op[p].sector] = op[p].value]
  /\ op' = [op EXCEPT ![p] = NoCall]
  /\ UNCHANGED got

\* A read is over, or a sector has been given up, which changes nothing.
Return(p) ==
  /\ op[p].kind \in {"read", "remove"}
  /\ op' = [op EXCEPT ![p] = NoCall]
  /\ UNCHANGED <<content, got>>

Next ==
  \E p \in Clients :
    \/ \E k \in {"read", "write", "remove"}, s \in Sectors, v \in Values : Call(p, k, s, v)
    \/ Read(p) \/ Write(p) \/ Return(p)

Spec == Init /\ [][Next]_<<content, op, got>>
=============================================================================
