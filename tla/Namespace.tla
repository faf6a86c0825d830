----------------------------- MODULE Namespace -----------------------------
(***************************************************************************)
(* What the file system promises about names: a directory binds a name to  *)
(* at most one file, a file is bound once, and a directory loses its own   *)
(* name only when it binds none.                                           *)
(***************************************************************************)
CONSTANTS Sectors, Names, Root

VARIABLE names   \* the triples <<directory, name, file>>

Bound(d, n) == \E s \in Sectors : <<d, n, s>> \in names
Linked(s) == s = Root \/ \E d \in Sectors, n \in Names : <<d, n, s>> \in names
IsEmpty(d) == \A b \in names : b[1] # d

Link(d, n, s) ==
  /\ Linked(d) /\ ~Bound(d, n) /\ ~Linked(s) /\ IsEmpty(s)
  /\ names' = names \cup {<<d, n, s>>}

Unlink(b) ==
  /\ IsEmpty(b[3])
  /\ names' = names \ {b}

Spec ==
  /\ names = {}
  /\ [][\/ \E b \in names' : Link(b[1], b[2], b[3])
        \/ \E b \in names : Unlink(b)]_names
=============================================================================
