----------------------------- MODULE FileStore -----------------------------
(***************************************************************************)
(* What inode.c and file.c promise: files are sequences of bytes, a write  *)
(* lands where it is aimed and nowhere else, growth fills the gap with     *)
(* zeros.                                                                  *)
(***************************************************************************)
EXTENDS Integers, Sequences

CONSTANTS Sectors, Values, Sizes, MaxLength

VARIABLE content   \* what each file holds, by the sector of its inode

NoContent == <<-1>>
Lengths == 0 .. MaxLength

Init == content = [s \in Sectors |-> NoContent]

\* The file s is created, written or deleted; old and new are what it holds before
\* and after.
Create(old, new) ==
  old = NoContent /\ \E length \in Lengths : new = [k \in 1 .. length |-> 0]

Write(old, new) ==
  /\ old # NoContent
  /\ \E pos \in Lengths, size \in Sizes, v \in Values :
       LET end == pos + size
       IN  new = [k \in 1 .. (IF end > Len(old) THEN end ELSE Len(old)) |->
                    IF k \in pos + 1 .. end THEN v ELSE IF k <= Len(old) THEN old[k] ELSE 0]

Delete(old, new) == old # NoContent /\ new = NoContent

Change(s) ==
  /\ content'[s] # content[s]
  /\ \E old \in {content[s]}, new \in {content'[s]} :
       Create(old, new) \/ Write(old, new) \/ Delete(old, new)
  /\ \A r \in Sectors \ {s} : content'[r] = content[r]

Next == \E s \in Sectors : Change(s)

Spec == Init /\ [][Next]_content
=============================================================================
