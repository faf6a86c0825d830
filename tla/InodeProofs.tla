---------------------------- MODULE InodeProofs ----------------------------
(***************************************************************************)
(* The counts of an inode in memory, for any number of files and sectors:  *)
(* they are those of the files open on it, so the last close and no other  *)
(* finds open_cnt at 1, and the assertions of inode.c hold.                *)
(***************************************************************************)
EXTENDS Inode, FiniteSetTheorems, TLAPS

\* The provers for the steps that name none, in this order.
USE SMTT(20), Z3T(20), ZenonT(60)

\* The files of F that are open on s, and those that deny writes to it.
openers(F, s) == {f \in Files : F[f] # NoFile /\ F[f].inode = s}
deniers(F, s) == {f \in openers(F, s) : F[f].deny_write}

\* A struct inode, whatever its index.
IsInode(i) ==
  /\ i.open_cnt \in Nat /\ i.deny_write_cnt \in Nat
  /\ i = [open_cnt |-> i.open_cnt, removed |-> i.removed,
          deny_write_cnt |-> i.deny_write_cnt, data |-> i.data]
AreInodes(I) == I = [s \in Sectors |-> I[s]] /\ \A s \in Sectors : IsInode(I[s])

\* What the counts rest on: the inodes in memory and the files are records, a file
\* that is open is on a sector, and so is everything that has a name.
ShapeInv ==
  /\ AreInodes(open_inodes)
  /\ files \in [Files -> struct_file \cup {NoFile}]
  /\ named \subseteq Sectors

IInv == ShapeInv /\ CountsOpeners

-----------------------------------------------------------------------------
\* Sets of files are finite, and grow and shrink one file at a time.
LEMMA CountFiles ==
  ASSUME NEW S \in SUBSET Files, NEW f \in Files
  PROVE  /\ Cardinality(S) \in Nat /\ (Cardinality(S) = 0 <=> S = {})
         /\ f \notin S => Cardinality(S \cup {f}) = Cardinality(S) + 1
         /\ f \in S => Cardinality(S \ {f}) = Cardinality(S) - 1 /\ Cardinality(S) > 0
         /\ \A T \in SUBSET S : Cardinality(T) \in Nat /\ Cardinality(T) <= Cardinality(S)
<1>1. IsFiniteSet(S)
  BY FS_Subset, InodeAssumption DEF InodeAssumption
<1>2. Cardinality(S) \in Nat /\ (Cardinality(S) = 0 <=> S = {})
  BY <1>1, FS_CardinalityType, FS_EmptySet
<1>3. f \notin S => Cardinality(S \cup {f}) = Cardinality(S) + 1
  BY <1>1, FS_AddElement
<1>4. f \in S => Cardinality(S \ {f}) = Cardinality(S) - 1
  BY <1>1, FS_RemoveElement
<1>5. ASSUME NEW T \in SUBSET S
      PROVE  Cardinality(T) \in Nat /\ Cardinality(T) <= Cardinality(S)
  <2>1. IsFiniteSet(T) /\ Cardinality(T) <= Cardinality(S)
    BY <1>1, FS_Subset
  <2> QED BY <2>1, FS_CardinalityType
<1>6. f \in S => Cardinality(S) > 0
  BY <1>2
<1> QED BY <1>2, <1>3, <1>4, <1>5, <1>6

\* The counts are the sizes of these sets, and deny_write_cnt is at most open_cnt.
LEMMA DeniersOpen ==
  ASSUME IInv, NEW s \in Sectors
  PROVE  /\ openers(files, s) \in SUBSET Files /\ deniers(files, s) \in SUBSET openers(files, s)
         /\ open_inodes[s].open_cnt = Cardinality(openers(files, s))
         /\ open_inodes[s].deny_write_cnt = Cardinality(deniers(files, s))
         /\ open_inodes[s].deny_write_cnt <= open_inodes[s].open_cnt
<1>1. /\ openers(files, s) \in SUBSET Files
      /\ deniers(files, s) \in SUBSET openers(files, s)
  BY DEF openers, deniers
<1>2. /\ {f \in OpenFiles : files[f].inode = s} = openers(files, s)
      /\ {f \in OpenFiles : files[f].inode = s /\ files[f].deny_write} = deniers(files, s)
  BY DEF openers, deniers, OpenFiles
<1>3. /\ open_inodes[s].open_cnt = Cardinality(openers(files, s))
      /\ open_inodes[s].deny_write_cnt = Cardinality(deniers(files, s))
  BY Zenon, <1>2 DEF IInv, CountsOpeners
<1>4. Cardinality(deniers(files, s)) <= Cardinality(openers(files, s))
  <2>1. IsFiniteSet(openers(files, s))
    BY <1>1, FS_Subset, InodeAssumption DEF InodeAssumption
  <2> QED BY <1>1, <2>1, FS_Subset
<1> QED BY <1>1, <1>3, <1>4

\* Counts of these sizes in the next state.
LEMMA CountsNext ==
  ASSUME \A s \in Sectors : /\ open_inodes'[s].open_cnt = Cardinality(openers(files', s))
                            /\ open_inodes'[s].deny_write_cnt = Cardinality(deniers(files', s))
  PROVE  CountsOpeners'
<1>1. ASSUME NEW s \in Sectors
      PROVE  /\ {f \in OpenFiles' : files'[f].inode = s} = openers(files', s)
             /\ {f \in OpenFiles' : files'[f].inode = s /\ files'[f].deny_write}
                  = deniers(files', s)
  BY DEF openers, deniers, OpenFiles
<1> QED BY Zenon, <1>1 DEF CountsOpeners

\* free_map_allocate hands out a sector when one is free.
LEMMA AllocatedSector ==
  ASSUME NEW st, Sectors \ st.used # {}
  PROVE  allocated(st, 0) \in Sectors
<1> DEFINE T == Sectors \ st.used
<1>1. T \in SUBSET Nat /\ T # {}
  BY FileIndexAssumption DEF Sectors, FileIndexAssumption
<1>2. allocated(st, 0) = Min(T)
  BY <1>1 DEF allocated
<1>3. PICK m \in T : \A n \in T : ~(<<n, m>> \in OpToRel(<, Nat))
  BY <1>1, NatLessThanWellFounded, WFMin
<1>4. ASSUME NEW n \in T PROVE m <= n
  <2>1. CASE n < m
    <3>1. <<n, m>> \in OpToRel(<, Nat)
      BY <1>1, <2>1, <<n, m>>[1] < <<n, m>>[2], <<n, m>> \in Nat \X Nat DEF OpToRel
    <3> QED BY <1>3, <1>4, <3>1
  <2> QED BY <1>1, <2>1
<1>5. Min(T) \in T
  BY <1>3, <1>4 DEF Min
<1> QED BY <1>2, <1>5

\* inode_open counts one opener more; an inode that it reads in denies no writes.
LEMMA OpenInode ==
  ASSUME NEW I, AreInodes(I), NEW s \in Sectors, NEW J, J = inode_open(I, s)
  PROVE  /\ AreInodes(J) /\ \A r \in Sectors \ {s} : J[r] = I[r]
         /\ J[s].open_cnt = I[s].open_cnt + 1
         /\ J[s].deny_write_cnt = IF I[s].open_cnt > 0 THEN I[s].deny_write_cnt ELSE 0
<1>1. I = [r \in Sectors |-> I[r]] /\ \A r \in Sectors : IsInode(I[r])
  BY DEF AreInodes
<1> DEFINE i == I[s]
           j == IF i.open_cnt > 0 THEN [i EXCEPT !.open_cnt = @ + 1]
                ELSE [NotOpen EXCEPT !.open_cnt = 1, !.data = on_disk[s]]
<1>2. J = [I EXCEPT ![s] = j]
  BY Zenon DEF inode_open
<1>3. /\ IsInode(j) /\ j.open_cnt = i.open_cnt + 1
      /\ j.deny_write_cnt = IF i.open_cnt > 0 THEN i.deny_write_cnt ELSE 0
  <2>1. IsInode(i)
    BY <1>1
  <2> HIDE DEF i
  <2>2. CASE i.open_cnt > 0
    <3>1. j = [open_cnt |-> i.open_cnt + 1, removed |-> i.removed,
               deny_write_cnt |-> i.deny_write_cnt, data |-> i.data]
      <4>1. j = [i EXCEPT !.open_cnt = i.open_cnt + 1]
        BY <2>2
      <4> HIDE DEF j
      <4> QED BY <2>1, <4>1 DEF IsInode
    <3> HIDE DEF j
    <3> QED BY <2>1, <2>2, <3>1 DEF IsInode
  <2>3. CASE ~(i.open_cnt > 0)
    <3>1. j = [open_cnt |-> 1, removed |-> FALSE, deny_write_cnt |-> 0, data |-> on_disk[s]]
      BY Zenon, <2>3 DEF NotOpen
    <3>2. i.open_cnt = 0
      BY <2>1, <2>3 DEF IsInode
    <3> HIDE DEF j
    <3> QED BY <3>1, <3>2 DEF IsInode
  <2> QED BY <2>2, <2>3
<1> HIDE DEF i, j
<1>4. J = [r \in Sectors |-> J[r]] /\ J[s] = j /\ \A r \in Sectors \ {s} : J[r] = I[r]
  BY ZenonT(60), <1>1, <1>2
<1> QED BY <1>1, <1>3, <1>4 DEF AreInodes, i

\* inode_close counts one opener less, if the last one leaves no writes denied.
LEMMA CloseInode ==
  ASSUME NEW I, AreInodes(I), NEW s \in Sectors, inode_close(I, s), I[s].open_cnt > 0,
         I[s].open_cnt = 1 => I[s].deny_write_cnt = 0
  PROVE  /\ AreInodes(open_inodes') /\ \A r \in Sectors \ {s} : open_inodes'[r] = I[r]
         /\ open_inodes'[s].open_cnt = I[s].open_cnt - 1
         /\ open_inodes'[s].deny_write_cnt = I[s].deny_write_cnt
<1>1. I = [r \in Sectors |-> I[r]] /\ \A r \in Sectors : IsInode(I[r])
  BY DEF AreInodes
<1> DEFINE i == I[s]
           j == IF i.open_cnt = 1 THEN NotOpen ELSE [i EXCEPT !.open_cnt = @ - 1]
<1>2. open_inodes' = [I EXCEPT ![s] = j]
  BY Zenon DEF inode_close
<1>3. /\ IsInode(j) /\ j.open_cnt = i.open_cnt - 1
      /\ j.deny_write_cnt = i.deny_write_cnt
  <2>1. IsInode(i) /\ i.open_cnt > 0 /\ (i.open_cnt = 1 => i.deny_write_cnt = 0)
    BY <1>1
  <2> HIDE DEF i
  <2>2. CASE i.open_cnt = 1
    <3>1. j.open_cnt = 0 /\ j.deny_write_cnt = 0 /\ IsInode(j)
      BY <2>2 DEF NotOpen, IsInode
    <3> QED BY <2>1, <2>2, <3>1
  <2>3. CASE i.open_cnt # 1
    <3>1. j = [open_cnt |-> i.open_cnt - 1, removed |-> i.removed,
               deny_write_cnt |-> i.deny_write_cnt, data |-> i.data]
      <4>1. j = [i EXCEPT !.open_cnt = i.open_cnt - 1]
        BY <2>3
      <4> HIDE DEF j
      <4> QED BY <2>1, <4>1 DEF IsInode
    <3> HIDE DEF j
    <3> QED BY <2>1, <2>3, <3>1 DEF IsInode
  <2> QED BY <2>2, <2>3
<1> HIDE DEF i, j
<1> DEFINE J == open_inodes'
<1>4. J = [I EXCEPT ![s] = j]
  BY <1>2
<1> HIDE DEF J
<1>5. J = [r \in Sectors |-> J[r]] /\ J[s] = j /\ \A r \in Sectors \ {s} : J[r] = I[r]
  BY <1>1, <1>4
<1> QED BY <1>1, <1>3, <1>5 DEF AreInodes, i, J

-----------------------------------------------------------------------------
\* A sector is not the null inode, and a file is open exactly when it is on one.
LEMMA OpenOnSector ==
  ASSUME ShapeInv, NEW f \in Files
  PROVE  /\ -1 \notin Sectors
         /\ f \in OpenFiles <=> files[f] \in struct_file
         /\ f \in OpenFiles <=> files[f].inode \in Sectors
<1>1. -1 \notin Sectors
  BY FileIndexAssumption DEF Sectors, FileIndexAssumption
<1>2. NoFile.inode = -1 /\ NoFile \notin struct_file
  BY <1>1 DEF NoFile, struct_file
<1>3. files[f] \in struct_file \cup {NoFile}
  BY DEF ShapeInv
<1>4. files[f] \in struct_file => files[f].inode \in Sectors
  BY DEF struct_file
<1> QED BY <1>1, <1>2, <1>3, <1>4 DEF OpenFiles

\* The struct file of a file opened on s.
LEMMA NewFile ==
  ASSUME NEW s \in Sectors
  PROVE  LET n == [NoFile EXCEPT !.inode = s]
         IN  n \in struct_file /\ n # NoFile /\ n.inode = s /\ n.deny_write = FALSE
<1>1. PICK n : n = [NoFile EXCEPT !.inode = s]
  BY Zenon
<1>2. n = [inode |-> s, deny_write |-> FALSE]
  BY Zenon, <1>1 DEF NoFile
<1>3. -1 \notin Sectors /\ NoFile.inode = -1
  BY FileIndexAssumption DEF Sectors, FileIndexAssumption, NoFile
<1>4. n \in struct_file /\ n.inode = s /\ n.deny_write = FALSE
  BY <1>2 DEF struct_file
<1>5. n # NoFile
  BY <1>3, <1>4
<1> QED BY ZenonT(60), <1>1, <1>4, <1>5

\* One file f is given another struct file: the sets of the other files are as before.
LEMMA OtherFiles ==
  ASSUME NEW F, NEW G, NEW f \in Files, NEW s, \A g \in Files \ {f} : G[g] = F[g]
  PROVE  /\ openers(G, s) = IF G[f] # NoFile /\ G[f].inode = s THEN openers(F, s) \cup {f}
                            ELSE openers(F, s) \ {f}
         /\ deniers(G, s) = IF G[f] # NoFile /\ G[f].inode = s /\ G[f].deny_write
                            THEN deniers(F, s) \cup {f} ELSE deniers(F, s) \ {f}
<1>1. \A g : /\ g \in openers(F, s) <=> g \in Files /\ F[g] # NoFile /\ F[g].inode = s
             /\ g \in openers(G, s) <=> g \in Files /\ G[g] # NoFile /\ G[g].inode = s
             /\ g \in deniers(F, s) <=> g \in openers(F, s) /\ F[g].deny_write
             /\ g \in deniers(G, s) <=> g \in openers(G, s) /\ G[g].deny_write
  BY DEF openers, deniers
<1>2. openers(G, s) = IF G[f] # NoFile /\ G[f].inode = s THEN openers(F, s) \cup {f}
                      ELSE openers(F, s) \ {f}
  BY <1>1
<1>3. deniers(G, s) = IF G[f] # NoFile /\ G[f].inode = s /\ G[f].deny_write
                      THEN deniers(F, s) \cup {f} ELSE deniers(F, s) \ {f}
  BY <1>1
<1> QED BY <1>2, <1>3

\* file_open and file_reopen: file f is opened on s.
LEMMA FileOpened ==
  ASSUME IInv, NEW f \in Files, NEW s \in Sectors, files[f] = NoFile,
         files' = [files EXCEPT ![f] = [NoFile EXCEPT !.inode = s]],
         open_inodes' = inode_open(open_inodes, s), named' = named
  PROVE  IInv'
<1> DEFINE n == [NoFile EXCEPT !.inode = s]
           G == files'
           J == open_inodes'
<1>1. ShapeInv /\ AreInodes(open_inodes) /\ files \in [Files -> struct_file \cup {NoFile}]
      /\ DOMAIN files = Files
  BY DEF IInv, ShapeInv
<1>2. /\ n \in struct_file /\ n # NoFile /\ n.inode = s /\ n.deny_write = FALSE
      /\ G = [files EXCEPT ![f] = n] /\ J = inode_open(open_inodes, s)
  BY Zenon, NewFile
<1> HIDE DEF n, G, J
<1>3. /\ G \in [Files -> struct_file \cup {NoFile}]
      /\ G[f] = n /\ \A g \in Files \ {f} : G[g] = files[g]
  BY <1>1, <1>2
<1>4. /\ AreInodes(J) /\ \A r \in Sectors \ {s} : J[r] = open_inodes[r]
      /\ J[s].open_cnt = open_inodes[s].open_cnt + 1
      /\ J[s].deny_write_cnt =
           IF open_inodes[s].open_cnt > 0 THEN open_inodes[s].deny_write_cnt ELSE 0
  BY <1>1, <1>2, OpenInode
<1>5. \A r : f \notin openers(files, r) /\ f \notin deniers(files, r)
  BY DEF openers, deniers
<1>6. ASSUME NEW r \in Sectors
      PROVE  /\ J[r].open_cnt = Cardinality(openers(G, r))
             /\ J[r].deny_write_cnt = Cardinality(deniers(G, r))
  <2>1. /\ openers(files, r) \in SUBSET Files /\ deniers(files, r) \in SUBSET openers(files, r)
        /\ open_inodes[r].open_cnt = Cardinality(openers(files, r))
        /\ open_inodes[r].deny_write_cnt = Cardinality(deniers(files, r))
        /\ open_inodes[r].deny_write_cnt <= open_inodes[r].open_cnt
    BY DeniersOpen
  <2>2. /\ openers(G, r) = IF r = s THEN openers(files, r) \cup {f} ELSE openers(files, r) \ {f}
        /\ deniers(G, r) = deniers(files, r) \ {f}
    <3>1. /\ openers(G, r) = IF G[f] # NoFile /\ G[f].inode = r THEN openers(files, r) \cup {f}
                            ELSE openers(files, r) \ {f}
          /\ deniers(G, r) = IF G[f] # NoFile /\ G[f].inode = r /\ G[f].deny_write
                            THEN deniers(files, r) \cup {f} ELSE deniers(files, r) \ {f}
      BY <1>3, OtherFiles
    <3> QED BY ZenonT(60), <1>2, <1>3, <3>1
  <2>3. deniers(G, r) = deniers(files, r)
    BY <2>2, <1>5
  <2>4. CASE r # s
    <3>1. openers(G, r) = openers(files, r)
      BY <2>2, <2>4, <1>5
    <3> QED BY <2>1, <2>3, <2>4, <3>1, <1>4
  <2>5. CASE r = s
    <3>1. /\ Cardinality(openers(files, s) \cup {f}) = Cardinality(openers(files, s)) + 1
          /\ Cardinality(openers(files, s)) \in Nat /\ Cardinality(deniers(files, s)) \in Nat
      BY <2>1, <2>5, <1>5, CountFiles
    <3>2. J[s].deny_write_cnt = Cardinality(deniers(files, s))
      BY <2>1, <2>5, <3>1, <1>4
    <3> QED BY ZenonT(60), <2>1, <2>2, <2>3, <2>5, <3>1, <3>2, <1>4
  <2> QED BY <2>4, <2>5
<1>7. CountsOpeners'
  BY ZenonT(60), <1>6, CountsNext DEF G, J
<1>8. ShapeInv'
  BY <1>1, <1>3, <1>4 DEF ShapeInv, AreInodes, G, J
<1> QED BY <1>7, <1>8 DEF IInv

\* file_close: what file f denied is allowed again, and f is no longer an opener.
LEMMA FileClosed ==
  ASSUME IInv, NEW f \in Files, file_close(f)
  PROVE  IInv'
<1> DEFINE s == files[f].inode
           I == file_allow_write(open_inodes, f)
           G == files'
           J == open_inodes'
<1>1. /\ ShapeInv /\ AreInodes(open_inodes) /\ files \in [Files -> struct_file \cup {NoFile}]
      /\ named' = named /\ named \subseteq Sectors
  BY DEF IInv, ShapeInv, file_close
<1>2. files[f] # NoFile /\ files[f] \in struct_file /\ s \in Sectors
  BY <1>1, OpenOnSector DEF file_close, OpenFiles
<1>3. /\ G \in [Files -> struct_file \cup {NoFile}]
      /\ G[f] = NoFile /\ \A g \in Files \ {f} : G[g] = files[g]
  BY <1>1 DEF file_close
<1>4. inode_close(I, s)
  BY Zenon DEF file_close
<1>5. ASSUME NEW r \in Sectors
      PROVE  /\ openers(files, r) \in SUBSET Files
             /\ deniers(files, r) \in SUBSET openers(files, r)
             /\ open_inodes[r].open_cnt = Cardinality(openers(files, r))
             /\ open_inodes[r].deny_write_cnt = Cardinality(deniers(files, r))
             /\ open_inodes[r].deny_write_cnt <= open_inodes[r].open_cnt
             /\ openers(G, r) = openers(files, r) \ {f}
             /\ deniers(G, r) = deniers(files, r) \ {f}
             /\ f \in openers(files, r) <=> r = s
             /\ f \in deniers(files, r) <=> r = s /\ files[f].deny_write
  <2> HIDE DEF G, I, J
  <2>1. /\ openers(G, r) = IF G[f] # NoFile /\ G[f].inode = r THEN openers(files, r) \cup {f}
                           ELSE openers(files, r) \ {f}
        /\ deniers(G, r) = IF G[f] # NoFile /\ G[f].inode = r /\ G[f].deny_write
                           THEN deniers(files, r) \cup {f} ELSE deniers(files, r) \ {f}
    <3>1. \A g \in Files \ {f} : G[g] = files[g]
      BY <1>3
    <3> QED BY <3>1, OtherFiles
  <2>2. openers(G, r) = openers(files, r) \ {f} /\ deniers(G, r) = deniers(files, r) \ {f}
    BY ZenonT(60), <1>3, <2>1
  <2>3. /\ f \in openers(files, r) <=> r = s
        /\ f \in deniers(files, r) <=> r = s /\ files[f].deny_write
    BY <1>2 DEF openers, deniers
  <2> QED BY <2>2, <2>3, DeniersOpen
<1> HIDE DEF s, I, G, J
\* the sizes of the sets, one file less
<1>6. ASSUME NEW r \in Sectors
      PROVE  /\ Cardinality(openers(G, r)) =
                  open_inodes[r].open_cnt - (IF r = s THEN 1 ELSE 0)
             /\ Cardinality(deniers(G, r)) =
                  open_inodes[r].deny_write_cnt
                    - (IF r = s /\ files[f].deny_write THEN 1 ELSE 0)
             /\ Cardinality(openers(G, r)) \in Nat /\ Cardinality(deniers(G, r)) \in Nat
             /\ Cardinality(deniers(G, r)) <= Cardinality(openers(G, r))
  <2> DEFINE O == openers(files, r)
             D == deniers(files, r)
  <2>1. /\ O \in SUBSET Files /\ D \in SUBSET O /\ D \in SUBSET Files
        /\ open_inodes[r].open_cnt = Cardinality(O)
        /\ open_inodes[r].deny_write_cnt = Cardinality(D)
        /\ openers(G, r) = O \ {f} /\ deniers(G, r) = D \ {f}
        /\ (f \in O <=> r = s) /\ (f \in D <=> r = s /\ files[f].deny_write)
    BY <1>5
  <2> HIDE DEF O, D
  <2>2. ASSUME NEW S \in SUBSET Files
        PROVE  /\ Cardinality(S \ {f}) = Cardinality(S) - (IF f \in S THEN 1 ELSE 0)
               /\ Cardinality(S \ {f}) \in Nat
    <3>1. CASE f \in S
      BY ZenonT(60), <3>1, CountFiles
    <3>2. CASE f \notin S
      <4>1. S \ {f} = S
        BY <3>2
      <4>2. Cardinality(S) \in Nat
        BY Zenon, CountFiles
      <4>3. Cardinality(S \ {f}) = Cardinality(S)
        BY Zenon, <4>1
      <4> QED BY <3>2, <4>2, <4>3
    <3> QED BY <3>1, <3>2
  <2>3. Cardinality(D \ {f}) <= Cardinality(O \ {f})
    <3>1. O \ {f} \in SUBSET Files /\ D \ {f} \in SUBSET (O \ {f})
      BY <2>1
    <3> QED BY ZenonT(60), <3>1, CountFiles
  <2>4. /\ Cardinality(O \ {f}) = Cardinality(O) - (IF f \in O THEN 1 ELSE 0)
        /\ Cardinality(D \ {f}) = Cardinality(D) - (IF f \in D THEN 1 ELSE 0)
        /\ Cardinality(O \ {f}) \in Nat /\ Cardinality(D \ {f}) \in Nat
    BY <2>1, <2>2
  <2> QED BY <2>1, <2>3, <2>4
\* file_allow_write
<1>7. /\ AreInodes(I) /\ \A r \in Sectors \ {s} : I[r] = open_inodes[r]
      /\ I[s].open_cnt = open_inodes[s].open_cnt
      /\ I[s].deny_write_cnt = Cardinality(deniers(G, s))
  <2>1. /\ Cardinality(deniers(G, s)) \in Nat /\ open_inodes[s].deny_write_cnt \in Nat
        /\ Cardinality(deniers(G, s)) =
             open_inodes[s].deny_write_cnt - (IF files[f].deny_write THEN 1 ELSE 0)
    BY <1>1, <1>2, <1>6 DEF AreInodes, IsInode
  <2>2. CASE ~files[f].deny_write
    <3>1. I = open_inodes
      BY <2>2 DEF I, file_allow_write
    <3> QED BY <1>1, <2>1, <2>2, <3>1
  <2>3. CASE files[f].deny_write
    <3> DEFINE i == open_inodes[s]
               d == i.deny_write_cnt - 1
               j == [open_cnt |-> i.open_cnt, removed |-> i.removed,
                     deny_write_cnt |-> d, data |-> i.data]
    <3>1. IsInode(i) /\ open_inodes = [r \in Sectors |-> open_inodes[r]]
      BY <1>1, <1>2 DEF AreInodes
    <3>2. I = [open_inodes EXCEPT ![s].deny_write_cnt = open_inodes[s].deny_write_cnt - 1]
      BY <2>3 DEF I, file_allow_write, s
    <3>3. I = [open_inodes EXCEPT ![s] = j]
      <4>1. I = [open_inodes EXCEPT ![s] = [i EXCEPT !.deny_write_cnt = d]]
        BY <3>2
      <4>2. PICK m : m = [i EXCEPT !.deny_write_cnt = d]
        BY Zenon
      <4> HIDE DEF i, d
      <4>3. m = j
        BY <3>1, <4>2 DEF IsInode
      <4> QED BY ZenonT(60), <4>1, <4>2, <4>3
    <3>4. IsInode(j) /\ j.open_cnt = i.open_cnt /\ j.deny_write_cnt = Cardinality(deniers(G, s))
      <4>1. d = Cardinality(deniers(G, s)) /\ d \in Nat /\ i.open_cnt \in Nat
        BY <2>1, <2>3, <3>1 DEF IsInode
      <4> HIDE DEF d, i
      <4> QED BY <4>1 DEF IsInode
    <3> HIDE DEF j
    <3>5. I = [r \in Sectors |-> I[r]] /\ I[s] = j
          /\ \A r \in Sectors \ {s} : I[r] = open_inodes[r]
      BY <1>2, <3>1, <3>3
    <3> QED BY <1>1, <3>4, <3>5 DEF AreInodes
  <2> QED BY <2>2, <2>3
\* inode_close
<1>8. /\ AreInodes(J) /\ \A r \in Sectors \ {s} : J[r] = I[r]
      /\ J[s].open_cnt = I[s].open_cnt - 1
      /\ J[s].deny_write_cnt = I[s].deny_write_cnt
  <2>1. I[s].open_cnt > 0 /\ (I[s].open_cnt = 1 => I[s].deny_write_cnt = 0)
    <3>1. /\ Cardinality(openers(G, s)) = open_inodes[s].open_cnt - 1
          /\ Cardinality(openers(G, s)) \in Nat /\ Cardinality(deniers(G, s)) \in Nat
          /\ Cardinality(deniers(G, s)) <= Cardinality(openers(G, s))
          /\ open_inodes[s].open_cnt \in Nat
      BY <1>1, <1>2, <1>6 DEF AreInodes, IsInode
    <3> QED BY <1>7, <3>1
  <2> QED BY <1>2, <1>4, <1>7, <2>1, CloseInode DEF J
<1>9. ASSUME NEW r \in Sectors
      PROVE  /\ J[r].open_cnt = Cardinality(openers(G, r))
             /\ J[r].deny_write_cnt = Cardinality(deniers(G, r))
  <2>1. CASE r = s
    <3>1. Cardinality(openers(G, s)) = open_inodes[s].open_cnt - 1
      BY <1>2, <1>6
    <3> QED BY <1>7, <1>8, <2>1, <3>1
  <2>2. CASE r # s
    <3>1. J[r] = open_inodes[r]
      BY <1>7, <1>8, <2>2
    <3>2. open_inodes[r].open_cnt \in Nat /\ open_inodes[r].deny_write_cnt \in Nat
      BY <1>1 DEF AreInodes, IsInode
    <3> QED BY <1>6, <2>2, <3>1, <3>2
  <2> QED BY <2>1, <2>2
<1>10. CountsOpeners'
  BY <1>9, CountsNext DEF G, J
<1>11. ShapeInv'
  BY <1>1, <1>3, <1>8 DEF ShapeInv, AreInodes, G, J
<1> QED BY <1>10, <1>11 DEF IInv

\* A step that leaves the files alone, and the counts of every inode.
LEMMA CountsKept ==
  ASSUME IInv, files' = files, named' \subseteq Sectors, AreInodes(open_inodes'),
         \A r \in Sectors : /\ open_inodes'[r].open_cnt = open_inodes[r].open_cnt
                            /\ open_inodes'[r].deny_write_cnt = open_inodes[r].deny_write_cnt
  PROVE  IInv'
<1>1. ASSUME NEW r \in Sectors
      PROVE  /\ open_inodes'[r].open_cnt = Cardinality(openers(files', r))
             /\ open_inodes'[r].deny_write_cnt = Cardinality(deniers(files', r))
  <2>1. /\ open_inodes[r].open_cnt = Cardinality(openers(files, r))
        /\ open_inodes[r].deny_write_cnt = Cardinality(deniers(files, r))
    BY DeniersOpen
  <2> QED BY ZenonT(60), <2>1
<1>2. CountsOpeners'
  BY ZenonT(60), <1>1, CountsNext
<1>3. ShapeInv'
  BY DEF IInv, ShapeInv, AreInodes
<1> QED BY <1>2, <1>3 DEF IInv

\* inode_remove opens the inode, marks it and closes it again.
LEMMA InodeRemoved ==
  ASSUME IInv, NEW s \in Sectors, inode_remove(s)
  PROVE  IInv'
<1> DEFINE K == inode_open(open_inodes, s)
           I == [K EXCEPT ![s].removed = TRUE]
           J == open_inodes'
<1>1. /\ AreInodes(open_inodes) /\ inode_close(I, s) /\ files' = files
      /\ named' \subseteq Sectors
  BY DEF IInv, ShapeInv, inode_remove
<1> HIDE DEF K, J
<1>2. /\ AreInodes(K) /\ \A r \in Sectors \ {s} : K[r] = open_inodes[r]
      /\ K[s].open_cnt = open_inodes[s].open_cnt + 1
      /\ K[s].deny_write_cnt =
           IF open_inodes[s].open_cnt > 0 THEN open_inodes[s].deny_write_cnt ELSE 0
  BY <1>1, OpenInode DEF K
<1>3. /\ open_inodes[s].open_cnt \in Nat /\ open_inodes[s].deny_write_cnt \in Nat
      /\ open_inodes[s].deny_write_cnt <= open_inodes[s].open_cnt
  BY <1>1, DeniersOpen DEF AreInodes, IsInode
<1>4. /\ AreInodes(I) /\ \A r \in Sectors \ {s} : I[r] = K[r]
      /\ I[s].open_cnt = K[s].open_cnt /\ I[s].deny_write_cnt = K[s].deny_write_cnt
  <2> DEFINE i == K[s]
             j == [open_cnt |-> i.open_cnt, removed |-> TRUE,
                   deny_write_cnt |-> i.deny_write_cnt, data |-> i.data]
  <2>1. IsInode(i) /\ K = [r \in Sectors |-> K[r]]
    BY <1>2 DEF AreInodes
  <2>2. I = [K EXCEPT ![s] = [i EXCEPT !.removed = TRUE]]
    OBVIOUS
  <2>3. PICK m : m = [i EXCEPT !.removed = TRUE]
    BY Zenon
  <2> HIDE DEF i, I
  <2>4. m = j
    BY ZenonT(60), <2>1, <2>3 DEF IsInode
  <2>5. IsInode(j) /\ j.open_cnt = i.open_cnt /\ j.deny_write_cnt = i.deny_write_cnt
    BY <2>1 DEF IsInode
  <2> HIDE DEF j
  <2>6. I = [r \in Sectors |-> I[r]] /\ I[s] = j /\ \A r \in Sectors \ {s} : I[r] = K[r]
    BY ZenonT(60), <2>1, <2>2, <2>3, <2>4
  <2> QED BY <1>2, <2>5, <2>6 DEF AreInodes, i
<1> HIDE DEF I
<1>5. I[s].open_cnt > 0 /\ (I[s].open_cnt = 1 => I[s].deny_write_cnt = 0)
  BY <1>2, <1>3, <1>4
<1>6. /\ AreInodes(J) /\ \A r \in Sectors \ {s} : J[r] = I[r]
      /\ J[s].open_cnt = I[s].open_cnt - 1 /\ J[s].deny_write_cnt = I[s].deny_write_cnt
  BY <1>1, <1>4, <1>5, CloseInode DEF J
<1>7. /\ J[s].open_cnt = open_inodes[s].open_cnt
      /\ J[s].deny_write_cnt = open_inodes[s].deny_write_cnt
  BY <1>2, <1>3, <1>4, <1>6
<1>8. ASSUME NEW r \in Sectors
      PROVE  /\ J[r].open_cnt = open_inodes[r].open_cnt
             /\ J[r].deny_write_cnt = open_inodes[r].deny_write_cnt
  <2>1. CASE r = s
    BY <2>1, <1>7
  <2>2. CASE r # s
    BY <2>2, <1>2, <1>4, <1>6
  <2> QED BY <2>1, <2>2
<1> QED BY <1>1, <1>6, <1>8, CountsKept DEF J

\* file_deny_write: one file more denies writes to its inode.
LEMMA FileDenied ==
  ASSUME IInv, NEW f \in Files, file_deny_write(f)
  PROVE  IInv'
<1> DEFINE s == files[f].inode
           n == [inode |-> s, deny_write |-> TRUE]
           i == open_inodes[s]
           d == i.deny_write_cnt + 1
           j == [open_cnt |-> i.open_cnt, removed |-> i.removed,
                 deny_write_cnt |-> d, data |-> i.data]
           G == files'
           J == open_inodes'
<1>1. /\ ShapeInv /\ AreInodes(open_inodes) /\ files \in [Files -> struct_file \cup {NoFile}]
      /\ named' = named /\ named \subseteq Sectors /\ f \in OpenFiles /\ ~files[f].deny_write
  BY DEF IInv, ShapeInv, file_deny_write
<1>2. files[f] # NoFile /\ files[f] \in struct_file /\ s \in Sectors
  BY <1>1, OpenOnSector DEF OpenFiles
<1>3. n \in struct_file /\ n.inode = s /\ n.deny_write = TRUE /\ n # NoFile
  BY <1>2 DEF struct_file, NoFile
<1>4. G = [files EXCEPT ![f] = n]
  <2>1. G = [files EXCEPT ![f] = [files[f] EXCEPT !.deny_write = TRUE]]
    BY DEF file_deny_write
  <2>2. PICK m : m = [files[f] EXCEPT !.deny_write = TRUE]
    BY Zenon
  <2>3. m = n
    BY ZenonT(60), <1>2, <2>2 DEF struct_file
  <2> QED BY ZenonT(60), <2>1, <2>2, <2>3
<1>5. IsInode(i) /\ open_inodes = [r \in Sectors |-> open_inodes[r]]
  BY <1>1, <1>2 DEF AreInodes
<1>6. J = [open_inodes EXCEPT ![s] = j]
  <2>1. J = [open_inodes EXCEPT ![s] = [i EXCEPT !.deny_write_cnt = d]]
    BY DEF file_deny_write
  <2>2. PICK m : m = [i EXCEPT !.deny_write_cnt = d]
    BY ZenonT(60)
  <2> HIDE DEF i, d
  <2>3. m = j
    BY <1>5, <2>2 DEF IsInode
  <2> QED BY ZenonT(60), <2>1, <2>2, <2>3
<1>7. IsInode(j) /\ j.open_cnt = i.open_cnt /\ j.deny_write_cnt = i.deny_write_cnt + 1
  <2>1. d \in Nat /\ i.open_cnt \in Nat
    BY <1>5 DEF IsInode
  <2> HIDE DEF i
  <2> QED BY <2>1 DEF IsInode
<1> HIDE DEF n, j, d, G, J
<1>8. /\ G \in [Files -> struct_file \cup {NoFile}]
      /\ G[f] = n /\ \A g \in Files \ {f} : G[g] = files[g]
  BY <1>1, <1>3, <1>4
<1>9. /\ J = [r \in Sectors |-> J[r]] /\ J[s] = j
      /\ \A r \in Sectors \ {s} : J[r] = open_inodes[r]
  <2> HIDE DEF s, i
  <2> QED BY <1>2, <1>5, <1>6
<1>10. AreInodes(J)
  BY <1>1, <1>7, <1>9 DEF AreInodes
<1>11. ASSUME NEW r \in Sectors
       PROVE  /\ J[r].open_cnt = Cardinality(openers(G, r))
              /\ J[r].deny_write_cnt = Cardinality(deniers(G, r))
  <2>1. /\ openers(files, r) \in SUBSET Files /\ deniers(files, r) \in SUBSET openers(files, r)
        /\ open_inodes[r].open_cnt = Cardinality(openers(files, r))
        /\ open_inodes[r].deny_write_cnt = Cardinality(deniers(files, r))
    BY DeniersOpen
  <2>2. /\ f \in openers(files, r) <=> r = s
        /\ f \notin deniers(files, r)
    BY <1>1, <1>2 DEF openers, deniers
  <2>3. /\ openers(G, r) = IF r = s THEN openers(files, r) \cup {f} ELSE openers(files, r) \ {f}
        /\ deniers(G, r) = IF r = s THEN deniers(files, r) \cup {f} ELSE deniers(files, r) \ {f}
    <3>1. /\ openers(G, r) = IF G[f] # NoFile /\ G[f].inode = r THEN openers(files, r) \cup {f}
                            ELSE openers(files, r) \ {f}
          /\ deniers(G, r) = IF G[f] # NoFile /\ G[f].inode = r /\ G[f].deny_write
                            THEN deniers(files, r) \cup {f} ELSE deniers(files, r) \ {f}
      BY <1>8, OtherFiles
    <3> QED BY <1>3, <1>8, <3>1
  <2>4. openers(G, r) = openers(files, r)
    BY <2>2, <2>3
  <2>5. CASE r # s
    <3>1. deniers(G, r) = deniers(files, r)
      BY <2>2, <2>3, <2>5
    <3> QED BY <2>1, <2>4, <2>5, <3>1, <1>9
  <2>6. CASE r = s
    <3>1. Cardinality(deniers(files, r) \cup {f}) = Cardinality(deniers(files, r)) + 1
      <4>1. deniers(files, r) \in SUBSET Files
        BY <2>1
      <4> QED BY <2>2, <4>1, CountFiles
    <3> QED BY <2>1, <2>3, <2>4, <2>6, <3>1, <1>7, <1>9
  <2> QED BY <2>5, <2>6
<1>12. CountsOpeners'
  BY <1>11, CountsNext DEF G, J
<1>13. ShapeInv'
  BY <1>1, <1>8, <1>10 DEF ShapeInv, AreInodes, G, J
<1> QED BY <1>12, <1>13 DEF IInv

\* file_write_at: of the inode, growth changes the index only.
LEMMA FileWritten ==
  ASSUME IInv, NEW f \in OpenFiles, NEW size, NEW ofs, NEW v, file_write_at(f, size, ofs, v)
  PROVE  IInv'
<1> DEFINE s == files[f].inode
           i == open_inodes[s]
           st == IF ofs + size > i.data.length THEN file_growth(Store(i.data), ofs, size)
                 ELSE Store(i.data)
           J == open_inodes'
<1>1. /\ ShapeInv /\ AreInodes(open_inodes) /\ files' = files /\ named' = named
      /\ named' \subseteq Sectors
  BY DEF IInv, ShapeInv, file_write_at
<1>2. s \in Sectors
  BY <1>1, OpenOnSector DEF OpenFiles
<1>3. J = open_inodes \/ J = [open_inodes EXCEPT ![s].data = st.data]
  BY Zenon DEF file_write_at, inode_write_at
<1> HIDE DEF st, J
<1>4. CASE J = open_inodes
  BY <1>1, <1>4, CountsKept DEF J
<1>5. CASE J = [open_inodes EXCEPT ![s].data = st.data]
  <2> DEFINE j == [open_cnt |-> i.open_cnt, removed |-> i.removed,
                   deny_write_cnt |-> i.deny_write_cnt, data |-> st.data]
  <2>1. IsInode(i) /\ open_inodes = [r \in Sectors |-> open_inodes[r]]
    BY <1>1, <1>2 DEF AreInodes
  <2>2. J = [open_inodes EXCEPT ![s] = [i EXCEPT !.data = st.data]]
    BY <1>5
  <2>3. PICK m : m = [i EXCEPT !.data = st.data]
    BY Zenon
  <2> HIDE DEF s, i
  <2>4. m = j
    BY <2>1, <2>3 DEF IsInode
  <2>5. IsInode(j) /\ j.open_cnt = i.open_cnt /\ j.deny_write_cnt = i.deny_write_cnt
    BY <2>1 DEF IsInode
  <2> HIDE DEF j
  <2>6. /\ J = [r \in Sectors |-> J[r]] /\ J[s] = j
        /\ \A r \in Sectors \ {s} : J[r] = open_inodes[r]
    BY <1>2, <2>1, <2>2, <2>3, <2>4
  <2>7. AreInodes(J)
    BY <1>1, <2>5, <2>6 DEF AreInodes
  <2>8. \A r \in Sectors : /\ J[r].open_cnt = open_inodes[r].open_cnt
                           /\ J[r].deny_write_cnt = open_inodes[r].deny_write_cnt
    BY <2>5, <2>6 DEF i
  <2> QED BY <1>1, <2>7, <2>8, CountsKept DEF J
<1> QED BY <1>3, <1>4, <1>5

\* inode_create: the new inode is on a sector, and not in memory.
LEMMA InodeCreated ==
  ASSUME IInv, NEW length, inode_create(length)
  PROVE  IInv'
<1>1. /\ AreInodes(open_inodes) /\ named \subseteq Sectors
      /\ open_inodes' = open_inodes /\ files' = files
      /\ Sectors \ used # {} /\ named' = named \cup {allocated(Store(NoInode), 0)}
  BY Zenon DEF IInv, ShapeInv, inode_create
<1>2. allocated(Store(NoInode), 0) \in Sectors
  <2>1. PICK st : st = Store(NoInode)
    OBVIOUS
  <2>2. st.used = used
    BY <2>1 DEF Store
  <2>3. Sectors \ st.used # {}
    BY ZenonT(60), <1>1, <2>2
  <2> QED BY ZenonT(60), <2>1, <2>3, AllocatedSector
<1>3. named' \subseteq Sectors
  BY ZenonT(60), <1>1, <1>2
<1>4. AreInodes(open_inodes')
  BY ZenonT(60), <1>1
<1> QED BY ZenonT(60), <1>1, <1>3, <1>4, CountsKept

-----------------------------------------------------------------------------
\* A formatted disk has no inode in memory and no file open.
LEMMA InitIInv == Init => IInv
<1> SUFFICES ASSUME Init PROVE IInv
  OBVIOUS
<1>1. /\ open_inodes = [s \in Sectors |-> NotOpen] /\ files = [f \in Files |-> NoFile]
      /\ named = {}
  BY Zenon DEF Init
<1>2. IsInode(NotOpen) /\ NotOpen.open_cnt = 0 /\ NotOpen.deny_write_cnt = 0
  BY DEF IsInode, NotOpen
<1> HIDE DEF NotOpen, NoFile, IsInode
<1>3. ShapeInv
  <2>1. \A s \in Sectors : open_inodes[s] = NotOpen
    BY <1>1
  <2>2. AreInodes(open_inodes)
    BY <1>1, <1>2, <2>1 DEF AreInodes
  <2> QED BY <1>1, <2>2 DEF ShapeInv
<1>4. OpenFiles = {}
  BY <1>1 DEF OpenFiles
<1>5. ASSUME NEW s \in Sectors
      PROVE  /\ open_inodes[s].open_cnt = Cardinality({f \in OpenFiles : files[f].inode = s})
             /\ open_inodes[s].deny_write_cnt =
                  Cardinality({f \in OpenFiles : files[f].inode = s /\ files[f].deny_write})
  <2>1. /\ {f \in OpenFiles : files[f].inode = s} = {}
        /\ {f \in OpenFiles : files[f].inode = s /\ files[f].deny_write} = {}
    BY <1>4
  <2>2. open_inodes[s] = NotOpen
    BY <1>1
  <2>3. Cardinality({}) = 0
    BY FS_EmptySet
  <2> QED BY ZenonT(60), <1>2, <2>1, <2>2, <2>3
<1> QED BY <1>3, <1>5 DEF IInv, CountsOpeners

\* Every call of inode.c and file.c keeps the counts.
LEMMA NextIInv == IInv /\ [Next]_vars => IInv'
<1> SUFFICES ASSUME IInv, [Next]_vars PROVE IInv'
  OBVIOUS
<1>1. AreInodes(open_inodes) /\ named \subseteq Sectors /\ ShapeInv
  BY DEF IInv, ShapeInv
<1>2. ASSUME NEW length, inode_create(length) PROVE IInv'
  BY <1>2, InodeCreated
<1>3. ASSUME NEW s \in Sectors, inode_remove(s) PROVE IInv'
  BY <1>3, InodeRemoved
<1>4. ASSUME NEW f \in Files, NEW s \in Sectors, file_open(f, s) PROVE IInv'
  BY ZenonT(60), <1>4, FileOpened DEF file_open
<1>5. ASSUME NEW f \in Files, NEW file \in Files, file_reopen(f, file) PROVE IInv'
  <2>1. files[file].inode \in Sectors
    BY <1>1, <1>5, OpenOnSector DEF file_reopen
  <2> QED BY ZenonT(60), <1>5, <2>1, FileOpened DEF file_reopen
<1>6. ASSUME NEW f \in Files, file_close(f) PROVE IInv'
  BY <1>6, FileClosed
<1>7. ASSUME NEW f \in Files, file_deny_write(f) PROVE IInv'
  BY <1>7, FileDenied
<1>8. ASSUME NEW f \in OpenFiles, NEW size, NEW ofs, NEW v, file_write_at(f, size, ofs, v)
      PROVE  IInv'
  BY <1>8, FileWritten
<1>9. CASE UNCHANGED vars
  <2>1. open_inodes' = open_inodes /\ files' = files /\ named' = named
    BY <1>9 DEF vars
  <2> QED BY <1>1, <2>1, CountsKept
<1> QED BY ZenonT(60), <1>2, <1>3, <1>4, <1>5, <1>6, <1>7, <1>8, <1>9 DEF Next

\* open_cnt is the number of files open on the inode and deny_write_cnt the number of
\* those that deny writes, whatever the order of opens, reopens, denials, removals and
\* closes: the last close, and no other, writes the inode back and frees its blocks.
THEOREM OpenersCounted == Spec => []CountsOpeners
<1>1. IInv => CountsOpeners
  BY DEF IInv
<1> QED BY <1>1, InitIInv, NextIInv, PTL DEF Spec

\* What inode.c asserts, or relies on without a check: deny_write_cnt never exceeds
\* open_cnt (inode_deny_write), it is positive when a file that denies writes is
\* about to allow them (inode_allow_write), and the inode of an open file is in memory.
AssertionsHold ==
  /\ \A s \in Sectors : open_inodes[s].deny_write_cnt <= open_inodes[s].open_cnt
  /\ \A f \in OpenFiles :
       /\ files[f].inode \in Sectors /\ IsOpen(files[f].inode)
       /\ files[f].deny_write => open_inodes[files[f].inode].deny_write_cnt > 0

\* They follow from the counts.
LEMMA CountsSuffice == IInv => AssertionsHold
<1> SUFFICES ASSUME IInv PROVE AssertionsHold
  OBVIOUS
<1>1. \A s \in Sectors : open_inodes[s].deny_write_cnt <= open_inodes[s].open_cnt
  BY DeniersOpen
<1>2. ASSUME NEW f \in OpenFiles
      PROVE  /\ files[f].inode \in Sectors /\ IsOpen(files[f].inode)
             /\ files[f].deny_write => open_inodes[files[f].inode].deny_write_cnt > 0
  <2> DEFINE s == files[f].inode
  <2>1. f \in Files /\ files[f] # NoFile /\ s \in Sectors
    BY OpenOnSector DEF IInv, OpenFiles
  <2>2. f \in openers(files, s) /\ (files[f].deny_write => f \in deniers(files, s))
    BY <2>1 DEF openers, deniers
  <2> HIDE DEF s
  <2>3. /\ openers(files, s) \in SUBSET Files /\ deniers(files, s) \in SUBSET openers(files, s)
        /\ open_inodes[s].open_cnt = Cardinality(openers(files, s))
        /\ open_inodes[s].deny_write_cnt = Cardinality(deniers(files, s))
    BY <2>1, DeniersOpen
  <2>4. open_inodes[s].open_cnt > 0
    BY ZenonT(60), <2>1, <2>2, <2>3, CountFiles
  <2>5. files[f].deny_write => open_inodes[s].deny_write_cnt > 0
    <3>1. deniers(files, s) \in SUBSET Files
      BY <2>3
    <3>2. ASSUME files[f].deny_write PROVE open_inodes[s].deny_write_cnt > 0
      <4>1. f \in deniers(files, s) /\ f \in Files
        BY ZenonT(60), <2>1, <2>2, <3>2
      <4>2. Cardinality(deniers(files, s)) > 0
        BY ZenonT(60), <3>1, <4>1, CountFiles
      <4> QED BY ZenonT(60), <2>3, <4>2
    <3> QED BY ZenonT(60), <3>2
  <2> QED BY <2>1, <2>4, <2>5 DEF IsOpen, s
<1> QED BY <1>1, <1>2 DEF AssertionsHold

\* The assertions of inode_deny_write and inode_allow_write never fail, and no open
\* file is left with an inode that has been taken out of memory.
THEOREM InodeAssertions == Spec => []AssertionsHold
  BY CountsSuffice, InitIInv, NextIInv, PTL DEF Spec

\* A write changes nothing while any open file denies writes to the inode, also when
\* it comes through another file, opened before or after the denial.
DeniedWrites ==
  \A f, g \in OpenFiles, size \in Sizes, v \in Values :
    \A ofs \in Positions \cup {data(files[f].inode).length} :
    files[f].inode = files[g].inode /\ files[g].deny_write /\ file_write_at(f, size, ofs, v)
      => UNCHANGED <<used, disk, on_disk, open_inodes, files, named>>

\* inode_write_at leaves the sectors and the inodes alone when an executable that runs
\* denies writes: the early return on deny_write_cnt is taken for every writer.
THEOREM DenialsRespected == Spec => [][DeniedWrites]_vars
<1>1. IInv => DeniedWrites
  <2> SUFFICES ASSUME IInv, NEW f \in OpenFiles, NEW g \in OpenFiles, NEW size \in Sizes,
                      NEW v \in Values, NEW ofs \in Positions \cup {data(files[f].inode).length},
                      files[f].inode = files[g].inode,
                      files[g].deny_write, file_write_at(f, size, ofs, v)
               PROVE  UNCHANGED <<used, disk, on_disk, open_inodes, files, named>>
    BY ZenonT(60) DEF DeniedWrites
  <2>1. open_inodes[files[f].inode].deny_write_cnt > 0
    BY ZenonT(60), CountsSuffice DEF AssertionsHold
  <2>2. UNCHANGED <<used, disk, open_inodes>> /\ UNCHANGED <<on_disk, files, named>>
    BY Zenon, <2>1 DEF file_write_at, inode_write_at
  <2> QED BY ZenonT(60), <2>2
<1> QED BY <1>1, InitIInv, NextIInv, PTL DEF Spec
=============================================================================
