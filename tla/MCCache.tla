------------------------------ MODULE MCCache ------------------------------
(***************************************************************************)
(* Instances of Cache for TLC.  The clients are interchangeable.           *)
(***************************************************************************)
EXTENDS Cache, TLC
Symmetry == Permutations(Clients)
=============================================================================
