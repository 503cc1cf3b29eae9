--------------------------- MODULE MCPlanuBackend ---------------------------
(***************************************************************************)
(* PlanuCorrectness for TLC.  Threads, preview ids, courses and            *)
(* departments are interchangeable: no definition tells two of them apart. *)
(***************************************************************************)
EXTENDS PlanuCorrectness, TLC

Symmetry == Permutations(Threads) \cup Permutations(PreviewIds)
  \cup Permutations(Courses) \cup Permutations(Departments)

=============================================================================
