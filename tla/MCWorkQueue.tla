---------------------------- MODULE MCWorkQueue -----------------------------
(* Small instances of WorkQueue for TLC. *)
EXTENDS WorkQueue, TLC

\* Keys, and workers, are interchangeable.
Symmetry == Permutations(Keys) \cup Permutations(Workers)

=============================================================================
