----------------------------- MODULE MCAdmission ----------------------------
(* Small instances of Admission for TLC. *)
EXTENDS Admission, TLC

\* Clients are interchangeable, and so are specs that decode.
Symmetry == Permutations(Clients) \cup Permutations(Specs \ Malformed)

=============================================================================
