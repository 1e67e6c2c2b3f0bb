--------------------------- MODULE MCSubmissions ---------------------------
(* Instances of Submissions. *)
EXTENDS Submissions, TLC

\* Sessions and identifiers are interchangeable in safety properties.
Symmetry == Permutations(Sessions) \cup Permutations(Ids)
=============================================================================
