--------------------------- MODULE MCDailyCandidates ---------------------------
(* Small instances of DailyCandidates for TLC. *)
EXTENDS DailyCandidates, TLC

\* Producers and runs are interchangeable.
Symmetric == Permutations(Producer) \union Permutations(Run)
=============================================================================
