--------------------------- MODULE MCLiveCommands ---------------------------
(* Small instances of LiveCommands for TLC. *)
EXTENDS LiveCommands, TLC

CONSTANTS w1, w2, w3, p1, p2

OneProfile == [w \in Worker |-> p1]
TwoAndOne == [w \in Worker |-> IF w = w3 THEN p2 ELSE p1]

\* Workers of one profile, targets and releases are interchangeable.
Symmetric == Permutations(Worker) \union Permutations(Target) \union Permutations(Release)
Pair == Permutations({w1, w2}) \union Permutations(Target)
=============================================================================
