---------------------------- MODULE MCTokenRegistry ----------------------------
(* Instances of TokenRegistry for TLC. *)
EXTENDS TokenRegistry, TLC

\* The calls that may create a token are interchangeable, so are the others,
\* the networks and the symbols.
Symmetry ==
    Permutations(Creators) \cup Permutations(Calls \ Creators)
        \cup Permutations(Networks) \cup Permutations(Symbols)

=============================================================================
