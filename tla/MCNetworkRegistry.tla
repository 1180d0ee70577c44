--------------------------- MODULE MCNetworkRegistry ---------------------------
(* Instances of NetworkRegistry for TLC. *)
EXTENDS NetworkRegistry, TLC

\* Everything but Null is interchangeable.
Symmetry ==
    Permutations(Calls) \cup Permutations(Slugs) \cup Permutations(ChainIds)
        \cup Permutations(Names)

=============================================================================
