------------------------------- MODULE MCListing -------------------------------
(* Instances of Listing for TLC. *)
EXTENDS Listing, TLC

\* Rows are interchangeable.
Symmetry == Permutations(Rows)

=============================================================================
