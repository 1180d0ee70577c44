------------------------------ MODULE MCSignerJob ------------------------------
(* Instances of SignerJob for TLC. *)
EXTENDS SignerJobSerial, TLC

\* The identities of calls and jobs do not matter to any invariant.
Symmetry == Permutations(Calls) \cup Permutations(Jobs)

\* The operations a signer can reach over HTTP.
SignerOps == {"claim", "complete"}

=============================================================================
