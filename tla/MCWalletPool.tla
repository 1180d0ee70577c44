------------------------------ MODULE MCWalletPool ------------------------------
(* Instances of WalletPool for TLC. *)
EXTENDS WalletPool, TLC

\* Wallets, customers and calls are interchangeable.
Symmetry == Permutations(Wallets) \cup Permutations(Customers) \cup Permutations(Calls)

=============================================================================
