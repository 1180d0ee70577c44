---------------------------- MODULE WalletAssignment ----------------------------
(***************************************************************************)
(* What the wallet module promises to its callers, whatever its columns,   *)
(* reservations and locks are: a wallet is granted once, to a customer     *)
(* that has none, and never after it was retired; a call that asks for a   *)
(* customer's wallet is told the one that customer holds.  WalletPool is   *)
(* shown to implement this specification.                                  *)
(***************************************************************************)
CONSTANTS
    Wallets,
    Customers,
    Calls,      \* who may ask for the wallet of a customer
    Null

VARIABLES
    life,       \* life[w]: "unknown", "usable" or "retired"
    holder,     \* holder[w]: the customer w was granted to, or Null
    told        \* told[c]: the customer c asked for and the wallet it was told

vars == <<life, holder, told>>

Init ==
    /\ life = [w \in Wallets |-> "unknown"]
    /\ holder = [w \in Wallets |-> Null]
    /\ told = [c \in Calls |-> Null]

Enter(w) ==
    /\ life[w] = "unknown"
    /\ life' = [life EXCEPT ![w] = "usable"]
    /\ UNCHANGED <<holder, told>>

Grant(w, k) ==
    /\ life[w] = "usable"
    /\ holder[w] = Null
    /\ \A v \in Wallets : holder[v] # k
    /\ holder' = [holder EXCEPT ![w] = k]
    /\ UNCHANGED <<life, told>>

Tell(c, k, w) ==
    /\ told[c] = Null
    /\ holder[w] = k
    /\ told' = [told EXCEPT ![c] = <<k, w>>]
    /\ UNCHANGED <<life, holder>>

\* The customer of a retired wallet keeps it and gets no other.
Retire(w) ==
    /\ life[w] = "usable"
    /\ life' = [life EXCEPT ![w] = "retired"]
    /\ UNCHANGED <<holder, told>>

Next ==
    \E w \in Wallets :
        \/ Enter(w) \/ Retire(w)
        \/ \E k \in Customers : Grant(w, k) \/ \E c \in Calls : Tell(c, k, w)

Spec == Init /\ [][Next]_vars

=============================================================================
