------------------------------ MODULE JobLifecycle ------------------------------
(***************************************************************************)
(* What the signer-job module promises about one signing request, whatever *)
(* its columns are: the state machine of SignerJobStatus as the service    *)
(* guards it, one holder per job, one outcome per job, nothing after a     *)
(* terminal state.  SignerJob is shown to implement this specification     *)
(* when the calls on a job do not overlap, and SignerPolling always.       *)
(***************************************************************************)
CONSTANTS
    Jobs,       \* signing requests
    Calls,      \* who may hold a job, who may deliver its result
    Null

VARIABLES
    phase,      \* phase[j]: the lifecycle state of j
    holder,     \* holder[j]: the claim that won j, or Null
    outcome     \* outcome[j]: the delivery of j's result, or Null

vars == <<phase, holder, outcome>>

Open == {"PENDING", "CLAIMED"}

Init ==
    /\ phase = [j \in Jobs |-> "ABSENT"]
    /\ holder = [j \in Jobs |-> Null]
    /\ outcome = [j \in Jobs |-> Null]

Post(j) ==
    /\ phase[j] = "ABSENT"
    /\ phase' = [phase EXCEPT ![j] = "PENDING"]
    /\ UNCHANGED <<holder, outcome>>

Acquire(j, c) ==
    /\ phase[j] = "PENDING"
    /\ phase' = [phase EXCEPT ![j] = "CLAIMED"]
    /\ holder' = [holder EXCEPT ![j] = c]
    /\ UNCHANGED outcome

Deliver(j, c) ==
    /\ phase[j] = "CLAIMED"
    /\ holder[j] # Null
    /\ phase' = [phase EXCEPT ![j] = "COMPLETED"]
    /\ outcome' = [outcome EXCEPT ![j] = c]
    /\ UNCHANGED holder

Abort(j) ==
    /\ phase[j] = "CLAIMED"
    /\ phase' = [phase EXCEPT ![j] = "FAILED"]
    /\ UNCHANGED <<holder, outcome>>

Withdraw(j) ==
    /\ phase[j] \in Open
    /\ phase' = [phase EXCEPT ![j] = "CANCELLED"]
    /\ UNCHANGED <<holder, outcome>>

Lapse(j) ==
    /\ phase[j] \in Open
    /\ phase' = [phase EXCEPT ![j] = "EXPIRED"]
    /\ UNCHANGED <<holder, outcome>>

Next ==
    \E j \in Jobs :
        \/ Post(j)
        \/ \E c \in Calls : Acquire(j, c) \/ Deliver(j, c)
        \/ Abort(j) \/ Withdraw(j) \/ Lapse(j)

Spec == Init /\ [][Next]_vars

=============================================================================
