---------------------------- MODULE SignerJobSerial ----------------------------
(***************************************************************************)
(* What the documents promise of a signer job.  When the calls on a job    *)
(* never overlap, SignerJob keeps these promises and implements the        *)
(* abstract JobLifecycle; when they overlap, it does not.                  *)
(***************************************************************************)
EXTENDS SignerJob

\* "Exactly one Signer wins concurrent claims" (controller, claimJob): of all
\* the claims of a job at most one is answered with success.
OneClaimWinner ==
    \A c, d \in Calls, j \in Jobs :
        Did(c, "claim", j) /\ Did(d, "claim", j) => c = d

\* The result of a job is "written once; never modified after" (the entity's
\* result column): no later call replaces or erases it.
ResultWrittenOnce ==
    [][\A j \in Jobs : row[j].result # Null => row'[j].result = row[j].result]_vars

\* A job that was completed, failed, expired or cancelled is closed for good:
\* whatever is called on it afterwards, in whatever order, its row keeps every
\* column but the retry counter, which incrementRetry counts up in any status.
ClosedForGood ==
    [][\A j \in Jobs :
           row[j].status \in Terminal =>
               row'[j] = [row[j] EXCEPT !.retryCount = row'[j].retryCount]]_vars

\* expireJob "transitions a PENDING or CLAIMED job to EXPIRED": once the
\* deadline of an open job has passed, the cron's call is not refused.
OverdueJobExpires ==
    [][\A c \in Calls :
           /\ Refuse(c)
           /\ op[c] = "expire"
           /\ snap[c].status \in {"PENDING", "CLAIMED"}
           => now <= snap[c].expiresAt]_vars

Lifecycle == INSTANCE JobLifecycle WITH
    phase <- [j \in Jobs |-> row[j].status],
    holder <- [j \in Jobs |-> row[j].claim],
    outcome <- [j \in Jobs |-> row[j].result]

\* Every behaviour of the service is one of the abstract lifecycle: each
\* write is one of its transitions or changes nothing it can see.
ImplementsLifecycle == Lifecycle!Spec

-----------------------------------------------------------------------------
(* The inductive invariant of calls that do not overlap: a copy is the row  *)
(* itself, so a guard that held on the copy holds on the row.              *)

\* The columns claim and result that go with a status.
Consistent(r) ==
    /\ r.status \in {"ABSENT", "PENDING"} => r.claim = Null
    /\ r.status \in {"CLAIMED", "COMPLETED"} => r.claim # Null
    /\ (r.status = "COMPLETED") <=> (r.result # Null)

RowShape == \A j \in Jobs : Consistent(row[j])

\* At most one call is in flight for a job.
OneCallPerJob ==
    \A c, d \in Calls :
        InFlight(c) /\ InFlight(d) /\ target[c] = target[d] => c = d

\* The copy of an existing row is that row, and the comparison a save made
\* is still right.
CopyIsCurrent(c) ==
    /\ HasCopy(c) /\ snap[c].status # "ABSENT" => snap[c] = row[target[c]]
    /\ pc[c] = "writing" => dirty[c] = ChangedColumns(Copy(c), row[target[c]])

\* The row remembers the claim that was answered with success.
WinnerHoldsRow(c) ==
    \A j \in Jobs : Did(c, "claim", j) => row[j].claim = c

SerialInv ==
    /\ IInv
    /\ RowShape
    /\ OneCallPerJob
    /\ \A c \in Calls : CopyIsCurrent(c) /\ WinnerHoldsRow(c)

=============================================================================
