------------------------------ MODULE SignerJobRow ------------------------------
(***************************************************************************)
(* One row of the signer_jobs table and what each method of                *)
(* SignerJobService decides from a copy of it: the guards it checks and    *)
(* the columns it changes.  Everything here is a function of the copy, so  *)
(* the interleaving of the methods is left to the modules that use it.     *)
(*                                                                         *)
(* A uuid, a timestamp or a payload written by a call is represented by    *)
(* the call that wrote it: the column "claim" stands for claimedBy,        *)
(* claimedAt and claimToken (always written together, with a token that is *)
(* fresh for each claim), "result" for the SignerResult, "errorMessage"    *)
(* for the reason and "completedAt" for the closing time.                  *)
(***************************************************************************)
EXTENDS Integers

CONSTANTS
    Calls,      \* the method calls of a behaviour; an identifier is used once
    Null,       \* SQL NULL
    MaxRetry    \* MAX_RETRY_COUNT

ASSUME NullAssumption == Null \notin Calls
ASSUME MaxRetryAssumption == MaxRetry \in Nat

Operations == {"claim", "complete", "cancel", "expire", "retry", "fail"}

Terminal == {"COMPLETED", "FAILED", "EXPIRED", "CANCELLED"}

\* "ABSENT" is the status of a requestId that has no row yet.
Status == {"ABSENT", "PENDING", "CLAIMED"} \cup Terminal

Row == [status       : Status,
        claim        : Calls \cup {Null},
        result       : Calls \cup {Null},
        errorMessage : Calls \cup {Null},
        completedAt  : Calls \cup {Null},
        retryCount   : Nat,
        createdAt    : Nat,
        expiresAt    : Nat]

\* The row createJob inserts at time t for a payload that expires at d.
NewRow(t, d) ==
    [status |-> "PENDING", claim |-> Null, result |-> Null,
     errorMessage |-> Null, completedAt |-> Null, retryCount |-> 0,
     createdAt |-> t, expiresAt |-> d]

AbsentRow == [NewRow(0, 0) EXCEPT !.status = "ABSENT"]

Columns == DOMAIN AbsentRow

-----------------------------------------------------------------------------
(* Guards: what a method requires of the row it read. *)

\* assertNotExpired: the deadline itself still counts as in time.
NotExpired(r, t) == r.expiresAt >= t

\* Mutant of InWindow: a result signed at the deadline is refused.
InWindowStrictly(r, signedAt) == r.createdAt <= signedAt /\ signedAt < r.expiresAt

\* assertResultIntegrity: the signing time lies in the life of the payload.
InWindow(r, signedAt) == r.createdAt <= signedAt /\ signedAt <= r.expiresAt

\* Mutant of ClaimAllowed: the AlreadyClaimed check is missing.
ClaimAllowedAgain(r, t) == NotExpired(r, t) /\ r.status \in {"PENDING", "CLAIMED"}

ClaimAllowed(r, t) == NotExpired(r, t) /\ r.status = "PENDING"

\* Mutant of CompleteAllowed: only the token is checked, not the status.
CompleteAllowedByToken(r, tok) == tok # Null /\ r.claim = tok

\* Mutant of CompleteAllowed: the token is not compared.
CompleteAllowedByStatus(r, tok) == r.status = "CLAIMED" /\ tok # Null

\* A stored NULL token never matches: the controller turns it into ''.
CompleteAllowed(r, tok) == r.status = "CLAIMED" /\ tok # Null /\ r.claim = tok

\* Mutant of CancelAllowed: the list of cancellable statuses is missing.
CancelAllowedUnlessCompleted(r) == r.status # "COMPLETED"

CancelAllowed(r) == r.status \in {"PENDING", "CLAIMED"}

\* Mutant of ExpireAllowed: nothing verifies that the deadline has passed.
ExpireAllowedEarly(r, t) == r.status \notin Terminal /\ NotExpired(r, t)

\* Both time checks of the method: the first refuses a deadline in the past,
\* the second a deadline in the future.
ExpireAllowed(r, t) ==
    /\ r.status \notin Terminal
    /\ NotExpired(r, t)
    /\ ~(r.expiresAt > t)

\* Mutant of RetryAllowed: off by one.
RetryAllowedOnceMore(r) == r.retryCount <= MaxRetry

RetryAllowed(r) == r.retryCount < MaxRetry

\* Mutant of FailAllowed: a job nobody holds may fail.
FailAllowedUnclaimed(r) == r.status \in {"PENDING", "CLAIMED"}

FailAllowed(r) == r.status = "CLAIMED"

\* Operation o, called with token tok, accepts the row r at time t.
Allowed(o, r, t, tok) ==
    /\ r.status # "ABSENT"
    /\ \/ o = "claim"    /\ ClaimAllowed(r, t)
       \/ o = "complete" /\ CompleteAllowed(r, tok)
       \/ o = "cancel"   /\ CancelAllowed(r)
       \/ o = "expire"   /\ ExpireAllowed(r, t)
       \/ o = "retry"    /\ RetryAllowed(r)
       \/ o = "fail"     /\ FailAllowed(r)

-----------------------------------------------------------------------------
(* Changes: the copy r after call c has merged its changes into it. *)

Claimed(r, c) == [r EXCEPT !.status = "CLAIMED", !.claim = c]

Closed(r, s, c) == [r EXCEPT !.status = s, !.completedAt = c]

\* Mutant of Retried: the counter runs the wrong way.
RetriedDown(r) == [r EXCEPT !.retryCount = @ - 1]

Retried(r) == [r EXCEPT !.retryCount = @ + 1]

Changed(o, r, c) ==
    CASE o = "claim"    -> Claimed(r, c)
      [] o = "complete" -> [Closed(r, "COMPLETED", c) EXCEPT !.result = c]
      [] o = "cancel"   -> Closed(r, "CANCELLED", c)
      [] o = "expire"   -> Closed(r, "EXPIRED", c)
      [] o = "retry"    -> Retried(r)
      [] o = "fail"     -> [Closed(r, "FAILED", c) EXCEPT !.errorMessage = c]

-----------------------------------------------------------------------------
(* Repository.save: the columns of the copy m that differ from the row the *)
(* save reloads are the ones it writes, whoever changed them.              *)

ChangedColumns(m, r) == {k \in DOMAIN r : m[k] # r[k]}

Saved(r, m, columns) == [k \in DOMAIN r |-> IF k \in columns THEN m[k] ELSE r[k]]

=============================================================================
