------------------------------- MODULE SignerJob -------------------------------
(***************************************************************************)
(* SignerJobService at work on the signer_jobs table.  Every mutating      *)
(* method is an asynchronous call that                                     *)
(*                                                                         *)
(*   reads the row (requireJob), checks its guard on that copy, merges its *)
(*   changes into the copy, and hands the copy to TypeORM's save, which    *)
(*   reloads the row, compares, and updates the columns that differ.       *)
(*                                                                         *)
(* Between two awaits any other call may run.  There is no lock and no     *)
(* check of the version column, so a save writes back whatever its copy    *)
(* held.  Overlap = FALSE is the deployment in which the calls on one job  *)
(* never overlap, which is what the unit tests exercise.                   *)
(***************************************************************************)
EXTENDS SignerJobRow

CONSTANTS
    Jobs,       \* signing requests (requestId, unique in the table)
    Deadlines,  \* values of payload.expiresAt
    Ops,        \* the operations the environment calls
    Overlap,    \* may calls on one job overlap?
    MaxTime     \* bound on the clock

ASSUME JobsAssumption == Null \notin Jobs
ASSUME DeadlinesAssumption == Deadlines \subseteq Nat
ASSUME OpsAssumption == Ops \subseteq Operations
ASSUME OverlapAssumption == Overlap \in BOOLEAN
ASSUME MaxTimeAssumption == MaxTime \in Nat

VARIABLES
    now,        \* the clock every new Date() reads
    row,        \* row[j]: the row of job j
    pc,         \* pc[c]: how far call c has come
    op,         \* op[c]: the method it runs
    target,     \* target[c]: the job it is about
    token,      \* token[c]: the claim token a result is submitted with
    snap,       \* snap[c]: the copy of the row its guard is checked on
    dirty       \* dirty[c]: the columns its save is about to write

table == <<now, row>>
calls == <<pc, op, target, token, snap, dirty>>
vars == <<now, row, pc, op, target, token, snap, dirty>>

InFlight(c) == pc[c] \in {"token", "loaded", "saving", "writing"}

\* A call on j may start.
Free(j) == Overlap \/ \A c \in Calls : target[c] = j => ~InFlight(c)

\* The copy of the row after the call merged its changes into it.
Copy(c) == Changed(op[c], snap[c], c)

TypeOK ==
    /\ now \in 0..MaxTime
    /\ row \in [Jobs -> Row]
    /\ pc \in [Calls -> {"idle", "token", "loaded", "saving", "writing",
                         "done", "refused", "crashed"}]
    /\ op \in [Calls -> Operations \cup {"none"}]
    /\ target \in [Calls -> Jobs \cup {Null}]
    /\ token \in [Calls -> Calls \cup {Null}]
    /\ snap \in [Calls -> Row]
    /\ dirty \in [Calls -> SUBSET Columns]
    /\ \A c \in Calls : InFlight(c) => op[c] \in Operations /\ target[c] \in Jobs

Init ==
    /\ now = 0
    /\ row = [j \in Jobs |-> AbsentRow]
    /\ pc = [c \in Calls |-> "idle"]
    /\ op = [c \in Calls |-> "none"]
    /\ target = [c \in Calls |-> Null]
    /\ token = [c \in Calls |-> Null]
    /\ snap = [c \in Calls |-> AbsentRow]
    /\ dirty = [c \in Calls |-> {}]

-----------------------------------------------------------------------------

Tick ==
    /\ now < MaxTime
    /\ now' = now + 1
    /\ UNCHANGED <<row, calls>>

\* createJob: one INSERT.  The unique index on request_id refuses a second one.
CreateJob(j, d) ==
    /\ row[j].status = "ABSENT"
    /\ row' = [row EXCEPT ![j] = NewRow(now, d)]
    /\ UNCHANGED <<now, calls>>

\* The call is over without a write; its copy is garbage.
End(c, how) ==
    /\ pc' = [pc EXCEPT ![c] = how]
    /\ snap' = [snap EXCEPT ![c] = AbsentRow]
    /\ dirty' = [dirty EXCEPT ![c] = {}]
    /\ UNCHANGED <<op, target, token>>

\* requireJob at the start of claimJob, cancelJob, expireJob, incrementRetry
\* and markFailed.
Call(c, o, j) ==
    /\ pc[c] = "idle"
    /\ o # "complete"
    /\ Free(j)
    /\ pc' = [pc EXCEPT ![c] = "loaded"]
    /\ op' = [op EXCEPT ![c] = o]
    /\ target' = [target EXCEPT ![c] = j]
    /\ snap' = [snap EXCEPT ![c] = row[j]]
    /\ UNCHANGED <<table, token, dirty>>

\* Controller submitResult: reads the row, validates the result against the
\* payload, and takes the claim token from the row it read.
SubmitResult(c, j, signedAt) ==
    /\ pc[c] = "idle"
    /\ Free(j)
    /\ row[j].status # "ABSENT"
    /\ InWindow(row[j], signedAt)
    /\ pc' = [pc EXCEPT ![c] = "token"]
    /\ op' = [op EXCEPT ![c] = "complete"]
    /\ target' = [target EXCEPT ![c] = j]
    /\ token' = [token EXCEPT ![c] = row[j].claim]
    /\ UNCHANGED <<table, snap, dirty>>

\* requireJob at the start of completeJob, the second read of a submission.
CompleteJob(c) ==
    /\ pc[c] = "token"
    /\ pc' = [pc EXCEPT ![c] = "loaded"]
    /\ snap' = [snap EXCEPT ![c] = row[target[c]]]
    /\ UNCHANGED <<table, op, target, token, dirty>>

\* The guards pass on the copy that was read: the save begins.
Accept(c) ==
    /\ pc[c] = "loaded"
    /\ Allowed(op[c], snap[c], now, token[c])
    /\ pc' = [pc EXCEPT ![c] = "saving"]
    /\ UNCHANGED <<table, op, target, token, snap, dirty>>

\* A guard throws a domain error.
Refuse(c) ==
    /\ pc[c] = "loaded"
    /\ ~Allowed(op[c], snap[c], now, token[c])
    /\ End(c, "refused")
    /\ UNCHANGED table

\* save, first half: reload the row and compare.
Compare(c) ==
    /\ pc[c] = "saving"
    /\ pc' = [pc EXCEPT ![c] = "writing"]
    /\ dirty' = [dirty EXCEPT ![c] = ChangedColumns(Copy(c), row[target[c]])]
    /\ UNCHANGED <<table, op, target, token, snap>>

\* save, second half: UPDATE the columns that differed.
Write(c) ==
    /\ pc[c] = "writing"
    /\ row' = [row EXCEPT ![target[c]] = Saved(@, Copy(c), dirty[c])]
    /\ End(c, "done")
    /\ UNCHANGED now

\* The process or its database connection dies before the UPDATE.
Crash(c) ==
    /\ InFlight(c)
    /\ End(c, "crashed")
    /\ UNCHANGED table

Step(c) ==
    \/ \E j \in Jobs : \/ \E o \in Ops : Call(c, o, j)
                       \/ /\ "complete" \in Ops
                          /\ \E t \in 0..MaxTime : SubmitResult(c, j, t)
    \/ CompleteJob(c) \/ Accept(c) \/ Refuse(c) \/ Compare(c) \/ Write(c)
    \/ Crash(c)

Next ==
    \/ Tick
    \/ \E j \in Jobs, d \in Deadlines : CreateJob(j, d)
    \/ \E c \in Calls : Step(c)

Spec == Init /\ [][Next]_vars

-----------------------------------------------------------------------------
(* What holds however the calls overlap. *)

Did(c, o, j) == pc[c] = "done" /\ op[c] = o /\ target[c] = j

\* The retry counter never passes its maximum, although each increment adds
\* one to a copy that may be stale (incrementRetry).
RetryBounded == \A j \in Jobs : row[j].retryCount <= MaxRetry

\* Row r of job j holds nothing that a finished call did not put there.
Earned(r, j) ==
    /\ r.claim # Null => Did(r.claim, "claim", j)
    /\ r.result # Null =>
           /\ Did(r.result, "complete", j)
           /\ token[r.result] # Null
           /\ Did(token[r.result], "claim", j)
    /\ r.errorMessage # Null => Did(r.errorMessage, "fail", j)
    /\ r.status \in {"CLAIMED", "COMPLETED", "FAILED"} =>
           \E c \in Calls : Did(c, "claim", j)
    /\ r.status = "COMPLETED" => \E c \in Calls : Did(c, "complete", j)
    /\ r.status = "FAILED" => \E c \in Calls : Did(c, "fail", j)
    /\ r.status = "CANCELLED" => \E c \in Calls : Did(c, "cancel", j)
    /\ r.status = "EXPIRED" => \E c \in Calls : Did(c, "expire", j)

\* However stale copies overwrite each other, no state of a job comes out of
\* the races by itself: a stored claim was won by a finished claim of this
\* job, a stored result was submitted under a token such a claim issued, and
\* each status was set by a finished call of the method that sets it
\* (claimJob, completeJob, cancelJob, expireJob, markFailed).
EveryStateIsEarned == \A j \in Jobs : Earned(row[j], j)

\* No job is marked EXPIRED before its deadline (expireJob "cannot force-expire").
NeverExpiredEarly ==
    \A j \in Jobs : row[j].status = "EXPIRED" => row[j].expiresAt <= now

Edges == {<<"PENDING", "CLAIMED">>, <<"PENDING", "CANCELLED">>, <<"PENDING", "EXPIRED">>,
          <<"CLAIMED", "COMPLETED">>, <<"CLAIMED", "FAILED">>,
          <<"CLAIMED", "CANCELLED">>, <<"CLAIMED", "EXPIRED">>}

\* A call that writes to the very row it read (no other write came between)
\* moves the job along an edge of the state machine or not at all, and leaves
\* the outcome of a terminal job alone; and a result it stores was submitted
\* under the claim that the row holds, although the token was taken from an
\* earlier read and the job may have been claimed again since (submitResult,
\* completeJob).  Every other move is a lost update.
UnracedWriteFollowsLifecycle(c) ==
    LET j == target[c] IN
    (Write(c) /\ snap[c] = row[j]) =>
        /\ \/ row'[j].status = row[j].status
           \/ <<row[j].status, row'[j].status>> \in Edges
        /\ row[j].status \in Terminal =>
               /\ row'[j].result = row[j].result
               /\ row'[j].errorMessage = row[j].errorMessage
               /\ row'[j].completedAt = row[j].completedAt
        /\ op[c] = "complete" => row'[j].claim = token[c]

UnracedWritesFollowLifecycle ==
    [][\A c \in Calls : UnracedWriteFollowsLifecycle(c)]_vars

-----------------------------------------------------------------------------
(* The inductive invariant: a copy of a row is as good as a row, because it *)
(* may become one.                                                         *)

GoodRow(r, j) ==
    /\ Earned(r, j)
    /\ r.retryCount <= MaxRetry
    /\ r.status = "EXPIRED" => r.expiresAt <= now

HasCopy(c) == pc[c] \in {"loaded", "saving", "writing"}

\* A copy of an existing row is a good row with that row's deadline.
GoodCopy(c) ==
    /\ GoodRow(snap[c], target[c])
    /\ snap[c].status # "ABSENT" =>
           /\ row[target[c]].status # "ABSENT"
           /\ row[target[c]].expiresAt = snap[c].expiresAt

\* The guard of a call that got as far as saving held on its copy.
GuardHeld(c) ==
    pc[c] \in {"saving", "writing"} =>
        \E t \in 0..now : Allowed(op[c], snap[c], t, token[c])

IInv ==
    /\ TypeOK
    /\ \A j \in Jobs : GoodRow(row[j], j)
    /\ \A c \in Calls : HasCopy(c) => GoodCopy(c)
    /\ \A c \in Calls : GuardHeld(c)

=============================================================================
