----------------------------- MODULE SignerPolling -----------------------------
(***************************************************************************)
(* The pull protocol: offline signers that loop over the three endpoints   *)
(* of SignerJobController (available, claim, result) against the table of  *)
(* signer jobs.  A request runs to its end before the next begins here:    *)
(* what overlapping requests do to a row is the subject of SignerJob.      *)
(* What remains is the protocol itself: an offer that is stale when it is  *)
(* claimed, a signer that restarts and forgets, an answer that is lost so  *)
(* that the signer asks again, a deadline that passes.                     *)
(*                                                                         *)
(* No job is ever expired by the backend: nothing in src/ calls expireJob. *)
(*                                                                         *)
(* GlobalPipe = FALSE calls the handlers directly, as the unit tests do.   *)
(* GlobalPipe = TRUE is the application main.ts boots.                     *)
(***************************************************************************)
EXTENDS Integers, FiniteSets

CONSTANTS
    Signers,    \* offline signer instances (claimedBy)
    Jobs,
    Null,
    Deadlines,  \* values of payload.expiresAt
    GlobalPipe, \* is the application's ValidationPipe in front of the handlers?
    MaxTime,    \* bound on the clock
    MaxCrash,   \* bound on the restarts of signers
    MaxLost     \* bound on the answers that are lost

ASSUME PipeAssumption == GlobalPipe \in BOOLEAN
ASSUME IdAssumption == Null \notin Signers \cup Jobs
ASSUME BoundsAssumption ==
    Deadlines \subseteq Nat /\ MaxTime \in Nat /\ MaxCrash \in Nat /\ MaxLost \in Nat

VARIABLES
    now,
    row,        \* row[j]: the row of job j; a claim is known by its signer
    at,         \* at[s]: where signer s is in its loop
    job,        \* job[s]: the job it is working on
    stamp,      \* stamp[s]: when it signed
    crashes,    \* restarts so far
    lost        \* answers lost so far

\* The retry counter takes no part in the protocol.
INSTANCE SignerJobRow WITH Calls <- Signers, MaxRetry <- 0

vars == <<now, row, at, job, stamp, crashes, lost>>

TypeOK ==
    /\ now \in 0..MaxTime
    /\ row \in [Jobs -> Row]
    /\ at \in [Signers -> {"idle", "offered", "signing", "signed"}]
    /\ job \in [Signers -> Jobs \cup {Null}]
    /\ stamp \in [Signers -> 0..MaxTime]
    /\ crashes \in 0..MaxCrash
    /\ lost \in 0..MaxLost
    /\ \A s \in Signers : (at[s] = "idle") <=> (job[s] = Null)

Init ==
    /\ now = 0
    /\ row = [j \in Jobs |-> AbsentRow]
    /\ at = [s \in Signers |-> "idle"]
    /\ job = [s \in Signers |-> Null]
    /\ stamp = [s \in Signers |-> 0]
    /\ crashes = 0
    /\ lost = 0

-----------------------------------------------------------------------------

Tick ==
    /\ now < MaxTime
    /\ now' = now + 1
    /\ UNCHANGED <<row, at, job, stamp, crashes, lost>>

Unused == {j \in Jobs : row[j].status = "ABSENT"}

\* Which unused identifier a new job gets makes no difference.
CreateJob(d) ==
    /\ Unused # {}
    /\ row' = [row EXCEPT ![CHOOSE j \in Unused : TRUE] = NewRow(now, d)]
    /\ UNCHANGED <<now, at, job, stamp, crashes, lost>>

\* Mutant of FindAvailable: no filter on the status.
FindAvailableAny ==
    LET open == {j \in Jobs : row[j].status # "ABSENT"}
    IN  {j \in open : \A i \in open : row[j].createdAt <= row[i].createdAt}

\* Mutant of FindAvailable: newest first.
FindAvailableNewest ==
    LET open == {j \in Jobs : row[j].status = "PENDING"}
    IN  {j \in open : \A i \in open : row[j].createdAt >= row[i].createdAt}

\* findAvailable with limit 1: an oldest PENDING row.  Nothing else is asked
\* of it, and the order of equal creation times is the database's.
FindAvailable ==
    LET open == {j \in Jobs : row[j].status = "PENDING"}
    IN  {j \in open : \A i \in open : row[j].createdAt <= row[i].createdAt}

\* GET available, answered with a job.  (204 sends the signer back to polling.)
Poll(s) ==
    /\ at[s] = "idle"
    /\ \E j \in FindAvailable :
           /\ job' = [job EXCEPT ![s] = j]
           /\ at' = [at EXCEPT ![s] = "offered"]
    /\ UNCHANGED <<now, row, stamp, crashes, lost>>

\* Mutant of Restart: the job is not forgotten.
RestartRemembering(s) ==
    /\ at' = [at EXCEPT ![s] = "idle"]
    /\ stamp' = [stamp EXCEPT ![s] = 0]
    /\ UNCHANGED job

\* Back to the top of the loop, with nothing in hand.
Restart(s) ==
    /\ at' = [at EXCEPT ![s] = "idle"]
    /\ job' = [job EXCEPT ![s] = Null]
    /\ stamp' = [stamp EXCEPT ![s] = 0]

\* POST claim, accepted.
ClaimJob(s) ==
    /\ at[s] = "offered"
    /\ Allowed("claim", row[job[s]], now, Null)
    /\ row' = [row EXCEPT ![job[s]] = Changed("claim", @, s)]

\* It is answered with the payload.
Claim(s) ==
    /\ ClaimJob(s)
    /\ at' = [at EXCEPT ![s] = "signing"]
    /\ UNCHANGED <<now, job, stamp, crashes, lost>>

\* Its answer is lost: the signer never sees the payload and asks again.
ClaimUnanswered(s) ==
    /\ lost < MaxLost
    /\ ClaimJob(s)
    /\ lost' = lost + 1
    /\ UNCHANGED <<now, at, job, stamp, crashes>>

\* POST claim, answered with an error.
ClaimRefused(s) ==
    /\ at[s] = "offered"
    /\ ~Allowed("claim", row[job[s]], now, Null)
    /\ Restart(s)
    /\ UNCHANGED <<now, row, crashes, lost>>

\* The signer signs, off line.
Sign(s) ==
    /\ at[s] = "signing"
    /\ at' = [at EXCEPT ![s] = "signed"]
    /\ stamp' = [stamp EXCEPT ![s] = now]
    /\ UNCHANGED <<now, row, job, crashes, lost>>

\* The global ValidationPipe is built with forbidNonWhitelisted, which refuses
\* every property without a validator, and SignerResultDto declares none on
\* the fields of a result: no body that carries a result passes.
BodyAccepted == ~GlobalPipe

\* What submitResult accepts: it takes the claim token from the row itself.
ResultAccepted(j, signedAt) ==
    /\ BodyAccepted
    /\ InWindow(row[j], signedAt)
    /\ Allowed("complete", row[j], now, row[j].claim)

\* POST result, accepted.
SubmitResult(s) ==
    /\ at[s] = "signed"
    /\ ResultAccepted(job[s], stamp[s])
    /\ row' = [row EXCEPT ![job[s]] = Changed("complete", @, s)]

\* It is answered, and the signer looks for the next job.
Submit(s) ==
    /\ SubmitResult(s)
    /\ Restart(s)
    /\ UNCHANGED <<now, crashes, lost>>

\* Its answer is lost: the signer submits once more.
SubmitUnanswered(s) ==
    /\ lost < MaxLost
    /\ SubmitResult(s)
    /\ lost' = lost + 1
    /\ UNCHANGED <<now, at, job, stamp, crashes>>

\* POST result, rejected; the job stays as it is.
SubmitRefused(s) ==
    /\ at[s] = "signed"
    /\ ~ResultAccepted(job[s], stamp[s])
    /\ Restart(s)
    /\ UNCHANGED <<now, row, crashes, lost>>

\* A signer restarts and forgets what it was doing.
Crash(s) ==
    /\ crashes < MaxCrash
    /\ at[s] # "idle"
    /\ crashes' = crashes + 1
    /\ Restart(s)
    /\ UNCHANGED <<now, row, lost>>

Loop(s) ==
    Poll(s) \/ Claim(s) \/ ClaimRefused(s) \/ Sign(s) \/ Submit(s) \/ SubmitRefused(s)

Next ==
    \/ Tick
    \/ \E d \in Deadlines : CreateJob(d)
    \/ \E s \in Signers :
           Loop(s) \/ ClaimUnanswered(s) \/ SubmitUnanswered(s) \/ Crash(s)

\* Signers poll for ever; nothing makes time pass, jobs appear, signers crash
\* or answers get lost.
Spec == Init /\ [][Next]_vars /\ \A s \in Signers : WF_vars(Loop(s))

-----------------------------------------------------------------------------

Works(s, j) == at[s] \in {"signing", "signed"} /\ job[s] = j

\* Whoever works on a job is the one the row records as its holder, however
\* many signers were offered it, crashed with it, or repeated a request whose
\* answer they did not get (claimJob's status guard and claimedBy).  So no two
\* signers ever sign the same payload.
SignerIsRecorded ==
    \A s \in Signers, j \in Jobs :
        Works(s, j) => row[j].claim = s /\ row[j].status \in {"CLAIMED", "COMPLETED"}

Orphan(j) == row[j].status = "CLAIMED" /\ \A s \in Signers : ~Works(s, j)

\* The orphans whose deadline has not passed.
Stranded == {j \in Jobs : Orphan(j) /\ now <= row[j].expiresAt}

\* No call re-opens a claimed job (nothing in src/ calls incrementRetry or
\* expireJob), so a job that lost its signer is stuck.  That is the price of
\* restarts and lost answers only: each costs at most one job, and as long as
\* a job is not overdue nothing else ever takes its signer from it.
OrphansHaveACause == Cardinality(Stranded) <= crashes + lost

\* Jobs are claimed in the order they were created, however long the offers
\* were held before they were used (findAvailable's order, the README's FIFO).
FifoClaims ==
    \A i, j \in Jobs :
        row[i].status = "PENDING" /\ row[j].claim # Null
            => row[j].createdAt <= row[i].createdAt

Live(j) == row[j].status = "PENDING" /\ NotExpired(row[j], now)

\* The queue makes progress: a pending job is claimed unless its own deadline
\* passes first (findAvailable and the signers' loop).
LiveJobIsServed == \A j \in Jobs : Live(j) ~> ~Live(j)

SignedInTime(s, j) ==
    /\ at[s] = "signed" /\ job[s] = j
    /\ stamp[s] <= row[j].expiresAt
    /\ crashes = MaxCrash

\* Once signers crash no more, a result that was signed before the deadline
\* completes its job, even when it arrives after the deadline or its answer is
\* lost and it is sent again (submitResult asks only when it was signed).
SignedJobCompletes ==
    \A s \in Signers, j \in Jobs : SignedInTime(s, j) ~> row[j].status = "COMPLETED"

Lifecycle == INSTANCE JobLifecycle WITH
    Calls <- Signers,
    phase <- [j \in Jobs |-> row[j].status],
    holder <- [j \in Jobs |-> row[j].claim],
    outcome <- [j \in Jobs |-> row[j].result]

\* However signers restart and repeat their requests, the table goes through
\* the lifecycle of JobLifecycle: what is repeated changes nothing.
ImplementsLifecycle == Lifecycle!Spec

-----------------------------------------------------------------------------
(* The inductive invariant: whatever a signer has in hand is a job that     *)
(* exists, none of the jobs that are still open is older than an offer, and *)
(* a signature is as recent as its job.                                     *)

JobExists(s) == at[s] # "idle" => row[job[s]].status # "ABSENT"

OfferIsOldest(s) ==
    at[s] = "offered" =>
        \A i \in Jobs : row[i].status = "PENDING" => row[job[s]].createdAt <= row[i].createdAt

StampIsRecent(s) ==
    at[s] = "signed" => row[job[s]].createdAt <= stamp[s] /\ stamp[s] <= now

\* No row comes from the future, and one that is not there names no signer.
RowIsPast(j) ==
    /\ row[j].createdAt <= now
    /\ row[j].status = "ABSENT" => row[j].claim = Null /\ row[j].result = Null

PollInv ==
    /\ TypeOK
    /\ \A j \in Jobs : RowIsPast(j)
    /\ \A s \in Signers : JobExists(s) /\ OfferIsOldest(s) /\ StampIsRecent(s)
    /\ SignerIsRecorded
    /\ FifoClaims

\* Only finitely many jobs are stranded, so that there is a number of them.
OrphanInv == IsFiniteSet(Stranded) /\ OrphansHaveACause

=============================================================================
