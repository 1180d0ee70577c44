-------------------------- MODULE SignerPollingProofs --------------------------
(***************************************************************************)
(* What the pull protocol keeps however signers restart and answers are    *)
(* lost, for any signers, jobs, deadlines and bounds.                      *)
(***************************************************************************)
EXTENDS SignerPolling, FiniteSetTheorems, TLAPS

-----------------------------------------------------------------------------
(* Rows. *)

\* A row that is not there, and one just inserted, have the columns they should.
LEMMA NewRowType ==
    ASSUME NEW t \in Nat, NEW d \in Nat
    PROVE  /\ NewRow(t, d) \in Row
           /\ NewRow(t, d).status = "PENDING"
           /\ NewRow(t, d).claim = Null /\ NewRow(t, d).result = Null
           /\ NewRow(t, d).createdAt = t
           /\ AbsentRow \in Row
           /\ AbsentRow.status = "ABSENT"
           /\ AbsentRow.claim = Null /\ AbsentRow.result = Null
           /\ AbsentRow.createdAt = 0
BY DEF NewRow, AbsentRow, Row, Status, Terminal

\* An accepted claim takes a pending row and records its signer.
LEMMA ClaimedRow ==
    ASSUME NEW r \in Row, NEW s \in Signers, NEW t, NEW tok, Allowed("claim", r, t, tok)
    PROVE  LET q == Changed("claim", r, s) IN
           /\ r.status = "PENDING"
           /\ q \in Row /\ q.status = "CLAIMED" /\ q.claim = s /\ q.result = r.result
           /\ q.createdAt = r.createdAt /\ q.expiresAt = r.expiresAt
BY DEF Allowed, ClaimAllowed, Changed, Claimed, Row, Status, Terminal

\* An accepted result closes a claimed row and leaves its claim.
LEMMA CompletedRow ==
    ASSUME NEW r \in Row, NEW s \in Signers, NEW t, NEW tok, Allowed("complete", r, t, tok)
    PROVE  LET q == Changed("complete", r, s) IN
           /\ r.status = "CLAIMED"
           /\ q \in Row /\ q.status = "COMPLETED" /\ q.claim = r.claim /\ q.result = s
           /\ q.createdAt = r.createdAt /\ q.expiresAt = r.expiresAt
BY DEF Allowed, CompleteAllowed, Changed, Closed, Row, Status, Terminal

-----------------------------------------------------------------------------
(* What a step may do to a row and to a signer. *)

Created(j) ==
    /\ row[j].status = "ABSENT"
    /\ \E d \in Deadlines : row'[j] = NewRow(now, d)

SameLife(j) ==
    /\ row'[j] \in Row
    /\ row'[j].createdAt = row[j].createdAt
    /\ row'[j].expiresAt = row[j].expiresAt

TakenBy(s, j) ==
    /\ at[s] = "offered" /\ job[s] = j /\ at'[s] \in {"offered", "signing"}
    /\ row[j].status = "PENDING"
    /\ row'[j].status = "CLAIMED" /\ row'[j].claim = s
    /\ SameLife(j)

Completed(j) ==
    /\ row[j].status = "CLAIMED"
    /\ row'[j].status = "COMPLETED" /\ row'[j].claim = row[j].claim
    /\ SameLife(j)

RowEffect(j) ==
    \/ row'[j] = row[j]
    \/ Created(j)
    \/ \E s \in Signers : TakenBy(s, j)
    \/ Completed(j)

Offered(s) ==
    /\ at[s] = "idle" /\ at'[s] = "offered"
    /\ job'[s] \in FindAvailable /\ row' = row /\ now' = now

Restarted(s) == at'[s] = "idle" /\ job'[s] = Null /\ stamp'[s] = 0

Began(s) ==
    /\ at'[s] = "signing" /\ job'[s] = job[s] /\ stamp'[s] = stamp[s]
    /\ job[s] \in Jobs /\ TakenBy(s, job[s])

Signed(s) ==
    /\ at[s] = "signing" /\ at'[s] = "signed" /\ job'[s] = job[s] /\ stamp'[s] = now
    /\ row' = row /\ now' = now

SignerEffect(s) ==
    \/ at'[s] = at[s] /\ job'[s] = job[s] /\ stamp'[s] = stamp[s]
    \/ Offered(s) /\ stamp'[s] = stamp[s]
    \/ Restarted(s)
    \/ Began(s)
    \/ Signed(s)

TypeEffect ==
    /\ row' \in [Jobs -> Row]
    /\ now' \in 0..MaxTime /\ now <= now'
    /\ crashes' \in 0..MaxCrash
    /\ lost' \in 0..MaxLost
    /\ DOMAIN at' = Signers /\ at' = [s \in Signers |-> at'[s]]
    /\ job' = [s \in Signers |-> job'[s]]
    /\ stamp' = [s \in Signers |-> stamp'[s]]

Effect ==
    /\ TypeEffect
    /\ \A j \in Jobs : RowEffect(j)
    /\ \A s \in Signers : SignerEffect(s)

\* A step that leaves the table alone.
LEMMA QuietEffect ==
    ASSUME TypeOK, NEW s \in Signers,
           \/ Poll(s) \/ ClaimRefused(s) \/ Sign(s) \/ SubmitRefused(s) \/ Crash(s)
    PROVE  Effect
<1>1. row' = row /\ now' = now /\ crashes' \in 0..MaxCrash /\ lost' = lost
  BY BoundsAssumption DEF TypeOK, Poll, ClaimRefused, Sign, SubmitRefused, Crash
<1>2. TypeEffect
  BY <1>1 DEF TypeOK, TypeEffect, Poll, ClaimRefused, Sign, SubmitRefused, Crash, Restart
<1>3. \A j \in Jobs : RowEffect(j)
  BY <1>1 DEF RowEffect
<1>4. ASSUME NEW t \in Signers PROVE SignerEffect(t)
  <2>1. CASE Poll(s)
    BY <2>1 DEF TypeOK, Poll, SignerEffect, Offered
  <2>2. CASE ClaimRefused(s) \/ SubmitRefused(s) \/ Crash(s)
    BY <2>2 DEF TypeOK, ClaimRefused, SubmitRefused, Crash, Restart, SignerEffect, Restarted
  <2>3. CASE Sign(s)
    BY <2>3 DEF TypeOK, Sign, SignerEffect, Signed
  <2>4. QED
    BY <2>1, <2>2, <2>3
<1>5. QED
  BY <1>2, <1>3, <1>4 DEF Effect

\* A claim, answered or not.
LEMMA ClaimEffect ==
    ASSUME TypeOK, NEW s \in Signers, Claim(s) \/ ClaimUnanswered(s)
    PROVE  Effect /\ job[s] \in Jobs /\ TakenBy(s, job[s])
<1>1. /\ at[s] = "offered" /\ job[s] \in Jobs /\ row[job[s]] \in Row
      /\ Allowed("claim", row[job[s]], now, Null)
      /\ row' = [row EXCEPT ![job[s]] = Changed("claim", row[job[s]], s)]
  BY DEF TypeOK, Claim, ClaimUnanswered, ClaimJob
<1>2. /\ row[job[s]].status = "PENDING" /\ row'[job[s]].status = "CLAIMED"
      /\ row'[job[s]].claim = s /\ SameLife(job[s])
  BY <1>1, ClaimedRow DEF TypeOK, SameLife
<1>3. TakenBy(s, job[s])
  BY <1>1, <1>2 DEF TypeOK, TakenBy, Claim, ClaimUnanswered
<1>4. row' \in [Jobs -> Row]
  BY <1>1, <1>2 DEF TypeOK, SameLife
<1>5. TypeEffect
  BY <1>4, BoundsAssumption DEF TypeOK, TypeEffect, Claim, ClaimUnanswered
<1>6. \A j \in Jobs : RowEffect(j)
  BY <1>1, <1>3 DEF RowEffect, TypeOK
<1>7. \A t \in Signers : SignerEffect(t)
  BY <1>1, <1>3 DEF TypeOK, SignerEffect, Began, Claim, ClaimUnanswered
<1>8. QED
  BY <1>1, <1>3, <1>5, <1>6, <1>7 DEF Effect

\* A result that is accepted, answered or not.
LEMMA SubmitEffect ==
    ASSUME TypeOK, NEW s \in Signers, Submit(s) \/ SubmitUnanswered(s)
    PROVE  Effect /\ job[s] \in Jobs /\ Completed(job[s])
<1>1. /\ at[s] = "signed" /\ job[s] \in Jobs /\ row[job[s]] \in Row
      /\ Allowed("complete", row[job[s]], now, row[job[s]].claim)
      /\ row' = [row EXCEPT ![job[s]] = Changed("complete", row[job[s]], s)]
  BY DEF TypeOK, Submit, SubmitUnanswered, SubmitResult, ResultAccepted
<1>2. Completed(job[s])
  BY <1>1, CompletedRow DEF TypeOK, SameLife, Completed
<1>3. row' \in [Jobs -> Row]
  BY <1>1, <1>2 DEF TypeOK, SameLife, Completed
<1>4. TypeEffect
  BY <1>3, BoundsAssumption DEF TypeOK, TypeEffect, Submit, SubmitUnanswered, Restart
<1>5. \A j \in Jobs : RowEffect(j)
  BY <1>1, <1>2 DEF RowEffect, TypeOK
<1>6. \A t \in Signers : SignerEffect(t)
  BY DEF TypeOK, SignerEffect, Restarted, Restart, Submit, SubmitUnanswered
<1>7. QED
  BY <1>1, <1>2, <1>4, <1>5, <1>6 DEF Effect

\* Every step.
LEMMA NextEffect ==
    ASSUME TypeOK, [Next]_vars
    PROVE  Effect
<1>1. CASE Tick \/ UNCHANGED vars
  BY <1>1, BoundsAssumption DEF TypeOK, Effect, TypeEffect, RowEffect, SignerEffect, Tick, vars
<1>2. ASSUME NEW d \in Deadlines, CreateJob(d) PROVE Effect
  <2>1. PICK j \in Jobs : /\ row[j].status = "ABSENT"
                          /\ row' = [row EXCEPT ![j] = NewRow(now, d)]
    BY <1>2 DEF CreateJob, Unused
  <2>2. NewRow(now, d) \in Row
    <3>1. now \in Nat /\ d \in Nat
      BY BoundsAssumption DEF TypeOK
    <3>2. QED
      BY <3>1, NewRowType
  <2>3. TypeEffect /\ \A s \in Signers : SignerEffect(s)
    <3>1. row' \in [Jobs -> Row]
      BY <2>1, <2>2 DEF TypeOK
    <3>2. UNCHANGED <<now, at, job, stamp, crashes, lost>>
      BY <1>2 DEF CreateJob
    <3>3. QED
      BY <3>1, <3>2, BoundsAssumption DEF TypeOK, TypeEffect, SignerEffect
  <2>4. \A i \in Jobs : RowEffect(i)
    BY <2>1 DEF TypeOK, RowEffect, Created
  <2>5. QED
    BY <2>3, <2>4 DEF Effect
<1>3. QED
  BY <1>1, <1>2, QuietEffect, ClaimEffect, SubmitEffect DEF Next, Loop

-----------------------------------------------------------------------------
(* The invariant. *)

\* The state stays well typed.
LEMMA TypeStep == TypeOK /\ [Next]_vars => TypeOK'
<1> SUFFICES ASSUME TypeOK, [Next]_vars PROVE TypeOK'
  OBVIOUS
<1>1. Effect
  BY NextEffect
<1>2. ASSUME NEW s \in Signers
      PROVE  /\ at'[s] \in {"idle", "offered", "signing", "signed"}
             /\ job'[s] \in Jobs \cup {Null}
             /\ stamp'[s] \in 0..MaxTime
             /\ (at'[s] = "idle") <=> (job'[s] = Null)
  BY <1>1, BoundsAssumption, IdAssumption
     DEF Effect, SignerEffect, Offered, Restarted, Began, Signed, TakenBy, TypeOK, FindAvailable
<1>3. QED
  BY <1>1, <1>2 DEF Effect, TypeEffect, TypeOK

\* A row that is there stays there, with its times; pending rows do not come back.
LEMMA RowsLast ==
    ASSUME TypeOK, NEW j \in Jobs, RowEffect(j), row[j].status # "ABSENT"
    PROVE  /\ row'[j].status # "ABSENT"
           /\ row'[j].createdAt = row[j].createdAt
           /\ row'[j].expiresAt = row[j].expiresAt
           /\ row'[j].status = "PENDING" => row[j].status = "PENDING"
           /\ row[j].claim # Null /\ row[j].status # "PENDING" => row'[j].claim = row[j].claim
BY DEF RowEffect, Created, TakenBy, Completed, SameLife

\* A pending row of the next state is pending already or as young as can be.
LEMMA PendingRow ==
    ASSUME TypeOK, NEW i \in Jobs, RowEffect(i), row'[i].status = "PENDING"
    PROVE  \/ row'[i] = row[i]
           \/ row[i].status = "ABSENT" /\ row'[i].createdAt = now /\ row'[i].claim = Null
<1>1. CASE Created(i)
  BY <1>1, NewRowType, BoundsAssumption DEF Created, TypeOK
<1>2. QED
  BY <1>1 DEF RowEffect, TakenBy, Completed

\* A row that names a signer in the next state names one already, or is taken
\* by a signer it was offered to.
LEMMA ClaimingRow ==
    ASSUME TypeOK, NEW j \in Jobs, RowEffect(j), row'[j].claim # Null
    PROVE  /\ row[j].status # "ABSENT" \/ row'[j] = row[j]
           /\ row'[j].createdAt = row[j].createdAt
           /\ row[j].claim # Null \/ \E s \in Signers : TakenBy(s, j)
<1>1. ~Created(j)
  BY NewRowType, BoundsAssumption DEF Created, TypeOK
<1>2. QED
  BY <1>1 DEF RowEffect, TakenBy, Completed, SameLife

\* No row comes from the future.
LEMMA RowsStayPast == PollInv /\ [Next]_vars => \A j \in Jobs : RowIsPast(j)'
<1> SUFFICES ASSUME PollInv, [Next]_vars, NEW j \in Jobs PROVE RowIsPast(j)'
  OBVIOUS
<1>1. TypeOK /\ RowIsPast(j) /\ Effect
  BY NextEffect DEF PollInv
<1>2. now \in Nat /\ now' \in Nat /\ now <= now' /\ RowEffect(j) /\ row[j] \in Row
  BY <1>1, BoundsAssumption DEF Effect, TypeEffect, TypeOK
<1>3. CASE Created(j)
  BY <1>2, <1>3, NewRowType, BoundsAssumption DEF Created, RowIsPast
<1>4. QED
  BY <1>1, <1>2, <1>3 DEF RowEffect, RowIsPast, TakenBy, Completed, SameLife, Row

\* A signer holds a job that exists, an offer that is among the oldest, and a
\* signature no older than its job.
LEMMA SignersStayRecent ==
    PollInv /\ [Next]_vars =>
        \A s \in Signers : JobExists(s)' /\ OfferIsOldest(s)' /\ StampIsRecent(s)'
<1> SUFFICES ASSUME PollInv, [Next]_vars, NEW s \in Signers
             PROVE  JobExists(s)' /\ OfferIsOldest(s)' /\ StampIsRecent(s)'
  OBVIOUS
<1>1. /\ TypeOK /\ JobExists(s) /\ OfferIsOldest(s) /\ StampIsRecent(s)
      /\ \A j \in Jobs : RowIsPast(j)
      /\ TypeEffect /\ SignerEffect(s) /\ \A j \in Jobs : RowEffect(j)
  BY NextEffect DEF PollInv, Effect
<1>2. now \in Nat /\ now' \in Nat /\ now <= now' /\ \A j \in Jobs : row[j] \in Row /\ row[j].createdAt \in Nat
  BY <1>1, BoundsAssumption DEF TypeEffect, TypeOK, Row
<1>3. ASSUME at[s] # "idle", job'[s] = job[s]
      PROVE  /\ job[s] \in Jobs /\ row[job[s]].status # "ABSENT"
             /\ row'[job[s]].status # "ABSENT"
             /\ row'[job[s]].createdAt = row[job[s]].createdAt
  BY <1>1, <1>3, RowsLast DEF TypeOK, JobExists
<1>4. CASE at'[s] = at[s] /\ job'[s] = job[s] /\ stamp'[s] = stamp[s]
  <2>1. JobExists(s)'
    BY <1>3, <1>4 DEF JobExists
  <2>2. OfferIsOldest(s)'
    <3> SUFFICES ASSUME at[s] = "offered", NEW i \in Jobs, row'[i].status = "PENDING"
                 PROVE  row'[job[s]].createdAt <= row'[i].createdAt
      BY <1>4 DEF OfferIsOldest
    <3>1. row'[job[s]].createdAt = row[job[s]].createdAt /\ job[s] \in Jobs
      BY <1>3, <1>4
    <3>2. CASE row'[i] = row[i]
      BY <1>1, <3>1, <3>2 DEF OfferIsOldest
    <3>3. CASE row'[i].createdAt = now
      BY <1>1, <3>1, <3>3 DEF RowIsPast
    <3>4. QED
      BY <1>1, <3>2, <3>3, PendingRow
  <2>3. StampIsRecent(s)'
    BY <1>1, <1>2, <1>3, <1>4, BoundsAssumption DEF StampIsRecent, TypeOK
  <2>4. QED
    BY <2>1, <2>2, <2>3
<1>5. CASE Offered(s)
  BY <1>5 DEF Offered, FindAvailable, JobExists, OfferIsOldest, StampIsRecent
<1>6. CASE Restarted(s)
  BY <1>6 DEF Restarted, JobExists, OfferIsOldest, StampIsRecent
<1>7. CASE Began(s)
  BY <1>7 DEF Began, TakenBy, JobExists, OfferIsOldest, StampIsRecent
<1>8. CASE Signed(s)
  BY <1>1, <1>2, <1>3, <1>8 DEF Signed, JobExists, OfferIsOldest, StampIsRecent, RowIsPast
<1>9. QED
  BY <1>1, <1>4, <1>5, <1>6, <1>7, <1>8 DEF SignerEffect

\* The row keeps naming the signer that works on it.
LEMMA SignersStayRecorded == PollInv /\ [Next]_vars => SignerIsRecorded'
<1> SUFFICES ASSUME PollInv, [Next]_vars, NEW s \in Signers, NEW j \in Jobs, Works(s, j)'
             PROVE  row'[j].claim = s /\ row'[j].status \in {"CLAIMED", "COMPLETED"}
  BY DEF SignerIsRecorded
<1>1. TypeOK /\ SignerIsRecorded /\ SignerEffect(s) /\ RowEffect(j)
  BY NextEffect DEF PollInv, Effect
<1>2. CASE Works(s, j)
  BY <1>1, <1>2 DEF SignerIsRecorded, RowEffect, Created, TakenBy, Completed
<1>3. CASE Began(s)
  BY <1>3 DEF Began, TakenBy, Works
<1>4. QED
  BY <1>1, <1>2, <1>3 DEF SignerEffect, Works, Offered, Restarted, Signed

\* Claimed jobs stay older than pending ones.
LEMMA ClaimsStayInOrder == PollInv /\ [Next]_vars => FifoClaims'
<1> SUFFICES ASSUME PollInv, [Next]_vars, NEW i \in Jobs, NEW j \in Jobs,
                    row'[i].status = "PENDING", row'[j].claim # Null
             PROVE  row'[j].createdAt <= row'[i].createdAt
  BY DEF FifoClaims
<1>1. /\ TypeOK /\ FifoClaims /\ RowIsPast(j) /\ RowEffect(i) /\ RowEffect(j)
      /\ \A s \in Signers : OfferIsOldest(s)
  BY NextEffect DEF PollInv, Effect
<1>2. row'[j].createdAt = row[j].createdAt
  BY <1>1, ClaimingRow
<1>3. CASE row'[i].createdAt = now
  BY <1>1, <1>2, <1>3 DEF RowIsPast
<1>4. CASE row'[i] = row[i] /\ row[j].claim # Null
  BY <1>1, <1>2, <1>4 DEF FifoClaims
<1>5. ASSUME row'[i] = row[i], NEW s \in Signers, TakenBy(s, j)
      PROVE  row[j].createdAt <= row[i].createdAt
  BY <1>1, <1>5 DEF TakenBy, OfferIsOldest
<1>6. QED
  BY <1>1, <1>2, <1>3, <1>4, <1>5, PendingRow, ClaimingRow

\* Every reachable state satisfies the invariant.
LEMMA Invariance == Spec => []PollInv
<1>1. Init => PollInv
  <2> SUFFICES ASSUME Init PROVE PollInv
    OBVIOUS
  <2>1. \A j \in Jobs : /\ row[j] \in Row /\ row[j].status = "ABSENT"
                        /\ row[j].claim = Null /\ row[j].result = Null
                        /\ row[j].createdAt = 0
    BY NewRowType DEF Init
  <2>2. TypeOK
    BY <2>1, BoundsAssumption DEF Init, TypeOK
  <2>3. QED
    BY <2>1, <2>2
       DEF Init, PollInv, RowIsPast, JobExists, OfferIsOldest, StampIsRecent, SignerIsRecorded,
           Works, FifoClaims
<1>2. PollInv /\ [Next]_vars => PollInv'
  BY TypeStep, RowsStayPast, SignersStayRecent, SignersStayRecorded, ClaimsStayInOrder
     DEF PollInv
<1>3. QED
  BY <1>1, <1>2, PTL DEF Spec

\* The state of the protocol is well typed, and a signer without a job is idle.
THEOREM TypeCorrect == Spec => []TypeOK
BY Invariance, PTL DEF PollInv

\* Whoever works on a job is the signer its row records.
THEOREM SignersAreRecorded == Spec => []SignerIsRecorded
BY Invariance, PTL DEF PollInv

\* Jobs are claimed in the order of their creation.
THEOREM ClaimsAreFifo == Spec => []FifoClaims
BY Invariance, PTL DEF PollInv

-----------------------------------------------------------------------------
(* Orphans. *)

\* Faults are counted, and the count does not fall.
LEMMA FaultsCounted ==
    ASSUME TypeOK, [Next]_vars
    PROVE  /\ crashes + lost \in Nat /\ crashes' + lost' \in Nat
           /\ \/ crashes' + lost' = crashes + lost
              \/ /\ crashes' + lost' = crashes + lost + 1
                 /\ \E s \in Signers : Crash(s) \/ ClaimUnanswered(s) \/ SubmitUnanswered(s)
<1>1. crashes \in Nat /\ lost \in Nat
  BY BoundsAssumption DEF TypeOK
<1>2. \/ crashes' = crashes /\ lost' = lost
      \/ \E s \in Signers : Crash(s) /\ crashes' = crashes + 1 /\ lost' = lost
      \/ \E s \in Signers : /\ ClaimUnanswered(s) \/ SubmitUnanswered(s)
                            /\ crashes' = crashes /\ lost' = lost + 1
  BY DEF Next, Loop, Tick, CreateJob, Poll, Claim, ClaimUnanswered, ClaimRefused, Sign, Submit,
         SubmitUnanswered, SubmitRefused, Crash, vars
<1>3. QED
  BY <1>1, <1>2

\* A job that is stranded after a step was stranded before it, unless the step
\* claims it or its signer lets go of it.
LEMMA NewlyStranded ==
    ASSUME PollInv, [Next]_vars, NEW j \in Stranded', j \notin Stranded
    PROVE  /\ j \in Jobs /\ row'[j].status = "CLAIMED" /\ now' <= row'[j].expiresAt
           /\ \/ \E s \in Signers : TakenBy(s, j) /\ ~Works(s, j)'
              \/ /\ row'[j] = row[j]
                 /\ \E s \in Signers : Works(s, j) /\ Restarted(s)
<1>1. /\ TypeOK /\ j \in Jobs /\ RowEffect(j) /\ \A s \in Signers : SignerEffect(s)
      /\ row'[j].status = "CLAIMED" /\ now' <= row'[j].expiresAt
      /\ \A s \in Signers : ~Works(s, j)'
      /\ TypeEffect
  BY NextEffect DEF PollInv, Effect, Stranded, Orphan
<1>2. CASE row'[j] = row[j]
  <2>1. now <= row[j].expiresAt
    BY <1>1, <1>2, BoundsAssumption DEF TypeEffect, TypeOK, Row
  <2>2. PICK s \in Signers : Works(s, j)
    BY <1>1, <1>2, <2>1 DEF Stranded, Orphan
  <2>3. Restarted(s)
    BY <1>1, <2>2 DEF Works, SignerEffect, Offered, Began, TakenBy, Signed
  <2>4. QED
    BY <1>1, <1>2, <2>2, <2>3
<1>3. ~Created(j) /\ ~Completed(j)
  <2>1. now \in Nat /\ row'[j].status = "CLAIMED"
    BY <1>1, BoundsAssumption DEF TypeOK
  <2>2. QED
    BY <2>1, NewRowType, BoundsAssumption DEF Created, Completed
<1>4. QED
  BY <1>1, <1>2, <1>3 DEF RowEffect

\* A job is stranded only by a fault of the signer that has it.
LEMMA StrandingNeedsAFault ==
    ASSUME PollInv, ~GlobalPipe, [Next]_vars, NEW j \in Stranded', j \notin Stranded
    PROVE  \E s \in Signers : (Crash(s) \/ ClaimUnanswered(s)) /\ job[s] = j
<1>1. /\ TypeOK /\ SignerIsRecorded /\ j \in Jobs
      /\ row'[j].status = "CLAIMED" /\ now' <= row'[j].expiresAt
      /\ \/ \E s \in Signers : TakenBy(s, j) /\ ~Works(s, j)'
         \/ row'[j] = row[j] /\ \E s \in Signers : Works(s, j) /\ Restarted(s)
  BY NewlyStranded DEF PollInv
<1>2. ASSUME NEW s \in Signers, TakenBy(s, j), ~Works(s, j)'
      PROVE  ClaimUnanswered(s) /\ job[s] = j
  <2>1. job[s] = j /\ row'[j] # row[j]
    BY <1>2 DEF TakenBy
  <2>2. ASSUME NEW t \in Signers, Claim(t) \/ ClaimUnanswered(t) PROVE t = s
    <3>1. TakenBy(t, job[t]) /\ job[t] \in Jobs
          /\ row' = [row EXCEPT ![job[t]] = Changed("claim", row[job[t]], t)]
      BY <1>1, <2>2, ClaimEffect DEF Claim, ClaimUnanswered, ClaimJob
    <3>2. job[t] = j
      BY <1>1, <2>1, <3>1 DEF TypeOK
    <3>3. QED
      BY <1>2, <3>1, <3>2 DEF TakenBy
  <2>3. ~Claim(s)
    BY <1>1, <1>2, <2>1 DEF Claim, Works, TypeOK
  <2>4. ~\E t \in Signers : Submit(t) \/ SubmitUnanswered(t)
    <3> SUFFICES ASSUME NEW t \in Signers, Submit(t) \/ SubmitUnanswered(t) PROVE FALSE
      OBVIOUS
    <3>1. /\ Completed(job[t]) /\ job[t] \in Jobs
          /\ row' = [row EXCEPT ![job[t]] = Changed("complete", row[job[t]], t)]
      BY <1>1, SubmitEffect DEF Submit, SubmitUnanswered, SubmitResult
    <3>2. QED
      BY <1>1, <1>2, <2>1, <3>1 DEF TypeOK, TakenBy, Completed
  <2>5. ~\E d \in Deadlines : CreateJob(d)
    BY <1>1, <1>2, <2>1 DEF CreateJob, Unused, TakenBy, TypeOK
  <2>6. QED
    BY <2>1, <2>2, <2>3, <2>4, <2>5
       DEF Next, Loop, vars, Tick, Poll, ClaimRefused, Sign, SubmitRefused, Crash
<1>3. ASSUME NEW s \in Signers, Works(s, j), Restarted(s), row'[j] = row[j]
      PROVE  Crash(s) /\ job[s] = j
  <2>1. /\ job[s] = j /\ at[s] \in {"signing", "signed"} /\ at'[s] = "idle"
        /\ row[j].claim = s /\ row[j].status = "CLAIMED"
    BY <1>1, <1>3 DEF Works, Restarted, SignerIsRecorded
  <2>2. ~SubmitRefused(s)
    <3> SUFFICES ASSUME SubmitRefused(s) PROVE ResultAccepted(j, stamp[s])
      BY <2>1 DEF SubmitRefused
    <3>1. row[j].createdAt <= stamp[s] /\ stamp[s] <= now
      BY <2>1 DEF SubmitRefused, PollInv, StampIsRecent
    <3>2. InWindow(row[j], stamp[s])
      <4>1. now = now' /\ now \in Nat /\ stamp[s] \in Nat /\ row[j].expiresAt \in Nat
        BY <1>1, BoundsAssumption DEF SubmitRefused, TypeOK, Row
      <4>2. QED
        BY <1>1, <1>3, <3>1, <4>1 DEF InWindow
    <3>3. Allowed("complete", row[j], now, row[j].claim)
      BY <2>1, IdAssumption DEF Allowed, CompleteAllowed
    <3>4. QED
      BY <3>2, <3>3 DEF ResultAccepted, BodyAccepted
  <2>3. ~Submit(s)
    BY <1>1, <1>3, <2>1, SubmitEffect DEF Completed
  <2>4. QED
    BY <1>1, <2>1, <2>2, <2>3
       DEF Next, Loop, vars, Tick, CreateJob, Poll, Claim, ClaimUnanswered, ClaimRefused, Sign,
           Submit, SubmitUnanswered, SubmitRefused, Crash, Restart, TypeOK
<1>4. QED
  BY <1>1, <1>2, <1>3

\* A step strands at most one job, and only by a fault.
LEMMA OrphanStep ==
    ASSUME PollInv, ~GlobalPipe, [Next]_vars, OrphanInv
    PROVE  OrphanInv'
<1>1. /\ crashes + lost \in Nat /\ crashes' + lost' \in Nat
      /\ \/ crashes' + lost' = crashes + lost
         \/ /\ crashes' + lost' = crashes + lost + 1
            /\ \E s \in Signers : Crash(s) \/ ClaimUnanswered(s) \/ SubmitUnanswered(s)
  BY FaultsCounted DEF PollInv
<1>2. /\ IsFiniteSet(Stranded) /\ Cardinality(Stranded) \in Nat
      /\ Cardinality(Stranded) <= crashes + lost
  BY FS_CardinalityType DEF OrphanInv, OrphansHaveACause
<1>3. CASE Stranded' \subseteq Stranded
  <2>1. IsFiniteSet(Stranded') /\ Cardinality(Stranded') <= Cardinality(Stranded)
    BY <1>2, <1>3, FS_Subset
  <2>2. Cardinality(Stranded') \in Nat
    BY <2>1, FS_CardinalityType
  <2>3. QED
    BY <1>1, <1>2, <2>1, <2>2 DEF OrphanInv, OrphansHaveACause
<1>4. ASSUME NEW j \in Stranded', j \notin Stranded
      PROVE  OrphanInv'
  <2>1. PICK s \in Signers : (Crash(s) \/ ClaimUnanswered(s)) /\ job[s] = j
    BY <1>4, StrandingNeedsAFault
  <2>2. crashes' + lost' = crashes + lost + 1
    BY <2>1, BoundsAssumption DEF Crash, ClaimUnanswered, PollInv, TypeOK
  <2>3. ASSUME NEW i \in Stranded', i \notin Stranded PROVE i = j
    <3>1. PICK t \in Signers : (Crash(t) \/ ClaimUnanswered(t)) /\ job[t] = i
      BY <2>3, StrandingNeedsAFault
    <3>2. TypeOK
      BY DEF PollInv
    <3>3. CASE Crash(s)
      BY <2>1, <2>2, <3>1, <3>2, <3>3, BoundsAssumption
         DEF Crash, ClaimUnanswered, Restart, TypeOK
    <3>4. CASE ClaimUnanswered(s) /\ ClaimUnanswered(t)
      <4>1. i \in Jobs /\ j \in Jobs /\ TakenBy(s, j) /\ TakenBy(t, i)
        BY <2>1, <3>1, <3>2, <3>4, ClaimEffect
      <4>2. row' = [row EXCEPT ![j] = Changed("claim", row[j], s)]
        BY <2>1, <3>4 DEF ClaimUnanswered, ClaimJob
      <4>3. QED
        BY <3>2, <4>1, <4>2 DEF TakenBy, TypeOK
    <3>5. CASE ClaimUnanswered(s) /\ Crash(t)
      BY <3>2, <3>5, BoundsAssumption DEF Crash, ClaimUnanswered, TypeOK
    <3>6. QED
      BY <2>1, <3>1, <3>3, <3>4, <3>5
  <2>4. Stranded' \subseteq Stranded \cup {j}
    BY <2>3
  <2>5. /\ IsFiniteSet(Stranded \cup {j})
        /\ Cardinality(Stranded \cup {j}) = Cardinality(Stranded) + 1
    BY <1>2, <1>4, FS_AddElement
  <2>6. IsFiniteSet(Stranded') /\ Cardinality(Stranded') <= Cardinality(Stranded) + 1
    BY <2>4, <2>5, FS_Subset
  <2>7. Cardinality(Stranded') \in Nat
    BY <2>6, FS_CardinalityType
  <2>8. QED
    BY <1>1, <1>2, <2>2, <2>6, <2>7 DEF OrphanInv, OrphansHaveACause
<1>5. QED
  BY <1>3, <1>4

\* Without the pipe that refuses every result, a job in time loses its signer
\* by a restart or a lost answer, and each costs one job at most.
THEOREM OrphansAreCaused == ~GlobalPipe /\ Spec => []OrphansHaveACause
<1> SUFFICES ASSUME ~GlobalPipe PROVE Spec => []OrphansHaveACause
  OBVIOUS
<1>1. Init => OrphanInv
  <2> SUFFICES ASSUME Init PROVE OrphanInv
    OBVIOUS
  <2>1. Stranded = {}
    BY NewRowType DEF Init, Stranded, Orphan
  <2>2. QED
    BY <2>1, FS_EmptySet DEF Init, OrphanInv, OrphansHaveACause
<1>2. PollInv /\ OrphanInv /\ [Next]_vars => OrphanInv'
  BY OrphanStep
<1>3. OrphanInv => OrphansHaveACause
  BY DEF OrphanInv
<1>4. QED
  BY <1>1, <1>2, <1>3, Invariance, PTL DEF Spec

-----------------------------------------------------------------------------
(* The abstract lifecycle. *)

\* Replacing the row of a job changes its phase, holder and outcome only.
LEMMA MappedRow ==
    ASSUME row \in [Jobs -> Row], NEW j \in Jobs, NEW q, row' = [row EXCEPT ![j] = q]
    PROVE  /\ [i \in Jobs |-> row'[i].status]
                  = [[i \in Jobs |-> row[i].status] EXCEPT ![j] = q.status]
           /\ [i \in Jobs |-> row'[i].claim]
                  = [[i \in Jobs |-> row[i].claim] EXCEPT ![j] = q.claim]
           /\ [i \in Jobs |-> row'[i].result]
                  = [[i \in Jobs |-> row[i].result] EXCEPT ![j] = q.result]
           /\ q.claim = row[j].claim =>
                  [i \in Jobs |-> row'[i].claim] = [i \in Jobs |-> row[i].claim]
           /\ q.result = row[j].result =>
                  [i \in Jobs |-> row'[i].result] = [i \in Jobs |-> row[i].result]
OBVIOUS

\* A claim that is accepted acquires the job, whether it is answered or not.
LEMMA ClaimAcquires ==
    ASSUME PollInv, NEW s \in Signers, Claim(s) \/ ClaimUnanswered(s)
    PROVE  Lifecycle!Next
<1>1. /\ job[s] \in Jobs /\ row \in [Jobs -> Row]
      /\ Allowed("claim", row[job[s]], now, Null)
      /\ row' = [row EXCEPT ![job[s]] = Changed("claim", row[job[s]], s)]
  BY DEF PollInv, TypeOK, Claim, ClaimUnanswered, ClaimJob
<1>2. PICK q \in Row : q = Changed("claim", row[job[s]], s)
  BY <1>1, ClaimedRow
<1>3. /\ row[job[s]].status = "PENDING" /\ q.status = "CLAIMED" /\ q.claim = s
      /\ q.result = row[job[s]].result
  BY <1>1, <1>2, ClaimedRow
<1>4. PICK j \in Jobs : j = job[s]
  BY <1>1
<1>5. /\ row \in [Jobs -> Row] /\ row' = [row EXCEPT ![j] = q]
      /\ q.result = row[j].result /\ q.status = "CLAIMED" /\ q.claim = s
  BY <1>1, <1>2, <1>3, <1>4
<1>6. /\ [i \in Jobs |-> row'[i].status]
             = [[i \in Jobs |-> row[i].status] EXCEPT ![j] = "CLAIMED"]
      /\ [i \in Jobs |-> row'[i].claim] = [[i \in Jobs |-> row[i].claim] EXCEPT ![j] = s]
      /\ [i \in Jobs |-> row'[i].result] = [i \in Jobs |-> row[i].result]
  BY <1>5, MappedRow
<1>7. Lifecycle!Acquire(j, s)
  BY <1>3, <1>4, <1>6 DEF Lifecycle!Acquire
<1>8. QED
  BY <1>7 DEF Lifecycle!Next

\* A result that is accepted is delivered, whether it is answered or not; the
\* job has a holder, the signer that submits it.
LEMMA SubmitDelivers ==
    ASSUME PollInv, NEW s \in Signers, Submit(s) \/ SubmitUnanswered(s)
    PROVE  Lifecycle!Next
<1>1. /\ at[s] = "signed" /\ job[s] \in Jobs /\ row \in [Jobs -> Row]
      /\ Allowed("complete", row[job[s]], now, row[job[s]].claim)
      /\ row' = [row EXCEPT ![job[s]] = Changed("complete", row[job[s]], s)]
  BY DEF PollInv, TypeOK, Submit, SubmitUnanswered, SubmitResult, ResultAccepted
<1>2. PICK q \in Row : q = Changed("complete", row[job[s]], s)
  BY <1>1, CompletedRow
<1>3. /\ row[job[s]].status = "CLAIMED" /\ q.status = "COMPLETED" /\ q.result = s
      /\ q.claim = row[job[s]].claim
  BY <1>1, <1>2, CompletedRow
<1>4. row[job[s]].claim # Null
  BY <1>1, IdAssumption DEF PollInv, SignerIsRecorded, Works
<1>5. PICK j \in Jobs : j = job[s]
  BY <1>1
<1>6. /\ row \in [Jobs -> Row] /\ row' = [row EXCEPT ![j] = q]
      /\ q.claim = row[j].claim /\ q.status = "COMPLETED" /\ q.result = s
  BY <1>1, <1>2, <1>3, <1>5
<1>7. /\ [i \in Jobs |-> row'[i].status]
             = [[i \in Jobs |-> row[i].status] EXCEPT ![j] = "COMPLETED"]
      /\ [i \in Jobs |-> row'[i].claim] = [i \in Jobs |-> row[i].claim]
      /\ [i \in Jobs |-> row'[i].result] = [[i \in Jobs |-> row[i].result] EXCEPT ![j] = s]
  BY <1>6, MappedRow
<1>8. Lifecycle!Deliver(j, s)
  BY <1>3, <1>4, <1>5, <1>7 DEF Lifecycle!Deliver
<1>9. QED
  BY <1>8 DEF Lifecycle!Next

\* The pull protocol implements the abstract lifecycle: of all that signers do
\* only the first claim and the first result of a job change what it shows.
THEOREM ProtocolImplementsLifecycle == Spec => ImplementsLifecycle
<1>1. Init => Lifecycle!Init
  BY NewRowType DEF Init, Lifecycle!Init
<1>2. PollInv /\ [Next]_vars => [Lifecycle!Next]_(Lifecycle!vars)
  <2> SUFFICES ASSUME PollInv, [Next]_vars PROVE [Lifecycle!Next]_(Lifecycle!vars)
    OBVIOUS
  <2>1. CASE row' = row
    BY <2>1 DEF Lifecycle!vars
  <2>2. ASSUME NEW d \in Deadlines, CreateJob(d)
        PROVE  Lifecycle!Next
    <3>1. PICK j \in Jobs : /\ row[j].status = "ABSENT"
                            /\ row' = [row EXCEPT ![j] = NewRow(now, d)]
      BY <2>2 DEF CreateJob, Unused
    <3>2. /\ row \in [Jobs -> Row] /\ now \in Nat /\ d \in Nat
          /\ row[j].claim = Null /\ row[j].result = Null
      BY <3>1, BoundsAssumption DEF PollInv, TypeOK, RowIsPast
    <3>3. PICK q \in Row : q = NewRow(now, d)
      BY <3>2, NewRowType
    <3>4. /\ q.status = "PENDING" /\ q.claim = Null /\ q.result = Null
          /\ row' = [row EXCEPT ![j] = q]
      BY <3>1, <3>2, <3>3, NewRowType
    <3>5. /\ [i \in Jobs |-> row'[i].status]
                 = [[i \in Jobs |-> row[i].status] EXCEPT ![j] = "PENDING"]
          /\ [i \in Jobs |-> row'[i].claim] = [i \in Jobs |-> row[i].claim]
          /\ [i \in Jobs |-> row'[i].result] = [i \in Jobs |-> row[i].result]
      BY <3>2, <3>4, MappedRow
    <3>6. Lifecycle!Post(j)
      BY <3>1, <3>5 DEF Lifecycle!Post
    <3>7. QED
      BY <3>6 DEF Lifecycle!Next
  <2>3. ASSUME NEW s \in Signers,
               \/ Poll(s) \/ ClaimRefused(s) \/ Sign(s) \/ SubmitRefused(s) \/ Crash(s)
        PROVE  row' = row
    BY <2>3 DEF Poll, ClaimRefused, Sign, SubmitRefused, Crash
  <2>4. QED
    BY <2>1, <2>2, <2>3, ClaimAcquires, SubmitDelivers DEF Next, Loop, Tick, vars
<1>3. QED
  BY <1>1, <1>2, Invariance, PTL DEF Spec, ImplementsLifecycle, Lifecycle!Spec

=============================================================================
