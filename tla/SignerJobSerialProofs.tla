------------------------- MODULE SignerJobSerialProofs -------------------------
(***************************************************************************)
(* What the calls on a job keep when they do not overlap, for any jobs,    *)
(* calls, deadlines and MAX_RETRY_COUNT: the promises of the documents,    *)
(* and the abstract lifecycle.                                             *)
(***************************************************************************)
EXTENDS SignerJobSerial, SignerJobProofs

-----------------------------------------------------------------------------
(* A write without a race. *)

\* A save whose comparison is still right stores the copy.
LEMMA SavedIsCopy ==
    ASSUME NEW r \in Row, NEW m \in Row
    PROVE  Saved(r, m, ChangedColumns(m, r)) = m
BY DEF Saved, ChangedColumns, Row

\* A write without a race is one guarded change of the row.
LEMMA SerialWrite ==
    ASSUME SerialInv, NEW c \in Calls, Write(c)
    PROVE  /\ target[c] \in Jobs /\ op[c] \in Operations /\ row[target[c]] \in Row
           /\ \E t \in Nat : Allowed(op[c], row[target[c]], t, token[c])
           /\ row' = [row EXCEPT ![target[c]] = Changed(op[c], row[target[c]], c)]
           /\ pc' = [pc EXCEPT ![c] = "done"]
           /\ UNCHANGED <<now, op, target, token>>
<1>1. /\ target[c] \in Jobs /\ op[c] \in Operations
      /\ row[target[c]] \in Row /\ snap[c] \in Row
  BY DEF Write, SerialInv, IInv, TypeOK, InFlight
<1>2. PICK t \in 0..now : Allowed(op[c], snap[c], t, token[c])
  BY DEF Write, SerialInv, IInv, GuardHeld
<1>3. t \in Nat
  BY MaxTimeAssumption DEF SerialInv, IInv, TypeOK
<1>4. snap[c].status # "ABSENT"
  BY <1>2 DEF Allowed
<1>5. /\ snap[c] = row[target[c]]
      /\ dirty[c] = ChangedColumns(Copy(c), row[target[c]])
  BY <1>4 DEF Write, SerialInv, CopyIsCurrent, HasCopy
<1>6. Copy(c) = Changed(op[c], row[target[c]], c) /\ Copy(c) \in Row
  BY <1>1, <1>5, ChangedType DEF Copy
<1>7. Saved(row[target[c]], Copy(c), dirty[c]) = Changed(op[c], row[target[c]], c)
  BY <1>1, <1>5, <1>6, SavedIsCopy
<1>8. QED
  BY <1>1, <1>2, <1>3, <1>5, <1>7 DEF Write, End

\* A guarded change keeps a row consistent; a claim finds the row without a
\* holder, and no other method changes the holder; a row that has a result keeps it.
LEMMA GuardedConsistent ==
    ASSUME NEW r \in Row, NEW o \in Operations, NEW c \in Calls, NEW t \in Nat, NEW tok,
           Allowed(o, r, t, tok), Consistent(r)
    PROVE  LET m == Changed(o, r, c) IN
           /\ m \in Row
           /\ Consistent(m)
           /\ m.claim = r.claim \/ (o = "claim" /\ m.claim = c /\ r.claim = Null)
           /\ r.result # Null => m.result = r.result
<1>1. \/ o = "claim" /\ r.status = "PENDING"
      \/ o = "complete" /\ r.status = "CLAIMED"
      \/ o = "cancel" /\ r.status \in {"PENDING", "CLAIMED"}
      \/ o = "expire" /\ r.status \in {"PENDING", "CLAIMED"}
      \/ o = "retry" /\ r.status # "ABSENT"
      \/ o = "fail" /\ r.status = "CLAIMED"
  BY DEF Allowed, ClaimAllowed, CompleteAllowed, CancelAllowed, ExpireAllowed, FailAllowed,
         Row, Status
<1>2. PICK m \in Row : m = Changed(o, r, c)
  BY ChangedType
<1>3. /\ m.claim = IF o = "claim" THEN c ELSE r.claim
      /\ m.result = IF o = "complete" THEN c ELSE r.result
      /\ m.errorMessage = IF o = "fail" THEN c ELSE r.errorMessage
      /\ o = "claim" => m.status = "CLAIMED"
      /\ o = "complete" => m.status = "COMPLETED"
      /\ o = "cancel" => m.status = "CANCELLED"
      /\ o = "expire" => m.status = "EXPIRED"
      /\ o = "retry" => m.status = r.status
      /\ o = "fail" => m.status = "FAILED"
      /\ o \in {"claim", "retry"} => m.completedAt = r.completedAt
      /\ o \notin {"claim", "retry"} => m.completedAt = c
  BY <1>2, ChangedColumnwise
<1>4. c # Null
  BY NullAssumption
<1>5. Consistent(m)
  BY <1>1, <1>3, <1>4 DEF Consistent, Terminal
<1>6. m.claim = r.claim \/ (o = "claim" /\ m.claim = c /\ r.claim = Null)
  BY <1>1, <1>3 DEF Consistent
<1>7. r.result # Null => m.result = r.result
  BY <1>1, <1>3 DEF Consistent
<1>8. QED
  BY <1>2, <1>5, <1>6, <1>7

-----------------------------------------------------------------------------
(* The invariant. *)

\* A step of a call leaves the other calls alone, and only a write changes a
\* row or finishes a call.
LEMMA StepFrame ==
    ASSUME TypeOK, NEW c \in Calls, Step(c)
    PROVE  /\ \A d \in Calls : d # c =>
                  /\ pc'[d] = pc[d] /\ op'[d] = op[d] /\ target'[d] = target[d]
                  /\ snap'[d] = snap[d] /\ dirty'[d] = dirty[d]
           /\ ~Write(c) => row' = row /\ pc'[c] # "done"
           /\ pc[c] # "done"
BY DEF Step, Call, SubmitResult, CompleteJob, Accept, Refuse, Compare, Write, Crash,
       End, InFlight, TypeOK, table

\* When calls do not overlap, a step leaves at most one in flight per job.
LEMMA OneCallStep ==
    ASSUME SerialInv, ~Overlap, NEW c \in Calls, Step(c)
    PROVE  OneCallPerJob'
<1>1. TypeOK
  BY DEF SerialInv, IInv
<1>2. \A d \in Calls : d # c => pc'[d] = pc[d] /\ target'[d] = target[d]
  BY <1>1, StepFrame
<1>3. CASE InFlight(c) /\ target'[c] = target[c]
  BY <1>2, <1>3 DEF SerialInv, OneCallPerJob, InFlight
<1>4. CASE ~(InFlight(c) /\ target'[c] = target[c])
  <2>1. InFlight(c)' => \E j \in Jobs : Free(j) /\ target'[c] = j
    BY <1>1, <1>4
       DEF Step, Call, SubmitResult, CompleteJob, Accept, Refuse, Compare, Write, Crash,
           End, InFlight, TypeOK
  <2>2. \A d \in Calls : d # c /\ InFlight(c)' /\ target'[d] = target'[c] => ~InFlight(d)'
    BY <1>2, <2>1 DEF Free, InFlight
  <2>3. QED
    BY <1>2, <2>2 DEF SerialInv, OneCallPerJob, InFlight
<1>5. QED
  BY <1>3, <1>4

\* A step that writes no row keeps the copies current.
LEMMA QuietStep ==
    ASSUME SerialInv, NEW c \in Calls, Step(c), ~Write(c)
    PROVE  /\ RowShape'
           /\ \A d \in Calls : CopyIsCurrent(d)' /\ WinnerHoldsRow(d)'
<1>1. TypeOK
  BY DEF SerialInv, IInv
<1>2. row' = row /\ pc'[c] # "done" /\ pc[c] # "done"
  BY <1>1, StepFrame
<1>3. \A d \in Calls : d # c =>
          /\ pc'[d] = pc[d] /\ op'[d] = op[d] /\ target'[d] = target[d]
          /\ snap'[d] = snap[d] /\ dirty'[d] = dirty[d]
  BY <1>1, StepFrame
<1>4. RowShape'
  BY <1>2 DEF SerialInv, RowShape
<1>5. \A d \in Calls : WinnerHoldsRow(d)'
  BY <1>2, <1>3 DEF SerialInv, WinnerHoldsRow, Did
<1>6. \A d \in Calls : d # c => CopyIsCurrent(d)'
  BY <1>2, <1>3 DEF SerialInv, CopyIsCurrent, HasCopy, Copy
<1>7. CopyIsCurrent(c)'
  BY <1>1 DEF Step, Call, SubmitResult, CompleteJob, Accept, Refuse, Compare, Write, Crash,
              End, InFlight, TypeOK, table, SerialInv, CopyIsCurrent, HasCopy, Copy, AbsentRow, NewRow
<1>8. QED
  BY <1>4, <1>5, <1>6, <1>7

\* A write meets no other call on its job, and keeps the row consistent.
LEMMA WriteStep ==
    ASSUME SerialInv, NEW c \in Calls, Step(c), Write(c)
    PROVE  /\ RowShape'
           /\ \A d \in Calls : CopyIsCurrent(d)' /\ WinnerHoldsRow(d)'
<1>1. TypeOK
  BY DEF SerialInv, IInv
<1>2. PICK j \in Jobs : j = target[c]
  BY SerialWrite
<1>3. PICK r \in Row : r = row[j]
  BY <1>2, SerialWrite
<1>4. PICK t \in Nat : Allowed(op[c], r, t, token[c])
  BY <1>2, <1>3, SerialWrite
<1>5. Consistent(r)
  BY <1>3 DEF SerialInv, RowShape
<1>6. PICK m : m = Changed(op[c], r, c)
  OBVIOUS
<1>7. /\ m \in Row /\ Consistent(m)
      /\ m.claim = r.claim \/ (op[c] = "claim" /\ m.claim = c /\ r.claim = Null)
  BY <1>3, <1>4, <1>5, <1>6, SerialWrite, GuardedConsistent
<1>8. /\ row'[j] = m
      /\ \A i \in Jobs : i # j => row'[i] = row[i]
      /\ pc'[c] = "done" /\ op'[c] = op[c] /\ target'[c] = j
  BY <1>1, <1>2, <1>3, <1>6, SerialWrite DEF TypeOK
<1>9. \A d \in Calls : d # c =>
          /\ pc'[d] = pc[d] /\ op'[d] = op[d] /\ target'[d] = target[d]
          /\ snap'[d] = snap[d] /\ dirty'[d] = dirty[d]
  BY <1>1, StepFrame
<1>10. RowShape'
  BY <1>7, <1>8 DEF SerialInv, RowShape
<1>11. ASSUME NEW d \in Calls PROVE WinnerHoldsRow(d)'
  <2> SUFFICES ASSUME NEW i \in Jobs, Did(d, "claim", i)' PROVE row'[i].claim = d
    BY DEF WinnerHoldsRow
  <2>1. CASE d # c
    <3>1. row[i].claim = d
      BY <2>1, <1>9 DEF SerialInv, WinnerHoldsRow, Did
    <3>2. d # Null
      BY NullAssumption
    <3>3. QED
      BY <3>1, <3>2, <1>3, <1>7, <1>8
  <2>2. CASE d = c
    <3>1. i = j /\ op[c] = "claim"
      BY <2>2, <1>8 DEF Did
    <3>2. m.claim = c
      BY <3>1, <1>6, <1>3, ChangedColumnwise DEF Operations
    <3>3. QED
      BY <2>2, <3>1, <3>2, <1>8
  <2>3. QED
    BY <2>1, <2>2
<1>12. ASSUME NEW d \in Calls PROVE CopyIsCurrent(d)'
  <2>1. CASE d # c /\ HasCopy(d)
    <3>1. target[d] \in Jobs /\ target[d] # j
      BY <2>1, <1>1, <1>2 DEF SerialInv, OneCallPerJob, InFlight, HasCopy, Write, TypeOK
    <3>2. row'[target[d]] = row[target[d]]
      BY <3>1, <1>8
    <3>3. QED
      BY <2>1, <3>2, <1>9 DEF SerialInv, CopyIsCurrent, HasCopy, Copy
  <2>2. CASE d = c \/ ~HasCopy(d)
    BY <2>2, <1>8, <1>9 DEF CopyIsCurrent, HasCopy
  <2>3. QED
    BY <2>1, <2>2
<1>13. QED
  BY <1>10, <1>11, <1>12

\* createJob finds no call that holds a copy of its row.
LEMMA CreateStep ==
    ASSUME SerialInv, NEW j \in Jobs, NEW d \in Deadlines, CreateJob(j, d)
    PROVE  RowShape' /\ OneCallPerJob' /\ \A c \in Calls : CopyIsCurrent(c)' /\ WinnerHoldsRow(c)'
<1>1. /\ row[j].status = "ABSENT" /\ row'[j] = NewRow(now, d)
      /\ \A i \in Jobs : i # j => row'[i] = row[i]
      /\ UNCHANGED <<pc, op, target, token, snap, dirty>>
  BY DEF CreateJob, calls, SerialInv, IInv, TypeOK
<1>2. Consistent(NewRow(now, d))
  BY DEF Consistent, NewRow, Terminal
<1>3. RowShape'
  BY <1>1, <1>2 DEF SerialInv, RowShape
<1>4. OneCallPerJob'
  BY <1>1 DEF SerialInv, OneCallPerJob, InFlight
<1>5. ASSUME NEW c \in Calls PROVE CopyIsCurrent(c)'
  <2>1. HasCopy(c) => target[c] \in Jobs
    BY DEF SerialInv, IInv, TypeOK, HasCopy, InFlight
  <2>2. pc[c] = "writing" => snap[c].status # "ABSENT"
    BY DEF SerialInv, IInv, GuardHeld, Allowed
  <2>3. HasCopy(c) /\ snap[c].status # "ABSENT" => row'[target[c]] = row[target[c]]
    BY <1>1, <2>1 DEF SerialInv, CopyIsCurrent
  <2>4. QED
    BY <1>1, <2>2, <2>3 DEF SerialInv, CopyIsCurrent, HasCopy, Copy
<1>6. ASSUME NEW c \in Calls PROVE WinnerHoldsRow(c)'
  <2>1. ~Did(c, "claim", j)
    BY <1>1, NullAssumption DEF SerialInv, WinnerHoldsRow, RowShape, Consistent
  <2>2. QED
    BY <1>1, <2>1 DEF SerialInv, WinnerHoldsRow, Did
<1>7. QED
  BY <1>3, <1>4, <1>5, <1>6

\* Calls that do not overlap keep the invariant.
LEMMA SerialInvNext ==
    ASSUME ~Overlap
    PROVE  SerialInv /\ [Next]_vars => SerialInv'
<1> SUFFICES ASSUME SerialInv, [Next]_vars PROVE SerialInv'
  OBVIOUS
<1>1. IInv'
  BY InvNext DEF SerialInv
<1>2. ASSUME UNCHANGED <<row, pc, op, target, token, snap, dirty>> PROVE SerialInv'
  BY <1>1, <1>2
     DEF SerialInv, RowShape, OneCallPerJob, CopyIsCurrent, WinnerHoldsRow, Did, InFlight,
         HasCopy, Copy
<1>3. CASE Tick \/ UNCHANGED vars
  BY <1>2, <1>3 DEF Tick, calls, vars
<1>4. ASSUME NEW j \in Jobs, NEW d \in Deadlines, CreateJob(j, d) PROVE SerialInv'
  BY <1>1, <1>4, CreateStep DEF SerialInv
<1>5. ASSUME NEW c \in Calls, Step(c) PROVE SerialInv'
  <2>1. OneCallPerJob'
    BY <1>5, OneCallStep
  <2>2. RowShape' /\ \A d \in Calls : CopyIsCurrent(d)' /\ WinnerHoldsRow(d)'
    BY <1>5, QuietStep, WriteStep
  <2>3. QED
    BY <1>1, <2>1, <2>2 DEF SerialInv
<1>6. QED
  BY <1>3, <1>4, <1>5 DEF Next

\* Every reachable state satisfies the invariant when calls do not overlap.
LEMMA SerialInvariance ==
    ASSUME ~Overlap
    PROVE  Spec => []SerialInv
<1>1. Init => SerialInv
  <2> SUFFICES ASSUME Init PROVE SerialInv
    OBVIOUS
  <2>1. \A j \in Jobs : Consistent(row[j])
    BY DEF Init, Consistent, AbsentRow, NewRow, Terminal
  <2>2. QED
    BY <2>1, InvInit
       DEF Init, SerialInv, RowShape, OneCallPerJob, CopyIsCurrent, WinnerHoldsRow, Did,
           HasCopy, InFlight
<1>2. QED
  BY <1>1, SerialInvNext, PTL DEF Spec

-----------------------------------------------------------------------------
(* What it implies. *)

\* Without a race at most one claim of a job is answered with success.
THEOREM OneWinner ==
    ASSUME ~Overlap
    PROVE  Spec => []OneClaimWinner
<1>1. SerialInv => OneClaimWinner
  BY DEF SerialInv, WinnerHoldsRow, OneClaimWinner
<1>2. QED
  BY <1>1, SerialInvariance, PTL

\* Without a race a stored result is never replaced or erased.
THEOREM ResultsStay ==
    ASSUME ~Overlap
    PROVE  Spec => ResultWrittenOnce
<1>1. SerialInv /\ [Next]_vars =>
          [\A j \in Jobs : row[j].result # Null => row'[j].result = row[j].result]_vars
  <2> SUFFICES ASSUME SerialInv, Next, NEW j \in Jobs, row[j].result # Null
               PROVE  row'[j].result = row[j].result
    OBVIOUS
  <2>1. CASE row'[j] = row[j]
    BY <2>1
  <2>2. ASSUME NEW i \in Jobs, NEW d \in Deadlines, CreateJob(i, d) PROVE row'[j] = row[j]
    <3>1. row[i].status = "ABSENT" /\ Consistent(row[i])
      BY <2>2 DEF CreateJob, SerialInv, RowShape
    <3>2. i # j
      BY <3>1 DEF Consistent
    <3>3. QED
      BY <2>2, <3>2 DEF CreateJob, SerialInv, IInv, TypeOK
  <2>3. ASSUME NEW c \in Calls, Step(c), row'[j] # row[j] PROVE row'[j].result = row[j].result
    <3>1. Write(c)
      BY <2>3, StepFrame DEF SerialInv, IInv
    <3>2. /\ j = target[c] /\ op[c] \in Operations /\ row[j] \in Row
          /\ row'[j] = Changed(op[c], row[j], c)
      BY <2>3, <3>1, SerialWrite DEF SerialInv, IInv, TypeOK
    <3>3. PICK t \in Nat : Allowed(op[c], row[j], t, token[c])
      BY <3>1, <3>2, SerialWrite
    <3>4. PICK r \in Row : r = row[j]
      BY <3>2
    <3>5. Consistent(r)
      BY <3>4 DEF SerialInv, RowShape
    <3>6. Changed(op[c], r, c).result = r.result
      BY <3>2, <3>3, <3>4, <3>5, GuardedConsistent
    <3>7. QED
      BY <3>2, <3>4, <3>6
  <2>4. QED
    BY <2>1, <2>2, <2>3 DEF Next, Tick
<1>2. QED
  BY <1>1, SerialInvariance, PTL DEF Spec, ResultWrittenOnce

\* Without a race a closed job is closed for good.
THEOREM ClosedJobsStay ==
    ASSUME ~Overlap
    PROVE  Spec => ClosedForGood
<1>1. SerialInv /\ [Next]_vars =>
          [\A j \in Jobs :
               row[j].status \in Terminal =>
                   row'[j] = [row[j] EXCEPT !.retryCount = row'[j].retryCount]]_vars
  <2> SUFFICES ASSUME SerialInv, Next, NEW j \in Jobs, row[j].status \in Terminal
               PROVE  row'[j] = [row[j] EXCEPT !.retryCount = row'[j].retryCount]
    OBVIOUS
  <2>1. row \in [Jobs -> Row]
    BY DEF SerialInv, IInv, TypeOK
  <2>2. PICK r \in Row : r = row[j]
    BY <2>1
  <2>3. r = [r EXCEPT !.retryCount = r.retryCount]
    BY DEF Row
  <2>4. CASE row'[j] = row[j]
    BY <2>2, <2>3, <2>4
  <2>5. ASSUME NEW i \in Jobs, NEW d \in Deadlines, CreateJob(i, d) PROVE row'[j] = row[j]
    <3>1. i # j
      BY <2>5 DEF CreateJob, Terminal
    <3>2. QED
      BY <2>1, <2>5, <3>1 DEF CreateJob
  <2>6. ASSUME NEW c \in Calls, Step(c), row'[j] # row[j]
        PROVE  row'[j] = [r EXCEPT !.retryCount = row'[j].retryCount]
    <3>1. Write(c)
      BY <2>6, StepFrame DEF SerialInv, IInv
    <3>2. j = target[c] /\ op[c] \in Operations /\ row'[j] = Changed(op[c], r, c)
      BY <2>1, <2>2, <2>6, <3>1, SerialWrite
    <3>3. PICK t \in Nat : Allowed(op[c], r, t, token[c])
      BY <2>2, <3>1, <3>2, SerialWrite
    <3>4. op[c] = "retry"
      BY <2>2, <3>2, <3>3
         DEF Operations, Terminal, Allowed, ClaimAllowed, CompleteAllowed, CancelAllowed,
             ExpireAllowed, FailAllowed
    <3>5. row'[j] = [r EXCEPT !.retryCount = r.retryCount + 1]
      BY <3>2, <3>4 DEF Changed, Retried
    <3>6. QED
      BY <3>5 DEF Row
  <2>7. QED
    BY <2>2, <2>4, <2>5, <2>6 DEF Next, Tick
<1>2. QED
  BY <1>1, SerialInvariance, PTL DEF Spec, ClosedForGood

-----------------------------------------------------------------------------
(* Refinement. *)

\* Replacing the row of j replaces what the lifecycle sees of j.
LEMMA MappedUpdate ==
    ASSUME NEW f \in [Jobs -> Row], NEW j \in Jobs, NEW m, NEW g, g = [f EXCEPT ![j] = m]
    PROVE  /\ [i \in Jobs |-> g[i].status] = [[i \in Jobs |-> f[i].status] EXCEPT ![j] = m.status]
           /\ [i \in Jobs |-> g[i].claim] = [[i \in Jobs |-> f[i].claim] EXCEPT ![j] = m.claim]
           /\ [i \in Jobs |-> g[i].result] = [[i \in Jobs |-> f[i].result] EXCEPT ![j] = m.result]
           /\ m.status = f[j].status =>
                  [i \in Jobs |-> g[i].status] = [i \in Jobs |-> f[i].status]
           /\ m.claim = f[j].claim =>
                  [i \in Jobs |-> g[i].claim] = [i \in Jobs |-> f[i].claim]
           /\ m.result = f[j].result =>
                  [i \in Jobs |-> g[i].result] = [i \in Jobs |-> f[i].result]
OBVIOUS

\* A write without a race is one step of the lifecycle, or a stutter of it.
LEMMA WriteRefines ==
    ASSUME SerialInv, NEW c \in Calls, Write(c)
    PROVE  [Lifecycle!Next]_(Lifecycle!vars)
<1>1. /\ target[c] \in Jobs /\ op[c] \in Operations /\ row \in [Jobs -> Row]
      /\ \E t \in Nat : Allowed(op[c], row[target[c]], t, token[c])
      /\ row' = [row EXCEPT ![target[c]] = Changed(op[c], row[target[c]], c)]
  BY SerialWrite DEF SerialInv, IInv, TypeOK
<1>2. PICK j \in Jobs : j = target[c]
  BY <1>1
<1>3. PICK o \in Operations : o = op[c]
  BY <1>1
<1>4. PICK r \in Row : r = row[j]
  BY <1>1
<1>5. PICK m \in Row : m = Changed(o, r, c)
  BY ChangedType
<1>6. PICK t \in Nat : Allowed(o, r, t, token[c])
  BY <1>1, <1>2, <1>3, <1>4
<1>7. Consistent(r)
  BY <1>4 DEF SerialInv, RowShape
<1>8. row' = [row EXCEPT ![j] = m]
  BY <1>1, <1>2, <1>3, <1>4, <1>5
<1>9. /\ [i \in Jobs |-> row'[i].status] = [[i \in Jobs |-> row[i].status] EXCEPT ![j] = m.status]
      /\ [i \in Jobs |-> row'[i].claim] = [[i \in Jobs |-> row[i].claim] EXCEPT ![j] = m.claim]
      /\ [i \in Jobs |-> row'[i].result] = [[i \in Jobs |-> row[i].result] EXCEPT ![j] = m.result]
      /\ m.status = r.status => [i \in Jobs |-> row'[i].status] = [i \in Jobs |-> row[i].status]
      /\ m.claim = r.claim => [i \in Jobs |-> row'[i].claim] = [i \in Jobs |-> row[i].claim]
      /\ m.result = r.result => [i \in Jobs |-> row'[i].result] = [i \in Jobs |-> row[i].result]
  BY <1>1, <1>4, <1>8, MappedUpdate
<1>10. /\ m.claim = IF o = "claim" THEN c ELSE r.claim
       /\ m.result = IF o = "complete" THEN c ELSE r.result
       /\ o = "claim" => m.status = "CLAIMED"
       /\ o = "complete" => m.status = "COMPLETED"
       /\ o = "cancel" => m.status = "CANCELLED"
       /\ o = "expire" => m.status = "EXPIRED"
       /\ o = "retry" => m.status = r.status
       /\ o = "fail" => m.status = "FAILED"
  BY <1>5, ChangedColumnwise
<1>11. CASE o = "claim"
  <2>1. r.status = "PENDING"
    BY <1>6, <1>11 DEF Allowed, ClaimAllowed
  <2>2. Lifecycle!Acquire(j, c)
    BY <1>4, <1>9, <1>10, <1>11, <2>1 DEF Lifecycle!Acquire
  <2>3. QED
    BY <2>2 DEF Lifecycle!Next
<1>12. CASE o = "complete"
  <2>1. r.status = "CLAIMED" /\ r.claim # Null
    BY <1>6, <1>12 DEF Allowed, CompleteAllowed
  <2>2. Lifecycle!Deliver(j, c)
    BY <1>4, <1>9, <1>10, <1>12, <2>1 DEF Lifecycle!Deliver
  <2>3. QED
    BY <2>2 DEF Lifecycle!Next
<1>13. CASE o = "cancel"
  <2>1. r.status \in {"PENDING", "CLAIMED"}
    BY <1>6, <1>13 DEF Allowed, CancelAllowed
  <2>2. Lifecycle!Withdraw(j)
    BY <1>4, <1>9, <1>10, <1>13, <2>1 DEF Lifecycle!Withdraw, Lifecycle!Open
  <2>3. QED
    BY <2>2 DEF Lifecycle!Next
<1>14. CASE o = "expire"
  <2>1. r.status \in {"PENDING", "CLAIMED"}
    BY <1>6, <1>14 DEF Allowed, ExpireAllowed, Row, Status
  <2>2. Lifecycle!Lapse(j)
    BY <1>4, <1>9, <1>10, <1>14, <2>1 DEF Lifecycle!Lapse, Lifecycle!Open
  <2>3. QED
    BY <2>2 DEF Lifecycle!Next
<1>15. CASE o = "retry"
  BY <1>9, <1>10, <1>15 DEF Lifecycle!vars
<1>16. CASE o = "fail"
  <2>1. r.status = "CLAIMED"
    BY <1>6, <1>16 DEF Allowed, FailAllowed
  <2>2. Lifecycle!Abort(j)
    BY <1>4, <1>9, <1>10, <1>16, <2>1 DEF Lifecycle!Abort
  <2>3. QED
    BY <2>2 DEF Lifecycle!Next
<1>17. QED
  BY <1>11, <1>12, <1>13, <1>14, <1>15, <1>16 DEF Operations

\* When the calls on a job do not overlap, the service implements the abstract
\* lifecycle: its state is the phase, holder and outcome of each row.
THEOREM ServiceImplementsLifecycle ==
    ASSUME ~Overlap
    PROVE  Spec => ImplementsLifecycle
<1>1. Init => Lifecycle!Init
  BY DEF Init, Lifecycle!Init, AbsentRow, NewRow
<1>2. SerialInv /\ [Next]_vars => [Lifecycle!Next]_(Lifecycle!vars)
  <2> SUFFICES ASSUME SerialInv, [Next]_vars PROVE [Lifecycle!Next]_(Lifecycle!vars)
    OBVIOUS
  <2>1. CASE row' = row
    BY <2>1 DEF Lifecycle!vars
  <2>2. ASSUME NEW j \in Jobs, NEW d \in Deadlines, CreateJob(j, d)
        PROVE  Lifecycle!Next
    <3>1. /\ row[j].status = "ABSENT" /\ row[j].claim = Null /\ row[j].result = Null
          /\ row \in [Jobs -> Row] /\ row' = [row EXCEPT ![j] = NewRow(now, d)]
      BY <2>2 DEF CreateJob, SerialInv, RowShape, Consistent, IInv, TypeOK
    <3>2. /\ NewRow(now, d).status = "PENDING" /\ NewRow(now, d).claim = Null
          /\ NewRow(now, d).result = Null
      BY DEF NewRow
    <3>3. Lifecycle!Post(j)
      BY <3>1, <3>2, MappedUpdate DEF Lifecycle!Post
    <3>4. QED
      BY <3>3 DEF Lifecycle!Next
  <2>3. ASSUME NEW c \in Calls, Step(c), row' # row
        PROVE  [Lifecycle!Next]_(Lifecycle!vars)
    BY <2>3, StepFrame, WriteRefines DEF SerialInv, IInv
  <2>4. QED
    BY <2>1, <2>2, <2>3 DEF Next, Tick, vars
<1>3. QED
  BY <1>1, <1>2, SerialInvariance, PTL DEF Spec, ImplementsLifecycle, Lifecycle!Spec

=============================================================================
