---------------------------- MODULE SignerJobProofs ----------------------------
(***************************************************************************)
(* What SignerJob keeps however its calls overlap, for any set of jobs and *)
(* calls, any deadlines and any MAX_RETRY_COUNT.                           *)
(***************************************************************************)
EXTENDS SignerJob, TLAPS

-----------------------------------------------------------------------------
(* The row: what a copy, a change and a save yield. *)

\* A row not yet inserted is a row.
LEMMA AbsentRowType == AbsentRow \in Row /\ AbsentRow.status = "ABSENT"
BY DEF AbsentRow, NewRow, Row, Status, Terminal

\* createJob inserts a row.
LEMMA NewRowType ==
    ASSUME NEW t \in Nat, NEW d \in Nat PROVE NewRow(t, d) \in Row
BY DEF NewRow, Row, Status, Terminal

\* A method that merges its changes into a row has a row in its hands.
LEMMA ChangedType ==
    ASSUME NEW o \in Operations, NEW r \in Row, NEW c \in Calls
    PROVE  Changed(o, r, c) \in Row
<1>1. Claimed(r, c) \in Row
  BY DEF Claimed, Row, Status
<1>2. \A s \in Terminal : Closed(r, s, c) \in Row
  BY DEF Closed, Row, Status
<1>3. [Closed(r, "COMPLETED", c) EXCEPT !.result = c] \in Row
  BY <1>2 DEF Row, Terminal
<1>4. [Closed(r, "FAILED", c) EXCEPT !.errorMessage = c] \in Row
  BY <1>2 DEF Row, Terminal
<1>5. Retried(r) \in Row
  BY DEF Retried, Row
<1>6. QED
  BY <1>1, <1>2, <1>3, <1>4, <1>5 DEF Changed, Operations, Terminal

\* What each method changes in its copy, column by column.
LEMMA ChangedColumnwise ==
    ASSUME NEW o \in Operations, NEW r \in Row, NEW c \in Calls
    PROVE  LET m == Changed(o, r, c) IN
           /\ m.claim = IF o = "claim" THEN c ELSE r.claim
           /\ m.result = IF o = "complete" THEN c ELSE r.result
           /\ m.errorMessage = IF o = "fail" THEN c ELSE r.errorMessage
           /\ m.retryCount = IF o = "retry" THEN r.retryCount + 1 ELSE r.retryCount
           /\ m.expiresAt = r.expiresAt
           /\ o = "claim" => m.status = "CLAIMED"
           /\ o = "complete" => m.status = "COMPLETED"
           /\ o = "cancel" => m.status = "CANCELLED"
           /\ o = "expire" => m.status = "EXPIRED"
           /\ o = "retry" => m.status = r.status
           /\ o = "fail" => m.status = "FAILED"
           /\ o = "claim" => m.completedAt = r.completedAt
           /\ o = "retry" => m.completedAt = r.completedAt
           /\ o \notin {"claim", "retry"} => m.completedAt = c
<1>1. CASE o = "claim"     BY <1>1 DEF Changed, Claimed, Row
<1>2. CASE o = "complete"  BY <1>2 DEF Changed, Closed, Row
<1>3. CASE o = "cancel"    BY <1>3 DEF Changed, Closed, Row
<1>4. CASE o = "expire"    BY <1>4 DEF Changed, Closed, Row
<1>5. CASE o = "retry"     BY <1>5 DEF Changed, Retried, Row
<1>6. CASE o = "fail"      BY <1>6 DEF Changed, Closed, Row
<1>7. QED
  BY <1>1, <1>2, <1>3, <1>4, <1>5, <1>6 DEF Operations

\* A save leaves a row: each column is the old one or the copy's.
LEMMA SavedType ==
    ASSUME NEW r \in Row, NEW m \in Row, NEW d
    PROVE  LET s == Saved(r, m, d) IN
           /\ s \in Row
           /\ s.status \in {r.status, m.status}
           /\ s.claim \in {r.claim, m.claim}
           /\ s.result \in {r.result, m.result}
           /\ s.errorMessage \in {r.errorMessage, m.errorMessage}
           /\ s.completedAt \in {r.completedAt, m.completedAt}
           /\ s.retryCount \in {r.retryCount, m.retryCount}
           /\ s.expiresAt \in {r.expiresAt, m.expiresAt}
BY DEF Saved, Row

\* Every row has the same columns.
LEMMA RowColumns == \A r \in Row : DOMAIN r = Columns
BY AbsentRowType DEF Columns, Row

-----------------------------------------------------------------------------
(* Types. *)

\* Every step keeps the types.
LEMMA TypeStep == TypeOK /\ [Next]_vars => TypeOK'
<1> SUFFICES ASSUME TypeOK, [Next]_vars PROVE TypeOK'
  OBVIOUS
<1> USE DEF TypeOK, table, calls
<1>1. CASE Tick
  BY <1>1, MaxTimeAssumption DEF Tick, InFlight
<1>2. ASSUME NEW j \in Jobs, NEW d \in Deadlines, CreateJob(j, d)
      PROVE  TypeOK'
  <2>1. NewRow(now, d) \in Row
    BY NewRowType, DeadlinesAssumption, MaxTimeAssumption
  <2>2. QED
    BY <1>2, <2>1 DEF CreateJob, InFlight
<1>3. ASSUME NEW c \in Calls, NEW j \in Jobs, NEW o \in Ops, Call(c, o, j)
      PROVE  TypeOK'
  BY <1>3, OpsAssumption DEF Call, InFlight
<1>4. ASSUME NEW c \in Calls, NEW j \in Jobs, NEW t \in 0..MaxTime,
             SubmitResult(c, j, t)
      PROVE  TypeOK'
  <2>1. row[j].claim \in Calls \cup {Null}
    BY DEF Row
  <2>2. QED
    BY <1>4, <2>1 DEF SubmitResult, Operations, InFlight
<1>5. ASSUME NEW c \in Calls, CompleteJob(c) PROVE TypeOK'
  BY <1>5 DEF CompleteJob, InFlight
<1>6. ASSUME NEW c \in Calls, Accept(c) PROVE TypeOK'
  BY <1>6 DEF Accept, InFlight
<1>7. ASSUME NEW c \in Calls, Refuse(c) PROVE TypeOK'
  BY <1>7, AbsentRowType DEF Refuse, End, InFlight
<1>8. ASSUME NEW c \in Calls, Compare(c) PROVE TypeOK'
  <2>1. row[target[c]] \in Row
    BY <1>8 DEF Compare, InFlight
  <2>2. ChangedColumns(Copy(c), row[target[c]]) \in SUBSET Columns
    BY <2>1, RowColumns DEF ChangedColumns
  <2>3. QED
    BY <1>8, <2>2 DEF Compare, InFlight
<1>9. ASSUME NEW c \in Calls, Write(c) PROVE TypeOK'
  <2>1. op[c] \in Operations /\ target[c] \in Jobs
    BY <1>9 DEF Write, InFlight
  <2>2. Copy(c) \in Row
    BY <2>1, ChangedType DEF Copy
  <2>3. Saved(row[target[c]], Copy(c), dirty[c]) \in Row
    BY <2>1, <2>2, SavedType
  <2>4. QED
    BY <1>9, <2>1, <2>3, AbsentRowType DEF Write, End, InFlight
<1>10. ASSUME NEW c \in Calls, Crash(c) PROVE TypeOK'
  BY <1>10, AbsentRowType DEF Crash, End, InFlight
<1>11. CASE UNCHANGED vars
  BY <1>11 DEF vars, InFlight
<1>12. QED
  BY <1>1, <1>2, <1>3, <1>4, <1>5, <1>6, <1>7, <1>8, <1>9, <1>10, <1>11
     DEF Next, Step

\* Each variable of SignerJob keeps its type: the calls, their copies and the
\* rows of the table.
THEOREM TypeCorrect == Spec => []TypeOK
<1>1. Init => TypeOK
  BY AbsentRowType, MaxTimeAssumption DEF Init, TypeOK, InFlight
<1>2. QED
  BY <1>1, TypeStep, PTL DEF Spec

-----------------------------------------------------------------------------
(* The inductive invariant. *)

\* Time does not run backwards, and a finished call stays as it is.
HistoryStays ==
    /\ now <= now'
    /\ \A c \in Calls : pc[c] = "done" =>
           pc'[c] = "done" /\ op'[c] = op[c] /\ target'[c] = target[c] /\ token'[c] = token[c]

\* No step touches a finished call or turns back the clock.
LEMMA StepKeepsHistory == TypeOK /\ [Next]_vars => HistoryStays
<1> SUFFICES ASSUME TypeOK, [Next]_vars PROVE HistoryStays
  OBVIOUS
<1> USE DEF TypeOK, table, calls, HistoryStays
<1>1. CASE Tick
  BY <1>1, MaxTimeAssumption DEF Tick
<1>2. ASSUME NEW j \in Jobs, NEW d \in Deadlines, CreateJob(j, d) PROVE HistoryStays
  BY <1>2, MaxTimeAssumption DEF CreateJob
<1>3. ASSUME NEW c \in Calls, Step(c) PROVE HistoryStays
  BY <1>3, MaxTimeAssumption
     DEF Step, Call, SubmitResult, CompleteJob, Accept, Refuse, Compare, Write, Crash,
         End, InFlight
<1>4. CASE UNCHANGED vars
  BY <1>4, MaxTimeAssumption DEF vars
<1>5. QED
  BY <1>1, <1>2, <1>3, <1>4 DEF Next

\* A row that was good, and stays as it is, stays good.
LEMMA GoodRowStays ==
    ASSUME TypeOK, TypeOK', HistoryStays,
           NEW r \in Row, NEW j \in Jobs, GoodRow(r, j)
    PROVE  GoodRow(r, j)'
<1>1. Earned(r, j)'
  BY DEF GoodRow, Earned, Did, HistoryStays, TypeOK, Row
<1>2. r.status = "EXPIRED" => r.expiresAt <= now'
  BY MaxTimeAssumption DEF GoodRow, HistoryStays, TypeOK, Row
<1>3. QED
  BY <1>1, <1>2 DEF GoodRow

\* The write of a call makes a good row and keeps the deadline: each column
\* comes from the row, which is good, or from the copy, which is a good copy
\* plus the changes of a call that is now finished.
LEMMA WriteIsGood ==
    ASSUME IInv, TypeOK', HistoryStays, NEW c \in Calls, Write(c)
    PROVE  /\ GoodRow(row[target[c]], target[c])'
           /\ row[target[c]].status # "ABSENT"
           /\ row'[target[c]].status # "ABSENT"
           /\ row'[target[c]].expiresAt = row[target[c]].expiresAt
<1> DEFINE j == target[c]
           m == Copy(c)
           s == snap[c]
           q == row'[j]
<1>1. /\ pc[c] = "writing" /\ pc'[c] = "done"
      /\ op[c] \in Operations /\ op'[c] = op[c]
      /\ j \in Jobs /\ target'[c] = target[c] /\ token'[c] = token[c]
      /\ now' = now
      /\ row[j] \in Row /\ s \in Row /\ q \in Row
  BY DEF Write, End, IInv, TypeOK, InFlight
<1>2. m \in Row
  BY <1>1, ChangedType DEF Copy
<1>3. q = Saved(row[j], m, dirty[c])
  BY <1>1 DEF Write, IInv, TypeOK
<1>4. /\ q.status \in {row[j].status, m.status}
      /\ q.claim \in {row[j].claim, m.claim}
      /\ q.result \in {row[j].result, m.result}
      /\ q.errorMessage \in {row[j].errorMessage, m.errorMessage}
      /\ q.retryCount \in {row[j].retryCount, m.retryCount}
      /\ q.expiresAt \in {row[j].expiresAt, m.expiresAt}
  BY <1>1, <1>2, <1>3, SavedType
<1>5. PICK t \in 0..now : Allowed(op[c], s, t, token[c])
  BY <1>1 DEF IInv, GuardHeld
<1>6. /\ GoodRow(row[j], j) /\ GoodRow(s, j)
      /\ s.status # "ABSENT"
      /\ row[j].status # "ABSENT" /\ row[j].expiresAt = s.expiresAt
  BY <1>1, <1>5 DEF IInv, HasCopy, GoodCopy, Allowed
<1>7. /\ m.claim = IF op[c] = "claim" THEN c ELSE s.claim
      /\ m.result = IF op[c] = "complete" THEN c ELSE s.result
      /\ m.errorMessage = IF op[c] = "fail" THEN c ELSE s.errorMessage
      /\ m.retryCount = IF op[c] = "retry" THEN s.retryCount + 1 ELSE s.retryCount
      /\ m.expiresAt = s.expiresAt
      /\ op[c] = "claim" => m.status = "CLAIMED"
      /\ op[c] = "complete" => m.status = "COMPLETED"
      /\ op[c] = "cancel" => m.status = "CANCELLED"
      /\ op[c] = "expire" => m.status = "EXPIRED"
      /\ op[c] = "retry" => m.status = s.status
      /\ op[c] = "fail" => m.status = "FAILED"
  BY <1>1, ChangedColumnwise DEF Copy
<1>8. /\ op[c] = "complete" =>
             s.status = "CLAIMED" /\ token[c] # Null /\ s.claim = token[c]
      /\ op[c] = "fail" => s.status = "CLAIMED"
      /\ op[c] = "expire" => s.expiresAt <= t /\ t <= now
      /\ op[c] = "retry" => s.retryCount < MaxRetry
  BY <1>1, <1>5, MaxTimeAssumption
     DEF Allowed, CompleteAllowed, FailAllowed, ExpireAllowed, RetryAllowed, Row, IInv, TypeOK
<1>9. Earned(row[j], j) /\ Earned(s, j)
  BY <1>6 DEF GoodRow
<1>10. Earned(row[j], j)'
  <2> DEFINE Finished(d, o) == pc'[d] = "done" /\ op'[d] = o /\ target'[d] = j
  <2> HIDE DEF q, m, s
  <2>1. /\ Finished(c, op[c])
        /\ \A d \in Calls, o \in Operations : Did(d, o, j) => Finished(d, o)
        /\ \A d \in Calls : pc[d] = "done" => token'[d] = token[d]
        /\ token'[c] = token[c]
    BY <1>1 DEF HistoryStays, Did
  <2>2. m.claim # Null => Finished(m.claim, "claim")
    BY <1>1, <1>7, <1>9, <2>1 DEF Earned, Row, Operations
  <2>3. m.result # Null => /\ Finished(m.result, "complete")
                           /\ token'[m.result] # Null
                           /\ Finished(token'[m.result], "claim")
    <3>1. CASE op[c] = "complete"
      BY <3>1, <1>1, <1>7, <1>8, <1>9, <2>1 DEF Earned, Row, Operations
    <3>2. CASE op[c] # "complete"
      BY <3>2, <1>1, <1>7, <1>9, <2>1 DEF Earned, Did, Row, Operations, IInv, TypeOK
    <3>3. QED
      BY <3>1, <3>2
  <2>4. m.errorMessage # Null => Finished(m.errorMessage, "fail")
    BY <1>1, <1>7, <1>9, <2>1 DEF Earned, Row, Operations
  <2>5. /\ m.status \in {"CLAIMED", "COMPLETED", "FAILED"} => \E d \in Calls : Finished(d, "claim")
        /\ m.status = "COMPLETED" => \E d \in Calls : Finished(d, "complete")
        /\ m.status = "FAILED" => \E d \in Calls : Finished(d, "fail")
        /\ m.status = "CANCELLED" => \E d \in Calls : Finished(d, "cancel")
        /\ m.status = "EXPIRED" => \E d \in Calls : Finished(d, "expire")
    BY <1>1, <1>7, <1>8, <1>9, <2>1 DEF Earned, Operations
  <2>6. /\ row[j].claim # Null => Finished(row[j].claim, "claim")
        /\ row[j].result # Null => /\ Finished(row[j].result, "complete")
                                   /\ token'[row[j].result] # Null
                                   /\ Finished(token'[row[j].result], "claim")
        /\ row[j].errorMessage # Null => Finished(row[j].errorMessage, "fail")
        /\ row[j].status \in {"CLAIMED", "COMPLETED", "FAILED"} =>
               \E d \in Calls : Finished(d, "claim")
        /\ row[j].status = "COMPLETED" => \E d \in Calls : Finished(d, "complete")
        /\ row[j].status = "FAILED" => \E d \in Calls : Finished(d, "fail")
        /\ row[j].status = "CANCELLED" => \E d \in Calls : Finished(d, "cancel")
        /\ row[j].status = "EXPIRED" => \E d \in Calls : Finished(d, "expire")
    <3>1. {row[j].claim, row[j].result, row[j].errorMessage} \subseteq Calls \cup {Null}
      BY <1>1 DEF IInv, TypeOK, Row
    <3>2. row[j].result # Null => token[row[j].result] \in Calls \cup {Null}
      BY <1>1, <3>1 DEF IInv, TypeOK
    <3>3. QED
      BY <1>9, <2>1, <3>1, <3>2 DEF Earned, Did, Operations
  <2>7. /\ q.claim # Null => Finished(q.claim, "claim")
        /\ q.result # Null => /\ Finished(q.result, "complete")
                              /\ token'[q.result] # Null
                              /\ Finished(token'[q.result], "claim")
        /\ q.errorMessage # Null => Finished(q.errorMessage, "fail")
        /\ q.status \in {"CLAIMED", "COMPLETED", "FAILED"} =>
               \E d \in Calls : Finished(d, "claim")
        /\ q.status = "COMPLETED" => \E d \in Calls : Finished(d, "complete")
        /\ q.status = "FAILED" => \E d \in Calls : Finished(d, "fail")
        /\ q.status = "CANCELLED" => \E d \in Calls : Finished(d, "cancel")
        /\ q.status = "EXPIRED" => \E d \in Calls : Finished(d, "expire")
    <3> HIDE DEF Finished
    <3>1. QED
      BY <1>4, <2>2, <2>3, <2>4, <2>5, <2>6
  <2>8. target'[c] = j /\ row'[j] = q
    BY <1>1 DEF q
  <2>9. QED
    BY <2>7, <2>8 DEF Earned, Did
<1>11. q.retryCount <= MaxRetry
  BY <1>1, <1>4, <1>6, <1>7, <1>8, MaxRetryAssumption DEF GoodRow, Row
<1>12. q.status = "EXPIRED" => q.expiresAt <= now
  BY <1>1, <1>4, <1>6, <1>7, <1>8, MaxTimeAssumption DEF GoodRow, Row, Operations, IInv, TypeOK
<1>13. q.status # "ABSENT" /\ q.expiresAt = row[j].expiresAt
  BY <1>1, <1>4, <1>6, <1>7 DEF Operations
<1>14. QED
  BY <1>1, <1>6, <1>10, <1>11, <1>12, <1>13 DEF GoodRow

\* The empty table and its idle calls satisfy the invariant.
LEMMA InvInit == Init => IInv
<1> SUFFICES ASSUME Init PROVE IInv
  OBVIOUS
<1>1. TypeOK
  BY AbsentRowType, MaxTimeAssumption DEF Init, TypeOK, InFlight
<1>2. \A j \in Jobs : row[j] = AbsentRow
  BY DEF Init
<1>3. \A j \in Jobs : GoodRow(AbsentRow, j)
  BY MaxRetryAssumption DEF GoodRow, Earned, AbsentRow, NewRow
<1>4. QED
  BY <1>1, <1>2, <1>3 DEF IInv, Init, HasCopy, GuardHeld

\* Rows appear and are written, but never vanish, and a deadline never moves.
DeadlinesStay ==
    \A j \in Jobs : row[j].status # "ABSENT" =>
        row'[j].status # "ABSENT" /\ row'[j].expiresAt = row[j].expiresAt

\* A call that another step leaves alone keeps its good copy.
LEMMA OtherCopiesStayGood ==
    ASSUME IInv, TypeOK', HistoryStays, DeadlinesStay,
           NEW c \in Calls, HasCopy(c), snap'[c] = snap[c], target'[c] = target[c]
    PROVE  GoodCopy(c)'
<1>1. target[c] \in Jobs /\ snap[c] \in Row /\ GoodCopy(c) /\ TypeOK
  BY DEF IInv, TypeOK, HasCopy, InFlight
<1>2. PICK r \in Row : r = snap[c]
  BY <1>1
<1>3. PICK j \in Jobs : j = target[c]
  BY <1>1
<1>4. GoodRow(r, j)'
  BY <1>1, <1>2, <1>3, GoodRowStays DEF GoodCopy
<1>5. GoodRow(snap[c], target[c])'
  BY <1>2, <1>3, <1>4
<1>6. snap'[c].status # "ABSENT" =>
        row'[target'[c]].status # "ABSENT" /\ row'[target'[c]].expiresAt = snap'[c].expiresAt
  BY <1>1 DEF GoodCopy, DeadlinesStay
<1>7. QED
  BY <1>5, <1>6 DEF GoodCopy

\* A row that no step writes stays good.
LEMMA UnwrittenRowsStayGood ==
    ASSUME IInv, TypeOK', HistoryStays, NEW j \in Jobs, row'[j] = row[j]
    PROVE  GoodRow(row[j], j)'
<1>1. row[j] \in Row /\ GoodRow(row[j], j) /\ TypeOK
  BY DEF IInv, TypeOK
<1>2. PICK r \in Row : r = row[j]
  BY <1>1
<1>3. GoodRow(r, j)'
  BY <1>1, <1>2, GoodRowStays
<1>4. QED
  BY <1>2, <1>3

\* A fresh read is a good copy.
LEMMA ReadIsGood ==
    ASSUME IInv, TypeOK', HistoryStays, NEW c \in Calls, NEW j \in Jobs,
           row' = row, snap'[c] = row[j], target'[c] = j
    PROVE  GoodCopy(c)'
<1>1. GoodRow(row[j], j)'
  BY UnwrittenRowsStayGood
<1>2. GoodRow(snap[c], target[c])'
  BY <1>1
<1>3. QED
  BY <1>2 DEF GoodCopy

\* A guard that held at some earlier time still did.
LEMMA GuardsStayHeld ==
    ASSUME IInv, TypeOK', HistoryStays, NEW c \in Calls,
           pc[c] \in {"saving", "writing"},
           op'[c] = op[c], snap'[c] = snap[c], token'[c] = token[c]
    PROVE  GuardHeld(c)'
<1>1. PICK t \in 0..now : Allowed(op[c], snap[c], t, token[c])
  BY DEF IInv, GuardHeld
<1>2. t \in 0..now'
  BY MaxTimeAssumption DEF IInv, TypeOK, HistoryStays
<1>3. Allowed(op'[c], snap'[c], t, token'[c])
  BY <1>1
<1>4. QED
  BY <1>2, <1>3 DEF GuardHeld

\* Every step of a call preserves the invariant.
LEMMA StepInv ==
    ASSUME IInv, TypeOK', HistoryStays, NEW c \in Calls, Step(c)
    PROVE  IInv'
<1> USE DEF table, calls
<1>0. TypeOK
  BY DEF IInv
<1>1. DeadlinesStay
  <2>1. CASE Write(c)
    <3>1. \A j \in Jobs : j # target[c] => row'[j] = row[j]
      BY <2>1, <1>0 DEF Write, TypeOK
    <3>2. QED
      BY <2>1, <3>1, WriteIsGood DEF DeadlinesStay
  <2>2. CASE ~Write(c)
    BY <2>2 DEF Step, Call, SubmitResult, CompleteJob, Accept, Refuse, Compare, Crash,
                DeadlinesStay
  <2>3. QED
    BY <2>1, <2>2
<1>2. \A j \in Jobs : GoodRow(row[j], j)'
  <2> SUFFICES ASSUME NEW j \in Jobs PROVE GoodRow(row[j], j)'
    OBVIOUS
  <2>1. CASE row'[j] = row[j]
    BY <2>1, UnwrittenRowsStayGood
  <2>2. CASE row'[j] # row[j]
    <3>1. Write(c) /\ target[c] = j /\ target'[c] = j
      BY <2>2, <1>0 DEF Step, Call, SubmitResult, CompleteJob, Accept, Refuse, Compare,
                        Write, Crash, End, TypeOK
    <3>2. GoodRow(row[target[c]], target[c])'
      BY <3>1, WriteIsGood
    <3>3. QED
      BY <3>1, <3>2
  <2>3. QED
    BY <2>1, <2>2
<1>3. \A d \in Calls : d # c =>
         pc'[d] = pc[d] /\ op'[d] = op[d] /\ target'[d] = target[d]
         /\ token'[d] = token[d] /\ snap'[d] = snap[d]
  BY <1>0 DEF Step, Call, SubmitResult, CompleteJob, Accept, Refuse, Compare, Write, Crash,
              End, TypeOK
<1>4. \A d \in Calls : HasCopy(d)' => GoodCopy(d)'
  <2> SUFFICES ASSUME NEW d \in Calls, HasCopy(d)' PROVE GoodCopy(d)'
    OBVIOUS
  <2>1. CASE HasCopy(d) /\ snap'[d] = snap[d] /\ target'[d] = target[d]
    BY <2>1, <1>1, OtherCopiesStayGood
  <2>2. CASE ~(HasCopy(d) /\ snap'[d] = snap[d] /\ target'[d] = target[d])
    <3>1. d = c /\ row' = row /\ target'[c] \in Jobs /\ snap'[c] = row[target'[c]]
      BY <2>2, <1>0, <1>3
         DEF Step, Call, SubmitResult, CompleteJob, Accept, Refuse, Compare, Write, Crash,
             End, HasCopy, InFlight, TypeOK
    <3>2. PICK j \in Jobs : j = target'[c]
      BY <3>1
    <3>3. QED
      BY <3>1, <3>2, ReadIsGood
  <2>3. QED
    BY <2>1, <2>2
<1>5. \A d \in Calls : GuardHeld(d)'
  <2> SUFFICES ASSUME NEW d \in Calls, pc'[d] \in {"saving", "writing"}
               PROVE  GuardHeld(d)'
    BY DEF GuardHeld
  <2>1. CASE Accept(d)
    <3>1. /\ Allowed(op'[d], snap'[d], now', token'[d])
          /\ now' \in 0..now'
      BY <2>1, <1>0, MaxTimeAssumption DEF Accept, TypeOK
    <3>2. QED
      BY <3>1 DEF GuardHeld
  <2>2. CASE ~Accept(d)
    <3>1. /\ pc[d] \in {"saving", "writing"}
          /\ op'[d] = op[d] /\ snap'[d] = snap[d] /\ token'[d] = token[d]
      BY <2>2, <1>0, <1>3
         DEF Step, Call, SubmitResult, CompleteJob, Accept, Refuse, Compare, Write, Crash,
             End, TypeOK
    <3>2. QED
      BY <3>1, GuardsStayHeld
  <2>3. QED
    BY <2>1, <2>2
<1>6. QED
  BY <1>2, <1>4, <1>5 DEF IInv

\* A step of the clock, an insertion and a stutter leave every call alone.
LEMMA TableStepInv ==
    ASSUME IInv, TypeOK', HistoryStays, DeadlinesStay, UNCHANGED calls,
           \A j \in Jobs : GoodRow(row[j], j)'
    PROVE  IInv'
<1> USE DEF calls
<1>1. \A c \in Calls : HasCopy(c)' => GoodCopy(c)'
  BY OtherCopiesStayGood DEF HasCopy
<1>2. \A c \in Calls : GuardHeld(c)'
  <2> SUFFICES ASSUME NEW c \in Calls, pc[c] \in {"saving", "writing"}
               PROVE  GuardHeld(c)'
    BY DEF GuardHeld
  <2>1. QED
    BY GuardsStayHeld
<1>3. QED
  BY <1>1, <1>2 DEF IInv

\* The invariant is inductive.
LEMMA InvNext == IInv /\ [Next]_vars => IInv'
<1> SUFFICES ASSUME IInv, [Next]_vars PROVE IInv'
  OBVIOUS
<1>1. TypeOK' /\ HistoryStays
  BY TypeStep, StepKeepsHistory DEF IInv
<1>2. CASE Tick
  <2>1. UNCHANGED <<row, calls>>
    BY <1>2 DEF Tick
  <2>2. \A j \in Jobs : GoodRow(row[j], j)'
    BY <1>1, <2>1, UnwrittenRowsStayGood
  <2>3. QED
    BY <1>1, <2>1, <2>2, TableStepInv DEF DeadlinesStay
<1>3. ASSUME NEW j \in Jobs, NEW d \in Deadlines, CreateJob(j, d) PROVE IInv'
  <2>1. /\ row[j].status = "ABSENT" /\ UNCHANGED calls /\ UNCHANGED now
        /\ row'[j] = NewRow(now, d)
        /\ \A i \in Jobs : i # j => row'[i] = row[i]
    BY <1>3 DEF CreateJob, IInv, TypeOK
  <2>2. DeadlinesStay
    BY <2>1 DEF DeadlinesStay
  <2>3. GoodRow(row[j], j)'
    BY <2>1, MaxRetryAssumption DEF GoodRow, Earned, NewRow
  <2>4. \A i \in Jobs : GoodRow(row[i], i)'
    BY <1>1, <2>1, <2>3, UnwrittenRowsStayGood
  <2>5. QED
    BY <1>1, <2>1, <2>2, <2>4, TableStepInv
<1>4. ASSUME NEW c \in Calls, Step(c) PROVE IInv'
  BY <1>1, <1>4, StepInv
<1>5. CASE UNCHANGED vars
  <2>1. row' = row /\ UNCHANGED calls
    BY <1>5 DEF vars, calls
  <2>2. \A j \in Jobs : GoodRow(row[j], j)'
    BY <1>1, <2>1, UnwrittenRowsStayGood
  <2>3. QED
    BY <1>1, <2>1, <2>2, TableStepInv DEF DeadlinesStay
<1>6. QED
  BY <1>2, <1>3, <1>4, <1>5 DEF Next

\* Every reachable state satisfies the invariant.
LEMMA Invariance == Spec => []IInv
BY InvInit, InvNext, PTL DEF Spec

-----------------------------------------------------------------------------
(* What it implies. *)

\* The retry counter of a job never passes MAX_RETRY_COUNT, however many
\* increments overlap.
THEOREM RetryStaysBounded == Spec => []RetryBounded
<1>1. IInv => RetryBounded
  BY DEF IInv, GoodRow, RetryBounded
<1>2. QED
  BY <1>1, Invariance, PTL

\* Each claim, result, error and status in the table was put there by a
\* finished call of the right method, and each result under a token that a
\* claim of the same job issued.
THEOREM StatesStayEarned == Spec => []EveryStateIsEarned
<1>1. IInv => EveryStateIsEarned
  BY DEF IInv, GoodRow, EveryStateIsEarned
<1>2. QED
  BY <1>1, Invariance, PTL

\* No interleaving marks a job EXPIRED before its deadline.
THEOREM ExpiryIsNeverEarly == Spec => []NeverExpiredEarly
<1>1. IInv => NeverExpiredEarly
  BY DEF IInv, GoodRow, NeverExpiredEarly
<1>2. QED
  BY <1>1, Invariance, PTL

\* A guard that held makes one of the transitions of the state machine.
LEMMA GuardedChange ==
    ASSUME NEW r \in Row, NEW o \in Operations, NEW c \in Calls, NEW t \in Nat, NEW tok,
           Allowed(o, r, t, tok)
    PROVE  LET m == Changed(o, r, c) IN
           /\ m.status = r.status \/ <<r.status, m.status>> \in Edges
           /\ r.status \in Terminal =>
                  /\ m.status = r.status /\ m.result = r.result
                  /\ m.errorMessage = r.errorMessage /\ m.completedAt = r.completedAt
           /\ o = "complete" => r.claim = tok /\ m.claim = tok
<1>1. \/ o = "claim" /\ r.status = "PENDING"
      \/ o = "complete" /\ r.status = "CLAIMED"
      \/ o = "cancel" /\ r.status \in {"PENDING", "CLAIMED"}
      \/ o = "expire" /\ r.status \in {"PENDING", "CLAIMED"}
      \/ o = "retry"
      \/ o = "fail" /\ r.status = "CLAIMED"
  BY DEF Allowed, ClaimAllowed, CompleteAllowed, CancelAllowed, ExpireAllowed, FailAllowed,
         Row, Status
<1>2. o = "complete" => r.claim = tok
  BY DEF Allowed, CompleteAllowed
<1>3. QED
  BY <1>1, <1>2, ChangedColumnwise DEF Edges, Terminal

\* A write to the row its call read follows the state machine, leaves the
\* outcome of a terminal job alone, and completes no claim but the row's: only
\* stale copies can do otherwise.
THEOREM UnracedWritesAreSafe == Spec => UnracedWritesFollowLifecycle
<1>1. IInv /\ [Next]_vars => [\A c \in Calls : UnracedWriteFollowsLifecycle(c)]_vars
  <2> SUFFICES ASSUME IInv, NEW c \in Calls, Write(c), snap[c] = row[target[c]]
               PROVE  UnracedWriteFollowsLifecycle(c)
    BY DEF UnracedWriteFollowsLifecycle
  <2>1. /\ target[c] \in Jobs /\ op[c] \in Operations
        /\ row[target[c]] \in Row /\ snap[c] \in Row
        /\ row'[target[c]] = Saved(row[target[c]], Copy(c), dirty[c])
        /\ Copy(c) = Changed(op[c], row[target[c]], c)
    BY DEF Write, End, IInv, TypeOK, InFlight, Copy
  <2>2. PICK t \in 0..now : Allowed(op[c], row[target[c]], t, token[c])
    BY DEF IInv, GuardHeld, Write
  <2>3. t \in Nat
    BY MaxTimeAssumption DEF IInv, TypeOK
  <2>4. PICK r \in Row : r = row[target[c]]
    BY <2>1
  <2>5. PICK m \in Row : m = Changed(op[c], r, c)
    BY <2>1, <2>4, ChangedType
  <2>6. /\ m.status = r.status \/ <<r.status, m.status>> \in Edges
        /\ r.status \in Terminal =>
               /\ m.status = r.status /\ m.result = r.result
               /\ m.errorMessage = r.errorMessage /\ m.completedAt = r.completedAt
        /\ op[c] = "complete" => r.claim = token[c] /\ m.claim = token[c]
    BY <2>1, <2>2, <2>3, <2>4, <2>5, GuardedChange
  <2>7. row'[target[c]] = Saved(r, m, dirty[c])
    BY <2>1, <2>4, <2>5
  <2>8. \A k \in {"status", "result", "errorMessage", "completedAt", "claim"} :
            row'[target[c]][k] \in {r[k], m[k]}
    BY <2>4, <2>5, <2>7 DEF Saved, Row
  <2>9. QED
    BY <2>4, <2>6, <2>8 DEF UnracedWriteFollowsLifecycle
<1>2. QED
  BY <1>1, Invariance, PTL DEF Spec, UnracedWritesFollowLifecycle

=============================================================================
