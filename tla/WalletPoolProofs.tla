---------------------------- MODULE WalletPoolProofs ----------------------------
(***************************************************************************)
(* What the pool keeps however its calls overlap, fail and crash, for any  *)
(* wallets, customers and calls and any reservation TTL.                   *)
(***************************************************************************)
EXTENDS WalletPool, TLAPS

-----------------------------------------------------------------------------
(* The statements. *)

\* A row not yet inserted, and one just inserted, are clean rows.
LEMMA NewRowClean ==
    ASSUME NEW t \in Nat
    PROVE  /\ NewRow(t) \in Row /\ CleanRow(NewRow(t))
           /\ NewRow(t).customer = Null /\ NewRow(t).status = "AVAILABLE"
           /\ AbsentRow \in Row /\ CleanRow(AbsentRow)
           /\ AbsentRow.customer = Null /\ AbsentRow.status = "ABSENT"
BY NullAssumption
   DEF NewRow, AbsentRow, Row, CleanRow, Underneath, Pooled, OnHold, Status, Lockable, Terminal

\* A reservation takes a clean row of the pool and leaves it ownerless.
LEMMA ReservedClean ==
    ASSUME NEW r \in Row, CleanRow(r), r.status = "AVAILABLE", NEW c \in Calls, NEW t \in Nat
    PROVE  LET q == Reserved(r, c, t) IN
           /\ q \in Row /\ CleanRow(q) /\ q.customer = r.customer
BY NullAssumption
   DEF Reserved, Row, CleanRow, Underneath, Pooled, OnHold, Status, Lockable, Terminal

\* An assignment finds a row without an owner.
LEMMA AssignedClean ==
    ASSUME NEW r \in Row, CleanRow(r), NEW c \in Calls, AssignAllowed(r, c),
           NEW k \in Customers
    PROVE  LET q == Assigned(r, k) IN
           /\ q \in Row /\ CleanRow(q) /\ q.customer = k
           /\ r.customer = Null /\ r.status \notin Terminal
BY DEF Assigned, AssignAllowed, Row, CleanRow, Underneath, Pooled, OnHold, Status, Lockable,
       Terminal

\* A release returns a clean row to the pool.
LEMMA ReleasedClean ==
    ASSUME NEW r \in Row, CleanRow(r), r.status = "RESERVED"
    PROVE  LET q == Released(r) IN
           /\ q \in Row /\ CleanRow(q) /\ q.customer = r.customer
BY DEF Released, Row, CleanRow, Underneath, Pooled, OnHold, Status, Lockable, Terminal

\* An operator's statement keeps the owner, and does not move a terminal row.
LEMMA UpdatedClean ==
    ASSUME NEW r \in Row, CleanRow(r), NEW o \in OperatorOps, UpdateAllowed(o, r)
    PROVE  LET q == Updated(o, r) IN
           /\ q \in Row /\ CleanRow(q) /\ q.customer = r.customer
           /\ r.status \notin Terminal
<1>1. r.status \notin Terminal /\ r.status # "ABSENT"
  BY DEF UpdateAllowed, Terminal, OperatorOps
<1>2. CASE o = "lock"
  BY <1>1, <1>2 DEF Updated, Row, CleanRow, Underneath, Pooled, OnHold, Status, Lockable, Terminal
<1>3. CASE o = "unlock"
  <2>1. r.status = "LOCKED" /\ r.previous # Null
    BY <1>3 DEF UpdateAllowed
  <2>2. Updated(o, r) = [r EXCEPT !.status = r.previous, !.previous = Null]
    BY <1>3 DEF Updated
  <2>3. QED
    BY <1>1, <2>1, <2>2, NullAssumption
       DEF Row, CleanRow, Underneath, Pooled, OnHold, Status, Lockable, Terminal
<1>4. CASE o = "compromise"
  BY <1>1, <1>4 DEF Updated, Row, CleanRow, Underneath, Pooled, OnHold, Status, Lockable, Terminal
<1>5. CASE o = "archive"
  BY <1>1, <1>5 DEF Updated, Row, CleanRow, Underneath, Pooled, OnHold, Status, Lockable, Terminal
<1>6. QED
  BY <1>2, <1>3, <1>4, <1>5 DEF OperatorOps

-----------------------------------------------------------------------------
(* Steps. *)

\* What a step may do to a row: keep its owner, or give an ownerless row to
\* the customer of the call that assigns it; and never leave a terminal status.
RowEffect(w) ==
    /\ row'[w] \in Row
    /\ CleanRow(row'[w])
    /\ \/ row'[w].customer = row[w].customer
       \/ /\ row[w].customer = Null
          /\ \E c \in Calls : Assign(c) /\ wallet[c] = w /\ row'[w].customer = who[c]
    /\ row[w].status \in Terminal => row'[w].status = row[w].status

\* A step of a call has that effect on every row.
LEMMA StepEffect ==
    ASSUME PoolInv, NEW c \in Calls, Step(c)
    PROVE  row' \in [Wallets -> Row] /\ \A w \in Wallets : RowEffect(w)
<1>1. row \in [Wallets -> Row] /\ now \in Nat /\ \A w \in Wallets : CleanRow(row[w])
  BY BoundsAssumption DEF PoolInv, TypeOK
<1>2. CASE row' = row
  BY <1>1, <1>2 DEF RowEffect
<1>3. CASE Reserve(c)
  <2>1. PICK v \in Wallets : /\ row[v].status = "AVAILABLE"
                             /\ row' = [row EXCEPT ![v] = Reserved(row[v], c, now)]
    BY <1>3 DEF Reserve, Candidates
  <2>2. /\ Reserved(row[v], c, now) \in Row /\ CleanRow(Reserved(row[v], c, now))
        /\ Reserved(row[v], c, now).customer = row[v].customer
    BY <1>1, <2>1, ReservedClean
  <2>3. QED
    BY <1>1, <2>1, <2>2 DEF RowEffect, Terminal
<1>4. CASE Assign(c)
  <2>1. /\ wallet[c] \in Wallets /\ who[c] \in Customers
        /\ AssignAllowed(row[wallet[c]], c)
        /\ row' = [row EXCEPT ![wallet[c]] = Assigned(row[wallet[c]], who[c])]
    BY <1>4 DEF Assign, PoolInv, TypeOK, Undefined
  <2>2. LET q == Assigned(row[wallet[c]], who[c]) IN
        /\ q \in Row /\ CleanRow(q) /\ q.customer = who[c]
        /\ row[wallet[c]].customer = Null /\ row[wallet[c]].status \notin Terminal
    BY <1>1, <2>1, AssignedClean
  <2>3. QED
    BY <1>1, <1>4, <2>1, <2>2 DEF RowEffect
<1>5. CASE Update(c)
  <2>1. /\ wallet[c] \in Wallets /\ op[c] \in OperatorOps
        /\ UpdateAllowed(op[c], row[wallet[c]])
        /\ row' = [row EXCEPT ![wallet[c]] = Updated(op[c], row[wallet[c]])]
    BY <1>5 DEF Update, PoolInv, TypeOK, Undefined, OperatorOps
  <2>2. LET q == Updated(op[c], row[wallet[c]]) IN
        /\ q \in Row /\ CleanRow(q) /\ q.customer = row[wallet[c]].customer
        /\ row[wallet[c]].status \notin Terminal
    BY <1>1, <2>1, UpdatedClean
  <2>3. QED
    BY <1>1, <2>1, <2>2 DEF RowEffect
<1>6. QED
  BY <1>2, <1>3, <1>4, <1>5
     DEF Step, AssignWallet, Operate, Exhausted, AssignFails, AssignMisses, UpdateMisses, Reread,
         RereadFails, Crash, Fail, Proceed

\* So has every step.
LEMMA NextEffect ==
    ASSUME PoolInv, [Next]_vars
    PROVE  row' \in [Wallets -> Row] /\ \A w \in Wallets : RowEffect(w)
<1>1. row \in [Wallets -> Row] /\ now \in Nat /\ \A w \in Wallets : CleanRow(row[w])
  BY BoundsAssumption DEF PoolInv, TypeOK
<1>2. CASE Tick \/ UNCHANGED vars
  BY <1>1, <1>2 DEF RowEffect, Tick, vars
<1>3. CASE ReleaseExpired
  <2>1. \A w \in Wallets : row'[w] = IF Overdue(row[w], now) THEN Released(row[w]) ELSE row[w]
    BY <1>3 DEF ReleaseExpired
  <2>2. ASSUME NEW w \in Wallets PROVE row'[w] \in Row /\ RowEffect(w)
    <3>1. CASE Overdue(row[w], now)
      <4>1. row[w].status = "RESERVED"
        BY <3>1 DEF Overdue
      <4>2. /\ Released(row[w]) \in Row /\ CleanRow(Released(row[w]))
            /\ Released(row[w]).customer = row[w].customer
        BY <1>1, <4>1, ReleasedClean
      <4>3. row'[w] = Released(row[w])
        BY <2>1, <3>1
      <4>4. QED
        BY <4>1, <4>2, <4>3 DEF RowEffect, Terminal
    <3>2. CASE ~Overdue(row[w], now)
      BY <1>1, <2>1, <3>2 DEF RowEffect
    <3>3. QED
      BY <3>1, <3>2
  <2>3. row' \in [Wallets -> Row]
    BY <1>3, <2>2 DEF ReleaseExpired
  <2>4. QED
    BY <2>2, <2>3
<1>4. ASSUME NEW v \in Wallets, CreateFromSignerResult(v)
      PROVE  row' \in [Wallets -> Row] /\ \A w \in Wallets : RowEffect(w)
  <2>1. row' = [row EXCEPT ![v] = NewRow(now)] /\ row[v].status = "ABSENT"
    BY <1>4 DEF CreateFromSignerResult
  <2>2. row[v].customer = Null
    BY <1>1, <2>1 DEF CleanRow, Pooled
  <2>3. NewRow(now) \in Row /\ CleanRow(NewRow(now)) /\ NewRow(now).customer = Null
    BY <1>1, NewRowClean
  <2>4. QED
    BY <1>1, <2>1, <2>2, <2>3 DEF RowEffect, Terminal
<1>5. ASSUME NEW c \in Calls, Step(c)
      PROVE  row' \in [Wallets -> Row] /\ \A w \in Wallets : RowEffect(w)
  BY <1>5, StepEffect
<1>6. QED
  BY <1>2, <1>3, <1>4, <1>5 DEF Next

\* The shape of a result is the driver's, not a step's.
LEMMA DriverStays ==
    ASSUME [Next]_vars
    PROVE  driver' = driver
BY DEF Next, vars, Tick, ReleaseExpired, CreateFromSignerResult, Step, AssignWallet, Operate,
       Reserve, Exhausted, Assign, AssignFails, AssignMisses, Update, UpdateMisses, Reread,
       RereadFails, Crash, Proceed, Fail

\* What TypeOK says of one call.
CallOK(c) ==
    /\ pc[c] = "idle" => op[c] = "none"
    /\ pc[c] \in {"reserving", "assigning"} => op[c] = "assign" /\ who[c] \in Customers
    /\ pc[c] = "updating" => op[c] \in OperatorOps
    /\ pc[c] = "rereading" => op[c] \in OperatorOps \cup {"assign"}
    /\ pc[c] \in {"assigning", "updating", "rereading"} =>
           (wallet[c] = Null <=> Undefined(c))
    /\ pc[c] \in {"idle", "reserving"} => wallet[c] = Null

\* A step of a call keeps the types.
LEMMA TypeOfStep ==
    ASSUME PoolInv, NEW c \in Calls, Step(c)
    PROVE  TypeOK'
<1>1. row' \in [Wallets -> Row]
  BY StepEffect
<1>2. TypeOK /\ \A d \in Calls : CallOK(d)
  BY DEF PoolInv, TypeOK, CallOK
<1>3. driver' = driver /\ now' = now
  BY DEF Step, AssignWallet, Operate, Reserve, Exhausted, Assign, AssignFails, AssignMisses,
         Update, UpdateMisses, Reread, RereadFails, Crash, Proceed, Fail
<1>4. ASSUME NEW s \in {"idle", "reserving", "assigning", "updating", "rereading", "done",
                        "failed"},
             NEW o \in OperatorOps \cup {"none", "assign"}, NEW k \in Customers \cup {Null},
             NEW w \in Wallets \cup {Null},
             pc' = [pc EXCEPT ![c] = s], op' = [op EXCEPT ![c] = o],
             who' = [who EXCEPT ![c] = k], wallet' = [wallet EXCEPT ![c] = w],
             s # "idle",
             s \in {"reserving", "assigning"} => o = "assign" /\ k \in Customers,
             s = "updating" => o \in OperatorOps,
             s = "rereading" => o \in OperatorOps \cup {"assign"},
             s \in {"assigning", "updating", "rereading"} =>
                 (w = Null <=> driver = "pair" /\ o = "assign"),
             s = "reserving" => w = Null
      PROVE  TypeOK'
  <2>1. ASSUME NEW d \in Calls PROVE CallOK(d)'
    <3>1. CASE d = c
      <4>1. pc'[c] = s /\ op'[c] = o /\ who'[c] = k /\ wallet'[c] = w
        BY <1>2, <1>4 DEF TypeOK
      <4>2. QED
        BY <1>3, <1>4, <3>1, <4>1 DEF CallOK, Undefined
    <3>2. CASE d # c
      <4>1. pc'[d] = pc[d] /\ op'[d] = op[d] /\ who'[d] = who[d] /\ wallet'[d] = wallet[d]
        BY <1>2, <1>4, <3>2 DEF TypeOK
      <4>2. QED
        BY <1>2, <1>3, <4>1 DEF CallOK, Undefined
    <3>3. QED
      BY <3>1, <3>2
  <2>2. QED
    BY <1>1, <1>2, <1>3, <1>4, <2>1 DEF TypeOK, CallOK
<1>5. /\ pc[c] \in {"idle", "reserving", "assigning", "updating", "rereading", "done", "failed"}
      /\ op[c] \in OperatorOps \cup {"none", "assign"} /\ who[c] \in Customers \cup {Null}
      /\ wallet[c] \in Wallets \cup {Null} /\ CallOK(c)
      /\ pc = [pc EXCEPT ![c] = pc[c]] /\ op = [op EXCEPT ![c] = op[c]]
      /\ who = [who EXCEPT ![c] = who[c]] /\ wallet = [wallet EXCEPT ![c] = wallet[c]]
  BY <1>2 DEF TypeOK
<1>6. CASE Fail(c)
  BY <1>4, <1>5, <1>6 DEF Fail
<1>7. ASSUME NEW k \in Customers, AssignWallet(c, k) PROVE TypeOK'
  <2>1. CASE pc' = [pc EXCEPT ![c] = "reserving"]
    BY <1>4, <1>5, <1>7, <2>1 DEF AssignWallet, CallOK
  <2>2. CASE pc' = [pc EXCEPT ![c] = "done"]
    BY <1>4, <1>5, <1>7, <2>2 DEF AssignWallet, CallOK
  <2>3. QED
    BY <1>7, <2>1, <2>2 DEF AssignWallet
<1>8. ASSUME NEW o \in OperatorOps, NEW w \in Wallets, Operate(c, o, w) PROVE TypeOK'
  <2>1. CASE ServiceAllows(o, row[w])
    BY <1>4, <1>5, <1>8, <2>1, NullAssumption
       DEF Operate, OperatorOps, CallOK, Undefined
  <2>2. CASE ~ServiceAllows(o, row[w])
    <3>1. /\ pc' = [pc EXCEPT ![c] = "failed"] /\ op' = [op EXCEPT ![c] = o]
          /\ who' = who /\ wallet' = wallet
      BY <1>8, <2>2 DEF Operate
    <3>2. QED
      BY <1>4, <1>5, <3>1
  <2>3. QED
    BY <2>1, <2>2
<1>9. CASE Reserve(c)
  <2>1. PICK w \in Wallets : wallet' = [wallet EXCEPT ![c] = Read(w)]
    BY <1>9 DEF Reserve, Candidates
  <2>2. Read(w) \in Wallets \cup {Null} /\ (Read(w) = Null <=> driver = "pair")
    BY <1>2, NullAssumption, DriversAssumption DEF Read, TypeOK
  <2>3. /\ pc' = [pc EXCEPT ![c] = "assigning"] /\ op' = op /\ who' = who
        /\ op[c] = "assign" /\ who[c] \in Customers
    BY <1>5, <1>9 DEF Reserve, CallOK
  <2>4. QED
    BY <1>4, <1>5, <2>1, <2>2, <2>3
<1>10. CASE Exhausted(c) /\ ~Fail(c)
  BY <1>4, <1>5, <1>10 DEF Exhausted, Proceed, CallOK
<1>11. CASE Assign(c) \/ AssignMisses(c) \/ Update(c) \/ (UpdateMisses(c) /\ ~Fail(c))
  BY <1>4, <1>5, <1>11
     DEF Assign, AssignMisses, Update, UpdateMisses, Proceed, CallOK, Undefined
<1>12. CASE Reread(c)
  <2>1. PICK w \in Found(c) : wallet' = [wallet EXCEPT ![c] = w]
    BY <1>12 DEF Reread
  <2>2. w \in Wallets
    BY <1>5, <2>1 DEF Found
  <2>3. QED
    BY <1>4, <1>5, <1>12, <2>1, <2>2 DEF Reread
<1>13. QED
  BY <1>6, <1>7, <1>8, <1>9, <1>10, <1>11, <1>12 DEF Step, AssignFails, RereadFails, Crash

\* Every step keeps the types.
LEMMA TypeStep == PoolInv /\ [Next]_vars => TypeOK'
<1> SUFFICES ASSUME PoolInv, [Next]_vars PROVE TypeOK'
  OBVIOUS
<1>1. row' \in [Wallets -> Row] /\ driver' = driver
  BY NextEffect, DriverStays
<1>2. TypeOK
  BY DEF PoolInv
<1>3. CASE Tick \/ UNCHANGED vars
  BY <1>1, <1>2, <1>3, BoundsAssumption DEF TypeOK, Tick, vars, Undefined
<1>4. CASE ReleaseExpired
  BY <1>1, <1>2, <1>4 DEF TypeOK, ReleaseExpired, Undefined
<1>5. ASSUME NEW v \in Wallets, CreateFromSignerResult(v) PROVE TypeOK'
  BY <1>1, <1>2, <1>5 DEF TypeOK, CreateFromSignerResult, Undefined
<1>6. ASSUME NEW c \in Calls, Step(c) PROVE TypeOK'
  BY <1>6, TypeOfStep
<1>7. QED
  BY <1>3, <1>4, <1>5, <1>6 DEF Next

\* No step gives a customer a second wallet: the unique index is checked by
\* the only statement that stores an owner.
LEMMA OwnersStayUnique == PoolInv /\ [Next]_vars => OneWalletPerCustomer'
<1> SUFFICES ASSUME PoolInv, [Next]_vars, NEW v \in Wallets, NEW w \in Wallets,
                    row'[v].customer # Null, row'[v].customer = row'[w].customer
             PROVE  v = w
  BY DEF OneWalletPerCustomer
<1>1. RowEffect(v) /\ RowEffect(w)
  BY NextEffect
<1>2. CASE row'[v].customer = row[v].customer /\ row'[w].customer = row[w].customer
  BY <1>2 DEF PoolInv, OneWalletPerCustomer
<1>3. ASSUME NEW x \in Wallets, NEW y \in Wallets, RowEffect(x), RowEffect(y),
             row'[x].customer # row[x].customer, row'[x].customer = row'[y].customer
      PROVE  x = y
  <2>1. PICK c \in Calls : Assign(c) /\ wallet[c] = x /\ row'[x].customer = who[c]
    BY <1>3 DEF RowEffect
  <2>2. row[y].customer # who[c]
    BY <2>1 DEF Assign, CustomerFree
  <2>3. row'[y].customer # row[y].customer
    BY <1>3, <2>1, <2>2
  <2>4. row' = [row EXCEPT ![x] = Assigned(row[x], who[c])]
    BY <2>1 DEF Assign
  <2>5. QED
    BY <2>3, <2>4 DEF PoolInv, TypeOK
<1>4. QED
  BY <1>1, <1>2, <1>3

Answering == {"rereading", "done"}

\* What one step does to the record of a call that is about to answer, when it
\* has read the id of its wallet.
LEMMA AnsweringStep ==
    ASSUME PoolInv, [Next]_vars, driver = "rows", NEW c \in Calls, pc'[c] \in Answering, op'[c] = "assign"
    PROVE  \/ /\ pc[c] \in Answering /\ op[c] = "assign"
              /\ who'[c] = who[c] /\ wallet'[c] = wallet[c]
           \/ \E k \in Customers : AssignWallet(c, k)
           \/ Assign(c)
<1>1. TypeOK
  BY DEF PoolInv
<1>2. CASE Tick \/ ReleaseExpired \/ UNCHANGED vars
  BY <1>2 DEF Tick, ReleaseExpired, vars
<1>3. ASSUME NEW v \in Wallets, CreateFromSignerResult(v)
      PROVE  /\ pc[c] \in Answering /\ op[c] = "assign"
             /\ who'[c] = who[c] /\ wallet'[c] = wallet[c]
  BY <1>3 DEF CreateFromSignerResult
<1>4. ASSUME NEW d \in Calls, Step(d), d # c
      PROVE  /\ pc[c] \in Answering /\ op[c] = "assign"
             /\ who'[c] = who[c] /\ wallet'[c] = wallet[c]
  BY <1>1, <1>4
     DEF Step, AssignWallet, Operate, Reserve, Exhausted, Assign, AssignFails, AssignMisses, Update,
         UpdateMisses, Reread, RereadFails, Crash, Proceed, Fail, TypeOK
<1>5. CASE Step(c)
  <2>1. CASE Reread(c)
    <3>1. op' = op /\ who' = who /\ pc[c] = "rereading" /\ op[c] = "assign"
      BY <2>1 DEF Reread
    <3>2. Found(c) = {wallet[c]}
      BY <1>1, <3>1 DEF Found, TypeOK, Undefined
    <3>3. wallet'[c] = wallet[c]
      BY <1>1, <2>1, <3>2 DEF Reread, TypeOK
    <3>4. QED
      BY <3>1, <3>3 DEF Answering
  <2>2. CASE Reserve(c) \/ Exhausted(c) \/ AssignFails(c) \/ RereadFails(c) \/ Crash(c)
    BY <1>1, <2>2
       DEF Reserve, Exhausted, AssignFails, RereadFails, Crash, Fail, TypeOK, Answering
  <2>6. ~AssignMisses(c)
    BY DEF AssignMisses
  <2>3. CASE Update(c) \/ UpdateMisses(c)
    <3>1. op[c] \in OperatorOps /\ op' = op
      BY <1>1, <2>3 DEF Update, UpdateMisses, Proceed, Fail, TypeOK
    <3>2. QED
      BY <3>1 DEF OperatorOps
  <2>4. CASE \E o \in OperatorOps, w \in Wallets : Operate(c, o, w)
    BY <1>1, <2>4 DEF Operate, OperatorOps, TypeOK
  <2>5. QED
    BY <1>5, <2>1, <2>2, <2>3, <2>4, <2>6 DEF Step
<1>6. QED
  BY <1>2, <1>3, <1>4, <1>5 DEF Next

\* An answer stays true, and a new answer is true.
LEMMA AnswersStayTrue == PoolInv /\ [Next]_vars => \A c \in Calls : AnswerIsTrue(c)'
<1> SUFFICES ASSUME PoolInv, [Next]_vars, driver = "rows", NEW c \in Calls, pc'[c] \in Answering,
                    op'[c] = "assign"
             PROVE  /\ who'[c] \in Customers /\ wallet'[c] \in Wallets
                    /\ row'[wallet'[c]].customer = who'[c]
  BY DriverStays DEF AnswerIsTrue, Answering
<1>1. TypeOK
  BY DEF PoolInv
<1>2. CASE /\ pc[c] \in Answering /\ op[c] = "assign"
           /\ who'[c] = who[c] /\ wallet'[c] = wallet[c]
  <2>1. /\ who[c] \in Customers /\ wallet[c] \in Wallets
        /\ row[wallet[c]].customer = who[c] /\ who[c] # Null
    BY <1>2, NullAssumption DEF PoolInv, AnswerIsTrue, Answering
  <2>2. RowEffect(wallet[c])
    BY <2>1, NextEffect
  <2>3. QED
    BY <1>2, <2>1, <2>2 DEF RowEffect
<1>3. ASSUME NEW k \in Customers, AssignWallet(c, k)
      PROVE  /\ who'[c] \in Customers /\ wallet'[c] \in Wallets
             /\ row'[wallet'[c]].customer = who'[c]
  BY <1>1, <1>3 DEF AssignWallet, TypeOK, Answering
<1>4. ASSUME Assign(c)
      PROVE  /\ who'[c] \in Customers /\ wallet'[c] \in Wallets
             /\ row'[wallet'[c]].customer = who'[c]
  <2>1. /\ who'[c] = who[c] /\ who[c] \in Customers
        /\ wallet'[c] = wallet[c] /\ wallet[c] \in Wallets
        /\ AssignAllowed(row[wallet[c]], c)
        /\ row' = [row EXCEPT ![wallet[c]] = Assigned(row[wallet[c]], who[c])]
    BY <1>1, <1>4 DEF Assign, Proceed, TypeOK, Undefined
  <2>2. row[wallet[c]] \in Row /\ CleanRow(row[wallet[c]])
    BY <1>1, <2>1 DEF PoolInv, TypeOK
  <2>3. Assigned(row[wallet[c]], who[c]).customer = who[c]
    BY <2>1, <2>2, AssignedClean
  <2>4. QED
    BY <1>1, <2>1, <2>3 DEF TypeOK
<1>5. QED
  BY <1>2, <1>3, <1>4, AnsweringStep

\* Under the pair, an assignment finds no date to answer with, so it ends in an
\* error whatever wallet it rereads.
LEMMA PairStaysBarren == PoolInv /\ [Next]_vars => PairAssignsNothing'
<1> SUFFICES ASSUME PoolInv, [Next]_vars, driver = "pair"
             PROVE  /\ \A w \in Wallets : row'[w].customer = Null
                    /\ \A c \in Calls : ~(pc'[c] = "done" /\ op'[c] = "assign")
  BY DriverStays DEF PairAssignsNothing
<1>1. /\ TypeOK /\ \A w \in Wallets : row[w].customer = Null
      /\ \A c \in Calls : ~(pc[c] = "done" /\ op[c] = "assign")
  BY DEF PoolInv, PairAssignsNothing
<1>2. ASSUME NEW w \in Wallets PROVE row'[w].customer = Null
  <2>1. RowEffect(w)
    BY NextEffect
  <2>2. \A c \in Calls : ~Assign(c)
    BY DEF Assign
  <2>3. QED
    BY <1>1, <2>1, <2>2 DEF RowEffect
<1>3. CASE Tick \/ ReleaseExpired \/ UNCHANGED vars \/ \E w \in Wallets : CreateFromSignerResult(w)
  BY <1>1, <1>2, <1>3 DEF Tick, ReleaseExpired, CreateFromSignerResult, vars
<1>4. ASSUME NEW d \in Calls, Step(d), NEW c \in Calls, pc'[c] = "done", op'[c] = "assign"
      PROVE  FALSE
  <2>1. CASE \E k \in Customers : AssignWallet(d, k)
    <3>1. pc' = [pc EXCEPT ![d] = "reserving"] /\ op' = [op EXCEPT ![d] = "assign"]
      BY <1>1, <2>1, NullAssumption DEF AssignWallet
    <3>2. QED
      BY <1>1, <1>4, <3>1 DEF TypeOK
  <2>2. CASE Reread(d)
    <3>1. ASSUME NEW w \in Found(d), Dated(op[d], row[w]) PROVE op[d] # "assign"
      <4>1. w \in Wallets
        BY <1>1, <2>2 DEF Found, TypeOK
      <4>2. QED
        BY <1>1, <3>1, <4>1 DEF Dated
    <3>2. op[d] # "assign" /\ op' = op /\ pc' = [pc EXCEPT ![d] = "done"]
      BY <2>2, <3>1 DEF Reread
    <3>3. QED
      BY <1>1, <1>4, <3>2 DEF TypeOK
  <2>3. CASE \E o \in OperatorOps, w \in Wallets : Operate(d, o, w)
    BY <1>1, <1>4, <2>3 DEF Operate, OperatorOps, TypeOK
  <2>4. QED
    BY <1>1, <1>4, <2>1, <2>2, <2>3
       DEF Step, Reserve, Exhausted, Assign, AssignFails, AssignMisses, Update, UpdateMisses,
           RereadFails, Crash, Proceed, Fail, TypeOK
<1>5. QED
  BY <1>2, <1>3, <1>4 DEF Next

\* Every reachable state satisfies the invariant.
LEMMA Invariance == Spec => []PoolInv
<1>1. Init => PoolInv
  <2> SUFFICES ASSUME Init PROVE PoolInv
    OBVIOUS
  <2>1. /\ AbsentRow \in Row /\ CleanRow(AbsentRow) /\ AbsentRow.customer = Null
        /\ \A w \in Wallets : row[w] = AbsentRow
    BY NewRowClean DEF Init
  <2>2. TypeOK
    BY <2>1, BoundsAssumption, DriversAssumption DEF Init, TypeOK
  <2>3. OneWalletPerCustomer
    BY <2>1 DEF OneWalletPerCustomer
  <2>4. \A c \in Calls : AnswerIsTrue(c)
    BY DEF Init, AnswerIsTrue
  <2>5. PairAssignsNothing
    BY <2>1 DEF Init, PairAssignsNothing
  <2>6. QED
    BY <2>1, <2>2, <2>3, <2>4, <2>5 DEF PoolInv
<1>2. PoolInv /\ [Next]_vars => PoolInv'
  <2> SUFFICES ASSUME PoolInv, [Next]_vars PROVE PoolInv'
    OBVIOUS
  <2>1. \A w \in Wallets : CleanRow(row'[w])
    BY NextEffect DEF RowEffect
  <2>2. \A w \in Wallets : CleanRow(row[w])'
    BY <2>1
  <2>3. QED
    BY <2>2, TypeStep, OwnersStayUnique, AnswersStayTrue, PairStaysBarren DEF PoolInv
<1>3. QED
  BY <1>1, <1>2, PTL DEF Spec

-----------------------------------------------------------------------------
(* What it implies. *)

\* Each variable of WalletPool keeps its type; in particular no status is
\* ever NULL.
THEOREM TypeCorrect == Spec => []TypeOK
<1>1. PoolInv => TypeOK
  BY DEF PoolInv
<1>2. QED
  BY <1>1, Invariance, PTL

\* No sequence of reservations, releases, locks and unlocks puts a wallet that
\* somebody owns or holds back into the pool.
THEOREM PoolStaysClean == Spec => []PoolIsClean
<1>1. PoolInv => PoolIsClean
  BY DEF PoolInv, CleanRow, Underneath, PoolIsClean
<1>2. QED
  BY <1>1, Invariance, PTL

\* The owner of a wallet never changes.
THEOREM OwnersStay == Spec => OwnerIsForever
<1>1. PoolInv /\ [Next]_vars =>
          [\A w \in Wallets : row[w].customer # Null => row'[w].customer = row[w].customer]_vars
  BY NextEffect DEF RowEffect
<1>2. QED
  BY <1>1, Invariance, PTL DEF Spec, OwnerIsForever

\* Nothing leaves a terminal status.
THEOREM TerminalStays == Spec => TerminalIsForever
<1>1. PoolInv /\ [Next]_vars =>
          [\A w \in Wallets : row[w].status \in Terminal => row'[w].status = row[w].status]_vars
  BY NextEffect DEF RowEffect
<1>2. QED
  BY <1>1, Invariance, PTL DEF Spec, TerminalIsForever

\* Under the pair no assignment is ever made or answered.
THEOREM PairAssignsNoWallet == Spec => []PairAssignsNothing
<1>1. PoolInv => PairAssignsNothing
  BY DEF PoolInv
<1>2. QED
  BY <1>1, Invariance, PTL

\* Two answered assignments name the same wallet exactly when they name the
\* same customer.
THEOREM AnswersStayConsistent == Spec => []AnswersAgree
<1>1. PoolInv => AnswersAgree
  <2> SUFFICES ASSUME PoolInv, NEW c \in Calls, NEW d \in Calls,
                      pc[c] = "done", pc[d] = "done", op[c] = "assign", op[d] = "assign"
               PROVE  who[c] = who[d] <=> wallet[c] = wallet[d]
    BY DEF AnswersAgree
  <2>0. driver = "rows"
    BY DriversAssumption DEF PoolInv, PairAssignsNothing, TypeOK
  <2>1. /\ who[c] \in Customers /\ wallet[c] \in Wallets /\ row[wallet[c]].customer = who[c]
        /\ who[d] \in Customers /\ wallet[d] \in Wallets /\ row[wallet[d]].customer = who[d]
    BY <2>0 DEF PoolInv, AnswerIsTrue
  <2>2. who[c] # Null
    BY <2>1, NullAssumption
  <2>3. QED
    BY <2>1, <2>2 DEF PoolInv, OneWalletPerCustomer
<1>2. QED
  BY <1>1, Invariance, PTL

-----------------------------------------------------------------------------
(* Terminal answers, and locks. *)

ReportIsTrue(c) ==
    pc[c] = "done" /\ op[c] \in {"compromise", "archive"} =>
        /\ wallet[c] \in Wallets
        /\ row[wallet[c]].status = (IF op[c] = "archive" THEN "ARCHIVED" ELSE "COMPROMISED")

\* A report is made from a row that shows what it says, and such a row stays.
LEMMA ReportsStayTrue ==
    ASSUME PoolInv, \A c \in Calls : ReportIsTrue(c), [Next]_vars
    PROVE  \A c \in Calls : ReportIsTrue(c)'
<1> SUFFICES ASSUME NEW c \in Calls, pc'[c] = "done", op'[c] \in {"compromise", "archive"}
             PROVE  /\ wallet'[c] \in Wallets
                    /\ row'[wallet'[c]].status =
                          (IF op'[c] = "archive" THEN "ARCHIVED" ELSE "COMPROMISED")
  BY DEF ReportIsTrue
<1>1. TypeOK
  BY DEF PoolInv
<1>2. CASE pc[c] = "done" /\ op'[c] = op[c] /\ wallet'[c] = wallet[c]
  <2>1. /\ wallet[c] \in Wallets
        /\ row[wallet[c]].status = (IF op[c] = "archive" THEN "ARCHIVED" ELSE "COMPROMISED")
    BY <1>2 DEF ReportIsTrue
  <2>2. RowEffect(wallet[c])
    BY <2>1, NextEffect
  <2>3. QED
    BY <1>2, <2>1, <2>2 DEF RowEffect, Terminal
<1>3. CASE Reread(c)
  <2>1. pc[c] = "rereading" /\ op[c] \in {"compromise", "archive"} /\ op' = op /\ row' = row
    BY <1>3 DEF Reread
  <2>2. wallet[c] \in Wallets /\ Found(c) = {wallet[c]}
    BY <1>1, <2>1 DEF Found, TypeOK, Undefined
  <2>3. Dated(op[c], row[wallet[c]]) /\ wallet'[c] = wallet[c]
    BY <1>1, <1>3, <2>2 DEF Reread, TypeOK
  <2>4. QED
    BY <2>1, <2>2, <2>3 DEF Dated
<1>4. CASE Tick \/ ReleaseExpired \/ UNCHANGED vars
  BY <1>2, <1>4 DEF Tick, ReleaseExpired, vars
<1>5. ASSUME NEW v \in Wallets, CreateFromSignerResult(v)
      PROVE  pc[c] = "done" /\ op'[c] = op[c] /\ wallet'[c] = wallet[c]
  BY <1>5 DEF CreateFromSignerResult
<1>6. ASSUME NEW d \in Calls, Step(d), ~Reread(c)
      PROVE  pc[c] = "done" /\ op'[c] = op[c] /\ wallet'[c] = wallet[c]
  BY <1>1, <1>6
     DEF Step, AssignWallet, Operate, Reserve, Exhausted, Assign, AssignFails, AssignMisses, Update,
         UpdateMisses, Reread, RereadFails, Crash, Proceed, Fail, TypeOK, OperatorOps
<1>7. QED
  BY <1>2, <1>3, <1>4, <1>5, <1>6 DEF Next

\* A call that answers "compromised" or "archived" is right for ever.
THEOREM ReportsAreTrue == Spec => []TerminalAnswersAreTrue
<1>1. Init => \A c \in Calls : ReportIsTrue(c)
  BY DEF Init, ReportIsTrue
<1>2. PoolInv /\ (\A c \in Calls : ReportIsTrue(c)) /\ [Next]_vars
        => (\A c \in Calls : ReportIsTrue(c))'
  BY ReportsStayTrue
<1>3. (\A c \in Calls : ReportIsTrue(c)) => TerminalAnswersAreTrue
  BY DEF ReportIsTrue, TerminalAnswersAreTrue
<1>4. QED
  BY <1>1, <1>2, <1>3, Invariance, PTL DEF Spec

\* A locked wallet was locked by somebody; one that remembers no lockable
\* status was locked by two.
LockedBySomebody(w) ==
    row[w].status = "LOCKED" => \E c \in Calls : SentLock(c, w)

LockedByTwo(w) ==
    row[w].status = "LOCKED" /\ row[w].previous \notin Lockable
        => \E c, d \in Calls : c # d /\ SentLock(c, w) /\ SentLock(d, w)

LockInv == \A w \in Wallets : LockedBySomebody(w) /\ LockedByTwo(w)

\* A lock that was sent stays sent.
LEMMA SentStays ==
    ASSUME PoolInv, [Next]_vars, NEW c \in Calls, NEW w \in Wallets, SentLock(c, w)
    PROVE  SentLock(c, w)'
<1>1. /\ TypeOK /\ pc[c] \in {"rereading", "done", "failed"}
      /\ op[c] = "lock" /\ wallet[c] \in {w, Null}
  BY DEF PoolInv, TypeOK, SentLock
<1>2. CASE Tick \/ ReleaseExpired \/ UNCHANGED vars
  BY <1>1, <1>2 DEF Tick, ReleaseExpired, vars, SentLock
<1>3. ASSUME NEW v \in Wallets, CreateFromSignerResult(v) PROVE SentLock(c, w)'
  BY <1>1, <1>3 DEF CreateFromSignerResult, SentLock
<1>4. ASSUME NEW d \in Calls, Step(d) PROVE SentLock(c, w)'
  <2>1. /\ op'[c] = "lock" /\ wallet'[c] \in {w, Null}
        /\ pc'[c] \in {"rereading", "done", "failed"}
    <3>1. CASE d # c
      BY <1>1, <1>4, <3>1
         DEF Step, AssignWallet, Operate, Reserve, Exhausted, Assign, AssignFails, AssignMisses,
             Update, UpdateMisses, Reread, RereadFails, Crash, Proceed, Fail, TypeOK
    <3>2. CASE Reread(c)
      <4>1. Found(c) = {wallet[c]} /\ wallet[c] = w
        BY <1>1, <3>2 DEF Reread, Found, TypeOK, Undefined
      <4>2. QED
        BY <1>1, <3>2, <4>1 DEF Reread, TypeOK
    <3>3. CASE d = c /\ ~Reread(c)
      BY <1>1, <1>4, <3>3
         DEF Step, AssignWallet, Operate, Reserve, Exhausted, Assign, AssignFails, AssignMisses,
             Update, UpdateMisses, RereadFails, Crash, Proceed, Fail, TypeOK
    <3>4. QED
      BY <3>1, <3>2, <3>3
  <2>2. QED
    BY <2>1 DEF SentLock
<1>5. QED
  BY <1>2, <1>3, <1>4 DEF Next

\* Only an UPDATE of an operator's call locks a wallet or changes what a
\* locked wallet remembers.
LEMMA LockingStep ==
    ASSUME PoolInv, [Next]_vars, NEW w \in Wallets, row'[w].status = "LOCKED"
    PROVE  \/ row'[w] = row[w]
           \/ \E c \in Calls : Update(c) /\ wallet[c] = w /\ op[c] \in {"lock", "unlock"}
<1>1. row \in [Wallets -> Row]
  BY DEF PoolInv, TypeOK
<1>2. CASE row' = row
  BY <1>2
<1>3. CASE ReleaseExpired
  BY <1>1, <1>3 DEF ReleaseExpired, Released, Row
<1>4. ASSUME NEW v \in Wallets, CreateFromSignerResult(v) PROVE row'[w] = row[w]
  BY <1>1, <1>4 DEF CreateFromSignerResult, NewRow
<1>5. ASSUME NEW c \in Calls, Reserve(c) PROVE row'[w] = row[w]
  BY <1>1, <1>5 DEF Reserve, Reserved, Candidates, Row
<1>6. ASSUME NEW c \in Calls, Assign(c) PROVE row'[w] = row[w]
  BY <1>1, <1>6 DEF Assign, Assigned, Row
<1>7. ASSUME NEW c \in Calls, Update(c), row'[w] # row[w]
      PROVE  wallet[c] = w /\ op[c] \in {"lock", "unlock"}
  <2>1. /\ wallet[c] = w /\ row'[w] = Updated(op[c], row[w]) /\ op[c] \in OperatorOps
    BY <1>1, <1>7 DEF Update, PoolInv, TypeOK
  <2>2. QED
    BY <1>1, <2>1 DEF Updated, OperatorOps, Row
<1>8. QED
  BY <1>2, <1>3, <1>4, <1>5, <1>6, <1>7
     DEF Next, vars, Tick, Step, AssignWallet, Operate, Exhausted, AssignFails,
         AssignMisses, UpdateMisses, Reread, RereadFails, Crash, Fail, Proceed

\* Every step keeps the locks accounted for.
LEMMA LockStep == PoolInv /\ LockInv /\ [Next]_vars => LockInv'
<1> SUFFICES ASSUME PoolInv, LockInv, [Next]_vars, NEW w \in Wallets,
                    row'[w].status = "LOCKED"
             PROVE  /\ \E c \in Calls : SentLock(c, w)'
                    /\ row'[w].previous \notin Lockable =>
                          \E c, d \in Calls : c # d /\ SentLock(c, w)' /\ SentLock(d, w)'
  BY DEF LockInv, LockedBySomebody, LockedByTwo
<1>1. TypeOK /\ row[w] \in Row
  BY DEF PoolInv, TypeOK
<1>2. CASE row'[w] = row[w]
  <2>1. \E c \in Calls : SentLock(c, w)
    BY <1>2 DEF LockInv, LockedBySomebody
  <2>2. row[w].previous \notin Lockable =>
            \E c, d \in Calls : c # d /\ SentLock(c, w) /\ SentLock(d, w)
    BY <1>2 DEF LockInv, LockedByTwo
  <2>3. QED
    BY <1>2, <2>1, <2>2, SentStays
<1>3. ASSUME NEW c \in Calls, Update(c), wallet[c] = w, op[c] = "lock"
      PROVE  /\ \E d \in Calls : SentLock(d, w)'
             /\ row'[w].previous \notin Lockable =>
                   \E b, d \in Calls : b # d /\ SentLock(b, w)' /\ SentLock(d, w)'
  <2>1. SentLock(c, w)' /\ ~SentLock(c, w)
    BY <1>1, <1>3 DEF Update, Proceed, SentLock, TypeOK
  <2>2. row'[w].previous = row[w].status /\ row[w].status \in Lockable \cup {"LOCKED"}
    BY <1>1, <1>3 DEF Update, UpdateAllowed, Updated, TypeOK, Row, Status
  <2>3. row[w].status = "LOCKED" => \E d \in Calls : SentLock(d, w) /\ d # c
    BY <2>1 DEF LockInv, LockedBySomebody
  <2>4. QED
    BY <2>1, <2>2, <2>3, SentStays
<1>4. ASSUME NEW c \in Calls, Update(c), wallet[c] = w, op[c] = "unlock"
      PROVE  \E b, d \in Calls : b # d /\ SentLock(b, w)' /\ SentLock(d, w)'
  <2>1. row[w].status = "LOCKED" /\ row[w].previous = row'[w].status
    BY <1>1, <1>4 DEF Update, UpdateAllowed, Updated, TypeOK, Row
  <2>2. row[w].previous \notin Lockable
    BY <2>1 DEF Lockable
  <2>3. \E b, d \in Calls : b # d /\ SentLock(b, w) /\ SentLock(d, w)
    BY <2>1, <2>2 DEF LockInv, LockedByTwo
  <2>4. QED
    BY <2>3, SentStays
<1>5. QED
  BY <1>2, <1>3, <1>4, LockingStep

\* A wallet forgets what it was before its lock only when two locks of it
\* were sent.
THEOREM LocksRemember == Spec => []LockForgetsOnlyInARace
<1>1. Init => LockInv
  <2> SUFFICES ASSUME Init, NEW w \in Wallets PROVE row[w].status # "LOCKED"
    BY DEF LockInv, LockedBySomebody, LockedByTwo
  <2>1. row[w] = AbsentRow /\ AbsentRow.status = "ABSENT"
    BY NewRowClean DEF Init
  <2>2. QED
    BY <2>1
<1>2. LockInv => LockForgetsOnlyInARace
  BY DEF LockInv, LockedByTwo, LockForgetsOnlyInARace
<1>3. QED
  BY <1>1, <1>2, LockStep, Invariance, PTL DEF Spec

=============================================================================
