------------------------- MODULE WalletAssignmentProofs -------------------------
(***************************************************************************)
(* WalletPool implements WalletAssignment, for any wallets, customers and  *)
(* calls: each of its steps enters, grants, retires or tells, or changes   *)
(* nothing its callers can see.                                            *)
(***************************************************************************)
EXTENDS WalletPoolProofs

\* The abstract state of a step that writes one row.
LEMMA MappedRow ==
    ASSUME row \in [Wallets -> Row], NEW v \in Wallets, NEW m,
           row' = [row EXCEPT ![v] = m]
    PROVE  /\ [w \in Wallets |-> LifeOf(row[w])']
                  = [[w \in Wallets |-> LifeOf(row[w])] EXCEPT ![v] = LifeOf(m)]
           /\ [w \in Wallets |-> row[w].customer']
                  = [[w \in Wallets |-> row[w].customer] EXCEPT ![v] = m.customer]
           /\ LifeOf(m) = LifeOf(row[v]) =>
                  [w \in Wallets |-> LifeOf(row[w])'] = [w \in Wallets |-> LifeOf(row[w])]
           /\ m.customer = row[v].customer =>
                  [w \in Wallets |-> row[w].customer'] = [w \in Wallets |-> row[w].customer]
<1>1. \A w \in Wallets : LifeOf(row[w])' = LifeOf(row'[w])
  BY DEF LifeOf
<1>2. row'[v] = m /\ \A w \in Wallets : w # v => row'[w] = row[w]
  OBVIOUS
<1>3. \A w \in Wallets : LifeOf(row[w])' = IF w = v THEN LifeOf(m) ELSE LifeOf(row[w])
  BY <1>1, <1>2
<1>4. QED
  BY <1>2, <1>3

\* A step of a call changes no answer but its own, and it had none before.
LEMMA ToldStep ==
    ASSUME TypeOK, NEW c \in Calls, Step(c)
    PROVE  /\ AnswerOf(c) = Null
           /\ [d \in Calls |-> AnswerOf(d)']
                  = [[d \in Calls |-> AnswerOf(d)] EXCEPT ![c] = AnswerOf(c)']
<1>1. pc[c] # "done"
  BY DEF Step, AssignWallet, Operate, Reserve, Exhausted, Assign, AssignFails, AssignMisses, Update,
         UpdateMisses, Reread, RereadFails, Crash
<1>2. ASSUME NEW d \in Calls, d # c PROVE AnswerOf(d)' = AnswerOf(d)
  <2>1. pc'[d] = pc[d] /\ op'[d] = op[d] /\ who'[d] = who[d] /\ wallet'[d] = wallet[d]
    BY <1>2
       DEF Step, AssignWallet, Operate, Reserve, Exhausted, Assign, AssignFails, AssignMisses, Update,
           UpdateMisses, Reread, RereadFails, Crash, Proceed, Fail, TypeOK
  <2>2. QED
    BY <2>1 DEF AnswerOf
<1>3. QED
  BY <1>1, <1>2 DEF AnswerOf

\* A step of a call that neither grants, nor retires, nor answers an
\* assignment shows nothing.
LEMMA SilentStep ==
    ASSUME TypeOK, NEW c \in Calls, Step(c),
           [w \in Wallets |-> LifeOf(row[w])'] = [w \in Wallets |-> LifeOf(row[w])],
           [w \in Wallets |-> row[w].customer'] = [w \in Wallets |-> row[w].customer],
           ~(pc'[c] = "done" /\ op'[c] = "assign")
    PROVE  UNCHANGED Assignment!vars
<1>1. AnswerOf(c)' = Null /\ AnswerOf(c) = Null
  BY ToldStep DEF AnswerOf
<1>2. [d \in Calls |-> AnswerOf(d)'] = [d \in Calls |-> AnswerOf(d)]
  BY <1>1, ToldStep
<1>3. QED
  BY <1>2 DEF Assignment!vars

\* A call that answers an assignment tells what the row says.
LEMMA TellingStep ==
    ASSUME PoolInv, NEW c \in Calls, Step(c), row' = row,
           pc'[c] = "done", op'[c] = "assign",
           who'[c] \in Customers, wallet'[c] \in Wallets,
           row[wallet'[c]].customer = who'[c]
    PROVE  Assignment!Next
<1>1. /\ AnswerOf(c) = Null /\ AnswerOf(c)' = <<who'[c], wallet'[c]>>
      /\ [d \in Calls |-> AnswerOf(d)']
             = [[d \in Calls |-> AnswerOf(d)] EXCEPT ![c] = <<who'[c], wallet'[c]>>]
  BY ToldStep DEF AnswerOf, PoolInv
<1>2. Assignment!Tell(c, who'[c], wallet'[c])
  BY <1>1 DEF Assignment!Tell, LifeOf
<1>3. QED
  BY <1>2 DEF Assignment!Next

\* A statement of an operator retires the wallet or leaves its life alone.
LEMMA UpdateRefines ==
    ASSUME PoolInv, NEW c \in Calls, Update(c)
    PROVE  [Assignment!Next]_(Assignment!vars)
<1>1. /\ TypeOK /\ wallet[c] \in Wallets /\ op[c] \in OperatorOps
      /\ row[wallet[c]] \in Row /\ CleanRow(row[wallet[c]])
      /\ UpdateAllowed(op[c], row[wallet[c]])
      /\ row' = [row EXCEPT ![wallet[c]] = Updated(op[c], row[wallet[c]])]
  BY DEF Update, PoolInv, TypeOK, Undefined, OperatorOps
<1>2. PICK r \in Row : r = row[wallet[c]]
  BY <1>1
<1>3. PICK m \in Row : m = Updated(op[c], r) /\ m.customer = r.customer
  BY <1>1, <1>2, UpdatedClean
<1>4. LifeOf(r) = "usable"
  BY <1>1, <1>2 DEF UpdateAllowed, OperatorOps, LifeOf, Terminal
<1>5. Step(c) /\ pc'[c] # "done"
  BY <1>1 DEF Step, Update, Proceed, TypeOK
<1>6. [w \in Wallets |-> row[w].customer'] = [w \in Wallets |-> row[w].customer]
  BY <1>1, <1>2, <1>3, MappedRow DEF TypeOK
<1>7. CASE op[c] \in {"lock", "unlock"}
  <2>1. m.status \notin Terminal \cup {"ABSENT"}
    BY <1>1, <1>2, <1>3, <1>7, NullAssumption
       DEF UpdateAllowed, Updated, CleanRow, Row, Status, Lockable, Terminal
  <2>2. LifeOf(m) = LifeOf(r)
    BY <1>4, <2>1 DEF LifeOf
  <2>3. [w \in Wallets |-> LifeOf(row[w])'] = [w \in Wallets |-> LifeOf(row[w])]
    BY <1>1, <1>2, <1>3, <2>2, MappedRow DEF TypeOK
  <2>4. QED
    BY <1>1, <1>5, <1>6, <2>3, SilentStep
<1>8. CASE op[c] \in {"compromise", "archive"}
  <2>1. LifeOf(m) = "retired"
    BY <1>2, <1>3, <1>8 DEF Updated, LifeOf, Terminal, Row
  <2>2. [w \in Wallets |-> LifeOf(row[w])']
            = [[w \in Wallets |-> LifeOf(row[w])] EXCEPT ![wallet[c]] = "retired"]
    BY <1>1, <1>2, <1>3, <2>1, MappedRow DEF TypeOK
  <2>3. [d \in Calls |-> AnswerOf(d)'] = [d \in Calls |-> AnswerOf(d)]
    BY <1>1, <1>5, ToldStep DEF AnswerOf
  <2>4. Assignment!Retire(wallet[c])
    BY <1>1, <1>2, <1>4, <1>6, <2>2, <2>3 DEF Assignment!Retire
  <2>5. QED
    BY <1>1, <2>4 DEF Assignment!Next
<1>9. QED
  BY <1>1, <1>7, <1>8 DEF OperatorOps

\* The statement that stores an owner is a grant.
LEMMA AssignRefines ==
    ASSUME PoolInv, NEW c \in Calls, Assign(c)
    PROVE  Assignment!Next
<1>1. /\ TypeOK /\ wallet[c] \in Wallets /\ who[c] \in Customers
      /\ row[wallet[c]] \in Row /\ CleanRow(row[wallet[c]])
      /\ AssignAllowed(row[wallet[c]], c) /\ CustomerFree(who[c])
      /\ row' = [row EXCEPT ![wallet[c]] = Assigned(row[wallet[c]], who[c])]
  BY DEF Assign, PoolInv, TypeOK, Undefined
<1>2. PICK r \in Row : r = row[wallet[c]]
  BY <1>1
<1>3. PICK m \in Row : /\ m = Assigned(r, who[c]) /\ m.customer = who[c]
                       /\ r.customer = Null
  BY <1>1, <1>2, AssignedClean
<1>4. LifeOf(r) = "usable" /\ LifeOf(m) = "usable"
  BY <1>1, <1>2, <1>3 DEF AssignAllowed, Assigned, LifeOf, Terminal, Row
<1>5. /\ [w \in Wallets |-> LifeOf(row[w])'] = [w \in Wallets |-> LifeOf(row[w])]
      /\ [w \in Wallets |-> row[w].customer']
             = [[w \in Wallets |-> row[w].customer] EXCEPT ![wallet[c]] = who[c]]
  <2>1. row' = [row EXCEPT ![wallet[c]] = m]
    BY <1>1, <1>2, <1>3
  <2>2. LifeOf(m) = LifeOf(row[wallet[c]]) /\ m.customer = who[c]
    BY <1>2, <1>3, <1>4
  <2>3. row \in [Wallets -> Row] /\ wallet[c] \in Wallets
    BY <1>1 DEF TypeOK
  <2>4. QED
    BY <2>1, <2>2, <2>3, MappedRow
<1>6. Step(c) /\ pc'[c] = "rereading"
  BY <1>1 DEF Step, Assign, Proceed, TypeOK
<1>7. [d \in Calls |-> AnswerOf(d)'] = [d \in Calls |-> AnswerOf(d)]
  BY <1>1, <1>6, ToldStep DEF AnswerOf
<1>8. PICK w \in Wallets, k \in Customers : w = wallet[c] /\ k = who[c]
  BY <1>1
<1>9. Assignment!Grant(w, k)
  BY <1>1, <1>2, <1>3, <1>4, <1>5, <1>7, <1>8 DEF Assignment!Grant, CustomerFree
<1>10. QED
  BY <1>9 DEF Assignment!Next

\* So every step of a call refines a step of the abstract specification.
LEMMA CallRefines ==
    ASSUME PoolInv, NEW c \in Calls, Step(c)
    PROVE  [Assignment!Next]_(Assignment!vars)
<1>1. TypeOK
  BY DEF PoolInv
<1>2. CASE row' = row /\ ~(pc'[c] = "done" /\ op'[c] = "assign")
  <2>1. /\ [w \in Wallets |-> LifeOf(row[w])'] = [w \in Wallets |-> LifeOf(row[w])]
        /\ [w \in Wallets |-> row[w].customer'] = [w \in Wallets |-> row[w].customer]
    BY <1>2 DEF LifeOf
  <2>2. QED
    BY <1>1, <1>2, <2>1, SilentStep
<1>3. ASSUME row' = row, pc'[c] = "done", op'[c] = "assign"
      PROVE  Assignment!Next
  <2>1. \/ \E k \in Customers : AssignWallet(c, k)
        \/ Reread(c)
    BY <1>1, <1>3
       DEF Step, Operate, Reserve, Exhausted, Assign, AssignFails, AssignMisses, Update, UpdateMisses,
           RereadFails, Crash, Proceed, Fail, TypeOK
  <2>2. ASSUME NEW k \in Customers, AssignWallet(c, k)
        PROVE  /\ who'[c] \in Customers /\ wallet'[c] \in Wallets
               /\ row[wallet'[c]].customer = who'[c]
    BY <1>1, <1>3, <2>2 DEF AssignWallet, TypeOK
  <2>3. ASSUME Reread(c)
        PROVE  /\ who'[c] \in Customers /\ wallet'[c] \in Wallets
               /\ row[wallet'[c]].customer = who'[c]
    <3>1. pc[c] = "rereading" /\ op[c] = "assign" /\ who' = who
      BY <1>3, <2>3 DEF Reread
    <3>2. PICK w \in Found(c) : Dated("assign", row[w]) /\ wallet' = [wallet EXCEPT ![c] = w]
      BY <2>3, <3>1 DEF Reread
    <3>3. driver = "rows"
      BY <1>1, <3>1, <3>2, DriversAssumption DEF Dated, Found, PoolInv, PairAssignsNothing, TypeOK
    <3>4. wallet'[c] = wallet[c]
      BY <1>1, <3>1, <3>2, <3>3 DEF Found, TypeOK, Undefined
    <3>5. QED
      BY <3>1, <3>3, <3>4 DEF PoolInv, AnswerIsTrue
  <2>4. QED
    BY <1>3, <2>1, <2>2, <2>3, TellingStep
<1>4. CASE Update(c)
  BY <1>4, UpdateRefines
<1>5. CASE Assign(c)
  BY <1>5, AssignRefines
<1>6. CASE Reserve(c)
  <2>1. PICK v \in Wallets : /\ row[v].status = "AVAILABLE"
                             /\ row' = [row EXCEPT ![v] = Reserved(row[v], c, now)]
    BY <1>6 DEF Reserve, Candidates
  <2>2. /\ LifeOf(Reserved(row[v], c, now)) = LifeOf(row[v])
        /\ Reserved(row[v], c, now).customer = row[v].customer
    BY <1>1, <2>1 DEF Reserved, LifeOf, Terminal, TypeOK, Row
  <2>3. /\ [w \in Wallets |-> LifeOf(row[w])'] = [w \in Wallets |-> LifeOf(row[w])]
        /\ [w \in Wallets |-> row[w].customer'] = [w \in Wallets |-> row[w].customer]
    BY <1>1, <2>1, <2>2, MappedRow DEF TypeOK
  <2>4. pc'[c] # "done"
    BY <1>1, <1>6 DEF Reserve, TypeOK
  <2>5. QED
    BY <1>1, <2>3, <2>4, SilentStep
<1>7. QED
  BY <1>2, <1>3, <1>4, <1>5, <1>6
     DEF Step, AssignWallet, Operate, Exhausted, AssignFails, AssignMisses, UpdateMisses, Reread,
         RereadFails, Crash, Fail

\* The pool implements the abstract assignment of wallets: whatever happens
\* between its statements, no caller can tell it from WalletAssignment.
THEOREM PoolImplementsAssignment == Spec => ImplementsAssignment
<1>1. Init => Assignment!Init
  <2> SUFFICES ASSUME Init PROVE Assignment!Init
    OBVIOUS
  <2>1. /\ \A w \in Wallets : row[w] = AbsentRow
        /\ AbsentRow.customer = Null /\ LifeOf(AbsentRow) = "unknown"
    <3>1. AbsentRow.customer = Null /\ AbsentRow.status = "ABSENT"
      BY NewRowClean, 0 \in Nat
    <3>2. QED
      BY <3>1 DEF Init, LifeOf, Terminal
  <2>2. \A c \in Calls : AnswerOf(c) = Null
    BY DEF Init, AnswerOf
  <2>3. QED
    BY <2>1, <2>2 DEF Assignment!Init
<1>2. PoolInv /\ [Next]_vars => [Assignment!Next]_(Assignment!vars)
  <2> SUFFICES ASSUME PoolInv, [Next]_vars PROVE [Assignment!Next]_(Assignment!vars)
    OBVIOUS
  <2>1. TypeOK
    BY DEF PoolInv
  <2>2. CASE Tick \/ UNCHANGED vars
    BY <2>2 DEF Tick, vars, Assignment!vars, LifeOf, AnswerOf
  <2>3. CASE ReleaseExpired
    <3>1. ASSUME NEW w \in Wallets
          PROVE  LifeOf(row[w])' = LifeOf(row[w]) /\ row[w].customer' = row[w].customer
      <4>1. PICK r \in Row : r = row[w]
        BY <2>1 DEF TypeOK
      <4>2. row'[w] = r \/ (r.status = "RESERVED" /\ row'[w] = Released(r))
        BY <2>1, <2>3, <4>1 DEF ReleaseExpired, Overdue, TypeOK
      <4>3. r.status = "RESERVED" =>
                LifeOf(r) = LifeOf(Released(r)) /\ r.customer = Released(r).customer
        BY DEF Released, LifeOf, Terminal, Row
      <4>4. QED
        BY <4>1, <4>2, <4>3 DEF LifeOf
    <3>2. QED
      BY <2>3, <3>1 DEF ReleaseExpired, Assignment!vars, AnswerOf
  <2>4. ASSUME NEW v \in Wallets, CreateFromSignerResult(v)
        PROVE  Assignment!Next
    <3>1. /\ row' = [row EXCEPT ![v] = NewRow(now)] /\ LifeOf(row[v]) = "unknown"
          /\ LifeOf(NewRow(now)) = "usable" /\ NewRow(now).customer = Null
          /\ row[v].customer = Null
      BY <2>1, <2>4 DEF CreateFromSignerResult, NewRow, LifeOf, Terminal, PoolInv, CleanRow, Pooled
    <3>2. /\ [w \in Wallets |-> LifeOf(row[w])']
                 = [[w \in Wallets |-> LifeOf(row[w])] EXCEPT ![v] = "usable"]
          /\ [w \in Wallets |-> row[w].customer'] = [w \in Wallets |-> row[w].customer]
      BY <2>1, <3>1, MappedRow DEF TypeOK
    <3>3. Assignment!Enter(v)
      BY <2>4, <3>1, <3>2 DEF Assignment!Enter, CreateFromSignerResult, AnswerOf
    <3>4. QED
      BY <3>3 DEF Assignment!Next
  <2>5. ASSUME NEW c \in Calls, Step(c)
        PROVE  [Assignment!Next]_(Assignment!vars)
    BY <2>5, CallRefines
  <2>6. QED
    BY <2>2, <2>3, <2>4, <2>5 DEF Next
<1>3. QED
  BY <1>1, <1>2, Invariance, PTL DEF Spec, ImplementsAssignment, Assignment!Spec

=============================================================================
