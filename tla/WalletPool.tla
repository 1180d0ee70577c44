------------------------------- MODULE WalletPool -------------------------------
(***************************************************************************)
(* WalletService and WalletRepository at work on the wallets of one driver *)
(* family (every query of the pool is restricted to a family).             *)
(*                                                                         *)
(* A customer gets a wallet in two statements, one that reserves and one   *)
(* that assigns.  The service opens a transaction around them, but both    *)
(* run on the repository's own connection, so each commits by itself and   *)
(* anything may come between them: another call, a failure, a crash.  An   *)
(* operator's call reads the wallet, checks its guard on what it read, and *)
(* sends one conditional UPDATE, which decides for itself by its WHERE and *)
(* whose outcome nobody looks at: the call reads the row once more and     *)
(* answers with what it finds there.                                       *)
(*                                                                         *)
(* What the two statements of an assignment learn depends on the shape of  *)
(* query("UPDATE ... RETURNING").  The repository declares a list of rows  *)
(* ("rows", which its unit tests also mock); the Postgres driver of the    *)
(* TypeORM it depends on answers with the pair of that list and a count    *)
(* ("pair", the application as it boots).  Of a pair the code reads an     *)
(* undefined id and an undefined token, and never a length of zero.        *)
(*                                                                         *)
(* Soft deletion is left out: nothing in src/ deletes a wallet.            *)
(***************************************************************************)
EXTENDS Integers

CONSTANTS
    Wallets,    \* addresses signers created (unique in the table)
    Customers,
    Calls,      \* calls of the service; an identifier is used once
    Null,
    Dying,      \* the calls whose process may die under them
    Drivers,    \* the shapes of a query's result that are considered
    TTL,        \* of a reservation
    MaxTime     \* bound on the clock

ASSUME BoundsAssumption == TTL \in Nat /\ MaxTime \in Nat
ASSUME DriversAssumption == Drivers \subseteq {"rows", "pair"}

VARIABLES
    driver,     \* the shape of a query's result; it never changes
    now,
    row,        \* row[w]: the row of wallet w
    pc,         \* pc[c]: how far call c has come
    op,         \* op[c]: "assign" or an operator's method
    who,        \* who[c]: the customer an assign call is for
    wallet      \* wallet[c]: the wallet the call works on, or answered with;
                \* Null when it holds none, or an undefined id

vars == <<driver, now, row, pc, op, who, wallet>>

Terminal == {"COMPROMISED", "ARCHIVED"}
Lockable == {"AVAILABLE", "RESERVED", "ASSIGNED"}
Status == Lockable \cup Terminal \cup {"LOCKED"}

ASSUME NullAssumption == Null \notin Wallets \cup Customers \cup Calls \cup Status

\* A reservation token is known by the call that made it.
Row == [status     : Status \cup {"ABSENT"},
        customer   : Customers \cup {Null},
        token      : Calls \cup {Null},
        reservedAt : Nat,
        previous   : Status \cup {Null},
        createdAt  : Nat]

NewRow(t) ==
    [status |-> "AVAILABLE", customer |-> Null, token |-> Null, reservedAt |-> 0,
     previous |-> Null, createdAt |-> t]

AbsentRow == [NewRow(0) EXCEPT !.status = "ABSENT"]

OperatorOps == {"lock", "unlock", "compromise", "archive"}

\* The assignment c holds what it read from a pair: an undefined id.
Undefined(c) == driver = "pair" /\ op[c] = "assign"

TypeOK ==
    /\ driver \in Drivers
    /\ now \in 0..MaxTime
    /\ row \in [Wallets -> Row]
    /\ pc \in [Calls -> {"idle", "reserving", "assigning", "updating", "rereading",
                         "done", "failed"}]
    /\ op \in [Calls -> OperatorOps \cup {"none", "assign"}]
    /\ who \in [Calls -> Customers \cup {Null}]
    /\ wallet \in [Calls -> Wallets \cup {Null}]
    /\ \A c \in Calls :
           /\ pc[c] = "idle" => op[c] = "none"
           /\ pc[c] \in {"reserving", "assigning"} => op[c] = "assign" /\ who[c] \in Customers
           /\ pc[c] = "updating" => op[c] \in OperatorOps
           /\ pc[c] = "rereading" => op[c] \in OperatorOps \cup {"assign"}
           /\ pc[c] \in {"assigning", "updating", "rereading"} =>
                  (wallet[c] = Null <=> Undefined(c))
           /\ pc[c] \in {"idle", "reserving"} => wallet[c] = Null

Init ==
    /\ driver \in Drivers
    /\ now = 0
    /\ row = [w \in Wallets |-> AbsentRow]
    /\ pc = [c \in Calls |-> "idle"]
    /\ op = [c \in Calls |-> "none"]
    /\ who = [c \in Calls |-> Null]
    /\ wallet = [c \in Calls |-> Null]

-----------------------------------------------------------------------------
(* The statements of WalletRepository: what their WHERE asks of a row, and  *)
(* what their SET makes of it.                                             *)

Reserved(r, c, t) == [r EXCEPT !.status = "RESERVED", !.token = c, !.reservedAt = t]

\* Mutant of AssignAllowed: the row is found by its id alone.
AssignAllowedById(r, c) == r.status # "ABSENT"

AssignAllowed(r, c) == r.token = c /\ r.status = "RESERVED"

Assigned(r, k) ==
    [r EXCEPT !.status = "ASSIGNED", !.customer = k, !.token = Null, !.reservedAt = 0]

\* Mutant of Released: the token is not cleared.
ReleasedWithToken(r) == [r EXCEPT !.status = "AVAILABLE", !.reservedAt = 0]

Released(r) == [r EXCEPT !.status = "AVAILABLE", !.token = Null, !.reservedAt = 0]

Overdue(r, t) == r.status = "RESERVED" /\ r.reservedAt < t - TTL

\* Mutant of UpdateAllowed: the statement trusts the service's guard.
UpdateAllowedById(o, r) == r.status # "ABSENT" /\ (o = "unlock" => r.previous # Null)

\* Mutant of UpdateAllowed: unlock trusts the guard, and may store NULL.
UpdateAllowedToNull(o, r) ==
    \/ o \in {"lock", "unlock", "compromise"} /\ r.status \notin Terminal \cup {"ABSENT"}
    \/ o = "archive" /\ r.status \in {"AVAILABLE", "LOCKED"}

\* The WHERE of lockWallet, unlockWallet, compromiseWallet and archiveWallet.
\* An unlock that would store NULL in the status column fails.
UpdateAllowed(o, r) ==
    \/ o \in {"lock", "compromise"} /\ r.status \notin Terminal \cup {"ABSENT"}
    \/ o = "unlock" /\ r.status = "LOCKED" /\ r.previous # Null
    \/ o = "archive" /\ r.status \in {"AVAILABLE", "LOCKED"}

\* Mutant of Updated: a lock remembers the status it sets.
UpdatedForgetting(o, r) ==
    CASE o = "lock"       -> [r EXCEPT !.previous = "LOCKED", !.status = "LOCKED"]
      [] o = "unlock"     -> [r EXCEPT !.status = r.previous, !.previous = Null]
      [] o = "compromise" -> [r EXCEPT !.status = "COMPROMISED"]
      [] o = "archive"    -> [r EXCEPT !.status = "ARCHIVED"]

Updated(o, r) ==
    CASE o = "lock"       -> [r EXCEPT !.previous = r.status, !.status = "LOCKED"]
      [] o = "unlock"     -> [r EXCEPT !.status = r.previous, !.previous = Null]
      [] o = "compromise" -> [r EXCEPT !.status = "COMPROMISED"]
      [] o = "archive"    -> [r EXCEPT !.status = "ARCHIVED"]

\* What the service asks of the row it read before it sends the statement.
ServiceAllows(o, r) ==
    \/ o = "lock" /\ r.status \in Lockable
    \/ o = "unlock" /\ r.status = "LOCKED"
    \/ o = "compromise" /\ r.status \notin Terminal
    \/ o = "archive" /\ r.status \in {"AVAILABLE", "LOCKED"}

\* Mutant of Dated: the answer needs no date.
DatedAlways(o, r) == o \in OperatorOps \cup {"assign"}

\* The row a call rereads has the date that its answer dereferences: lockedAt
\* (written and cleared with previousStatus), compromisedAt, archivedAt, or
\* assignedAt (written with customerId).  An unlock needs no date.
Dated(o, r) ==
    \/ o = "unlock"
    \/ o = "assign" /\ r.customer # Null
    \/ o = "lock" /\ r.previous # Null
    \/ o = "compromise" /\ r.status = "COMPROMISED"
    \/ o = "archive" /\ r.status = "ARCHIVED"

-----------------------------------------------------------------------------

Tick ==
    /\ now < MaxTime
    /\ now' = now + 1
    /\ UNCHANGED <<driver, row, pc, op, who, wallet>>

\* createFromSignerResult: the unique address admits one INSERT; for a known
\* address the existing wallet is returned.
CreateFromSignerResult(w) ==
    /\ row[w].status = "ABSENT"
    /\ row' = [row EXCEPT ![w] = NewRow(now)]
    /\ UNCHANGED <<driver, now, pc, op, who, wallet>>

\* The call goes on; the wallet it works on stays its answer.
Proceed(c, to) == pc' = [pc EXCEPT ![c] = to] /\ UNCHANGED <<driver, now, op, who, wallet>>

\* The call ends without an answer, for an error or because its process died.
\* What its statements did stays.
Fail(c) ==
    /\ pc' = [pc EXCEPT ![c] = "failed"]
    /\ wallet' = [wallet EXCEPT ![c] = Null]
    /\ UNCHANGED <<driver, now, row, op, who>>

\* assignWallet, first step: findByCustomer, whatever the wallet's status.
AssignWallet(c, k) ==
    /\ pc[c] = "idle"
    /\ op' = [op EXCEPT ![c] = "assign"]
    /\ who' = [who EXCEPT ![c] = k]
    /\ \/ \E w \in Wallets :
              /\ row[w].customer = k
              /\ wallet' = [wallet EXCEPT ![c] = w]
              /\ pc' = [pc EXCEPT ![c] = "done"]
       \/ /\ \A w \in Wallets : row[w].customer # k
          /\ pc' = [pc EXCEPT ![c] = "reserving"]
          /\ UNCHANGED wallet
    /\ UNCHANGED <<driver, now, row>>

\* The oldest wallets of the pool.
Candidates ==
    LET available == {w \in Wallets : row[w].status = "AVAILABLE"}
    IN  {w \in available : \A v \in available : row[w].createdAt <= row[v].createdAt}

\* What the code reads of the returned row: result[0].id is undefined when
\* result[0] is a list.
Read(w) == IF driver = "rows" THEN w ELSE Null

\* Phase 1 commits.
Reserve(c) ==
    /\ pc[c] = "reserving"
    /\ \E w \in Candidates :
           /\ row' = [row EXCEPT ![w] = Reserved(@, c, now)]
           /\ wallet' = [wallet EXCEPT ![c] = Read(w)]
    /\ pc' = [pc EXCEPT ![c] = "assigning"]
    /\ UNCHANGED <<driver, now, op, who>>

\* The pool is empty: WalletPoolExhaustedError for a list of no rows.  A pair
\* has two members, so the call goes on with an undefined id.
Exhausted(c) ==
    /\ pc[c] = "reserving"
    /\ Candidates = {}
    /\ \/ driver = "rows" /\ Fail(c)
       \/ driver = "pair" /\ Proceed(c, "assigning") /\ UNCHANGED row

\* Mutant of CustomerFree: the unique index is missing.
CustomerFreeAlways(k) == k \in Customers

\* The unique index on (customer_id, driver_family).
CustomerFree(k) == \A w \in Wallets : row[w].customer # k

\* Phase 2 commits.
Assign(c) ==
    /\ pc[c] = "assigning"
    /\ driver = "rows"
    /\ AssignAllowed(row[wallet[c]], c)
    /\ CustomerFree(who[c])
    /\ row' = [row EXCEPT ![wallet[c]] = Assigned(@, who[c])]
    /\ Proceed(c, "rereading")

\* Phase 2 fails: WalletReservationTokenMismatchError, or the unique index.
\* Phase 1 has committed and stays.
AssignFails(c) ==
    /\ pc[c] = "assigning"
    /\ driver = "rows"
    /\ ~(AssignAllowed(row[wallet[c]], c) /\ CustomerFree(who[c]))
    /\ Fail(c)

\* Phase 2 with an undefined id and token: NULL equals no column, and the pair
\* of no rows and 0 is not noticed.
AssignMisses(c) ==
    /\ pc[c] = "assigning"
    /\ driver = "pair"
    /\ Proceed(c, "rereading")
    /\ UNCHANGED row

\* releaseExpiredReservations.
ReleaseExpired ==
    /\ \E w \in Wallets : Overdue(row[w], now)
    /\ row' = [w \in Wallets |-> IF Overdue(row[w], now) THEN Released(row[w]) ELSE row[w]]
    /\ UNCHANGED <<driver, now, pc, op, who, wallet>>

\* lockWallet, unlockWallet, compromiseWallet, archiveWallet up to their
\* UPDATE: findById, and the guard on what it returned.
Operate(c, o, w) ==
    /\ pc[c] = "idle"
    /\ row[w].status # "ABSENT"
    /\ op' = [op EXCEPT ![c] = o]
    /\ \/ /\ ServiceAllows(o, row[w])
          /\ wallet' = [wallet EXCEPT ![c] = w]
          /\ pc' = [pc EXCEPT ![c] = "updating"]
       \/ /\ ~ServiceAllows(o, row[w])
          /\ pc' = [pc EXCEPT ![c] = "failed"]
          /\ UNCHANGED wallet
    /\ UNCHANGED <<driver, now, row, who>>

\* Their UPDATE.
Update(c) ==
    /\ pc[c] = "updating"
    /\ UpdateAllowed(op[c], row[wallet[c]])
    /\ row' = [row EXCEPT ![wallet[c]] = Updated(op[c], @)]
    /\ Proceed(c, "rereading")

\* Their UPDATE finds no row, which the repository does not notice; or it is
\* an unlock that would store NULL in the status column, and fails.
UpdateMisses(c) ==
    /\ pc[c] = "updating"
    /\ ~UpdateAllowed(op[c], row[wallet[c]])
    /\ LET nulls == op[c] = "unlock" /\ row[wallet[c]].status = "LOCKED"
       IN  \/ nulls /\ Fail(c)
           \/ ~nulls /\ Proceed(c, "rereading") /\ UNCHANGED row

\* What findOneOrFail({ where: { id } }) may find: a condition on an undefined
\* id is no condition, so any wallet there is.
Found(c) ==
    IF wallet[c] # Null THEN {wallet[c]} ELSE {w \in Wallets : row[w].status # "ABSENT"}

\* findOneOrFail after the UPDATE, and the answer built from what it found.
Reread(c) ==
    /\ pc[c] = "rereading"
    /\ \E w \in Found(c) :
           /\ Dated(op[c], row[w])
           /\ wallet' = [wallet EXCEPT ![c] = w]
    /\ pc' = [pc EXCEPT ![c] = "done"]
    /\ UNCHANGED <<driver, now, row, op, who>>

\* The date is null: TypeError, whatever the UPDATE did; or there is no wallet.
RereadFails(c) ==
    /\ pc[c] = "rereading"
    /\ Found(c) = {} \/ \E w \in Found(c) : ~Dated(op[c], row[w])
    /\ Fail(c)

\* The process or its connection dies between two statements.
Crash(c) ==
    /\ c \in Dying
    /\ pc[c] \in {"reserving", "assigning", "updating", "rereading"}
    /\ Fail(c)

Step(c) ==
    \/ \E k \in Customers : AssignWallet(c, k)
    \/ \E o \in OperatorOps, w \in Wallets : Operate(c, o, w)
    \/ Reserve(c) \/ Exhausted(c) \/ Assign(c) \/ AssignFails(c) \/ AssignMisses(c)
    \/ Update(c) \/ UpdateMisses(c) \/ Reread(c) \/ RereadFails(c) \/ Crash(c)

Next ==
    \/ Tick
    \/ ReleaseExpired
    \/ \E w \in Wallets : CreateFromSignerResult(w)
    \/ \E c \in Calls : Step(c)

Spec == Init /\ [][Next]_vars

-----------------------------------------------------------------------------

Pooled(r) == r.customer = Null /\ r.token = Null
OnHold(r) == r.customer = Null /\ r.token # Null

\* A wallet in the pool belongs to nobody and nobody holds a token for it; a
\* reserved one belongs to nobody and somebody does.  Locks, unlocks and
\* releases in any order never return a used wallet to the pool.
PoolIsClean ==
    \A w \in Wallets :
        /\ row[w].status = "AVAILABLE" => Pooled(row[w])
        /\ row[w].status = "RESERVED" => OnHold(row[w])

\* "Once set, never changed": a wallet keeps its customer (the entity's
\* customerId), even when a late assignment meets a reservation that was
\* released and made again by another call.  Customers are set under the
\* declared result only (see PairAssignsNothing).
OwnerIsForever ==
    [][\A w \in Wallets : row[w].customer # Null => row'[w].customer = row[w].customer]_vars

\* Nothing leaves COMPROMISED or ARCHIVED, although the guards of the service
\* look at a row that may have changed since.
TerminalIsForever ==
    [][\A w \in Wallets : row[w].status \in Terminal => row'[w].status = row[w].status]_vars

\* Calls for the same customer are answered with the same wallet, calls for
\* different customers with different ones (assignWallet is idempotent).  Under
\* the pair a call rereads any wallet, another call's as well, and only the
\* date that its answer dereferences keeps it from answering with that one.
AnswersAgree ==
    \A c, d \in Calls :
        pc[c] = "done" /\ pc[d] = "done" /\ op[c] = "assign" /\ op[d] = "assign"
            => (who[c] = who[d] <=> wallet[c] = wallet[d])

\* Under the pair no wallet is ever granted and no call is ever told one: every
\* assignment ends in an error, whatever wallet it rereads and whoever that was
\* reserved, locked or released for.
PairAssignsNothing ==
    driver = "pair" =>
        /\ \A w \in Wallets : row[w].customer = Null
        /\ \A c \in Calls : ~(pc[c] = "done" /\ op[c] = "assign")

\* "wraps both phases inside one database transaction" (ARCHITECTURE.md): a
\* wallet is reserved only while the call that reserved it is at work.
ReservationIsHeld ==
    \A w \in Wallets : row[w].status = "RESERVED" => pc[row[w].token] \in {"assigning", "rereading"}

\* A lock that was sent to w, or failed and may have been sent to it.
SentLock(c, w) ==
    op[c] = "lock" /\ wallet[c] \in {w, Null} /\ pc[c] # "updating"

\* "LOCKED preserves the previous status; unlock() restores it"
\* (ARCHITECTURE.md).  That is not so after two locks that both read the wallet
\* unlocked: the second remembers LOCKED (lockWallet's WHERE admits it).  It
\* takes two, whatever else happens to the wallet.
LockForgetsOnlyInARace ==
    \A w \in Wallets :
        row[w].status = "LOCKED" /\ row[w].previous \notin Lockable
            => \E c, d \in Calls : c # d /\ SentLock(c, w) /\ SentLock(d, w)

\* A call that answers that a wallet is compromised or archived is right, now
\* and later, although its UPDATE may have matched no row because another
\* operator was faster (the dates the answer dereferences).
TerminalAnswersAreTrue ==
    \A c \in Calls :
        pc[c] = "done" =>
            /\ op[c] = "compromise" => row[wallet[c]].status = "COMPROMISED"
            /\ op[c] = "archive" => row[wallet[c]].status = "ARCHIVED"

LifeOf(r) ==
    CASE r.status = "ABSENT"   -> "unknown"
      [] r.status \in Terminal -> "retired"
      [] OTHER                 -> "usable"

AnswerOf(c) == IF pc[c] = "done" /\ op[c] = "assign" THEN <<who[c], wallet[c]>> ELSE Null

Assignment == INSTANCE WalletAssignment WITH
    life <- [w \in Wallets |-> LifeOf(row[w])],
    holder <- [w \in Wallets |-> row[w].customer],
    told <- [c \in Calls |-> AnswerOf(c)]

\* Whatever happens between its statements, the pool grants wallets as
\* WalletAssignment promises (assignWallet, findByCustomer, the unique index);
\* under the pair it grants none, and may not tell a call somebody's wallet.
ImplementsAssignment == Assignment!Spec

-----------------------------------------------------------------------------
(* The inductive invariant: a lock keeps its wallet as it was, customers    *)
(* and their wallets correspond, and an answer once given stays true.      *)

\* The status of r is s, perhaps behind a lock.
Underneath(r, s) == r.status = s \/ (r.status = "LOCKED" /\ r.previous = s)

CleanRow(r) ==
    /\ Underneath(r, "AVAILABLE") => Pooled(r)
    /\ Underneath(r, "RESERVED") => OnHold(r)
    /\ r.status = "ABSENT" => Pooled(r)
    /\ r.previous \notin Terminal

OneWalletPerCustomer ==
    \A v, w \in Wallets :
        row[v].customer # Null /\ row[v].customer = row[w].customer => v = w

\* From its second statement on, what an assignment answers is true.
AnswerIsTrue(c) ==
    pc[c] \in {"rereading", "done"} /\ op[c] = "assign" /\ driver = "rows" =>
        /\ who[c] \in Customers
        /\ wallet[c] \in Wallets
        /\ row[wallet[c]].customer = who[c]

PoolInv ==
    /\ TypeOK
    /\ \A w \in Wallets : CleanRow(row[w])
    /\ OneWalletPerCustomer
    /\ \A c \in Calls : AnswerIsTrue(c)
    /\ PairAssignsNothing

=============================================================================
