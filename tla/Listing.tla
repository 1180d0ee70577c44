-------------------------------- MODULE Listing --------------------------------
(***************************************************************************)
(* A client reads one of the paged lists (networks, tokens, wallets,       *)
(* signer jobs) page by page until hasNextPage is false, while other calls *)
(* insert rows, remove them and change the columns the filter looks at.    *)
(*                                                                         *)
(* findAll of every repository is findAndCount: a SELECT of the page and   *)
(* then the total, which may be a second query.  The list is ordered by    *)
(* created_at alone, the start of the inserting transaction: rows may      *)
(* share it, and then their order is the database's, anew in each query.   *)
(***************************************************************************)
EXTENDS Integers, FiniteSetsExt

CONSTANTS
    Rows,       \* all the rows there may ever be
    Limits      \* the page sizes a client may ask for

ASSUME LimitAssumption == Limits \subseteq 1 .. 100

VARIABLES
    createdAt,  \* createdAt[r]: when r was inserted; 0 while it is not there
    matching,   \* the rows that are not removed and that the filter admits
    pc,         \* the client: "idle", "asking", "counting", "done"
    limit,      \* its page size
    page,       \* the page it is at
    data,       \* the rows of that page, from the SELECT
    seen,       \* seen[r]: how often the client was given r
    stayed,     \* the rows that matched ever since the walk began
    grew,       \* did a row join the list since?
    shrank      \* did a row leave it?

client == <<pc, limit, page, data, seen>>
vars == <<createdAt, matching, client, stayed, grew, shrank>>

Init ==
    /\ createdAt = [r \in Rows |-> 0]
    /\ matching = {}
    /\ pc = "idle" /\ limit \in Limits /\ page = 1 /\ data = {}
    /\ seen = [r \in Rows |-> 0]
    /\ stayed = {} /\ grew = FALSE /\ shrank = FALSE

-----------------------------------------------------------------------------
(* The table *)

Latest == Max({createdAt[r] : r \in Rows})

\* A row appears when its transaction commits, perhaps after a younger one.
Insert(r) ==
    /\ createdAt[r] = 0
    /\ \E t \in 1 .. Latest + 1 : createdAt' = [createdAt EXCEPT ![r] = t]
    /\ matching' = matching \cup {r}
    /\ grew' = TRUE
    /\ UNCHANGED <<client, stayed, shrank>>

\* A removal, or a change to a column of the filter.
Leave(r) ==
    /\ matching' = matching \ {r}
    /\ stayed' = stayed \ {r}
    /\ shrank' = TRUE
    /\ UNCHANGED <<createdAt, client, grew>>

Join(r) ==
    /\ createdAt[r] # 0
    /\ matching' = matching \cup {r}
    /\ grew' = TRUE
    /\ UNCHANGED <<createdAt, client, stayed, shrank>>

-----------------------------------------------------------------------------
(* paginate and buildPaginatedResult *)

AtLeastOne(n) == IF n < 1 THEN 1 ELSE n

\* Mutant of Skip: the page size is forgotten.
SkipRows(p, l) == AtLeastOne(p) - 1

Skip(p, l) == (AtLeastOne(p) - 1) * AtLeastOne(l)
Take(l) == AtLeastOne(l)

\* Mutant of TotalPages: the last page is counted only when it is full.
TotalPagesFull(total, l) == total \div l

\* Math.ceil(total / limit)
TotalPages(total, l) == (total + l - 1) \div l

\* Mutant of HasNextPage: off by one.
HasNextPageUpTo(p, pages) == p <= pages

HasNextPage(p, pages) == p < pages

\* The positions ORDER BY created_at DESC may give the rows of S.
Orders(S) ==
    {pos \in Bijection(S, 1 .. Cardinality(S)) :
        \A r, s \in S : createdAt[r] > createdAt[s] => pos[r] < pos[s]}

-----------------------------------------------------------------------------
(* A walk *)

Start ==
    /\ pc = "idle"
    /\ pc' = "asking"
    /\ stayed' = matching
    /\ grew' = FALSE /\ shrank' = FALSE
    /\ UNCHANGED <<createdAt, matching, limit, page, data, seen>>

\* The SELECT with skip and take.
Select ==
    /\ pc = "asking"
    /\ \E pos \in Orders(matching) :
        data' = {r \in matching : pos[r] - Skip(page, limit) \in 1 .. Take(limit)}
    /\ pc' = "counting"
    /\ UNCHANGED <<createdAt, matching, limit, page, seen, stayed, grew, shrank>>

\* What findAndCount may report: a COUNT made after the SELECT, or, from a page
\* that is neither empty nor full, the count that follows from it.
Totals ==
    {Cardinality(matching)} \cup
        {Skip(page, limit) + n : n \in {Cardinality(data)} \cap 1 .. limit - 1}

\* The page is answered; the client asks for the next one if there is one.
Answer ==
    /\ pc = "counting"
    /\ \E total \in Totals :
        IF HasNextPage(page, TotalPages(total, limit))
        THEN pc' = "asking" /\ page' = page + 1
        ELSE pc' = "done" /\ page' = page
    /\ seen' = [r \in Rows |-> IF r \in data THEN seen[r] + 1 ELSE seen[r]]
    /\ data' = {}
    /\ UNCHANGED <<createdAt, matching, limit, stayed, grew, shrank>>

Change(r) == Insert(r) \/ (r \in matching /\ Leave(r)) \/ (r \notin matching /\ Join(r))

Next == Start \/ Select \/ Answer \/ \E r \in Rows : Change(r)

Spec == Init /\ [][Next]_vars

-----------------------------------------------------------------------------

\* No other row was created at the same time as r.
Untied(r) == \A s \in Rows : createdAt[r] # 0 /\ createdAt[s] = createdAt[r] => s = r

\* A walk that is over gave the client every row that matched all the while,
\* unless another row left the list (the rows behind it moved up, past the
\* pages read) or the row itself shares its creation time with another: the
\* ties of other rows, anew in each query, cost it nothing (findAll;
\* hasNextPage).
OmissionsNeedACause ==
    pc = "done" /\ ~shrank => \A r \in stayed : Untied(r) => seen[r] > 0

\* No row is given twice unless another row joined the list (the rows behind it
\* moved down, onto the next page) or the row itself shares its creation time
\* with another (findAll).
RepeatsNeedACause ==
    ~grew => \A r \in Rows : Untied(r) => seen[r] <= 1

\* What the client was given: a pair for each time it was given a row.
Given == UNION {{r} \X (1 .. seen[r]) : r \in Rows}

\* Over a list that does not change, the pages read are those the total calls
\* for, none of them beyond the end, and they hold as many rows as the list
\* has, however ties are broken (paginate; buildPaginatedResult).
StillListIsPaged ==
    pc = "done" /\ ~grew /\ ~shrank =>
        /\ page = Max({1, Min({n \in 0 .. Cardinality(matching) : n * limit >= Cardinality(matching)})})
        /\ Cardinality(Given) = Cardinality(matching)

-----------------------------------------------------------------------------
(* The inductive invariant that ListingProofs proves. *)

TypeInv ==
    /\ createdAt \in [Rows -> Nat]
    /\ matching \subseteq Rows /\ IsFiniteSet(matching)
    /\ \A r \in matching : createdAt[r] # 0
    /\ pc \in {"idle", "asking", "counting", "done"}
    /\ limit \in Limits
    /\ page \in Nat \ {0}
    /\ data \subseteq Rows /\ IsFiniteSet(data)
    /\ seen \in [Rows -> Nat]
    /\ stayed \subseteq matching
    /\ grew \in BOOLEAN /\ shrank \in BOOLEAN
    /\ pc = "idle" => page = 1 /\ stayed = {} /\ \A r \in Rows : seen[r] = 0

\* The position of row r when no other row shares its creation time.
Rank(r) == Cardinality({s \in matching : createdAt[s] >= createdAt[r]})

\* The client has yet to be given row r: it is on a page yet to come.
ToCome(r) ==
    /\ pc = "asking" => Rank(r) > Skip(page, limit)
    /\ pc = "counting" =>
           r \in data \/ (Rank(r) > page * limit /\ Cardinality(data) = limit)
    /\ pc # "done"

OmitInv == ~shrank => \A r \in stayed : Untied(r) /\ seen[r] = 0 => ToCome(r)

\* The client was given row r once at most, on a page it has asked for.
AtMostOnce(r) ==
    /\ seen[r] <= 1
    /\ pc = "asking" /\ r \in matching /\ seen[r] = 1 => Rank(r) <= Skip(page, limit)
    /\ pc = "counting" =>
           /\ r \in data => seen[r] = 0
           /\ r \in matching /\ (r \in data \/ seen[r] = 1) => Rank(r) <= page * limit

RepeatInv == ~grew => \A r \in Rows : Untied(r) => AtMostOnce(r)

\* The pages before this one were full, and this one is as full as it can be.
StillInv ==
    LET n == Cardinality(matching)
        given == Skip(page, limit)
    IN  /\ IsFiniteSet(Given)
        /\ pc # "idle" /\ ~grew /\ ~shrank =>
               /\ page = 1 \/ given < n
               /\ pc \in {"asking", "counting"} => Cardinality(Given) = given
               /\ pc = "counting" =>
                      Cardinality(data) = IF n - given < limit THEN n - given ELSE limit
               /\ pc = "done" => Cardinality(Given) = n /\ n <= page * limit

ListingInv == TypeInv /\ OmitInv /\ RepeatInv /\ StillInv

=============================================================================
