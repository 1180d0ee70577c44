----------------------------- MODULE ListingProofs -----------------------------
(***************************************************************************)
(* What a client that walks a paged list is given, for any rows, any page  *)
(* size and any interleaving with the calls that change the table.         *)
(***************************************************************************)
EXTENDS Listing, FiniteSetTheorems, TLAPS

-----------------------------------------------------------------------------
(* Page arithmetic. *)

\* The rows before the next page are those before this one, and this one's.
LEMMA SkipValue ==
    ASSUME NEW p \in Nat \ {0}, NEW l \in Nat \ {0}
    PROVE  /\ Skip(p, l) \in Nat /\ p * l \in Nat
           /\ Skip(1, l) = 0
           /\ p * l = Skip(p, l) + l
           /\ Skip(p + 1, l) = p * l
BY DEF Skip, AtLeastOne

\* A page is the last one if and only if the rows up to its end are all there are.
LEMMA LastPage ==
    ASSUME NEW p \in Nat \ {0}, NEW l \in Nat \ {0}, NEW total \in Nat
    PROVE  HasNextPage(p, TotalPages(total, l)) <=> p * l < total
BY DEF HasNextPage, TotalPages

LEMMA TimesGrows ==
    ASSUME NEW a \in Nat, NEW b \in Nat, a <= b, NEW l \in Nat \ {0}
    PROVE  a * l <= b * l /\ a <= a * l
OBVIOUS

\* Min and Max are what their names say.
LEMMA MinValue ==
    ASSUME NEW n \in Nat, NEW S \in SUBSET (0 .. n), NEW m \in S, \A i \in S : ~(i < m)
    PROVE  Min(S) = m
<1>1. S \subseteq Int /\ \A i \in S : m <= i
  OBVIOUS
<1>2. \A x \in S : (\A y \in S : x <= y) => x = m
  BY <1>1
<1>3. QED
  BY <1>1, <1>2 DEF Min

LEMMA MaxValue ==
    ASSUME NEW m \in Nat
    PROVE  Max({1, m}) = IF m = 0 THEN 1 ELSE m
<1>1. \E x \in {1, m} : \A y \in {1, m} : x >= y
  <2>1. CASE m = 0
    BY <2>1
  <2>2. CASE m # 0
    BY <2>2
  <2>3. QED
    BY <2>1, <2>2
<1>2. QED
  BY <1>1 DEF Max

-----------------------------------------------------------------------------
(* Positions in a list. *)

\* An order of a finite set gives each row a position of its own, and each
\* position a row.
LEMMA OrderFacts ==
    ASSUME NEW S, IsFiniteSet(S), NEW pos \in Orders(S)
    PROVE  /\ Cardinality(S) \in Nat
           /\ \A r \in S : pos[r] \in 1 .. Cardinality(S)
           /\ \A r, s \in S : pos[r] = pos[s] => r = s
           /\ \A i \in 1 .. Cardinality(S) : \E r \in S : pos[r] = i
           /\ \A r, s \in S : createdAt[r] > createdAt[s] => pos[r] < pos[s]
BY FS_CardinalityType DEF Orders, Bijection, Injection, Surjection, IsInjective

\* As many rows lie at the positions a + 1 .. b as there are such positions.
LEMMA RowsBetween ==
    ASSUME NEW S, IsFiniteSet(S), NEW pos \in Orders(S),
           NEW a \in Nat, NEW b \in Nat, b <= Cardinality(S), NEW T,
           T = {r \in S : pos[r] \in a + 1 .. b}
    PROVE  IsFiniteSet(T) /\ Cardinality(T) = IF a + 1 > b THEN 0 ELSE b - a
<1> DEFINE I == a + 1 .. b
           f == [r \in T |-> pos[r]]
<1>1. IsFiniteSet(T)
  BY FS_Subset
<1>2. ASSUME NEW i \in I PROVE \E r \in T : f[r] = i
  <2>1. i \in 1 .. Cardinality(S)
    BY OrderFacts
  <2>2. PICK r \in S : pos[r] = i
    BY <2>1, OrderFacts
  <2>3. QED
    BY <2>2
<1>3. f \in Bijection(T, I)
  BY <1>2, OrderFacts DEF Bijection, Injection, Surjection, IsInjective
<1>4. ExistsBijection(T, I)
  BY <1>3 DEF ExistsBijection
<1>5. Cardinality(I) = Cardinality(T)
  BY <1>1, <1>4, FS_Bijection
<1>6. Cardinality(I) = IF a + 1 > b THEN 0 ELSE b - (a + 1) + 1
  BY FS_Interval
<1>7. QED
  BY <1>1, <1>5, <1>6

\* The position of an untied row is its rank, whatever order is chosen.
LEMMA PositionIsRank ==
    ASSUME TypeInv, NEW pos \in Orders(matching), NEW r \in matching, Untied(r)
    PROVE  pos[r] = Rank(r)
<1> DEFINE T == {s \in matching : createdAt[s] >= createdAt[r]}
<1>1. IsFiniteSet(matching)
  BY DEF TypeInv
<1>2. pos[r] \in 1 .. Cardinality(matching) /\ Cardinality(matching) \in Nat
  BY <1>1, OrderFacts
<1>3. ASSUME NEW s \in matching
      PROVE  createdAt[s] >= createdAt[r] <=> pos[s] \in 0 + 1 .. pos[r]
  <2>1. /\ createdAt[r] \in Nat /\ createdAt[s] \in Nat
        /\ pos[s] \in 1 .. Cardinality(matching)
    BY <1>1, OrderFacts DEF TypeInv
  <2>2. CASE s = r
    BY <1>2, <2>1, <2>2
  <2>3. CASE createdAt[s] > createdAt[r]
    BY <1>1, <1>2, <2>1, <2>3, OrderFacts
  <2>4. CASE createdAt[s] < createdAt[r]
    BY <1>1, <1>2, <2>1, <2>4, OrderFacts
  <2>5. createdAt[s] = createdAt[r] => s = r
    BY DEF TypeInv, Untied
  <2>6. QED
    BY <2>1, <2>2, <2>3, <2>4, <2>5
<1>4. T = {s \in matching : pos[s] \in 0 + 1 .. pos[r]}
  BY <1>3
<1>5. Cardinality(T) = IF 0 + 1 > pos[r] THEN 0 ELSE pos[r] - 0
  BY <1>1, <1>2, <1>4, RowsBetween
<1>6. QED
  BY <1>2, <1>5 DEF Rank

PageOf(pos, skip, take) == {r \in matching : pos[r] - skip \in 1 .. take}

\* The page of a list holds the rows at its positions, as many as there are.
LEMMA PageFacts ==
    ASSUME TypeInv, NEW pos \in Orders(matching), NEW skip \in Nat, NEW take \in Nat
    PROVE  LET n == Cardinality(matching)
               D == PageOf(pos, skip, take)
           IN
           /\ n \in Nat
           /\ \A r \in matching : pos[r] \in 1 .. n
           /\ \A r \in matching : r \in D <=> skip < pos[r] /\ pos[r] <= skip + take
           /\ skip <= n => Cardinality(D) = IF n - skip < take THEN n - skip ELSE take
<1> DEFINE n == Cardinality(matching)
           D == PageOf(pos, skip, take)
           b == IF n - skip < take THEN n ELSE skip + take
<1>1. IsFiniteSet(matching)
  BY DEF TypeInv
<1>2. n \in Nat /\ \A r \in matching : pos[r] \in 1 .. n
  BY <1>1, OrderFacts
<1>3. \A r \in matching : r \in D <=> skip < pos[r] /\ pos[r] <= skip + take
  BY <1>2 DEF PageOf
<1>4. D \subseteq matching
  BY DEF PageOf
<1>5. CASE skip <= n
  <2>1. b \in Nat /\ b <= n
    BY <1>2, <1>5
  <2>2. D = {r \in matching : pos[r] \in skip + 1 .. b}
    BY <1>2, <1>3, <1>4, <1>5
  <2>3. Cardinality(D) = IF skip + 1 > b THEN 0 ELSE b - skip
    BY <1>1, <2>1, <2>2, RowsBetween
  <2>4. QED
    BY <1>2, <1>3, <1>4, <1>5, <2>3
<1>6. QED
  BY <1>2, <1>3, <1>4, <1>5

\* A row's rank is between 1 and the length of the list.
LEMMA RankBounds ==
    ASSUME TypeInv, NEW r \in matching
    PROVE  /\ Rank(r) \in Nat /\ Rank(r) >= 1
           /\ Cardinality(matching) \in Nat /\ Rank(r) <= Cardinality(matching)
<1> DEFINE T == {s \in matching : createdAt[s] >= createdAt[r]}
<1>1. /\ IsFiniteSet(T) /\ Cardinality(T) \in Nat /\ Cardinality(matching) \in Nat
      /\ Cardinality(T) <= Cardinality(matching)
  BY FS_Subset, FS_CardinalityType DEF TypeInv
<1>2. r \in T
  BY DEF TypeInv
<1>3. Cardinality(T) # 0
  BY <1>1, <1>2, FS_EmptySet
<1>4. QED
  BY <1>1, <1>3 DEF Rank

-----------------------------------------------------------------------------
(* What the client was given. *)

LEMMA LimitIsPositive == TypeInv => limit \in Nat \ {0}
BY LimitAssumption DEF TypeInv

\* The pairs that f counts.
LEMMA Pairs ==
    ASSUME NEW f, NEW x
    PROVE  x \in UNION {{r} \X (1 .. f[r]) : r \in Rows}
               <=> \E r \in Rows : \E i \in 1 .. f[r] : x = <<r, i>>
OBVIOUS

\* A page gives the client each of its rows once more.
LEMMA GivenGrows ==
    ASSUME TypeInv, IsFiniteSet(Given),
           seen' = [r \in Rows |-> IF r \in data THEN seen[r] + 1 ELSE seen[r]]
    PROVE  /\ IsFiniteSet(Given') /\ Cardinality(Given) \in Nat
           /\ Cardinality(Given') = Cardinality(Given) + Cardinality(data)
<1> DEFINE Last(r) == <<r, seen[r] + 1>>
           New == {Last(r) : r \in data}
           f == [r \in data |-> Last(r)]
<1>1. IsFiniteSet(data) /\ data \subseteq Rows /\ seen \in [Rows -> Nat]
  BY DEF TypeInv
<1>2. f \in Bijection(data, New)
  BY DEF Bijection, Injection, Surjection, IsInjective
<1>3. IsFiniteSet(New) /\ Cardinality(New) = Cardinality(data)
  BY <1>1, <1>2, FS_Bijection DEF ExistsBijection
<1>4. Given' = Given \cup New
  <2>1. ASSUME NEW x, x \in Given' PROVE x \in Given \cup New
    <3>1. PICK r \in Rows : \E i \in 1 .. seen'[r] : x = <<r, i>>
      BY <2>1, Pairs DEF Given
    <3>2. PICK i \in 1 .. seen'[r] : x = <<r, i>>
      BY <3>1
    <3>3. i \in 1 .. seen[r] \/ (r \in data /\ i = seen[r] + 1)
      BY <1>1
    <3>4. i \in 1 .. seen[r] => x \in Given
      BY <3>2, Pairs DEF Given
    <3>5. QED
      BY <3>2, <3>3, <3>4
  <2>2. ASSUME NEW x, x \in Given PROVE x \in Given'
    <3>1. PICK r \in Rows : \E i \in 1 .. seen[r] : x = <<r, i>>
      BY <2>2, Pairs DEF Given
    <3>2. PICK i \in 1 .. seen[r] : x = <<r, i>>
      BY <3>1
    <3>3. i \in 1 .. seen'[r]
      BY <1>1
    <3>4. QED
      BY <3>2, <3>3, Pairs DEF Given
  <2>3. ASSUME NEW x, x \in New PROVE x \in Given'
    <3>1. PICK r \in data : x = <<r, seen[r] + 1>>
      BY <2>3
    <3>2. seen[r] + 1 \in 1 .. seen'[r]
      BY <1>1
    <3>3. QED
      BY <1>1, <3>1, <3>2, Pairs DEF Given
  <2>4. QED
    BY <2>1, <2>2, <2>3
<1>5. Given \cap New = {}
  <2> SUFFICES ASSUME NEW x, x \in Given, x \in New PROVE FALSE
    OBVIOUS
  <2>1. PICK r \in Rows : \E i \in 1 .. seen[r] : x = <<r, i>>
    BY Pairs DEF Given
  <2>2. PICK i \in 1 .. seen[r] : x = <<r, i>>
    BY <2>1
  <2>3. PICK s \in data : x = <<s, seen[s] + 1>>
    OBVIOUS
  <2>4. r = s /\ i = seen[r] + 1
    BY <2>2, <2>3
  <2>5. QED
    BY <1>1, <2>2, <2>4
<1> HIDE DEF New
<1>6. /\ Cardinality(Given \cap New) = 0
      /\ Cardinality(Given) \in Nat /\ Cardinality(New) \in Nat
  BY <1>3, <1>5, FS_EmptySet, FS_CardinalityType
<1>7. /\ IsFiniteSet(Given \cup New)
      /\ Cardinality(Given \cup New)
             = Cardinality(Given) + Cardinality(New) - Cardinality(Given \cap New)
  BY <1>3, FS_Union
<1>8. QED
  BY <1>3, <1>4, <1>6, <1>7

-----------------------------------------------------------------------------
(* Types. *)

LEMMA TypeInit == Init => TypeInv
<1> SUFFICES ASSUME Init PROVE TypeInv
  OBVIOUS
<1>1. IsFiniteSet(matching) /\ IsFiniteSet(data)
  BY FS_EmptySet DEF Init
<1>2. createdAt \in [Rows -> Nat] /\ seen \in [Rows -> Nat] /\ \A r \in Rows : seen[r] = 0
  BY DEF Init
<1>3. /\ matching \subseteq Rows /\ data \subseteq Rows /\ stayed \subseteq matching
      /\ \A r \in matching : createdAt[r] # 0
  BY DEF Init
<1>4. pc = "idle" /\ limit \in Limits /\ page \in Nat \ {0} /\ page = 1 /\ stayed = {}
  BY DEF Init
<1>5. grew \in BOOLEAN /\ shrank \in BOOLEAN
  BY DEF Init
<1>6. QED
  BY <1>1, <1>2, <1>3, <1>4, <1>5 DEF TypeInv

LEMMA TypeStep == TypeInv /\ [Next]_vars => TypeInv'
<1> SUFFICES ASSUME TypeInv, [Next]_vars PROVE TypeInv'
  OBVIOUS
<1>1. ASSUME NEW r \in Rows, Insert(r) PROVE TypeInv'
  <2>1. PICK t \in 1 .. Latest + 1 : createdAt' = [createdAt EXCEPT ![r] = t]
    BY <1>1 DEF Insert
  <2>2. t \in Nat /\ t # 0
    BY <2>1
  <2>3. IsFiniteSet(matching')
    BY <1>1, FS_AddElement DEF Insert, TypeInv
  <2>4. QED
    BY <1>1, <2>1, <2>2, <2>3 DEF Insert, TypeInv, client
<1>2. ASSUME NEW r \in Rows, Leave(r) PROVE TypeInv'
  <2>1. IsFiniteSet(matching')
    BY <1>2, FS_RemoveElement DEF Leave, TypeInv
  <2>2. QED
    BY <1>2, <2>1 DEF Leave, TypeInv, client
<1>3. ASSUME NEW r \in Rows, Join(r) PROVE TypeInv'
  <2>1. IsFiniteSet(matching')
    BY <1>3, FS_AddElement DEF Join, TypeInv
  <2>2. QED
    BY <1>3, <2>1 DEF Join, TypeInv, client
<1>4. CASE Start
  BY <1>4 DEF Start, TypeInv
<1>5. CASE Select
  <2>1. data' \subseteq matching
    BY <1>5 DEF Select
  <2>2. IsFiniteSet(data')
    BY <2>1, FS_Subset DEF TypeInv
  <2>3. QED
    BY <1>5, <2>1, <2>2 DEF Select, TypeInv
<1>6. CASE Answer
  <2>1. /\ page' \in Nat \ {0} /\ pc' \in {"asking", "done"}
        /\ seen' \in [Rows -> Nat] /\ data' = {}
    BY <1>6 DEF Answer, TypeInv
  <2>2. QED
    BY <1>6, <2>1, FS_EmptySet DEF Answer, TypeInv
<1>7. CASE UNCHANGED vars
  BY <1>7 DEF vars, client, TypeInv
<1>8. QED
  BY <1>1, <1>2, <1>3, <1>4, <1>5, <1>6, <1>7 DEF Next, Change

-----------------------------------------------------------------------------
(* How ranks move. *)

\* Rows keep their creation time, so a tie is for ever.
LEMMA TiesRemain ==
    ASSUME TypeInv, [Next]_vars, NEW q \in Rows, Untied(q)'
    PROVE  Untied(q)
<1>1. ASSUME NEW r \in Rows, createdAt[r] # 0 PROVE createdAt'[r] = createdAt[r]
  BY <1>1
     DEF Next, Change, Insert, Leave, Join, Start, Select, Answer, vars, TypeInv
<1>2. QED
  BY <1>1 DEF Untied

\* A row that joins moves others down the list, if it moves them at all.
LEMMA RankGrows ==
    ASSUME TypeInv, TypeInv', NEW x \in Rows, Insert(x) \/ Join(x), NEW r \in matching
    PROVE  Rank(r)' \in Nat /\ Rank(r) \in Nat /\ Rank(r)' >= Rank(r)
<1> DEFINE T == {s \in matching : createdAt[s] >= createdAt[r]}
           U == {s \in matching' : createdAt'[s] >= createdAt'[r]}
<1>1. \A s \in matching : s \in matching' /\ createdAt'[s] = createdAt[s]
  BY DEF Insert, Join, TypeInv
<1>2. T \subseteq U
  BY <1>1
<1>3. IsFiniteSet(U)
  BY FS_Subset DEF TypeInv
<1>4. Cardinality(T) <= Cardinality(U) /\ Cardinality(T) \in Nat /\ Cardinality(U) \in Nat
  BY <1>2, <1>3, FS_Subset, FS_CardinalityType
<1>5. QED
  BY <1>4 DEF Rank

\* A row that leaves moves others up.
LEMMA RankShrinks ==
    ASSUME TypeInv, TypeInv', NEW x \in Rows, Leave(x), NEW r \in matching
    PROVE  Rank(r)' \in Nat /\ Rank(r) \in Nat /\ Rank(r)' <= Rank(r)
<1> DEFINE T == {s \in matching : createdAt[s] >= createdAt[r]}
           U == {s \in matching' : createdAt'[s] >= createdAt'[r]}
<1>1. U \subseteq T
  BY DEF Leave
<1>2. IsFiniteSet(T)
  BY FS_Subset DEF TypeInv
<1>3. Cardinality(U) <= Cardinality(T) /\ Cardinality(T) \in Nat /\ Cardinality(U) \in Nat
  BY <1>1, <1>2, FS_Subset, FS_CardinalityType
<1>4. QED
  BY <1>3 DEF Rank

\* What the page SELECT reads.
LEMMA Selected ==
    ASSUME TypeInv, Select
    PROVE  LET n == Cardinality(matching)
               given == Skip(page, limit)
           IN  /\ n \in Nat /\ given \in Nat
               /\ data' \subseteq matching
               /\ given <= n =>
                      Cardinality(data') = IF n - given < limit THEN n - given ELSE limit
               /\ \A r \in matching : Untied(r) =>
                      (r \in data' <=> given < Rank(r) /\ Rank(r) <= page * limit)
<1>1. PICK pos \in Orders(matching) :
          data' = {r \in matching : pos[r] - Skip(page, limit) \in 1 .. Take(limit)}
  BY DEF Select
<1>2. limit \in Nat \ {0} /\ page \in Nat \ {0}
  BY LimitIsPositive DEF TypeInv
<1>3. PICK given, take : given = Skip(page, limit) /\ take = limit
  OBVIOUS
<1>4. given \in Nat /\ take \in Nat /\ Take(limit) = take /\ page * limit = given + take
  BY <1>2, <1>3, SkipValue DEF Take, AtLeastOne
<1>5. data' = PageOf(pos, given, take) /\ data' \subseteq matching
  BY <1>1, <1>3, <1>4 DEF PageOf
<1>6. /\ Cardinality(matching) \in Nat
      /\ \A r \in matching : r \in data' <=> given < pos[r] /\ pos[r] <= given + take
      /\ given <= Cardinality(matching) =>
             Cardinality(data') = IF Cardinality(matching) - given < take
                                  THEN Cardinality(matching) - given ELSE take
  BY <1>4, <1>5, PageFacts
<1>7. \A r \in matching : Untied(r) => pos[r] = Rank(r)
  BY PositionIsRank
<1>8. \A r \in matching : Untied(r) =>
          (r \in data' <=> given < Rank(r) /\ Rank(r) <= page * limit)
  BY <1>4, <1>6, <1>7
<1>9. QED
  BY <1>3, <1>4, <1>5, <1>6, <1>8

\* What the answer says of the total.
LEMMA Answered ==
    ASSUME TypeInv, Answer
    PROVE  \E total \in Totals :
               /\ total \in Nat
               /\ \/ pc' = "asking" /\ page' = page + 1 /\ page * limit < total
                  \/ pc' = "done" /\ page' = page /\ total <= page * limit
<1>1. PICK total \in Totals :
          IF HasNextPage(page, TotalPages(total, limit))
          THEN pc' = "asking" /\ page' = page + 1
          ELSE pc' = "done" /\ page' = page
  BY DEF Answer
<1>2. limit \in Nat \ {0} /\ page \in Nat \ {0}
  BY LimitIsPositive DEF TypeInv
<1>3. Skip(page, limit) \in Nat /\ page * limit \in Nat
  BY <1>2, SkipValue
<1>4. total \in Nat
  BY <1>2, <1>3, FS_CardinalityType DEF Totals, TypeInv
<1>5. QED
  BY <1>1, <1>2, <1>3, <1>4, LastPage

-----------------------------------------------------------------------------
(* The invariant. *)

LEMMA PageNumbers ==
    ASSUME TypeInv
    PROVE  /\ limit \in Nat \ {0} /\ page \in Nat \ {0}
           /\ Skip(page, limit) \in Nat /\ page * limit = Skip(page, limit) + limit
           /\ page = 1 => Skip(page, limit) = 0
           /\ Skip(page + 1, limit) = page * limit
<1>1. limit \in Nat \ {0} /\ page \in Nat \ {0}
  BY LimitIsPositive DEF TypeInv
<1>2. QED
  BY <1>1, SkipValue

\* No row that stayed is passed over: it is on a page that is yet to come or,
\* once its page is read, on that page.
LEMMA OmitStep == TypeInv /\ TypeInv' /\ OmitInv /\ [Next]_vars => OmitInv'
<1> SUFFICES ASSUME TypeInv, TypeInv', OmitInv, [Next]_vars, ~shrank',
                    NEW r \in Rows, r \in stayed', Untied(r)', seen'[r] = 0
             PROVE  ToCome(r)'
  BY DEF OmitInv, TypeInv
<1>1. Untied(r)
  BY TiesRemain
<1>2. r \in stayed /\ seen[r] = 0 /\ ~shrank => ToCome(r)
  BY <1>1 DEF OmitInv
<1>3. ASSUME NEW x \in Rows, Change(x) PROVE ToCome(r)'
  <2>1. Insert(x) \/ Join(x)
    BY <1>3 DEF Change, Leave
  <2>2. /\ r \in stayed /\ seen[r] = 0 /\ ~shrank
        /\ pc' = pc /\ limit' = limit /\ page' = page /\ data' = data
    BY <2>1 DEF Insert, Join, client
  <2>3. r \in matching
    BY <2>2 DEF TypeInv
  <2>4. Rank(r)' \in Nat /\ Rank(r) \in Nat /\ Rank(r)' >= Rank(r)
    BY <2>1, <2>3, RankGrows
  <2>5. QED
    BY <1>2, <2>2, <2>4, PageNumbers DEF ToCome
<1>4. CASE Start
  <2>1. r \in matching' /\ pc' = "asking" /\ page' = 1 /\ limit' = limit
    BY <1>4 DEF Start, TypeInv
  <2>2. Rank(r)' \in Nat /\ Rank(r)' >= 1
    BY <1>4, <2>1, RankBounds DEF Start, Rank
  <2>3. Skip(page, limit)' = 0
    BY <1>4, PageNumbers DEF Start, TypeInv
  <2>4. QED
    BY <2>1, <2>2, <2>3 DEF ToCome
<1>5. CASE Select
  <2>1. /\ r \in stayed /\ r \in matching /\ seen[r] = 0 /\ ~shrank
        /\ pc = "asking" /\ pc' = "counting" /\ page' = page /\ limit' = limit
        /\ createdAt' = createdAt /\ matching' = matching
    BY <1>5 DEF Select, TypeInv
  <2>2. Rank(r) > Skip(page, limit)
    BY <1>2, <2>1 DEF ToCome
  <2>3. /\ Rank(r) \in Nat /\ Cardinality(matching) \in Nat
        /\ Rank(r) <= Cardinality(matching)
    BY <2>1, RankBounds
  <2>4. r \in data' \/ (Rank(r) > page * limit /\ Cardinality(data') = limit)
    BY <1>1, <1>5, <2>1, <2>2, <2>3, PageNumbers, Selected
  <2>5. QED
    BY <2>1, <2>4 DEF ToCome, Rank
<1>6. CASE Answer
  <2>1. /\ r \in stayed /\ r \in matching /\ ~shrank /\ seen[r] = 0 /\ r \notin data
        /\ pc = "counting" /\ limit' = limit
        /\ createdAt' = createdAt /\ matching' = matching
    BY <1>6 DEF Answer, TypeInv
  <2>2. Rank(r) > page * limit /\ Cardinality(data) = limit
    BY <1>2, <2>1 DEF ToCome
  <2>3. /\ Rank(r) \in Nat /\ Cardinality(matching) \in Nat
        /\ Rank(r) <= Cardinality(matching)
    BY <2>1, RankBounds
  <2>4. Totals = {Cardinality(matching)}
    BY <2>2, PageNumbers DEF Totals
  <2>5. pc' = "asking" /\ page' = page + 1
    BY <1>6, <2>2, <2>3, <2>4, PageNumbers, Answered
  <2>6. Skip(page, limit)' = page * limit
    BY <2>1, <2>5, PageNumbers
  <2>7. QED
    BY <2>1, <2>2, <2>5, <2>6 DEF ToCome, Rank
<1>7. CASE UNCHANGED vars
  BY <1>2, <1>7 DEF vars, client, ToCome, Rank
<1>8. QED
  BY <1>3, <1>4, <1>5, <1>6, <1>7 DEF Next

\* The rows given so far, those that still match, do not move down the list.
LEMMA RepeatStep == TypeInv /\ TypeInv' /\ RepeatInv /\ [Next]_vars => RepeatInv'
<1> SUFFICES ASSUME TypeInv, TypeInv', RepeatInv, [Next]_vars, ~grew',
                    NEW r \in Rows, Untied(r)'
             PROVE  AtMostOnce(r)'
  BY DEF RepeatInv
<1>1. Untied(r)
  BY TiesRemain
<1>2. ~grew => AtMostOnce(r)
  BY <1>1 DEF RepeatInv
<1>3. seen[r] \in Nat
  BY DEF TypeInv
<1>4. ASSUME NEW x \in Rows, Change(x) PROVE AtMostOnce(r)'
  <2>1. Leave(x) /\ ~grew
    BY <1>4 DEF Change, Insert, Join, Leave
  <2>2. /\ pc' = pc /\ limit' = limit /\ page' = page /\ data' = data /\ seen' = seen
        /\ matching' \subseteq matching
    BY <2>1 DEF Leave, client
  <2>3. r \in matching => Rank(r)' \in Nat /\ Rank(r) \in Nat /\ Rank(r)' <= Rank(r)
    BY <2>1, RankShrinks
  <2>4. QED
    BY <1>2, <2>1, <2>2, <2>3, PageNumbers DEF AtMostOnce
<1>5. CASE Start
  <2>1. pc' = "asking" /\ seen'[r] = 0
    BY <1>5 DEF Start, TypeInv
  <2>2. QED
    BY <2>1 DEF AtMostOnce
<1>6. CASE Select
  <2>1. /\ pc = "asking" /\ pc' = "counting" /\ ~grew /\ page' = page /\ limit' = limit
        /\ seen' = seen /\ createdAt' = createdAt /\ matching' = matching
    BY <1>6 DEF Select
  <2>2. seen[r] <= 1 /\ (r \in matching /\ seen[r] = 1 => Rank(r) <= Skip(page, limit))
    BY <1>2, <2>1 DEF AtMostOnce
  <2>3. r \in matching => Rank(r) \in Nat
    BY RankBounds
  <2>4. /\ r \in data' => r \in matching
        /\ r \in matching => (r \in data' <=> Skip(page, limit) < Rank(r) /\ Rank(r) <= page * limit)
    BY <1>1, <1>6, Selected
  <2>5. /\ r \in data' => seen[r] = 0
        /\ r \in matching /\ (r \in data' \/ seen[r] = 1) => Rank(r) <= page * limit
    BY <1>3, <2>2, <2>3, <2>4, PageNumbers
  <2>6. QED
    BY <2>1, <2>2, <2>5 DEF AtMostOnce, Rank
<1>7. CASE Answer
  <2>1. /\ pc = "counting" /\ ~grew /\ limit' = limit /\ pc' \in {"asking", "done"}
        /\ createdAt' = createdAt /\ matching' = matching
        /\ seen'[r] = IF r \in data THEN seen[r] + 1 ELSE seen[r]
    BY <1>7 DEF Answer
  <2>2. /\ seen[r] <= 1 /\ (r \in data => seen[r] = 0)
        /\ r \in matching /\ (r \in data \/ seen[r] = 1) => Rank(r) <= page * limit
    BY <1>2, <2>1 DEF AtMostOnce
  <2>3. seen'[r] <= 1 /\ (seen'[r] = 1 => r \in data \/ seen[r] = 1)
    BY <1>3, <2>1, <2>2
  <2>4. pc' = "asking" => Skip(page, limit)' = page * limit
    BY <1>7, <2>1, PageNumbers, Answered
  <2>5. QED
    BY <2>1, <2>2, <2>3, <2>4 DEF AtMostOnce, Rank
<1>8. CASE UNCHANGED vars
  BY <1>2, <1>8 DEF vars, client, AtMostOnce, Rank
<1>9. QED
  BY <1>4, <1>5, <1>6, <1>7, <1>8 DEF Next

\* Over a list that does not change, the pages asked for so far were full.
LEMMA StillStep == TypeInv /\ TypeInv' /\ StillInv /\ [Next]_vars => StillInv'
<1> SUFFICES ASSUME TypeInv, TypeInv', StillInv, [Next]_vars PROVE StillInv'
  OBVIOUS
<1> DEFINE n == Cardinality(matching)
           given == Skip(page, limit)
           Still == pc # "idle" /\ ~grew /\ ~shrank
<1>1. IsFiniteSet(Given) /\ n \in Nat /\ IsFiniteSet(data) /\ Cardinality(data) \in Nat
  BY FS_CardinalityType DEF StillInv, TypeInv
<1>2. ASSUME NEW x \in Rows, Change(x) PROVE StillInv'
  <2>1. seen' = seen /\ (grew' \/ shrank')
    BY <1>2 DEF Change, Insert, Join, Leave, client
  <2>2. QED
    BY <1>1, <2>1 DEF StillInv, Given
<1>3. CASE Start
  <2>1. seen' = seen /\ pc' = "asking" /\ page' = 1 /\ limit' = limit
    BY <1>3 DEF Start, TypeInv
  <2>2. Given = {}
    <3>1. \A r \in Rows : seen[r] = 0
      BY <1>3 DEF Start, TypeInv
    <3>2. ASSUME NEW x \in Given PROVE FALSE
      <4>1. PICK r \in Rows : \E i \in 1 .. seen[r] : x = <<r, i>>
        BY Pairs DEF Given
      <4>2. QED
        BY <3>1, <4>1
    <3>3. QED
      BY <3>2
  <2>3. IsFiniteSet(Given)' /\ Cardinality(Given)' = 0
    BY <2>1, <2>2, FS_EmptySet DEF Given
  <2>4. Skip(page, limit)' = 0
    BY <1>3, <2>1, PageNumbers DEF Start, TypeInv
  <2>5. QED
    BY <2>1, <2>3, <2>4 DEF StillInv
<1>4. CASE Select
  <2>1. /\ pc = "asking" /\ pc' = "counting" /\ page' = page /\ limit' = limit
        /\ seen' = seen /\ matching' = matching /\ grew' = grew /\ shrank' = shrank
    BY <1>4 DEF Select
  <2>2. Still => (page = 1 \/ given < n) /\ Cardinality(Given) = given
    BY <2>1 DEF StillInv
  <2>3. given <= n => Cardinality(data') = IF n - given < limit THEN n - given ELSE limit
    BY <1>4, Selected
  <2>4. Still => given <= n
    BY <1>1, <2>2, PageNumbers
  <2>5. QED
    BY <1>1, <2>1, <2>2, <2>3, <2>4 DEF StillInv, Given
<1>5. CASE Answer
  <2>1. /\ pc = "counting" /\ limit' = limit
        /\ matching' = matching /\ grew' = grew /\ shrank' = shrank
        /\ seen' = [r \in Rows |-> IF r \in data THEN seen[r] + 1 ELSE seen[r]]
    BY <1>5 DEF Answer
  <2>2. /\ IsFiniteSet(Given') /\ Cardinality(Given) \in Nat
        /\ Cardinality(Given') = Cardinality(Given) + Cardinality(data)
    BY <1>1, <2>1, GivenGrows
  <2> SUFFICES ASSUME Still
               PROVE  /\ page' = 1 \/ Skip(page, limit)' < n
                      /\ pc' = "asking" => Cardinality(Given') = Skip(page, limit)'
                      /\ pc' = "done" => Cardinality(Given') = n /\ n <= (page * limit)'
                      /\ pc' \in {"asking", "done"}
    BY <2>1, <2>2 DEF StillInv
  <2>3. /\ page = 1 \/ given < n
        /\ Cardinality(Given) = given
        /\ Cardinality(data) = IF n - given < limit THEN n - given ELSE limit
    BY <2>1 DEF StillInv
  <2>4. \A total \in Totals : total = n
    BY <1>1, <2>3, PageNumbers DEF Totals
  <2>5. \/ pc' = "asking" /\ page' = page + 1 /\ page * limit < n
        \/ pc' = "done" /\ page' = page /\ n <= page * limit
    BY <1>5, <2>4, Answered
  <2>6. CASE pc' = "asking"
    <3>1. Skip(page, limit)' = page * limit
      BY <2>1, <2>5, <2>6, PageNumbers
    <3>2. QED
      BY <1>1, <2>2, <2>3, <2>5, <2>6, <3>1, PageNumbers
  <2>7. CASE pc' = "done"
    <3>1. Skip(page, limit)' = given
      BY <2>1, <2>5, <2>7
    <3>2. Cardinality(Given') = n
      BY <1>1, <2>2, <2>3, <2>5, <2>7, PageNumbers
    <3>3. QED
      BY <2>1, <2>3, <2>5, <2>7, <3>1, <3>2
  <2>8. QED
    BY <2>5, <2>6, <2>7
<1>6. CASE UNCHANGED vars
  BY <1>6 DEF vars, client, StillInv, Given
<1>7. QED
  BY <1>2, <1>3, <1>4, <1>5, <1>6 DEF Next

LEMMA ListingInit == Init => ListingInv
<1> SUFFICES ASSUME Init PROVE ListingInv
  OBVIOUS
<1>1. TypeInv
  BY TypeInit
<1>2. OmitInv
  BY DEF Init, OmitInv
<1>3. RepeatInv
  BY DEF Init, RepeatInv, AtMostOnce
<1>4. Given = {}
  <2>1. ASSUME NEW x \in Given PROVE FALSE
    <3>1. PICK r \in Rows : \E i \in 1 .. seen[r] : x = <<r, i>>
      BY Pairs DEF Given
    <3>2. QED
      BY <3>1 DEF Init
  <2>2. QED
    BY <2>1
<1>5. StillInv
  BY <1>4, FS_EmptySet DEF Init, StillInv
<1>6. QED
  BY <1>1, <1>2, <1>3, <1>5 DEF ListingInv

LEMMA ListingStep == ListingInv /\ [Next]_vars => ListingInv'
BY TypeStep, OmitStep, RepeatStep, StillStep DEF ListingInv

LEMMA ListingIsInductive == Spec => []ListingInv
BY ListingInit, ListingStep, PTL DEF Spec

-----------------------------------------------------------------------------
(* The theorems. *)

\* A client that has read every page was given every row that matched all the
\* while, unless another row left the list or its own creation time ties (findAll).
THEOREM OmissionsAreCaused == Spec => []OmissionsNeedACause
<1>1. ListingInv => OmissionsNeedACause
  <2> SUFFICES ASSUME ListingInv, pc = "done", ~shrank, NEW r \in stayed, Untied(r)
               PROVE  seen[r] > 0
    BY DEF OmissionsNeedACause
  <2>1. seen[r] \in Nat
    BY DEF ListingInv, TypeInv
  <2>2. seen[r] # 0
    BY DEF ListingInv, OmitInv, ToCome
  <2>3. QED
    BY <2>1, <2>2
<1>2. QED
  BY <1>1, ListingIsInductive, PTL

\* No row is given twice unless another row joined the list or its own creation
\* time ties (findAll).
THEOREM RepeatsAreCaused == Spec => []RepeatsNeedACause
<1>1. ListingInv => RepeatsNeedACause
  BY DEF ListingInv, RepeatInv, AtMostOnce, RepeatsNeedACause
<1>2. QED
  BY <1>1, ListingIsInductive, PTL

\* Over a list that does not change, the client reads the pages its length calls
\* for and no other, and is given as many rows as it has, ties or no ties
\* (paginate; buildPaginatedResult).
THEOREM StillListsArePaged == Spec => []StillListIsPaged
<1>1. ListingInv => StillListIsPaged
  <2> DEFINE n == Cardinality(matching)
             S == {i \in 0 .. n : i * limit >= n}
  <2> SUFFICES ASSUME ListingInv, pc = "done", ~grew, ~shrank
               PROVE  page = Max({1, Min(S)}) /\ Cardinality(Given) = n
    BY DEF StillListIsPaged
  <2>1. /\ TypeInv /\ n \in Nat
        /\ page = 1 \/ Skip(page, limit) < n
        /\ Cardinality(Given) = n /\ n <= page * limit
    BY FS_CardinalityType DEF ListingInv, StillInv, TypeInv
  <2>2. /\ limit \in Nat \ {0} /\ page \in Nat \ {0}
        /\ page * limit = Skip(page, limit) + limit
    BY <2>1, PageNumbers
  <2>3. \A i \in S : i * limit \in Nat /\ i * limit >= n
    BY <2>2
  <2>4. CASE n = 0
    <3>1. 0 \in S
      BY <2>2, <2>4
    <3>2. Min(S) = 0
      <4>1. \A i \in S : ~(i < 0)
        OBVIOUS
      <4>2. QED
        BY <2>1, <3>1, <4>1, MinValue
    <3>3. page = 1
      BY <2>1, <2>2, <2>4, SkipValue
    <3>4. QED
      BY <2>1, <3>2, <3>3, MaxValue
  <2>5. CASE n # 0
    <3>1. Skip(page, limit) = (page - 1) * limit
      BY <2>2 DEF Skip, AtLeastOne
    <3>2. page <= n
      <4>1. CASE page = 1
        BY <2>1, <2>5, <4>1
      <4>2. CASE page # 1
        <5>1. page - 1 <= (page - 1) * limit
          BY <2>2, TimesGrows
        <5>2. QED
          BY <2>1, <2>2, <3>1, <4>2, <5>1
      <4>3. QED
        BY <4>1, <4>2
    <3>3. page \in S
      BY <2>1, <2>2, <3>2
    <3>4. ASSUME NEW i \in S, i < page PROVE FALSE
      <4>1. i \in Nat /\ i <= page - 1 /\ page - 1 \in Nat
        BY <2>1, <2>2, <3>4
      <4>2. i * limit <= (page - 1) * limit
        BY <2>2, <4>1, TimesGrows
      <4>3. i * limit <= Skip(page, limit) /\ Skip(page, limit) \in Nat
        BY <2>2, <3>1, <4>2, SkipValue
      <4>4. page = 1 => Skip(page, limit) = 0
        BY <2>1, PageNumbers
      <4>5. QED
        BY <2>1, <2>3, <2>5, <3>4, <4>1, <4>3, <4>4
    <3>5. Min(S) = page
      BY <2>1, <2>2, <3>3, <3>4, MinValue
    <3>6. QED
      BY <2>1, <2>2, <3>5, MaxValue
  <2>6. QED
    BY <2>4, <2>5
<1>2. QED
  BY <1>1, ListingIsInductive, PTL

=============================================================================
