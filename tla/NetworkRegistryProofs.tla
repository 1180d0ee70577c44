------------------------ MODULE NetworkRegistryProofs -------------------------
(***************************************************************************)
(* What NetworkService keeps however its calls overlap, fail and die, for  *)
(* any calls, slugs, chain ids and names, and for any cache.               *)
(***************************************************************************)
EXTENDS NetworkRegistry, TLAPS

-----------------------------------------------------------------------------
(* Entities. *)

\* The entity create builds is a row that holds what the request asks for.
LEMMA NewNetworkType ==
    ASSUME NEW dto \in CreateNetworkDto
    PROVE  NewNetwork(dto) \in Row
BY DEF NewNetwork, CreateNetworkDto, Row

\* An empty request body sets no column.
LEMMA NoChanges == \A k : k \notin DOMAIN <<>>
OBVIOUS

\* A request body sets columns, and never the slug or the chainId.
LEMMA ChangesDomain ==
    ASSUME NEW d \in Changes
    PROVE  DOMAIN d \subseteq Columns \ {"slug", "chainId"}
BY NoChanges DEF Changes, Columns

\* merge takes the columns of the request, and keeps the others.
LEMMA MergedType ==
    ASSUME NEW e \in Row, NEW d \in Changes
    PROVE  /\ Merged(e, d) \in Row
           /\ \A k \in Columns :
                  Merged(e, d)[k] = IF k \in DOMAIN d THEN d[k] ELSE e[k]
<1>1. \A k \in Columns : Merged(e, d)[k] = IF k \in DOMAIN d THEN d[k] ELSE e[k]
  BY DEF Merged, Row, Columns
<1>2. CASE d \in [{"name"} -> Names] \/ d \in [{"isActive"} -> BOOLEAN]
  BY <1>1, <1>2 DEF Merged, Row
<1>3. CASE d = <<>>
  BY <1>1, <1>3, NoChanges DEF Merged, Row
<1>4. QED
  BY <1>1, <1>2, <1>3 DEF Changes

\* A column of a row, and a row made of the columns of two.
LEMMA MixedRow ==
    ASSUME NEW e \in Row, NEW f \in Row, NEW S
    PROVE  [k \in Columns |-> IF k \in S THEN e[k] ELSE f[k]] \in Row
BY DEF Row, Columns

-----------------------------------------------------------------------------
(* What a step of a call may do. *)

\* The other calls stay where they are.
OthersKept(c) ==
    \A d \in Calls \ {c} :
        /\ pc'[d] = pc[d] /\ id'[d] = id[d] /\ changes'[d] = changes[d]
        /\ copy'[d] = copy[d] /\ todo'[d] = todo[d]

Inserted(c) ==
    /\ pc[c] = "insert" /\ pc'[c] = "done"
    /\ id'[c] = id[c] /\ changes'[c] = changes[c]
    /\ ~Clashes(c, copy[c])
    /\ row' = [row EXCEPT ![c] = copy[c]]
    /\ cache' = cache /\ stale' = stale

\* The row r of call c keeps what it was, or takes a column c asked for.
Changed(c, r) ==
    /\ pc[c] \in {"writing", "removing"} /\ pc'[c] = "invalidating"
    /\ id'[c] = id[c] /\ changes'[c] = changes[c] /\ todo'[c] = CacheKeys(id[c])
    /\ r \in Row
    /\ \A k \in Columns : \/ r[k] = row[id[c]][k]
                          \/ pc[c] = "writing" /\ r[k] = copy[c][k]
                          \/ pc[c] = "removing" /\ k = "deleted" /\ r[k] = TRUE
    /\ r.name # row[id[c]].name => ~Clashes(id[c], r)
    /\ row' = [row EXCEPT ![id[c]] = r]
    /\ stale' = [d \in Calls |->
                     IF d # c /\ pc[d] \in Updating /\ id[d] = id[c]
                     THEN stale[d] \cup {k \in Columns : r[k] # row[id[c]][k]}
                     ELSE stale[d]]
    /\ cache' = cache

\* A call that is in flight takes a step.
LEMMA StepFrame ==
    ASSUME TypeInv, NEW c \in Calls, Step(c) \/ Crash(c)
    PROVE  c \in Busy /\ OthersKept(c) /\ UNCHANGED call
<1>1. TypeOK
  BY DEF TypeInv
<1>2. c \in Busy
  BY DEF Step, Crash, Busy, Running, AssertSlugIsAvailable, AssertChainIdIsAvailable,
         Available, Insert, Compare, Write, SoftRemove, Del, Query, Fill
<1>3. CASE AssertSlugIsAvailable(c) \/ AssertChainIdIsAvailable(c) \/ Insert(c) \/ Compare(c)
  BY <1>1, <1>2, <1>3
     DEF AssertSlugIsAvailable, AssertChainIdIsAvailable, Available, Insert, Compare,
         Goto, End, OthersKept, TypeOK, call
<1>4. CASE Write(c) \/ SoftRemove(c)
  BY <1>1, <1>2, <1>4 DEF Write, SoftRemove, Written, Goto, End, OthersKept, TypeOK, call
<1>5. CASE (\E k \in Keys : Del(c, k)) \/ Query(c) \/ Fill(c) \/ Crash(c)
  BY <1>1, <1>2, <1>5 DEF Del, Query, Fill, Crash, Goto, End, OthersKept, TypeOK, call
<1>6. QED
  BY <1>3, <1>4, <1>5 DEF Step

\* A call that is not in flight starts.
LEMMA StartFrame ==
    ASSUME TypeInv, NEW c \in Calls, Start(c)
    PROVE  /\ pc[c] = "idle" /\ OthersKept(c)
           /\ UNCHANGED <<row, cache, todo, stale>>
           /\ met' = [d \in Calls |-> met[d] \/ (Busy # {} /\ d \in Busy \cup {c})]
BY DEF TypeInv, TypeOK, Start, Create, Remove, Update, Find, Begin, OthersKept

\* What each step does to the table.
LEMMA RowStep ==
    ASSUME TypeInv, NEW c \in Calls, Start(c) \/ Step(c) \/ Crash(c)
    PROVE  (row' = row /\ stale' = stale) \/ Inserted(c) \/ \E r : Changed(c, r)
<1>1. TypeOK /\ KindInv(c)
  BY DEF TypeInv
<1>2. CASE Start(c) \/ Crash(c)
  BY <1>2, StartFrame DEF Crash
<1>3. CASE AssertSlugIsAvailable(c) \/ AssertChainIdIsAvailable(c) \/ Compare(c)
           \/ (\E k \in Keys : Del(c, k)) \/ Query(c) \/ Fill(c)
  BY <1>3 DEF AssertSlugIsAvailable, AssertChainIdIsAvailable, Available, Compare, Del,
              Query, Fill
<1>4. CASE Insert(c)
  BY <1>1, <1>4 DEF Insert, Inserted, End, Goto, call, TypeOK
<1>5. CASE Write(c)
  <2> DEFINE r == [k \in Columns |-> IF k \in todo[c] THEN copy[c][k] ELSE row[id[c]][k]]
  <2>1. r \in Row
    <3>1. copy[c] \in Row /\ row[id[c]] \in Row
      BY <1>1, <1>5 DEF Write, KindInv, Updating, TypeOK
    <3>2. QED
      BY <3>1, MixedRow
  <2>2. \A k \in Columns : r[k] = row[id[c]][k] \/ r[k] = copy[c][k]
    OBVIOUS
  <2>3. r.name # row[id[c]].name => "name" \in todo[c]
    BY DEF Columns
  <2>4. ASSUME ~(row' = row /\ stale' = stale) PROVE Changed(c, r)
    <3>1. pc[c] = "writing" /\ Written(c, r) /\ cache' = cache
          /\ ("name" \in todo[c] => ~Clashes(id[c], r))
      BY <1>5, <2>4 DEF Write
    <3> HIDE DEF r
    <3>2. QED
      BY <1>1, <2>1, <2>2, <2>3, <3>1 DEF Changed, Written, Goto, call, TypeOK
  <2>5. QED
    BY <2>4
<1>6. CASE SoftRemove(c)
  <2> DEFINE r == [row[id[c]] EXCEPT !.deleted = TRUE]
  <2>1. row[id[c]] \in Row
    BY <1>1, <1>6 DEF SoftRemove, KindInv, TypeOK
  <2>2. /\ r \in Row /\ r.name = row[id[c]].name
        /\ \A k \in Columns : r[k] = row[id[c]][k] \/ (k = "deleted" /\ r[k] = TRUE)
    BY <2>1 DEF Row, Columns
  <2>3. pc[c] = "removing" /\ Written(c, r) /\ cache' = cache
    BY <1>6 DEF SoftRemove
  <2> HIDE DEF r
  <2>4. Changed(c, r)
    BY <1>1, <2>2, <2>3 DEF Changed, Written, Goto, call, TypeOK
  <2>5. QED
    BY <2>4
<1>7. QED
  BY <1>2, <1>3, <1>4, <1>5, <1>6 DEF Step

\* A row that is there stays, with its slug and its chainId; the only row that
\* can appear is that of the call that takes the step.
LEMMA RowsKept ==
    ASSUME TypeInv, NEW c \in Calls, Start(c) \/ Step(c) \/ Crash(c)
    PROVE  /\ row' \in [Calls -> Row \cup {Null}]
           /\ \A n \in Calls :
                  /\ row[n] # Null =>
                         /\ row'[n] # Null
                         /\ \A k \in {"slug", "chainId"} : row'[n][k] = row[n][k]
                  /\ row[n] = Null /\ n # c => row'[n] = Null
                  /\ row[n] = Null /\ row'[n] # Null => Inserted(c)
<1>1. TypeOK /\ KindInv(c)
  BY DEF TypeInv
<1>2. CASE row' = row
  BY <1>1, <1>2 DEF TypeOK
<1>3. CASE Inserted(c)
  BY <1>1, <1>3 DEF TypeOK, Inserted, KindInv, Creating
<1>4. ASSUME NEW r, Changed(c, r)
      PROVE  /\ id[c] \in Calls /\ row[id[c]] # Null /\ r \in Row
             /\ row' = [row EXCEPT ![id[c]] = r]
             /\ \A k \in {"slug", "chainId"} : r[k] = row[id[c]][k]
  BY <1>1, <1>4 DEF Changed, KindInv, Updating, Columns
<1>5. CASE \E r : Changed(c, r)
  BY <1>1, <1>4, <1>5, RowAssumption DEF TypeOK
<1>6. QED
  BY <1>2, <1>3, <1>5, RowStep

\* Only columns become stale.
LEMMA StaleType ==
    ASSUME TypeInv, NEW c \in Calls, Start(c) \/ Step(c) \/ Crash(c)
    PROVE  stale' \in [Calls -> SUBSET Columns]
<1>1. stale \in [Calls -> SUBSET Columns]
  BY DEF TypeInv, TypeOK
<1>2. ASSUME NEW r, Changed(c, r) PROVE stale' \in [Calls -> SUBSET Columns]
  BY <1>1, <1>2 DEF Changed
<1>3. QED
  BY <1>1, <1>2, RowStep DEF Inserted

-----------------------------------------------------------------------------
(* Types. *)

LEMMA TypeInit == Init => TypeInv
BY NoChanges DEF Init, TypeInv, TypeOK, KindInv, Creating, Updating, Changes

\* A call that starts holds what KindInv says.
LEMMA StartTypes ==
    ASSUME TypeInv, NEW c \in Calls, Start(c)
    PROVE  TypeOK' /\ KindInv(c)'
<1>1. TypeOK /\ KindInv(c)
  BY DEF TypeInv
<1>2. ASSUME NEW i \in Keys, NEW d, NEW e, NEW s \in Running \cup Ended, Begin(c, i, d, e, s),
             d \in Row \cup Changes \cup [deleted : {TRUE}], e \in Row \cup {Null}
      PROVE  /\ TypeOK'
             /\ row' = row /\ pc'[c] = s /\ id'[c] = i /\ changes'[c] = d /\ copy'[c] = e
  BY <1>1, <1>2 DEF TypeOK, Begin
<1>3. ASSUME NEW dto \in CreateNetworkDto, Create(c, dto)
      PROVE  TypeOK' /\ KindInv(c)'
  <2>1. NewNetwork(dto) \in Row
    BY NewNetworkType
  <2>2. Begin(c, c, NewNetwork(dto), NewNetwork(dto), "slug") /\ pc[c] = "idle"
    BY <1>3 DEF Create, Begin
  <2>3. /\ TypeOK'
        /\ row'[c] = row[c] /\ pc'[c] = "slug" /\ id'[c] = c
        /\ changes'[c] = NewNetwork(dto) /\ copy'[c] = NewNetwork(dto)
    BY <1>2, <2>1, <2>2 DEF Keys, Running
  <2>4. row[c] = Null
    BY <1>1, <2>2 DEF KindInv
  <2>5. QED
    BY <2>1, <2>3, <2>4 DEF KindInv, Creating, Updating
<1>4. ASSUME NEW n \in Calls, Remove(c, n)
      PROVE  TypeOK' /\ KindInv(c)'
  <2>1. n \in Live /\ Begin(c, n, [deleted |-> TRUE], row[n], "removing")
    BY <1>4 DEF Remove
  <2>2. row[n] \in Row /\ row[n] # Null /\ [deleted |-> TRUE] \in [deleted : {TRUE}]
    BY <1>1, <2>1 DEF TypeOK, Live
  <2>3. /\ TypeOK'
        /\ row' = row /\ pc'[c] = "removing" /\ id'[c] = n
        /\ changes'[c] = [deleted |-> TRUE]
    BY <1>2, <2>1, <2>2 DEF Keys, Running
  <2>4. QED
    BY <2>2, <2>3 DEF KindInv, Creating, Updating
<1>5. ASSUME NEW n \in Calls, NEW d \in Changes, Update(c, n, d)
      PROVE  TypeOK' /\ KindInv(c)'
  <2>1. n \in Live /\ Begin(c, n, d, Merged(row[n], d), "saving")
    BY <1>5 DEF Update
  <2>2. row[n] \in Row /\ row[n] # Null
    BY <1>1, <2>1 DEF TypeOK, Live
  <2>3. /\ Merged(row[n], d) \in Row
        /\ \A k \in {"slug", "chainId"} : Merged(row[n], d)[k] = row[n][k]
    BY <2>2, MergedType, ChangesDomain DEF Columns
  <2>4. /\ TypeOK'
        /\ row' = row /\ pc'[c] = "saving" /\ id'[c] = n
        /\ changes'[c] = d /\ copy'[c] = Merged(row[n], d)
    BY <1>2, <2>1, <2>2, <2>3 DEF Keys, Running
  <2>5. QED
    BY <2>2, <2>3, <2>4 DEF KindInv, Creating, Updating
<1>6. ASSUME NEW k \in Keys, Find(c, k)
      PROVE  TypeOK' /\ KindInv(c)'
  <2>1. PICK s \in {"querying", "done"} : Begin(c, k, <<>>, Null, s)
    BY <1>6 DEF Find
  <2>2. QED
    BY <1>1, <1>2, <2>1 DEF KindInv, Creating, Updating, Changes, Running, Ended
<1>7. QED
  BY <1>3, <1>4, <1>5, <1>6 DEF Start

\* A step of a call leaves it with what KindInv says.
LEMMA StepTypes ==
    ASSUME TypeInv, NEW c \in Calls, Step(c) \/ Crash(c)
    PROVE  TypeOK' /\ KindInv(c)'
<1>1. /\ TypeOK /\ KindInv(c)
      /\ row' \in [Calls -> Row \cup {Null}] /\ stale' \in [Calls -> SUBSET Columns]
  BY RowsKept, StaleType DEF TypeInv
<1>2. CASE AssertSlugIsAvailable(c) \/ AssertChainIdIsAvailable(c) \/ Insert(c) \/ Crash(c)
  <2>1. pc'[c] \in {"chainId", "insert"} => row' = row /\ copy'[c] = copy[c]
    BY <1>1, <1>2 DEF TypeOK, AssertSlugIsAvailable, AssertChainIdIsAvailable, Available,
                      Insert, Crash, Goto, End, call
  <2>2. pc'[c] \in {"chainId", "insert"} \cup Ended /\ pc[c] # "idle" /\ UNCHANGED call
    BY <1>1, <1>2, StepFrame
       DEF TypeOK, AssertSlugIsAvailable, AssertChainIdIsAvailable, Available,
           Insert, Crash, Goto, End, Ended, Running, Busy
  <2>3. pc'[c] \in {"chainId", "insert"} => pc[c] \in Creating
    BY <1>1, <1>2 DEF TypeOK, AssertSlugIsAvailable, AssertChainIdIsAvailable, Available,
                      Insert, Crash, Goto, End, Creating
  <2>4. TypeOK'
    <3>1. pc' \in [Calls -> {"idle"} \cup Running \cup Ended]
      BY <1>1, <1>2
         DEF TypeOK, AssertSlugIsAvailable, AssertChainIdIsAvailable, Available, Insert,
             Crash, Goto, End, Running, Ended
    <3>2. /\ copy' \in [Calls -> Row \cup {Null}]
          /\ todo' \in [Calls -> SUBSET (Columns \cup Keys)]
          /\ cache' = cache
      BY <1>1, <1>2
         DEF TypeOK, AssertSlugIsAvailable, AssertChainIdIsAvailable, Available, Insert,
             Crash, Goto, End
    <3>3. QED
      BY <1>1, <2>2, <3>1, <3>2 DEF TypeOK, call
  <2>5. QED
    BY <1>1, <2>1, <2>2, <2>3, <2>4 DEF KindInv, Creating, Updating, Ended, call
<1>3. CASE Compare(c)
  BY <1>1, <1>3 DEF Compare, Goto, call, TypeOK, KindInv, Creating, Updating, Running
<1>4. CASE Write(c) \/ SoftRemove(c)
  <2>1. CacheKeys(id[c]) \subseteq Keys
    <3>1. id[c] \in Calls /\ row[id[c]] \in Row
      BY <1>1, <1>4 DEF Write, SoftRemove, KindInv, Updating, TypeOK
    <3>2. QED
      BY <3>1 DEF CacheKeys, Keys, Row
  <2>2. cache' = cache /\ (End(c, "error") \/ \E r : Written(c, r))
    BY <1>4 DEF Write, SoftRemove
  <2>3. ASSUME End(c, "error")
        PROVE  TypeOK' /\ pc'[c] \in {"error", "invalidating"}
    BY <1>1, <2>2, <2>3 DEF Goto, End, call, TypeOK, Ended
  <2>4. ASSUME NEW r, Written(c, r)
        PROVE  TypeOK' /\ pc'[c] \in {"error", "invalidating"}
    <3>1. /\ pc' \in [Calls -> {"idle"} \cup Running \cup Ended] /\ pc'[c] = "invalidating"
          /\ copy' \in [Calls -> Row \cup {Null}]
          /\ UNCHANGED call
      BY <1>1, <2>4 DEF Written, Goto, TypeOK, Running
    <3>2. todo' \in [Calls -> SUBSET (Columns \cup Keys)]
      BY <1>1, <2>1, <2>4 DEF Written, TypeOK
    <3>3. QED
      BY <1>1, <2>2, <3>1, <3>2 DEF TypeOK, call
  <2>5. QED
    BY <2>2, <2>3, <2>4 DEF KindInv, Creating, Updating
<1>5. CASE (\E k \in Keys : Del(c, k)) \/ Fill(c)
  <2>1. TypeOK'
    <3>1. ASSUME NEW k \in Keys, Del(c, k) PROVE TypeOK'
      <4>1. todo' \in [Calls -> SUBSET (Columns \cup Keys)]
        BY <1>1, <3>1 DEF Del, End, TypeOK
      <4>2. cache' \in [Keys -> Row \cup {Null}]
        BY <1>1, <3>1 DEF Del, TypeOK
      <4>3. QED
        BY <1>1, <3>1, <4>1, <4>2 DEF Del, Goto, End, call, TypeOK, Ended
    <3>2. CASE Fill(c)
      BY <1>1, <3>2 DEF Fill, Goto, End, call, TypeOK, KindInv, Ended
    <3>3. QED
      BY <1>5, <3>1, <3>2
  <2>2. pc'[c] \in {"done", "invalidating"}
    BY <1>1, <1>5 DEF Del, Fill, Goto, End, call, TypeOK
  <2>3. QED
    BY <2>1, <2>2 DEF KindInv, Creating, Updating
<1>6. CASE Query(c)
  <2>1. \A n \in Stored(id[c]) : row[n] \in Row
    BY <1>1 DEF Stored, Live, TypeOK
  <2>2. /\ pc' \in [Calls -> {"idle"} \cup Running \cup Ended]
        /\ copy' \in [Calls -> Row \cup {Null}]
        /\ todo' \in [Calls -> SUBSET (Columns \cup Keys)]
        /\ row' = row /\ cache' = cache /\ UNCHANGED call
    BY <1>1, <1>6, <2>1 DEF Query, Goto, End, TypeOK, Running, Ended
  <2>3. /\ pc[c] = "querying"
        /\ pc'[c] = "done" \/ (pc'[c] = "filling" /\ copy'[c] \in Row)
    BY <1>1, <1>6, <2>1 DEF Query, Goto, End, TypeOK
  <2>4. QED
    BY <1>1, <2>2, <2>3 DEF TypeOK, KindInv, call, Creating, Updating
<1>7. QED
  BY <1>2, <1>3, <1>4, <1>5, <1>6 DEF Step

\* What a call holds is not disturbed by the others.
LEMMA TypeStep ==
    ASSUME TypeInv, NEW c \in Calls, Start(c) \/ Step(c) \/ Crash(c)
    PROVE  TypeInv'
<1>1. TypeOK' /\ KindInv(c)'
  BY StartTypes, StepTypes
<1>2. ASSUME NEW d \in Calls, d # c PROVE KindInv(d)'
  <2>1. KindInv(d) /\ TypeOK
    BY DEF TypeInv
  <2>2. /\ pc'[d] = pc[d] /\ id'[d] = id[d] /\ changes'[d] = changes[d]
        /\ copy'[d] = copy[d] /\ todo'[d] = todo[d]
    BY <1>2, StartFrame, StepFrame DEF OthersKept
  <2>3. QED
    BY <1>2, <2>1, <2>2, RowsKept DEF KindInv, Updating, Creating
<1>3. QED
  BY <1>1, <1>2 DEF TypeInv

LEMMA TypeExpire ==
    ASSUME TypeInv, NEW k \in Keys, Expire(k)
    PROVE  TypeInv'
<1>1. /\ UNCHANGED <<row, pc, id, changes, copy, todo, met, stale>>
      /\ cache' = [cache EXCEPT ![k] = Null]
  BY DEF Expire, call
<1>2. TypeOK'
  BY <1>1 DEF TypeInv, TypeOK
<1>3. ASSUME NEW c \in Calls PROVE KindInv(c)'
  <2>1. KindInv(c)
    BY DEF TypeInv
  <2>2. QED
    BY <1>1, <2>1 DEF KindInv
<1>4. QED
  BY <1>2, <1>3 DEF TypeInv

-----------------------------------------------------------------------------
(* Where values come from. *)

\* What was asked for stays so.
LEMMA AskedKept ==
    ASSUME TypeInv, NEW c \in Calls, Start(c) \/ Step(c) \/ Crash(c),
           NEW n, NEW k, NEW v, Asked(n, k, v)
    PROVE  Asked(n, k, v)'
<1>1. PICK d \in Calls : /\ id[d] = n /\ pc[d] \in {"invalidating", "done", "crashed"}
                         /\ k \in DOMAIN changes[d] /\ changes[d][k] = v
  BY DEF Asked
<1>2. /\ id'[d] = id[d] /\ changes'[d] = changes[d]
      /\ pc'[d] \in {"invalidating", "done", "crashed"}
  <2>1. CASE d # c
    BY <1>1, <2>1, StartFrame, StepFrame DEF OthersKept
  <2>2. CASE d = c
    <3>1. d \in Busy /\ pc[d] = "invalidating" /\ UNCHANGED call
      BY <1>1, <2>2, StartFrame, StepFrame DEF Busy, Running
    <3>2. pc'[d] \in {"invalidating", "done", "crashed"}
      BY <2>2, <3>1, StartFrame
         DEF TypeInv, TypeOK, Step, Crash, AssertSlugIsAvailable, AssertChainIdIsAvailable,
             Available, Insert, Compare, Write, SoftRemove, Del, Query, Fill, Goto, End, call
    <3>3. QED
      BY <3>1, <3>2 DEF call
  <2>3. QED
    BY <2>1, <2>2
<1>3. QED
  BY <1>1, <1>2 DEF Asked

\* A column that changes takes the value its writer asked for, or one the copy
\* of the writer holds because another asked for it.
LEMMA AskedRows ==
    ASSUME TypeInv, AskedInv, NEW c \in Calls, Start(c) \/ Step(c) \/ Crash(c),
           NEW n \in Calls, NEW k \in Columns, row'[n] # Null, NEW v, v = row'[n][k]
    PROVE  Asked(n, k, v)'
<1>1. TypeOK /\ KindInv(c)
  BY DEF TypeInv
<1>2. ASSUME row[n] # Null, row[n][k] = v PROVE Asked(n, k, v)
  BY <1>2 DEF AskedInv
<1>3. CASE row'[n] = row[n]
  BY <1>2, <1>3, AskedKept
<1>4. CASE row'[n] # row[n] /\ Inserted(c)
  <2>1. n = c /\ row'[n] = copy[c]
    BY <1>1, <1>4 DEF Inserted, TypeOK
  <2>2. id[c] = c /\ changes[c] = copy[c] /\ copy[c] \in Row
    BY <1>1, <1>4 DEF Inserted, KindInv, Creating
  <2>3. k \in DOMAIN changes[c]
    BY <2>2 DEF Row, Columns
  <2>4. QED
    BY <1>4, <2>1, <2>2, <2>3 DEF Inserted, Asked
<1>5. ASSUME NEW r, row'[n] # row[n], Changed(c, r)
      PROVE  Asked(n, k, v)'
  <2>1. n = id[c] /\ row'[n] = r /\ row[n] # Null
    BY <1>1, <1>5 DEF Changed, TypeOK, KindInv, Updating
  <2>2. ASSUME k \in DOMAIN changes[c], changes[c][k] = v PROVE Asked(n, k, v)'
    BY <1>5, <2>1, <2>2 DEF Changed, Asked
  <2>3. CASE r[k] = row[n][k]
    BY <1>2, <2>1, <2>3, AskedKept
  <2>4. CASE pc[c] = "writing" /\ r[k] = copy[c][k]
    <3>1. (k \in DOMAIN changes[c] /\ changes[c][k] = v) \/ Asked(n, k, v)
      BY <2>1, <2>4 DEF AskedInv, Updating
    <3>2. QED
      BY <2>2, <3>1, AskedKept
  <2>5. CASE pc[c] = "removing" /\ k = "deleted" /\ r[k] = TRUE
    <3>1. changes[c] = [deleted |-> TRUE]
      BY <1>1, <2>5 DEF KindInv
    <3>2. k \in DOMAIN changes[c] /\ changes[c][k] = TRUE
      BY <2>5, <3>1
    <3>3. v = TRUE
      BY <2>1, <2>5
    <3>4. QED
      BY <2>2, <3>2, <3>3
  <2>6. QED
    BY <1>5, <2>1, <2>3, <2>4, <2>5 DEF Changed
<1>6. QED
  BY <1>3, <1>4, <1>5, RowStep

\* A save holds what was asked for: what it read, and what its request sets.
LEMMA AskedCopies ==
    ASSUME TypeInv, AskedInv, NEW c \in Calls, Start(c) \/ Step(c) \/ Crash(c),
           NEW d \in Calls, NEW k \in Columns, pc'[d] \in Updating,
           NEW n, n = id'[d], NEW v, v = copy'[d][k]
    PROVE  (k \in DOMAIN changes'[d] /\ changes'[d][k] = v) \/ Asked(n, k, v)'
<1>1. TypeOK /\ KindInv(c)
  BY DEF TypeInv
<1>2. ASSUME pc[d] \in Updating, id'[d] = id[d], changes'[d] = changes[d], copy'[d] = copy[d]
      PROVE  (k \in DOMAIN changes'[d] /\ changes'[d][k] = v) \/ Asked(n, k, v)'
  <2>1. (k \in DOMAIN changes[d] /\ changes[d][k] = v) \/ Asked(n, k, v)
    BY <1>2 DEF AskedInv
  <2>2. QED
    BY <1>2, <2>1, AskedKept
<1>3. CASE d # c
  BY <1>2, <1>3, StartFrame, StepFrame DEF OthersKept
<1>4. CASE d = c /\ Start(c)
  <2>1. PICK m \in Calls, b \in Changes : Update(c, m, b)
    BY <1>1, <1>4 DEF Start, Create, Remove, Find, Begin, Updating, TypeOK
  <2>2. /\ m \in Live /\ id'[d] = m /\ changes'[d] = b /\ copy'[d] = Merged(row[m], b)
    BY <1>1, <1>4, <2>1 DEF Update, Begin, TypeOK
  <2>3. row[m] \in Row /\ row[m] # Null
    BY <1>1, <2>2 DEF Live, TypeOK
  <2>4. v = IF k \in DOMAIN b THEN b[k] ELSE row[m][k]
    BY <2>2, <2>3, MergedType
  <2>5. Asked(m, k, row[m][k])
    BY <2>3 DEF AskedInv
  <2>6. QED
    BY <2>2, <2>4, <2>5, AskedKept
<1>5. CASE d = c /\ (Step(c) \/ Crash(c))
  <2>1. Compare(c)
    <3>1. pc'[c] \in Updating
      BY <1>5
    <3>2. ~(AssertSlugIsAvailable(c) \/ AssertChainIdIsAvailable(c) \/ Insert(c))
      BY <1>1, <3>1 DEF AssertSlugIsAvailable, AssertChainIdIsAvailable, Available, Insert,
                        Goto, End, TypeOK, Updating
    <3>3. ~(Write(c) \/ SoftRemove(c))
      BY <1>1, <3>1 DEF Write, Written, SoftRemove, Goto, End, TypeOK, Updating
    <3>4. ~((\E j \in Keys : Del(c, j)) \/ Query(c) \/ Fill(c) \/ Crash(c))
      BY <1>1, <3>1 DEF Del, Query, Fill, Crash, Goto, End, TypeOK, Updating
    <3>5. QED
      BY <1>5, <3>2, <3>3, <3>4 DEF Step
  <2>2. QED
    BY <1>2, <1>5, <2>1 DEF Compare, Goto, call, Updating
<1>6. QED
  BY <1>3, <1>4, <1>5

LEMMA AskedStep ==
    ASSUME TypeInv, AskedInv, NEW c \in Calls, Start(c) \/ Step(c) \/ Crash(c)
    PROVE  AskedInv'
BY AskedRows, AskedCopies DEF AskedInv, Asked

-----------------------------------------------------------------------------
(* Calls that meet no other. *)

LEMMA AloneStep ==
    ASSUME TypeInv, Alone, NEW c \in Calls, Start(c) \/ Step(c) \/ Crash(c)
    PROVE  Alone'
<1>1. CASE Start(c)
  <2>1. Busy' \subseteq Busy \cup {c}
    BY <1>1, StartFrame DEF Busy, OthersKept
  <2>2. \A d \in Busy \cup {c} : ~met'[d] => Busy = {}
    BY <1>1, StartFrame DEF Busy
  <2>3. QED
    BY <2>1, <2>2 DEF Alone
<1>2. CASE Step(c) \/ Crash(c)
  <2>1. c \in Busy /\ Busy' \subseteq Busy /\ met' = met
    BY <1>2, StepFrame DEF Busy, OthersKept, call
  <2>2. QED
    BY <2>1 DEF Alone
<1>3. QED
  BY <1>1, <1>2

\* A call that is in flight when another takes a step has met it.
LEMMA OthersMet ==
    ASSUME TypeInv, Alone, NEW c \in Calls, Start(c) \/ Step(c) \/ Crash(c),
           NEW d \in Busy, d # c
    PROVE  met'[d]
BY StartFrame, StepFrame DEF Alone, Busy, call

\* So what another call read need not hold ...
LEMMA OthersUnmet ==
    ASSUME TypeInv, Alone, NEW c \in Calls, Start(c) \/ Step(c) \/ Crash(c),
           NEW d \in Calls, d # c
    PROVE  UnmetInv(d)'
<1>1. CASE d \in Busy
  BY <1>1, OthersMet DEF UnmetInv
<1>2. CASE d \notin Busy
  <2>1. pc'[d] \notin Running
    BY <1>2, StartFrame, StepFrame DEF OthersKept, Busy
  <2>2. QED
    BY <2>1 DEF UnmetInv, Running
<1>3. QED
  BY <1>1, <1>2

\* ... and what the call itself reads does.
LEMMA OwnUnmet ==
    ASSUME TypeInv, NEW c \in Calls, UnmetInv(c), Start(c) \/ Step(c) \/ Crash(c)
    PROVE  UnmetInv(c)'
<1>1. TypeOK /\ KindInv(c)
  BY DEF TypeInv
<1>2. CASE Start(c)
  <2>1. ASSUME NEW n \in Calls, NEW b \in Changes, Update(c, n, b)
        PROVE  UnmetInv(c)'
    <3>1. /\ n \in Live /\ row' = row /\ pc'[c] = "saving" /\ id'[c] = n
          /\ changes'[c] = b /\ copy'[c] = Merged(row[n], b)
      BY <1>1, <2>1 DEF Update, Begin, TypeOK
    <3>2. row[n] \in Row
      BY <1>1, <3>1 DEF Live, TypeOK
    <3>3. QED
      BY <3>1, <3>2, MergedType DEF UnmetInv
  <2>2. CASE ~\E n \in Calls, b \in Changes : Update(c, n, b)
    <3>1. pc'[c] \in {"slug", "removing", "querying", "done"}
      BY <1>1, <1>2, <2>2 DEF Start, Create, Remove, Find, Begin, TypeOK
    <3>2. QED
      BY <3>1 DEF UnmetInv
  <2>3. QED
    BY <2>1, <2>2
<1>3. CASE AssertSlugIsAvailable(c) \/ AssertChainIdIsAvailable(c)
  <2>1. CASE pc'[c] = "refused"
    BY <2>1 DEF UnmetInv
  <2>2. CASE pc'[c] # "refused"
    <3>1. /\ row' = row /\ copy' = copy /\ met' = met
          /\ \/ pc[c] = "slug" /\ pc'[c] = "chainId" /\ ~Exists("slug", copy[c].slug)
             \/ /\ pc[c] = "chainId" /\ pc'[c] = "insert"
                /\ ~Exists("chainId", copy[c].chainId)
      BY <1>1, <1>3, <2>2
         DEF AssertSlugIsAvailable, AssertChainIdIsAvailable, Available, Goto, End, call, TypeOK
    <3>2. QED
      BY <3>1 DEF UnmetInv, Exists, Live
  <2>3. QED
    BY <2>1, <2>2
<1>4. CASE Compare(c)
  BY <1>1, <1>4 DEF Compare, Goto, call, TypeOK, UnmetInv
<1>5. CASE Query(c)
  BY <1>1, <1>5 DEF Query, Goto, End, call, TypeOK, UnmetInv, Stored, Live
<1>6. CASE Insert(c) \/ Write(c) \/ SoftRemove(c) \/ (\E k \in Keys : Del(c, k))
           \/ Fill(c) \/ Crash(c)
  <2>1. pc'[c] \in Ended \cup {"invalidating"}
    BY <1>1, <1>6
       DEF Insert, Write, Written, SoftRemove, Del, Fill, Crash, Goto, End, TypeOK, Ended
  <2>2. QED
    BY <2>1 DEF UnmetInv, Ended
<1>7. QED
  BY <1>2, <1>3, <1>4, <1>5, <1>6 DEF Step

-----------------------------------------------------------------------------
(* Updates that meet others. *)

\* The row of an update that waits changes in columns that become stale for it.
LEMMA RowOutdated ==
    ASSUME TypeInv, NEW c \in Calls, Start(c) \/ Step(c) \/ Crash(c),
           NEW d \in Calls, d # c, pc[d] \in Updating
    PROVE  /\ stale[d] \subseteq stale'[d]
           /\ \A k \in Columns \ stale'[d] : row'[id[d]][k] = row[id[d]][k]
<1>1. /\ TypeOK /\ KindInv(c) /\ KindInv(d)
      /\ id[d] \in Calls /\ row[id[d]] # Null
  BY DEF TypeInv, KindInv
<1>2. CASE row' = row /\ stale' = stale
  BY <1>2
<1>3. CASE Inserted(c)
  <2>1. row[c] = Null /\ row' = [row EXCEPT ![c] = copy[c]] /\ stale' = stale
    BY <1>1, <1>3 DEF Inserted, KindInv, Creating
  <2>2. QED
    BY <1>1, <2>1 DEF TypeOK
<1>4. ASSUME NEW r, Changed(c, r)
      PROVE  /\ stale[d] \subseteq stale'[d]
             /\ \A k \in Columns \ stale'[d] : row'[id[d]][k] = row[id[d]][k]
  <2>1. /\ row' = [row EXCEPT ![id[c]] = r]
        /\ stale'[d] = IF id[d] = id[c]
                       THEN stale[d] \cup {k \in Columns : r[k] # row[id[c]][k]}
                       ELSE stale[d]
    BY <1>4 DEF Changed
  <2>2. QED
    BY <1>1, <2>1 DEF TypeOK
<1>5. QED
  BY <1>2, <1>3, <1>4, RowStep

\* So what it read still holds, but for those.
LEMMA StaleStep ==
    ASSUME TypeInv, NEW c \in Calls, Start(c) \/ Step(c) \/ Crash(c),
           NEW d \in Calls, StaleInv(d)
    PROVE  StaleInv(d)'
<1>1. TypeOK /\ KindInv(d)
  BY DEF TypeInv
<1>2. CASE d # c /\ pc[d] \in Updating
  <2>1. /\ pc'[d] = pc[d] /\ id'[d] = id[d] /\ changes'[d] = changes[d]
        /\ copy'[d] = copy[d] /\ todo'[d] = todo[d]
    BY <1>2, StartFrame, StepFrame DEF OthersKept
  <2>2. /\ stale[d] \subseteq stale'[d]
        /\ \A k \in Columns \ stale'[d] : row'[id[d]][k] = row[id[d]][k]
    BY <1>2, RowOutdated
  <2>3. QED
    BY <2>1, <2>2 DEF StaleInv
<1>3. CASE d # c /\ pc[d] \notin Updating
  <2>1. pc'[d] = pc[d]
    BY <1>3, StartFrame, StepFrame DEF OthersKept
  <2>2. QED
    BY <1>3, <2>1 DEF StaleInv, Updating
<1>4. ASSUME d = c, NEW n \in Calls, NEW b \in Changes, Update(c, n, b)
      PROVE  StaleInv(d)'
  <2>1. /\ n \in Live /\ row' = row /\ pc'[c] = "saving" /\ id'[c] = n
        /\ changes'[c] = b /\ copy'[c] = Merged(row[n], b)
    BY <1>1, <1>4 DEF Update, Begin, TypeOK
  <2>2. row[n] \in Row
    BY <1>1, <2>1 DEF Live, TypeOK
  <2>3. QED
    BY <1>4, <2>1, <2>2, MergedType DEF StaleInv
<1>5. CASE d = c /\ Compare(c)
  <2>1. /\ pc[c] = "saving" /\ pc'[c] = "writing" /\ changes'[c] = changes[c]
        /\ stale' = stale /\ todo'[c] = {k \in Columns : copy[c][k] # row[id[c]][k]}
    BY <1>1, <1>5 DEF Compare, Goto, call, TypeOK
  <2>2. QED
    BY <1>5, <2>1 DEF StaleInv
<1>6. CASE d = c /\ ~Compare(c) /\ ~\E n \in Calls, b \in Changes : Update(c, n, b)
  <2>1. pc'[c] \notin Updating
    <3>1. CASE Start(c)
      BY <1>1, <1>6, <3>1 DEF Start, Create, Remove, Find, Begin, TypeOK, Updating
    <3>2. CASE AssertSlugIsAvailable(c) \/ AssertChainIdIsAvailable(c) \/ Insert(c)
      BY <1>1, <3>2 DEF AssertSlugIsAvailable, AssertChainIdIsAvailable, Available, Insert,
                        Goto, End, TypeOK, Updating
    <3>3. CASE Write(c) \/ SoftRemove(c)
      BY <1>1, <3>3 DEF Write, Written, SoftRemove, Goto, End, TypeOK, Updating
    <3>4. CASE (\E k \in Keys : Del(c, k)) \/ Query(c) \/ Fill(c) \/ Crash(c)
      BY <1>1, <3>4 DEF Del, Query, Fill, Crash, Goto, End, TypeOK, Updating
    <3>5. QED
      BY <1>6, <3>1, <3>2, <3>3, <3>4 DEF Step
  <2>2. QED
    BY <1>6, <2>1 DEF StaleInv, Updating
<1>7. QED
  BY <1>2, <1>3, <1>4, <1>5, <1>6

\* A row differs from the others in its unique columns.
LEMMA DifferStep ==
    ASSUME TypeInv, RowsDiffer, NEW c \in Calls, Start(c) \/ Step(c) \/ Crash(c)
    PROVE  RowsDiffer'
<1>1. TypeOK /\ KindInv(c)
  BY DEF TypeInv
<1>2. CASE Inserted(c)
  BY <1>1, <1>2 DEF Inserted, TypeOK, RowsDiffer, Clashes
<1>3. ASSUME NEW r, Changed(c, r)
      PROVE  RowsDiffer'
  <2>1. /\ id[c] \in Calls /\ row[id[c]] # Null /\ row' = [row EXCEPT ![id[c]] = r]
        /\ r.slug = row[id[c]].slug /\ r.chainId = row[id[c]].chainId
        /\ r.name = row[id[c]].name \/ ~Clashes(id[c], r)
    BY <1>1, <1>3 DEF Changed, KindInv, Updating, Columns
  <2>2. PICK n \in Calls : n = id[c]
    BY <2>1
  <2>3. ASSUME NEW m \in Calls, m # n, row[m] # Null, NEW k \in UniqueColumns
        PROVE  row[m][k] # r[k]
    BY <2>1, <2>2, <2>3 DEF RowsDiffer, Clashes, UniqueColumns
  <2>4. QED
    BY <1>1, <2>1, <2>2, <2>3 DEF RowsDiffer, TypeOK
<1>4. QED
  BY <1>2, <1>3, RowStep DEF RowsDiffer

-----------------------------------------------------------------------------
(* The cache. *)

\* A cause of a stale entry remains.
LEMMA CausesRemain ==
    ASSUME TypeInv, NEW c \in Calls, Start(c) \/ Step(c) \/ Crash(c), NEW k
    PROVE  /\ Undeleted(k) => Undeleted(k)'
           /\ Overtaken(k) => Overtaken(k)'
<1>1. \A d \in Calls : pc[d] \in Ended => d # c
  BY StartFrame, StepFrame DEF Busy, Running, Ended
<1>2. \A d \in Calls : met[d] => met'[d]
  BY StartFrame, StepFrame DEF call
<1>3. Undeleted(k) => Undeleted(k)'
  BY <1>1, StartFrame, StepFrame DEF Undeleted, OthersKept, Ended
<1>4. ASSUME NEW d \in Calls, pc[d] = "done", id[d] = k, changes[d] = <<>>, met[d]
      PROVE  Overtaken(k)'
  BY <1>1, <1>2, <1>4, StartFrame, StepFrame DEF Overtaken, OthersKept, Ended
<1>5. QED
  BY <1>3, <1>4 DEF Overtaken

\* An entry a call was about to delete is deleted or remains doomed, or the
\* call dies and has left it behind.
LEMMA DoomedStep ==
    ASSUME TypeInv, NEW c \in Calls, Start(c) \/ Step(c) \/ Crash(c),
           NEW k \in Keys, Doomed(k), cache'[k] # Null
    PROVE  Doomed(k)' \/ Undeleted(k)'
<1>1. PICK d \in Calls : pc[d] = "invalidating" /\ k \in todo[d]
  BY DEF Doomed
<1>2. CASE d # c
  BY <1>1, <1>2, StartFrame, StepFrame DEF Doomed, OthersKept
<1>3. CASE d = c
  <2>1. CASE Crash(c)
    BY <1>1, <1>3, <2>1 DEF TypeInv, TypeOK, Crash, Goto, Undeleted
  <2>2. CASE ~Crash(c)
    <3>1. PICK j \in Keys : Del(c, j)
      BY <1>1, <1>3, <2>2, StartFrame
         DEF Step, AssertSlugIsAvailable, AssertChainIdIsAvailable, Available, Insert,
             Compare, Write, SoftRemove, Query, Fill
    <3>2. j # k
      BY <3>1 DEF Del, TypeInv, TypeOK
    <3>3. pc' = pc /\ todo' = [todo EXCEPT ![c] = todo[c] \ {j}]
      BY <1>1, <1>3, <3>1, <3>2 DEF Del
    <3>4. QED
      BY <1>1, <1>3, <3>2, <3>3 DEF TypeInv, TypeOK, Doomed
  <2>3. QED
    BY <2>1, <2>2
<1>4. QED
  BY <1>2, <1>3

\* An entry that shows the table still does, or the call that wrote is about to
\* delete it.
LEMMA FreshStep ==
    ASSUME TypeInv, NEW c \in Calls, Start(c) \/ Step(c) \/ Crash(c),
           NEW k \in Keys, Fresh(k), cache'[k] = cache[k]
    PROVE  Fresh(k)' \/ Doomed(k)'
<1>1. PICK n \in Stored(k) : row[n] = cache[k]
  BY DEF Fresh
<1>2. TypeOK /\ KindInv(c) /\ n \in Calls /\ row[n] # Null /\ k \in {n, row[n].slug}
  BY <1>1 DEF TypeInv, Stored, Live
<1>3. CASE row'[n] = row[n]
  BY <1>1, <1>2, <1>3 DEF Fresh, Stored, Live
<1>4. CASE row'[n] # row[n] /\ Inserted(c)
  BY <1>2, <1>4 DEF Inserted, TypeOK, KindInv, Creating
<1>5. ASSUME NEW r, row'[n] # row[n], Changed(c, r)
      PROVE  Doomed(k)'
  <2>1. id[c] = n
    BY <1>2, <1>5 DEF Changed, TypeOK
  <2>2. pc'[c] = "invalidating" /\ todo'[c] = {n, row[n].slug}
    BY <1>5, <2>1 DEF Changed, CacheKeys
  <2>3. QED
    BY <1>2, <2>2 DEF Doomed
<1>6. QED
  BY <1>3, <1>4, <1>5, RowStep

\* An entry that appears was stored by a lookup: it shows the table unless the
\* lookup met another call.
LEMMA FillStep ==
    ASSUME TypeInv, NEW c \in Calls, UnmetInv(c), Start(c) \/ Step(c) \/ Crash(c),
           NEW k \in Keys, cache'[k] # cache[k], cache'[k] # Null
    PROVE  Fresh(k)' \/ Overtaken(k)'
<1>1. TypeOK /\ KindInv(c)
  BY DEF TypeInv
<1>2. Fill(c)
  BY <1>1, StartFrame
     DEF Step, Crash, AssertSlugIsAvailable, AssertChainIdIsAvailable, Available, Insert,
         Compare, Write, SoftRemove, Del, Query, TypeOK
<1>3. /\ pc[c] = "filling" /\ pc'[c] = "done" /\ id[c] = k /\ cache'[k] = copy[c]
      /\ row' = row /\ id' = id /\ met' = met /\ changes'[c] = <<>>
  BY <1>1, <1>2 DEF Fill, End, Goto, call, TypeOK, KindInv
<1>4. CASE met[c]
  BY <1>3, <1>4 DEF Overtaken
<1>5. CASE ~met[c]
  BY <1>3, <1>5 DEF UnmetInv, Fresh, Stored, Live
<1>6. QED
  BY <1>4, <1>5

LEMMA CacheStep ==
    ASSUME TypeInv, CacheInv, NEW c \in Calls, UnmetInv(c), Start(c) \/ Step(c) \/ Crash(c)
    PROVE  CacheInv'
<1>1. ASSUME NEW k \in Keys, cache'[k] # Null
      PROVE  Fresh(k)' \/ Doomed(k)' \/ Undeleted(k)' \/ Overtaken(k)'
  <2>1. CASE cache'[k] # cache[k]
    BY <1>1, <2>1, FillStep
  <2>2. CASE cache'[k] = cache[k]
    BY <1>1, <2>2, CausesRemain, DoomedStep, FreshStep DEF CacheInv
  <2>3. QED
    BY <2>1, <2>2
<1>2. QED
  BY <1>1 DEF CacheInv

LEMMA CacheExpire ==
    ASSUME TypeInv, CacheInv, NEW k \in Keys, Expire(k)
    PROVE  CacheInv'
<1>1. ASSUME NEW j \in Keys, cache'[j] # Null PROVE cache'[j] = cache[j]
  BY <1>1 DEF TypeInv, TypeOK, Expire
<1>2. row' = row /\ pc' = pc /\ todo' = todo /\ id' = id /\ changes' = changes
      /\ met' = met
  BY DEF Expire, call
<1>3. QED
  BY <1>1, <1>2 DEF CacheInv, Fresh, Doomed, Undeleted, Overtaken, Stored, Live

-----------------------------------------------------------------------------
(* The theorems. *)

LEMMA RegistryInit == Init => RegistryInv
<1> SUFFICES ASSUME Init PROVE RegistryInv
  OBVIOUS
<1>1. TypeInv
  BY TypeInit
<1>2. AskedInv /\ Alone /\ RowsDiffer /\ CacheInv /\ \A c \in Calls : UnmetInv(c) /\ StaleInv(c)
  BY DEF Init, AskedInv, Alone, Busy, Running, RowsDiffer, CacheInv, UnmetInv, StaleInv, Updating
<1>3. QED
  BY <1>1, <1>2 DEF RegistryInv

LEMMA RegistryStep == RegistryInv /\ [Next]_vars => RegistryInv'
<1> SUFFICES ASSUME RegistryInv, [Next]_vars PROVE RegistryInv'
  OBVIOUS
<1> USE DEF RegistryInv
<1>1. ASSUME NEW c \in Calls, Start(c) \/ Step(c) \/ Crash(c)
      PROVE  RegistryInv'
  <2>1. TypeInv'
    BY <1>1, TypeStep
  <2>2. AskedInv'
    BY <1>1, AskedStep
  <2>3. Alone' /\ RowsDiffer'
    BY <1>1, AloneStep, DifferStep
  <2>4. ASSUME NEW d \in Calls PROVE UnmetInv(d)' /\ StaleInv(d)'
    BY <1>1, OthersUnmet, OwnUnmet, StaleStep
  <2>5. CacheInv'
    BY <1>1, CacheStep
  <2>6. QED
    BY <2>1, <2>2, <2>3, <2>4, <2>5
<1>2. ASSUME NEW k \in Keys, Expire(k)
      PROVE  RegistryInv'
  <2>1. /\ row' = row /\ pc' = pc /\ copy' = copy /\ todo' = todo /\ stale' = stale
        /\ UNCHANGED call
    BY <1>2 DEF Expire
  <2>2. AskedInv' /\ Alone' /\ RowsDiffer' /\ \A c \in Calls : UnmetInv(c)'
    BY <2>1 DEF call, AskedInv, Asked, Alone, Busy, RowsDiffer, UnmetInv, Exists, Stored, Live
  <2>3. \A c \in Calls : StaleInv(c)'
    BY <2>1 DEF call, StaleInv
  <2>4. QED
    BY <1>2, <2>2, <2>3, TypeExpire, CacheExpire
<1>3. CASE UNCHANGED vars
  <2>1. TypeInv'
    <3>1. TypeOK'
      BY <1>3 DEF vars, call, TypeInv, TypeOK
    <3>2. ASSUME NEW c \in Calls PROVE KindInv(c)'
      <4>1. KindInv(c)
        BY DEF TypeInv
      <4>2. QED
        BY <4>1, <1>3 DEF vars, call, KindInv
    <3>3. QED
      BY <3>1, <3>2 DEF TypeInv
  <2>2. AskedInv' /\ Alone' /\ RowsDiffer'
    BY <1>3 DEF vars, AskedInv, Asked, Alone, Busy, RowsDiffer
  <2>3. \A c \in Calls : UnmetInv(c)'
    BY <1>3 DEF vars, UnmetInv, Exists, Stored, Live
  <2>4. \A c \in Calls : StaleInv(c)'
    BY <1>3 DEF vars, StaleInv
  <2>5. CacheInv'
    BY <1>3 DEF vars, CacheInv, Fresh, Doomed, Undeleted, Overtaken, Stored, Live
  <2>6. QED
    BY <2>1, <2>2, <2>3, <2>4, <2>5
<1>4. QED
  BY <1>1, <1>2, <1>3 DEF Next

LEMMA RegistryIsInductive == Spec => []RegistryInv
BY RegistryInit, RegistryStep, PTL DEF Spec

\* Every variable of NetworkService has its type: above all, what a call holds
\* when it writes is a row with all its columns.
THEOREM TypeCorrect == Spec => []TypeOK
<1>1. RegistryInv => TypeOK
  BY DEF RegistryInv, TypeInv
<1>2. QED
  BY <1>1, RegistryIsInductive, PTL

\* Every column of every row has a value that a request about that network asked
\* for and that did not fail, whatever saves overlapped (create; update).
THEOREM ColumnsAreAsked == Spec => []EveryColumnWasAsked
<1>1. RegistryInv => EveryColumnWasAsked
  BY DEF RegistryInv, AskedInv, Asked, EveryColumnWasAsked
<1>2. QED
  BY <1>1, RegistryIsInductive, PTL

\* A save writes a column that its request does not set only if another call wrote
\* it after the save's read: no update is lost and no removed network returns in
\* another way (update, activate, deactivate).
THEOREM LostUpdatesNeedStaleReads == Spec => []LostUpdatesAreStale
<1>1. RegistryInv => LostUpdatesAreStale
  BY DEF RegistryInv, StaleInv, LostUpdatesAreStale
<1>2. QED
  BY <1>1, RegistryIsInductive, PTL

\* Once nothing is in flight, an entry of the cache that differs from the table
\* comes of a lookup that overlapped another call, or of a call that died before
\* it had deleted the entry (wrap; invalidateNetworkCache).
THEOREM StaleEntriesAreCaused == Spec => []StaleNeedsACause
<1>1. RegistryInv => StaleNeedsACause
  <2> SUFFICES ASSUME RegistryInv, NEW k \in Keys, Busy = {}, cache[k] # Null,
                      \A n \in Stored(k) : row[n] # cache[k]
               PROVE  Undeleted(k) \/ Overtaken(k)
    BY DEF StaleNeedsACause, Undeleted, Overtaken
  <2>1. ~Fresh(k) /\ ~Doomed(k)
    BY DEF Fresh, Doomed, Busy, Running
  <2>2. QED
    BY <2>1 DEF RegistryInv, CacheInv
<1>2. QED
  BY <1>1, RegistryIsInductive, PTL

\* A call that met no other fails in the database only over a name, or over the
\* slug or the chainId of a removed network (create; update).
THEOREM ServerErrorsAreCaused == Spec => ServerErrorHasACause
<1> DEFINE Caused(c) ==
      \E n \in Calls \ {id[c]} :
          /\ row[n] # Null
          /\ \/ row[n].name = copy[c].name
             \/ /\ row[n].deleted
                /\ \E k \in {"slug", "chainId"} : row[n][k] = copy[c][k]
<1>1. ASSUME RegistryInv, NEW c \in Calls, pc[c] # "error", pc'[c] = "error", ~met[c],
             NEW d \in Calls, Start(d) \/ Step(d) \/ Crash(d)
      PROVE  Caused(c)
  <2>1. d = c
    BY <1>1, StartFrame, StepFrame DEF RegistryInv, OthersKept
  <2>2. TypeOK /\ KindInv(c) /\ UnmetInv(c) /\ RowsDiffer
    BY <1>1 DEF RegistryInv, TypeInv
  <2>3. Insert(c) \/ Write(c)
    BY <1>1, <2>1, <2>2
       DEF Start, Create, Remove, Update, Find, Begin, Step, Crash, AssertSlugIsAvailable,
           AssertChainIdIsAvailable, Available, Compare, SoftRemove, Written, Del, Query,
           Fill, Goto, End, call, TypeOK
  <2>4. CASE Insert(c)
    <3>1. pc[c] = "insert" /\ id[c] = c /\ Clashes(c, copy[c])
      BY <1>1, <2>2, <2>4 DEF Insert, End, Goto, TypeOK, KindInv, Creating
    <3>2. PICK m \in Calls \ {c}, k \in UniqueColumns : row[m] # Null /\ row[m][k] = copy[c][k]
      BY <3>1 DEF Clashes
    <3>3. k # "name" => row[m].deleted
      BY <1>1, <2>2, <3>1, <3>2 DEF UnmetInv, Exists, Live, UniqueColumns
    <3>4. QED
      BY <3>1, <3>2, <3>3 DEF UniqueColumns
  <2>5. CASE Write(c)
    <3> DEFINE r == [k \in Columns |-> IF k \in todo[c] THEN copy[c][k] ELSE row[id[c]][k]]
    <3>1. pc[c] = "writing" /\ "name" \in todo[c] /\ Clashes(id[c], r)
      BY <1>1, <2>2, <2>5 DEF Write, Written, Goto, TypeOK
    <3>2. /\ r.name = copy[c].name /\ id[c] \in Calls /\ row[id[c]] # Null
          /\ \A k \in {"slug", "chainId"} : r[k] = row[id[c]][k]
      BY <2>2, <3>1 DEF KindInv, Updating, Columns
    <3> HIDE DEF r
    <3>3. PICK m \in Calls \ {id[c]}, k \in UniqueColumns : row[m] # Null /\ row[m][k] = r[k]
      BY <3>1 DEF Clashes
    <3>4. k = "name"
      BY <2>2, <3>2, <3>3 DEF RowsDiffer, UniqueColumns
    <3>5. QED
      BY <3>2, <3>3, <3>4
  <2>6. QED
    BY <2>3, <2>4, <2>5
<1>2. RegistryInv /\ [Next]_vars =>
          [\A c \in Calls : pc[c] # "error" /\ pc'[c] = "error" /\ ~met[c] => Caused(c)]_vars
  <2>1. ASSUME NEW c \in Calls, pc'[c] = pc[c] PROVE ~(pc[c] # "error" /\ pc'[c] = "error")
    BY <2>1
  <2>2. (\E k \in Keys : Expire(k)) \/ UNCHANGED vars => pc' = pc
    BY DEF Expire, vars
  <2>3. QED
    BY <1>1, <2>1, <2>2 DEF Next
<1>3. QED
  BY <1>2, RegistryIsInductive, PTL DEF Spec, ServerErrorHasACause

=============================================================================
