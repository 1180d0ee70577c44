---------------------------- MODULE NetworkRegistry ----------------------------
(***************************************************************************)
(* NetworkService on the networks table and on the cache in front of it.   *)
(*                                                                         *)
(* create counts the live rows with its slug and its chainId and inserts   *)
(* some awaits later; the unique indexes on slug, chain_id and name, which *)
(* count the soft-deleted rows too, answer whatever the counts let through *)
(* with an error.  update, activate, deactivate and remove read the row,   *)
(* write it (TypeORM's save reloads, compares and updates what differs)    *)
(* and then delete the two cache entries of the network.                   *)
(*                                                                         *)
(* The cache is any implementation of ICache.  An entry may expire at any  *)
(* moment, so the NullCacheService of src/ is the one whose entries never  *)
(* last.  Calls overlap freely; met and stale are history variables that   *)
(* remember which did, and what that made of the rows they had read.  A    *)
(* network is known by the call that creates it, and columns that no rule  *)
(* looks at are left out.                                                  *)
(***************************************************************************)
CONSTANTS
    Calls,      \* the requests of a behaviour; an identifier is used once
    Slugs, ChainIds, Names,
    Null

ASSUME NullAssumption == Null \notin Calls \cup Slugs
ASSUME KeyAssumption == Calls \cap Slugs = {}

VARIABLES
    row,        \* row[n]: the row call n inserted, or Null
    cache,      \* cache[k]: the network stored under key k, or Null
    pc,         \* pc[c]: the await call c has reached
    id,         \* id[c]: the network or the cache key call c is about
    changes,    \* changes[c]: the columns its request sets, and to what
    copy,       \* copy[c]: the entity it holds
    todo,       \* todo[c]: the columns to write, then the cache keys to delete
    met,        \* met[c]: did another call run while c did?
    stale       \* stale[c]: the columns others wrote since update c read its row

call == <<id, changes, met>>
vars == <<row, cache, pc, id, changes, copy, todo, met, stale>>

Row == [slug : Slugs, chainId : ChainIds, name : Names, isActive : BOOLEAN, deleted : BOOLEAN]
Columns == {"slug", "chainId", "name", "isActive", "deleted"}

ASSUME RowAssumption == Null \notin Row

Keys == Calls \cup Slugs      \* network:id:<id> and network:slug:<slug>

CreateNetworkDto == [slug : Slugs, chainId : ChainIds, name : Names, isActive : BOOLEAN]

\* update sets the name or columns that do not matter here; activate and
\* deactivate set isActive.
Changes == [{"name"} -> Names] \cup [{"isActive"} -> BOOLEAN] \cup {<<>>}

Running == {"slug", "chainId", "insert", "saving", "writing", "removing", "invalidating",
            "querying", "filling"}
Updating == {"saving", "writing"}
Ended == {"done", "refused", "error", "crashed"}

Busy == {c \in Calls : pc[c] \in Running}

\* What TypeORM's find sees: the rows that are not soft-deleted.
Live == {n \in Calls : row[n] # Null /\ ~row[n].deleted}

TypeOK ==
    /\ row \in [Calls -> Row \cup {Null}]
    /\ cache \in [Keys -> Row \cup {Null}]
    /\ pc \in [Calls -> {"idle"} \cup Running \cup Ended]
    /\ id \in [Calls -> Keys \cup {Null}]
    /\ changes \in [Calls -> Row \cup Changes \cup [deleted : {TRUE}]]
    /\ copy \in [Calls -> Row \cup {Null}]
    /\ todo \in [Calls -> SUBSET (Columns \cup Keys)]
    /\ met \in [Calls -> BOOLEAN]
    /\ stale \in [Calls -> SUBSET Columns]

Init ==
    /\ row = [n \in Calls |-> Null]
    /\ cache = [k \in Keys |-> Null]
    /\ pc = [c \in Calls |-> "idle"]
    /\ id = [c \in Calls |-> Null]
    /\ changes = [c \in Calls |-> <<>>]
    /\ copy = [c \in Calls |-> Null]
    /\ todo = [c \in Calls |-> {}]
    /\ met = [c \in Calls |-> FALSE]
    /\ stale = [c \in Calls |-> {}]

-----------------------------------------------------------------------------

\* Call c about i begins, holding entity e, with the changes d, at step s.
Begin(c, i, d, e, s) ==
    /\ pc[c] = "idle"
    /\ pc' = [pc EXCEPT ![c] = s]
    /\ id' = [id EXCEPT ![c] = i]
    /\ changes' = [changes EXCEPT ![c] = d]
    /\ copy' = [copy EXCEPT ![c] = e]
    /\ met' = [d1 \in Calls |-> met[d1] \/ (Busy # {} /\ d1 \in Busy \cup {c})]
    /\ UNCHANGED <<row, cache, todo, stale>>

Goto(c, s) == pc' = [pc EXCEPT ![c] = s] /\ UNCHANGED call

\* The call is over and its entity garbage.
End(c, how) ==
    /\ Goto(c, how)
    /\ copy' = [copy EXCEPT ![c] = Null]
    /\ todo' = [todo EXCEPT ![c] = {}]

-----------------------------------------------------------------------------
(* create *)

\* Mutant of NewNetwork: deleted_at has no default.
NewNetworkAsGiven(dto) == dto

NewNetwork(dto) ==
    [slug |-> dto.slug, chainId |-> dto.chainId, name |-> dto.name,
     isActive |-> dto.isActive, deleted |-> FALSE]

\* Mutant of Exists: only active networks are counted.
ExistsActive(k, v) == \E n \in Live : row[n].isActive /\ row[n][k] = v

\* existsBySlug and existsByChainId
Exists(k, v) == \E n \in Live : row[n][k] = v

Create(c, dto) == Begin(c, c, NewNetwork(dto), NewNetwork(dto), "slug")

\* Count the rows that have the value of column k; go on to step next if none has.
Available(c, k, next) ==
    /\ pc[c] = k
    /\ IF Exists(k, copy[c][k])
       THEN End(c, "refused")
       ELSE Goto(c, next) /\ UNCHANGED <<copy, todo>>
    /\ UNCHANGED <<row, cache, stale>>

AssertSlugIsAvailable(c) == Available(c, "slug", "chainId")
AssertChainIdIsAvailable(c) == Available(c, "chainId", "insert")

\* The columns with a unique index.
UniqueColumns == {"slug", "chainId", "name"}

\* A row other than n has the value of e in one of the unique columns.
Clashes(n, e) ==
    \E m \in Calls \ {n} :
        row[m] # Null /\ \E k \in UniqueColumns : row[m][k] = e[k]

Insert(c) ==
    /\ pc[c] = "insert"
    /\ IF Clashes(c, copy[c])
       THEN End(c, "error") /\ UNCHANGED row
       ELSE End(c, "done") /\ row' = [row EXCEPT ![c] = copy[c]]
    /\ UNCHANGED <<cache, stale>>

-----------------------------------------------------------------------------
(* update, activate, deactivate and remove *)

\* Mutant of Merged: a column the request leaves out gets its default.
MergedWithDefaults(e, d) ==
    [k \in DOMAIN e |-> IF k \in DOMAIN d THEN d[k]
                        ELSE IF k = "isActive" THEN TRUE ELSE e[k]]

\* repo.merge(network, changes)
Merged(e, d) == [k \in DOMAIN e |-> IF k \in DOMAIN d THEN d[k] ELSE e[k]]

\* requireNetwork; one that is not found changes nothing and is left out.
Update(c, n, d) == n \in Live /\ Begin(c, n, d, Merged(row[n], d), "saving")

\* save reloads the row, a soft-deleted one too ...
Compare(c) ==
    /\ pc[c] = "saving"
    /\ Goto(c, "writing")
    /\ todo' = [todo EXCEPT ![c] = {k \in Columns : copy[c][k] # row[id[c]][k]}]
    /\ UNCHANGED <<row, cache, copy, stale>>

\* Mutant of CacheKeys: the entry by slug is forgotten.
CacheKeysById(n) == {n}

\* The keys invalidateNetworkCache deletes.
CacheKeys(n) == {n, row[n].slug}

\* The row of c becomes r, which makes the other copies of it stale; the cache
\* is next.
Written(c, r) ==
    /\ row' = [row EXCEPT ![id[c]] = r]
    /\ stale' = [d \in Calls |->
                     IF d # c /\ pc[d] \in Updating /\ id[d] = id[c]
                     THEN stale[d] \cup {k \in Columns : r[k] # row[id[c]][k]}
                     ELSE stale[d]]
    /\ Goto(c, "invalidating")
    /\ copy' = [copy EXCEPT ![c] = Null]
    /\ todo' = [todo EXCEPT ![c] = CacheKeys(id[c])]

\* ... and writes the columns that differed.
Write(c) ==
    /\ pc[c] = "writing"
    /\ LET r == [k \in Columns |-> IF k \in todo[c] THEN copy[c][k] ELSE row[id[c]][k]]
       IN  IF "name" \in todo[c] /\ Clashes(id[c], r)
           THEN End(c, "error") /\ UNCHANGED <<row, stale>>
           ELSE Written(c, r)
    /\ UNCHANGED cache

Remove(c, n) == n \in Live /\ Begin(c, n, [deleted |-> TRUE], row[n], "removing")

\* softRemove writes deleted_at and nothing else.
SoftRemove(c) ==
    /\ pc[c] = "removing"
    /\ Written(c, [row[id[c]] EXCEPT !.deleted = TRUE])
    /\ UNCHANGED cache

\* invalidateNetworkCache starts both deletions; they end in either order.
Del(c, k) ==
    /\ pc[c] = "invalidating"
    /\ k \in todo[c]
    /\ cache' = [cache EXCEPT ![k] = Null]
    /\ IF todo[c] = {k}
       THEN End(c, "done")
       ELSE /\ todo' = [todo EXCEPT ![c] = @ \ {k}]
            /\ UNCHANGED <<pc, copy, call>>
    /\ UNCHANGED <<row, stale>>

-----------------------------------------------------------------------------
(* findById and findBySlug: ICache.wrap *)

\* The live network under key k.
Stored(k) == {n \in Live : k \in {n, row[n].slug}}

\* get: an entry that is there is the answer.
Find(c, k) == Begin(c, k, <<>>, Null, IF cache[k] = Null THEN "querying" ELSE "done")

\* The factory's query; a network that is not found is not cached.
Query(c) ==
    /\ pc[c] = "querying"
    /\ IF Stored(id[c]) = {}
       THEN End(c, "done")
       ELSE /\ Goto(c, "filling")
            /\ \E n \in Stored(id[c]) : copy' = [copy EXCEPT ![c] = row[n]]
            /\ UNCHANGED todo
    /\ UNCHANGED <<row, cache, stale>>

\* set
Fill(c) ==
    /\ pc[c] = "filling"
    /\ cache' = [cache EXCEPT ![id[c]] = copy[c]]
    /\ End(c, "done")
    /\ UNCHANGED <<row, stale>>

\* The time to live of an entry ends.
Expire(k) ==
    /\ cache[k] # Null
    /\ cache' = [cache EXCEPT ![k] = Null]
    /\ UNCHANGED <<row, pc, copy, todo, call, stale>>

\* The process of call c dies; what it had yet to do stays undone.
Crash(c) ==
    /\ c \in Busy
    /\ Goto(c, "crashed")
    /\ copy' = [copy EXCEPT ![c] = Null]
    /\ UNCHANGED <<row, cache, todo, stale>>

-----------------------------------------------------------------------------

Start(c) ==
    \/ \E dto \in CreateNetworkDto : Create(c, dto)
    \/ \E n \in Calls : Remove(c, n) \/ \E d \in Changes : Update(c, n, d)
    \/ \E k \in Keys : Find(c, k)

Step(c) ==
    \/ AssertSlugIsAvailable(c) \/ AssertChainIdIsAvailable(c) \/ Insert(c)
    \/ Compare(c) \/ Write(c) \/ SoftRemove(c)
    \/ \E k \in Keys : Del(c, k)
    \/ Query(c) \/ Fill(c)

Next ==
    \/ \E c \in Calls : Start(c) \/ Step(c) \/ Crash(c)
    \/ \E k \in Keys : Expire(k)

Spec == Init /\ [][Next]_vars

-----------------------------------------------------------------------------

\* However calls overlap, and although a save writes back whatever its copy
\* holds, every column of every row has a value that the request of some call
\* about that network asked for, and the call did not fail (create; merge and
\* save in update).
EveryColumnWasAsked ==
    \A n \in Calls, k \in Columns :
        row[n] # Null =>
            \E c \in Calls : /\ id[c] = n /\ pc[c] \notin {"refused", "error"}
                             /\ k \in DOMAIN changes[c] /\ changes[c][k] = row[n][k]

\* A save writes a column that its request does not set, and so undoes an
\* activation, a new name or a removal it knows nothing of, only if another call
\* wrote that very column after the save's own read (update, activate,
\* deactivate; the entity's doc says the version column prevents lost updates).
LostUpdatesAreStale ==
    \A c \in Calls :
        pc[c] = "writing" => todo[c] \subseteq DOMAIN changes[c] \cup stale[c]

\* When nothing is in flight, an entry of the cache that differs from the table
\* was stored by a lookup that overlapped another call, or a call died between
\* its write and the deletion of that entry (wrap; invalidateNetworkCache).
StaleNeedsACause ==
    \A k \in Keys :
        Busy = {} /\ cache[k] # Null /\ (\A n \in Stored(k) : row[n] # cache[k])
        => \E c \in Calls : \/ pc[c] = "crashed" /\ k \in todo[c]
                            \/ pc[c] = "done" /\ id[c] = k /\ changes[c] = <<>> /\ met[c]

\* A call that met no other fails in the database only over a name, which no
\* service method checks, or over the slug or the chainId of a removed network,
\* which the counts do not see but the unique indexes do (create; update).
ServerErrorHasACause ==
    [][\A c \in Calls :
           pc[c] # "error" /\ pc'[c] = "error" /\ ~met[c] =>
               \E n \in Calls \ {id[c]} :
                   /\ row[n] # Null
                   /\ \/ row[n].name = copy[c].name
                      \/ /\ row[n].deleted
                         /\ \E k \in {"slug", "chainId"} : row[n][k] = copy[c][k]]_vars

-----------------------------------------------------------------------------
(* The inductive invariant that NetworkRegistryProofs proves. *)

Creating == {"slug", "chainId", "insert"}

\* What a call is about, and what it holds, at each of its steps.  No call
\* changes the slug or the chainId of a row that is there.
KindInv(c) ==
    /\ pc[c] \in Creating \cup {"idle"} => row[c] = Null
    /\ pc[c] \in Creating => id[c] = c /\ copy[c] \in Row /\ changes[c] = copy[c]
    /\ pc[c] \in Updating \cup {"removing"} => id[c] \in Calls /\ row[id[c]] # Null
    /\ pc[c] \in Updating =>
           /\ copy[c] \in Row /\ changes[c] \in Changes
           /\ \A k \in {"slug", "chainId"} : copy[c][k] = row[id[c]][k]
    /\ pc[c] = "removing" => changes[c] = [deleted |-> TRUE]
    /\ pc[c] \in {"querying", "filling"} => id[c] \in Keys /\ changes[c] = <<>>
    /\ pc[c] = "filling" => copy[c] \in Row

TypeInv == TypeOK /\ \A c \in Calls : KindInv(c)

\* A call about n that may have written set column k to v.
Asked(n, k, v) ==
    \E c \in Calls : /\ id[c] = n /\ pc[c] \in {"invalidating", "done", "crashed"}
                     /\ k \in DOMAIN changes[c] /\ changes[c][k] = v

\* A row holds what such calls asked for; the copy of a save holds that and
\* what its own request asks for.
AskedInv ==
    /\ \A n \in Calls, k \in Columns : row[n] # Null => Asked(n, k, row[n][k])
    /\ \A c \in Calls, k \in Columns :
           pc[c] \in Updating =>
               \/ k \in DOMAIN changes[c] /\ changes[c][k] = copy[c][k]
               \/ Asked(id[c], k, copy[c][k])

\* A call in flight that met no other is the only one in flight ...
Alone == \A c \in Busy : ~met[c] => Busy = {c}

\* ... so what it read still holds.
UnmetInv(c) ==
    ~met[c] =>
        /\ pc[c] \in {"chainId", "insert"} => ~Exists("slug", copy[c].slug)
        /\ pc[c] = "insert" => ~Exists("chainId", copy[c].chainId)
        /\ pc[c] = "filling" => \E n \in Stored(id[c]) : row[n] = copy[c]

\* What an update read, and does not set, still holds but for the stale columns.
StaleInv(c) ==
    /\ pc[c] = "saving" =>
           \A k \in Columns \ (DOMAIN changes[c] \cup stale[c]) : copy[c][k] = row[id[c]][k]
    /\ pc[c] = "writing" => todo[c] \subseteq DOMAIN changes[c] \cup stale[c]

\* What the unique indexes see to.
RowsDiffer ==
    \A m, n \in Calls :
        m # n /\ row[m] # Null /\ row[n] # Null =>
            \A k \in UniqueColumns : row[m][k] # row[n][k]

\* The causes of a stale entry under key k.
Undeleted(k) == \E c \in Calls : pc[c] = "crashed" /\ k \in todo[c]
Overtaken(k) == \E c \in Calls : pc[c] = "done" /\ id[c] = k /\ changes[c] = <<>> /\ met[c]

\* A call is about to delete the entry under key k.
Doomed(k) == \E c \in Calls : pc[c] = "invalidating" /\ k \in todo[c]

Fresh(k) == \E n \in Stored(k) : row[n] = cache[k]

CacheInv ==
    \A k \in Keys :
        cache[k] # Null => Fresh(k) \/ Doomed(k) \/ Undeleted(k) \/ Overtaken(k)

RegistryInv ==
    /\ TypeInv
    /\ AskedInv
    /\ Alone
    /\ \A c \in Calls : UnmetInv(c) /\ StaleInv(c)
    /\ RowsDiffer
    /\ CacheInv

=============================================================================
