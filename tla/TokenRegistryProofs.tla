-------------------------- MODULE TokenRegistryProofs --------------------------
(***************************************************************************)
(* What the token registry keeps, for any networks, symbols, addresses and *)
(* calls, however the calls overlap: its types, and the rules that the     *)
(* services check before they write, but for what became stale in between. *)
(***************************************************************************)
EXTENDS TokenRegistry, TLAPS

-----------------------------------------------------------------------------
(* The entities. *)

\* The entity a creation builds is a token that is not removed.
LEMMA NewTokenType ==
    ASSUME NEW dto \in CreateTokenDto
    PROVE  LET e == NewToken(dto) IN
           /\ e \in Token /\ ~e.deleted
           /\ e.network = dto.network /\ e.standard = dto.standard /\ e.type = dto.type
BY DEF CreateTokenDto, NewToken, Token, Statuses

\* A merge sets the symbol and the status and nothing else.
LEMMA MergedToken ==
    ASSUME NEW e \in Token, NEW dto \in UpdateTokenDto
    PROVE  LET m == Merged(e, dto) IN
           /\ m \in Token
           /\ m.deleted = e.deleted
           /\ \A k \in Fixed : m[k] = e[k]
           /\ m.symbol = IF dto.symbol = Null THEN e.symbol ELSE dto.symbol
           /\ m.status = IF dto.status = Null THEN e.status ELSE dto.status
BY DEF UpdateTokenDto, Merged, Token, Fixed

\* A merge into a network is a network.
LEMMA MergedNetwork ==
    ASSUME NEW e \in Network, NEW dto \in UpdateNetworkDto
    PROVE  Merged(e, dto) \in Network
BY DEF UpdateNetworkDto, Merged, Network

\* An UPDATE of a token leaves a token: each column is the row's or the entity's.
LEMMA OverwrittenToken ==
    ASSUME NEW r \in Token, NEW e \in Token, NEW columns
    PROVE  LET w == Overwrite(r, e, columns) IN
           /\ w \in Token
           /\ w.network \in {r.network, e.network}
           /\ w.type \in {r.type, e.type}
           /\ w.standard \in {r.standard, e.standard}
           /\ w.symbol \in {r.symbol, e.symbol}
           /\ w.address \in {r.address, e.address}
           /\ w.status \in {r.status, e.status}
           /\ w.deleted \in {r.deleted, e.deleted}
BY DEF Overwrite, Token

\* An UPDATE of a network leaves a network.
LEMMA OverwrittenNetwork ==
    ASSUME NEW r \in Network, NEW e \in Network, NEW columns
    PROVE  Overwrite(r, e, columns) \in Network
BY DEF Overwrite, Network

-----------------------------------------------------------------------------
(* Types. *)

\* The steps of a call that write to a table, and end it.
Writes(c) == Insert(c) \/ SoftRemove(c) \/ Write(c)

\* A step of a call leaves the other calls alone, and only a write changes a
\* table or ends a call that found something.
LEMMA StepFrame ==
    ASSUME TypeOK, NEW c \in Calls, Step(c)
    PROVE  /\ \A d \in Calls : d # c =>
                  pc'[d] = pc[d] /\ id'[d] = id[d] /\ copy'[d] = copy[d]
           /\ ~Writes(c) => network' = network /\ token' = token
           /\ Writes(c) => InFlight(c) /\ pc'[c] = "done"
           /\ pc[c] # "done"
<1>1. \A d \in Calls : d # c => pc'[d] = pc[d] /\ id'[d] = id[d] /\ copy'[d] = copy[d]
  BY DEF Step, Writes, CreateToken, ChangeToken, Create, CountNative, CountSymbol,
         CountAddress, Insert, Update, CountRename, Recheck, Deprecate, DeprecateUpdate,
         ChangeNetwork, Remove, SoftRemove, Compare, Write, Wait, End, Continue, TypeOK
<1>2. ~Writes(c) => network' = network /\ token' = token
  BY DEF Step, Writes, CreateToken, ChangeToken, Create, CountNative, CountSymbol,
         CountAddress, Insert, Update, CountRename, Recheck, Deprecate, DeprecateUpdate,
         ChangeNetwork, Remove, SoftRemove, Compare, Write, Wait, End, Continue, TypeOK
<1>3. Writes(c) => InFlight(c) /\ pc'[c] = "done"
  BY DEF Writes, Insert, SoftRemove, Write, End, Wait, TypeOK, InFlight, Counting, Saving
<1>4. pc[c] # "done"
  BY DEF Step, CreateToken, ChangeToken, Create, CountNative, CountSymbol, CountAddress,
         Insert, Update, CountRename, Recheck, Deprecate, DeprecateUpdate, ChangeNetwork,
         Remove, SoftRemove, Compare, Write
<1>5. QED
  BY <1>1, <1>2, <1>3, <1>4

\* What a write does to the tables.
LEMMA WriteTables ==
    ASSUME TypeOK, NEW c \in Calls, KindInv(c), Writes(c)
    PROVE  \/ /\ Insert(c) /\ network' = network
              /\ token' = [token EXCEPT ![c] = copy[c]]
              /\ token[c] = Null /\ copy[c] \in Token
           \/ /\ id[c] \in Networks /\ token' = token
              /\ \E r \in Network : network' = [network EXCEPT ![id[c]] = r]
           \/ /\ id[c] \in Calls /\ id[c] \notin Networks /\ network' = network
              /\ token[id[c]] \in Token
              /\ \E r \in Token : /\ token' = [token EXCEPT ![id[c]] = r]
                                  /\ \/ /\ SoftRemove(c)
                                        /\ r = [token[id[c]] EXCEPT !.deleted = TRUE]
                                     \/ /\ Write(c) /\ copy[c] \in Token
                                        /\ r = Overwrite(token[id[c]], copy[c], dirty[c])
<1>1. CASE Insert(c)
  BY <1>1 DEF Insert, KindInv, Counting
<1>2. CASE SoftRemove(c) /\ id[c] \in Networks
  <2>1. PICK n \in Network : n = network[id[c]]
    BY <1>2 DEF TypeOK
  <2>2. [n EXCEPT !.deleted = TRUE] \in Network
    BY DEF Network
  <2>3. QED
    BY <1>2, <2>1, <2>2 DEF SoftRemove
<1>3. CASE SoftRemove(c) /\ id[c] \notin Networks
  <2>1. id[c] \in Calls /\ token[id[c]] \in Token
    BY <1>3 DEF SoftRemove, KindInv, TypeOK
  <2>2. [token[id[c]] EXCEPT !.deleted = TRUE] \in Token
    BY <2>1 DEF Token
  <2>3. QED
    BY <1>3, <2>1, <2>2 DEF SoftRemove
<1>4. CASE Write(c) /\ id[c] \in Networks
  <2>1. Overwrite(network[id[c]], copy[c], dirty[c]) \in Network
    BY <1>4, OverwrittenNetwork DEF Write, KindInv, TypeOK, Saving
  <2>2. QED
    BY <1>4, <2>1 DEF Write
<1>5. CASE Write(c) /\ id[c] \notin Networks
  <2>1. id[c] \in Calls /\ token[id[c]] \in Token /\ copy[c] \in Token
    BY <1>5 DEF Write, KindInv, TypeOK, Saving
  <2>2. Overwrite(token[id[c]], copy[c], dirty[c]) \in Token
    BY <2>1, OverwrittenToken
  <2>3. QED
    BY <1>5, <2>1, <2>2 DEF Write
<1>6. QED
  BY <1>1, <1>2, <1>3, <1>4, <1>5 DEF Writes

\* What a call holds after a step of its own that is no write: it ends, or it
\* waits with an entity of the right kind.
Held(c) ==
    \/ pc'[c] = "done" /\ id'[c] = Null /\ copy'[c] = Null
    \/ pc'[c] \in Counting /\ copy'[c] \in Token /\ ~copy'[c].deleted
    \/ /\ pc'[c] \in {"saving", "writing"}
       /\ id'[c] \in Networks /\ copy'[c] \in Network
    \/ /\ pc'[c] \in Saving
       /\ id'[c] \in Calls /\ id'[c] \notin Networks /\ token[id'[c]] # Null
       /\ copy'[c] \in Token
    \/ /\ pc'[c] = "deprecating" /\ id'[c] \in Calls /\ token[id'[c]] # Null /\ copy'[c] = Null
    \/ /\ pc'[c] = "removing" /\ copy'[c] = Null
       /\ id'[c] \in Networks \/ (id'[c] \in Calls /\ token[id'[c]] # Null)

\* A step changes the entries of its call only.
Framed(c) ==
    /\ pc' = [pc EXCEPT ![c] = pc'[c]]
    /\ id' = [id EXCEPT ![c] = id'[c]]
    /\ copy' = [copy EXCEPT ![c] = copy'[c]]
    /\ dirty' = [dirty EXCEPT ![c] = dirty'[c]]
    /\ stale' \in [Calls -> SUBSET ((Networks \cup Calls) \X Columns)]
    /\ id'[c] \in Networks \cup Calls \cup {Null}
    /\ dirty'[c] \in SUBSET Columns

LEMMA CreateHolds ==
    ASSUME TypeOK, NEW c \in Calls, KindInv(c), CreateToken(c), ~Insert(c)
    PROVE  Held(c) /\ Framed(c)
<1>1. ASSUME NEW dto \in CreateTokenDto, Create(c, dto) PROVE Held(c) /\ Framed(c)
  BY <1>1, NewTokenType DEF Create, Wait, Held, Framed, TypeOK, Counting
<1>2. CASE CountNative(c) \/ CountSymbol(c) \/ CountAddress(c)
  <2>1. pc[c] \in Counting /\ copy[c] \in Token /\ ~copy[c].deleted
    BY <1>2 DEF CountNative, CountSymbol, CountAddress, KindInv, Counting
  <2>2. \/ End(c, {})
        \/ /\ pc' = [pc EXCEPT ![c] = pc'[c]] /\ pc'[c] \in Counting
           /\ id' = [id EXCEPT ![c] = id[c]] /\ copy' = [copy EXCEPT ![c] = copy[c]]
           /\ dirty' = dirty /\ stale' = stale
    BY <1>2 DEF CountNative, CountSymbol, CountAddress, Continue, Wait, TypeOK, Counting
  <2>3. QED
    BY <2>1, <2>2 DEF End, Wait, Held, Framed, TypeOK
<1>3. QED
  BY <1>1, <1>2 DEF CreateToken

LEMMA ChangeHolds ==
    ASSUME TypeOK, NEW c \in Calls, KindInv(c), ChangeToken(c)
    PROVE  Held(c) /\ Framed(c)
<1>1. ASSUME NEW t \in Calls, NEW dto \in UpdateTokenDto, Update(c, t, dto)
      PROVE  Held(c) /\ Framed(c)
  <2>1. token[t] # Null /\ token[t] \in Token /\ t \notin Networks
    BY <1>1, IdAssumption DEF Update, Found, TypeOK
  <2>2. Merged(token[t], dto) \in Token
    BY <2>1, MergedToken
  <2>3. QED
    BY <1>1, <2>1, <2>2 DEF Update, Wait, Held, Framed, TypeOK, Saving
<1>2. ASSUME NEW t \in Calls, Deprecate(c, t) PROVE Held(c) /\ Framed(c)
  BY <1>2 DEF Deprecate, Found, Wait, Held, Framed, TypeOK
<1>3. CASE CountRename(c) \/ Recheck(c)
  <2>1. /\ id[c] \in Calls /\ id[c] \notin Networks /\ token[id[c]] # Null
        /\ copy[c] \in Token
    BY <1>3, IdAssumption DEF CountRename, Recheck, KindInv, Saving
  <2>2. \/ End(c, {})
        \/ /\ pc' = [pc EXCEPT ![c] = pc'[c]] /\ pc'[c] \in Saving
           /\ id' = [id EXCEPT ![c] = id[c]] /\ copy' = [copy EXCEPT ![c] = copy[c]]
           /\ dirty' = dirty /\ stale' = stale
    BY <1>3 DEF CountRename, Recheck, Continue, Wait, TypeOK, Saving
  <2>3. QED
    BY <2>1, <2>2 DEF End, Wait, Held, Framed, TypeOK
<1>4. CASE DeprecateUpdate(c)
  <2>1. id[c] \in Calls /\ id[c] \notin Networks /\ token[id[c]] # Null /\ token[id[c]] \in Token
    BY <1>4, IdAssumption DEF DeprecateUpdate, KindInv, TypeOK
  <2>2. [token[id[c]] EXCEPT !.status = "deprecated"] \in Token
    BY <2>1 DEF Token, Statuses
  <2>3. QED
    BY <1>4, <2>1, <2>2 DEF DeprecateUpdate, End, Wait, Held, Framed, TypeOK, Saving
<1>5. QED
  BY <1>1, <1>2, <1>3, <1>4 DEF ChangeToken

LEMMA OtherHolds ==
    ASSUME TypeOK, NEW c \in Calls, KindInv(c),
           \/ \E n \in Networks, e \in Network : ChangeNetwork(c, n, e)
           \/ \E i \in Networks \cup Calls : Remove(c, i)
           \/ Compare(c)
    PROVE  Held(c) /\ Framed(c)
<1>1. ASSUME NEW n \in Networks, NEW e \in Network, ChangeNetwork(c, n, e)
      PROVE  Held(c) /\ Framed(c)
  BY <1>1 DEF ChangeNetwork, Wait, Held, Framed, TypeOK, Saving
<1>2. ASSUME NEW i \in Networks \cup Calls, Remove(c, i) PROVE Held(c) /\ Framed(c)
  BY <1>2 DEF Remove, Found, Wait, Held, Framed, TypeOK
<1>3. CASE Compare(c)
  <2>1. \/ id[c] \in Networks /\ copy[c] \in Network
        \/ /\ id[c] \in Calls /\ id[c] \notin Networks
           /\ token[id[c]] # Null /\ copy[c] \in Token
    BY <1>3 DEF Compare, KindInv, Saving
  <2>2. DOMAIN copy[c] \subseteq Columns
    BY <2>1 DEF Network, Token, Columns
  <2>3. QED
    BY <1>3, <2>1, <2>2 DEF Compare, Held, Framed, TypeOK, Saving
<1>4. QED
  BY <1>1, <1>2, <1>3

LEMMA StepHolds ==
    ASSUME TypeOK, NEW c \in Calls, KindInv(c), Step(c), ~Writes(c)
    PROVE  Held(c) /\ Framed(c)
BY CreateHolds, ChangeHolds, OtherHolds DEF Step, Writes

\* Tokens are inserted once, by the call they are known by, and stay.
LEMMA TokensStay ==
    ASSUME TypeOK, NEW c \in Calls, KindInv(c), Step(c)
    PROVE  /\ token' \in [Calls -> Token \cup {Null}]
           /\ network' \in [Networks -> Network]
           /\ \A t \in Calls : token[t] # Null => token'[t] # Null
           /\ \A t \in Calls : token'[t] # Null /\ token[t] = Null => t = c /\ Insert(c)
<1>1. CASE ~Writes(c)
  BY <1>1, StepFrame DEF TypeOK
<1>2. CASE Writes(c)
  BY <1>2, WriteTables, RowAssumption DEF TypeOK
<1>3. QED
  BY <1>1, <1>2

LEMMA WriteEnds ==
    ASSUME TypeOK, NEW c \in Calls, KindInv(c), Writes(c)
    PROVE  /\ pc' = [pc EXCEPT ![c] = "done"]
           /\ id' = [id EXCEPT ![c] = Null] /\ copy' = [copy EXCEPT ![c] = Null]
           /\ dirty' = [dirty EXCEPT ![c] = {}]
           /\ stale' \in [Calls -> SUBSET ((Networks \cup Calls) \X Columns)]
<1>1. PICK w : End(c, w) /\ w \in SUBSET ((Networks \cup Calls) \X Columns)
  <2>1. CASE Insert(c)
    <3>1. copy[c] \in Token
      BY <2>1 DEF Insert, KindInv, Counting
    <3>2. DOMAIN copy[c] \subseteq Columns
      BY <3>1 DEF Token, Columns
    <3>3. {c} \X DOMAIN copy[c] \in SUBSET ((Networks \cup Calls) \X Columns)
      BY <3>2
    <3>4. QED
      BY <2>1, <3>3 DEF Insert
  <2>2. CASE SoftRemove(c)
    <3>1. {<<id[c], "deleted">>} \in SUBSET ((Networks \cup Calls) \X Columns)
      BY <2>2 DEF SoftRemove, KindInv, Columns
    <3>2. QED
      BY <2>2, <3>1 DEF SoftRemove
  <2>3. CASE Write(c)
    <3>1. dirty[c] \subseteq Columns /\ id[c] \in Networks \cup Calls
      BY <2>3 DEF Write, KindInv, Saving, TypeOK
    <3>2. {id[c]} \X dirty[c] \in SUBSET ((Networks \cup Calls) \X Columns)
      BY <3>1
    <3>3. QED
      BY <2>3, <3>2 DEF Write
  <2>4. QED
    BY <2>1, <2>2, <2>3 DEF Writes
<1>2. stale' \in [Calls -> SUBSET ((Networks \cup Calls) \X Columns)]
  BY <1>1 DEF End, TypeOK
<1>3. QED
  BY <1>1, <1>2 DEF End, Wait

\* Every step keeps the types.
LEMMA TypeStep == TypeInv /\ [Next]_vars => TypeInv'
<1> SUFFICES ASSUME TypeOK, \A c \in Calls : KindInv(c), [Next]_vars
             PROVE  TypeOK' /\ \A c \in Calls : KindInv(c)'
  BY DEF TypeInv
<1>1. CASE UNCHANGED vars
  BY <1>1 DEF vars, TypeOK, KindInv
<1>2. ASSUME NEW c \in Calls, Step(c) PROVE TypeOK' /\ \A d \in Calls : KindInv(d)'
  <2>1. /\ token' \in [Calls -> Token \cup {Null}] /\ network' \in [Networks -> Network]
        /\ \A t \in Calls : token[t] # Null => token'[t] # Null
        /\ \A t \in Calls : token'[t] # Null /\ token[t] = Null => t = c /\ Insert(c)
    BY <1>2, TokensStay
  <2>2. ASSUME NEW d \in Calls, d # c PROVE KindInv(d)'
    <3>1. pc'[d] = pc[d] /\ id'[d] = id[d] /\ copy'[d] = copy[d]
      BY <1>2, <2>2, StepFrame
    <3>2. QED
      BY <2>1, <2>2, <3>1 DEF KindInv
  <2>3. CASE Writes(c)
    <3>1. KindInv(c)'
      BY <1>2, <2>3, WriteEnds DEF KindInv, TypeOK, Counting, Saving
    <3>2. TypeOK'
      BY <2>1, <2>3, WriteEnds DEF TypeOK
    <3>3. QED
      BY <2>2, <3>1, <3>2
  <2>4. CASE ~Writes(c)
    <3>1. Held(c) /\ Framed(c) /\ token' = token
      BY <1>2, <2>4, StepHolds, StepFrame
    <3>2. token[c] = Null
      BY <1>2, StepFrame DEF KindInv
    <3>3. KindInv(c)'
      BY <3>1, <3>2, IdAssumption DEF Held, KindInv, Counting, Saving
    <3>4. TypeOK'
      <4>1. /\ pc'[c] \in {"idle", "done"} \cup Counting \cup Saving \cup {"deprecating", "removing"}
            /\ copy'[c] \in Network \cup Token \cup {Null}
        BY <3>1 DEF Held, Counting, Saving
      <4>2. QED
        BY <2>1, <3>1, <4>1 DEF TypeOK, Framed
    <3>5. QED
      BY <2>2, <3>3, <3>4
  <2>5. QED
    BY <2>3, <2>4
<1>3. QED
  BY <1>1, <1>2 DEF Next

LEMMA TypeInvariance == Spec => []TypeInv
<1>1. Init => TypeInv
  BY DEF Init, TypeInv, TypeOK, KindInv, Network, Counting, Saving
<1>2. QED
  BY <1>1, TypeStep, PTL DEF Spec

\* However calls overlap, the tables, and the entities the calls hold, are of
\* their types.
THEOREM TypeCorrect == Spec => []TypeOK
BY TypeInvariance, PTL DEF TypeInv

-----------------------------------------------------------------------------
(* What a call in flight knows of the writes of the others. *)

\* What another call writes while d is in flight becomes stale for d.
LEMMA StaleGrows ==
    ASSUME TypeOK, NEW c \in Calls, Step(c), NEW d \in Calls, d # c, InFlight(d)
    PROVE  /\ stale[d] \subseteq stale'[d]
           /\ Insert(c) => \A k \in DOMAIN copy[c] : <<c, k>> \in stale'[d]
           /\ SoftRemove(c) => <<id[c], "deleted">> \in stale'[d]
           /\ Write(c) => \A k \in dirty[c] : <<id[c], k>> \in stale'[d]
<1>1. ASSUME NEW w, End(c, w) PROVE stale'[d] = stale[d] \cup w
  BY <1>1 DEF End
<1>2. stale[d] \subseteq stale'[d]
  <2>1. stale' = stale \/ \E w : End(c, w)
    BY DEF Step, CreateToken, ChangeToken, Create, CountNative, CountSymbol, CountAddress,
           Insert, Update, CountRename, Recheck, Deprecate, DeprecateUpdate, ChangeNetwork,
           Remove, SoftRemove, Compare, Write, Continue
  <2>2. QED
    BY <1>1, <2>1
<1>3. Insert(c) => \A k \in DOMAIN copy[c] : <<c, k>> \in stale'[d]
  BY <1>1 DEF Insert
<1>4. SoftRemove(c) => <<id[c], "deleted">> \in stale'[d]
  BY <1>1 DEF SoftRemove
<1>5. Write(c) => \A k \in dirty[c] : <<id[c], k>> \in stale'[d]
  BY <1>1 DEF Write
<1>6. QED
  BY <1>2, <1>3, <1>4, <1>5

\* A step of its own that is no write leaves a call that goes on with what it knows.
LEMMA StaleStays ==
    ASSUME TypeOK, NEW c \in Calls, Step(c), ~Writes(c), pc'[c] # "done"
    PROVE  stale' = stale
BY DEF Step, Writes, CreateToken, ChangeToken, Create, CountNative, CountSymbol, CountAddress,
       Update, CountRename, Recheck, Deprecate, DeprecateUpdate, ChangeNetwork,
       Remove, Compare, Continue, End, Wait, TypeOK

\* A write to a token that exists removes it or merges the columns of a copy.
LEMMA TokenStep ==
    ASSUME RegistryInv, NEW c \in Calls, Step(c), NEW t \in Calls, token[t] # Null
    PROVE  \/ token'[t] = token[t]
           \/ /\ SoftRemove(c) /\ id[c] = t /\ t \notin Networks
              /\ token'[t] = [token[t] EXCEPT !.deleted = TRUE]
           \/ /\ Write(c) /\ id[c] = t /\ t \notin Networks /\ copy[c] \in Token
              /\ token'[t] = Overwrite(token[t], copy[c], dirty[c])
<1>1. TypeOK /\ KindInv(c)
  BY DEF RegistryInv, TypeInv
<1>2. CASE token'[t] # token[t]
  <2>1. Writes(c) /\ ~Insert(c) /\ t \notin Networks
    <3>1. Writes(c)
      BY <1>1, <1>2, StepFrame
    <3>2. ~Insert(c)
      BY <1>1, <1>2, <3>1 DEF Insert, KindInv, TypeOK
    <3>3. QED
      BY <3>1, <3>2, IdAssumption
  <2>2. PICK r \in Token : /\ token' = [token EXCEPT ![id[c]] = r]
                          /\ \/ /\ SoftRemove(c)
                                /\ r = [token[id[c]] EXCEPT !.deleted = TRUE]
                             \/ /\ Write(c) /\ copy[c] \in Token
                                /\ r = Overwrite(token[id[c]], copy[c], dirty[c])
    BY <1>1, <1>2, <2>1, WriteTables DEF TypeOK
  <2>3. id[c] = t /\ token'[t] = r
    BY <1>1, <1>2, <2>2 DEF TypeOK
  <2>4. QED
    BY <2>1, <2>2, <2>3
<1>3. QED
  BY <1>2

\* So a token that exists keeps its fixed columns, and each other column that
\* changes is one that a save found to differ, or the mark of a removal.
LEMMA TokenColumns ==
    ASSUME RegistryInv, NEW c \in Calls, Step(c), NEW t \in Calls, token[t] # Null
    PROVE  /\ token'[t] \in Token
           /\ \A k \in Fixed : token'[t][k] = token[t][k]
           /\ \A k \in {"symbol", "status", "deleted"} : token'[t][k] # token[t][k] =>
                  /\ id[c] = t
                  /\ \/ SoftRemove(c) /\ k = "deleted" /\ token'[t].deleted
                     \/ Write(c) /\ k \in dirty[c] /\ token'[t][k] = copy[c][k]
<1>1. TypeOK /\ KindInv(c) /\ ChangeFits(c) /\ token[t] \in Token
  BY DEF RegistryInv, TypeInv, TypeOK
<1>2. CASE token'[t] = token[t]
  BY <1>1, <1>2
<1>3. CASE /\ SoftRemove(c) /\ id[c] = t
           /\ token'[t] = [token[t] EXCEPT !.deleted = TRUE]
  BY <1>1, <1>3 DEF Token, Fixed
<1>4. CASE /\ Write(c) /\ id[c] = t /\ copy[c] \in Token
           /\ token'[t] = Overwrite(token[t], copy[c], dirty[c])
  <2>1. token'[t] \in Token
    BY <1>1, <1>4, OverwrittenToken
  <2>2. \A k \in Fixed : copy[c][k] = token[t][k]
    BY <1>1, <1>4 DEF ChangeFits, Write, Saving
  <2>3. \A k \in DOMAIN token[t] :
            token'[t][k] = IF k \in dirty[c] THEN copy[c][k] ELSE token[t][k]
    BY <1>4 DEF Overwrite
  <2>4. Fixed \cup {"symbol", "status", "deleted"} \subseteq DOMAIN token[t]
    BY <1>1 DEF Token, Fixed
  <2>5. QED
    BY <1>4, <2>1, <2>2, <2>3, <2>4
<1>5. QED
  BY <1>2, <1>3, <1>4, TokenStep

\* What changes in a token while another call is in flight is stale for it.
LEMMA TokenOutdated ==
    ASSUME RegistryInv, NEW c \in Calls, Step(c), NEW d \in Calls, d # c, InFlight(d),
           NEW t \in Calls, NEW k \in Fixed \cup {"symbol", "status", "deleted"},
           token'[t] # Null
    PROVE  \/ <<t, k>> \in stale'[d]
           \/ token[t] # Null /\ token'[t][k] = token[t][k]
<1>1. TypeOK /\ KindInv(c)
  BY DEF RegistryInv, TypeInv
<1>2. CASE token[t] = Null
  <2>1. t = c /\ Insert(c)
    BY <1>1, <1>2, TokensStay
  <2>2. copy[c] \in Token
    BY <1>1, <2>1 DEF Insert, KindInv, Counting
  <2>3. k \in DOMAIN copy[c]
    BY <2>2 DEF Token, Fixed
  <2>4. QED
    BY <1>1, <2>1, <2>3, StaleGrows
<1>3. CASE token[t] # Null /\ token'[t][k] # token[t][k]
  <2>1. /\ k \notin Fixed /\ id[c] = t
        /\ \/ SoftRemove(c) /\ k = "deleted"
           \/ Write(c) /\ k \in dirty[c]
    BY <1>3, TokenColumns
  <2>2. QED
    BY <1>1, <2>1, StaleGrows
<1>4. QED
  BY <1>2, <1>3

\* The same of a network.
LEMMA NetworkOutdated ==
    ASSUME RegistryInv, NEW c \in Calls, Step(c), NEW d \in Calls, d # c, InFlight(d),
           NEW n \in Networks, NEW k \in {"driver", "isActive", "deleted"}
    PROVE  <<n, k>> \in stale'[d] \/ network'[n][k] = network[n][k]
<1>1. TypeOK /\ KindInv(c) /\ network[n] \in Network
  BY DEF RegistryInv, TypeInv, TypeOK
<1>2. SUFFICES ASSUME network'[n] # network[n]
               PROVE  <<n, k>> \in stale'[d] \/ network'[n][k] = network[n][k]
  OBVIOUS
<1>3. CASE SoftRemove(c)
  <2>1. id[c] = n /\ network'[n] = [network[n] EXCEPT !.deleted = TRUE]
    BY <1>1, <1>2, <1>3 DEF SoftRemove, TypeOK
  <2>2. <<n, "deleted">> \in stale'[d]
    BY <1>1, <1>3, <2>1, StaleGrows
  <2>3. QED
    BY <1>1, <2>1, <2>2 DEF Network
<1>4. CASE Write(c)
  <2>1. id[c] = n /\ network'[n] = Overwrite(network[n], copy[c], dirty[c])
    BY <1>1, <1>2, <1>4 DEF Write, TypeOK
  <2>2. k \notin dirty[c] => network'[n][k] = network[n][k]
    BY <1>1, <2>1 DEF Overwrite, Network
  <2>3. QED
    BY <1>1, <1>4, <2>1, <2>2, StaleGrows
<1>5. QED
  BY <1>1, <1>2, <1>3, <1>4, StepFrame DEF Writes, Insert

-----------------------------------------------------------------------------
(* What the calls have found out. *)

\* A value that seems free goes on to seem free while others write.
LEMMA StillSeemsFree ==
    ASSUME RegistryInv, NEW c \in Calls, Step(c), NEW d \in Calls, d # c, InFlight(d),
           NEW n, NEW k \in {"symbol", "type", "address"}, NEW v,
           SeemsFree(d, n, k, v)
    PROVE  SeemsFree(d, n, k, v)'
<1> SUFFICES ASSUME NEW t \in Calls, Found(t)', token'[t].network = n, token'[t][k] = v
             PROVE  Stale(d, t, k)'
  BY DEF SeemsFree
<1>1. TypeOK /\ token'[t] # Null /\ ~token'[t].deleted
  BY DEF RegistryInv, TypeInv, Found
<1>2. <<t, "deleted">> \in stale'[d] \/ (token[t] # Null /\ token'[t].deleted = token[t].deleted)
  BY <1>1, TokenOutdated
<1>3. <<t, k>> \in stale'[d] \/ (token[t] # Null /\ token'[t][k] = token[t][k])
  <2>1. k \in Fixed \cup {"symbol", "status", "deleted"}
    BY DEF Fixed
  <2>2. QED
    BY <1>1, <2>1, TokenOutdated
<1>4. CASE token[t] # Null /\ token'[t].deleted = token[t].deleted /\ token'[t][k] = token[t][k]
  <2>1. token[t].network = n
    BY <1>4, TokenColumns DEF Fixed
  <2>2. Stale(d, t, k)
    BY <1>1, <1>4, <2>1 DEF SeemsFree, Found
  <2>3. QED
    BY <1>1, <2>2, StaleGrows DEF Stale
<1>5. QED
  BY <1>2, <1>3, <1>4 DEF Stale

\* The writes of others leave a creation with what it knows.
LEMMA OtherCreationFits ==
    ASSUME RegistryInv, NEW c \in Calls, Step(c), NEW d \in Calls, d # c
    PROVE  CreationFits(d)'
<1>1. /\ TypeOK /\ KindInv(d) /\ CreationFits(d)
      /\ pc'[d] = pc[d] /\ copy'[d] = copy[d]
  BY StepFrame DEF RegistryInv, TypeInv
<1> SUFFICES ASSUME pc[d] \in Counting PROVE CreationFits(d)'
  BY <1>1 DEF CreationFits
<1>2. InFlight(d)
  BY DEF InFlight
<1>3. PICK n \in Networks : n = copy[d].network
  BY <1>1 DEF KindInv, Token
<1>4. PICK s, a, f : s = copy[d].symbol /\ a = copy[d].address /\ f = copy[d].standard
  OBVIOUS
<1>5. stale[d] \subseteq stale'[d]
  BY <1>1, <1>2, StaleGrows
<1>6. \A k \in {"driver", "isActive", "deleted"} :
          <<n, k>> \in stale'[d] \/ network'[n][k] = network[n][k]
  BY <1>2, NetworkOutdated
<1>7. /\ network'[n].isActive \/ <<n, "isActive">> \in stale'[d]
      /\ ~network'[n].deleted \/ <<n, "deleted">> \in stale'[d]
      /\ \/ f \in AllowedStandards[network'[n].driver]
         \/ <<n, "driver">> \in stale'[d]
  BY <1>1, <1>3, <1>4, <1>5, <1>6 DEF CreationFits
<1>8. SeemsFree(d, n, "type", "native") => SeemsFree(d, n, "type", "native")'
  BY <1>2, StillSeemsFree
<1>9. SeemsFree(d, n, "symbol", s) => SeemsFree(d, n, "symbol", s)'
  BY <1>2, StillSeemsFree
<1>10. SeemsFree(d, n, "address", a) => SeemsFree(d, n, "address", a)'
  BY <1>2, StillSeemsFree
<1>11. QED
  BY <1>1, <1>3, <1>4, <1>7, <1>8, <1>9, <1>10 DEF CreationFits

\* They leave a change with what it knows.
LEMMA OtherChangeFits ==
    ASSUME RegistryInv, NEW c \in Calls, Step(c), NEW d \in Calls, d # c
    PROVE  ChangeFits(d)'
<1>1. /\ TypeOK /\ KindInv(d) /\ ChangeFits(d)
      /\ pc'[d] = pc[d] /\ id'[d] = id[d] /\ copy'[d] = copy[d]
  BY StepFrame DEF RegistryInv, TypeInv
<1> SUFFICES ASSUME pc[d] \in Saving, id[d] \in Calls PROVE ChangeFits(d)'
  BY <1>1 DEF ChangeFits
<1>2. InFlight(d) /\ stale[d] \subseteq stale'[d]
  BY <1>1, StaleGrows DEF InFlight
<1>3. PICK t \in Calls : t = id[d]
  OBVIOUS
<1>4. token[t] # Null /\ token'[t] # Null /\ \A k \in Fixed : token'[t][k] = token[t][k]
  <2>1. token[t] # Null
    BY <1>1, <1>3, IdAssumption DEF KindInv
  <2>2. QED
    BY <2>1, TokenColumns, RowAssumption
<1>5. \A k \in {"symbol", "status", "deleted"} :
          <<t, k>> \in stale'[d] \/ token'[t][k] = token[t][k]
  BY <1>2, <1>4, TokenOutdated
<1>6. PICK n, s : n = token[t].network /\ s = copy[d].symbol
  OBVIOUS
<1>7. token'[t].network = n
  BY <1>4, <1>6 DEF Fixed
<1>8. SeemsFree(d, n, "symbol", s) => SeemsFree(d, n, "symbol", s)'
  BY <1>2, StillSeemsFree
<1>9. /\ ~copy[d].deleted
      /\ \A k \in Fixed : copy[d][k] = token'[t][k]
      /\ token'[t].deleted => <<t, "deleted">> \in stale'[d]
      /\ token'[t].status = "deprecated" =>
             copy[d].status = "deprecated" \/ <<t, "status">> \in stale'[d]
  BY <1>1, <1>2, <1>3, <1>4, <1>5 DEF ChangeFits
<1>10. pc[d] \in {"saving", "writing"} =>
           \/ copy[d].symbol = token'[t].symbol
           \/ Stale(d, t, "symbol")'
           \/ SeemsFree(d, n, "symbol", s)'
  BY <1>1, <1>2, <1>3, <1>5, <1>6, <1>8 DEF ChangeFits, Stale
<1>11. QED
  BY <1>1, <1>3, <1>6, <1>7, <1>9, <1>10 DEF ChangeFits

\* A creation that goes on has found what it goes on with.
LEMMA OwnCreationFits ==
    ASSUME RegistryInv, NEW c \in Calls, Step(c)
    PROVE  CreationFits(c)'
<1>1. TypeOK /\ KindInv(c) /\ CreationFits(c)
  BY DEF RegistryInv, TypeInv
<1>2. ASSUME NEW dto \in CreateTokenDto, Create(c, dto) PROVE CreationFits(c)'
  <2>1. /\ copy'[c] = NewToken(dto) /\ network' = network /\ Accepts(dto.network, dto.standard)
        /\ pc'[c] = IF dto.type = "native" THEN "native" ELSE "symbol"
    BY <1>1, <1>2 DEF Create, Wait, TypeOK
  <2>2. /\ copy'[c].network = dto.network /\ copy'[c].standard = dto.standard
        /\ copy'[c].type = dto.type
    BY <2>1, NewTokenType
  <2>3. QED
    BY <2>1, <2>2 DEF CreationFits, Accepts
<1>3. CASE CountNative(c) \/ CountSymbol(c) \/ CountAddress(c)
  <2> SUFFICES ASSUME pc'[c] \in Counting PROVE CreationFits(c)'
    BY DEF CreationFits
  <2>1. /\ network' = network /\ token' = token /\ pc[c] \in Counting
        /\ copy'[c] = copy[c] /\ stale' = stale
    BY <1>1, <1>3 DEF CountNative, CountSymbol, CountAddress, Continue, End, Wait, TypeOK, Counting
  <2>2. PICK n, s, a : n = copy[c].network /\ s = copy[c].symbol /\ a = copy[c].address
    OBVIOUS
  <2>3. \A k, v : SeemsFree(c, n, k, v)' <=> SeemsFree(c, n, k, v)
    BY <2>1 DEF SeemsFree, Stale, Found
  <2>4. \A k, v : ~Taken(n, k, v) => SeemsFree(c, n, k, v)
    BY DEF Taken, SeemsFree
  <2>5. SeemsFree(c, n, "type", "native")' <=> SeemsFree(c, n, "type", "native")
    BY <2>3
  <2>6. SeemsFree(c, n, "symbol", s)' <=> SeemsFree(c, n, "symbol", s)
    BY <2>3
  <2>7. SeemsFree(c, n, "address", a)' <=> SeemsFree(c, n, "address", a)
    BY <2>3
  <2>8. /\ copy[c].type = "native" /\ pc'[c] # "native" => SeemsFree(c, n, "type", "native")
        /\ pc'[c] \in {"address", "insert"} => SeemsFree(c, n, "symbol", s)
        /\ a # Null /\ pc'[c] = "insert" => SeemsFree(c, n, "address", a)
    <3>1. CASE CountNative(c)
      BY <1>1, <2>2, <2>4, <3>1 DEF CountNative, Continue, End, Wait, TypeOK, CreationFits, Counting
    <3>2. CASE CountSymbol(c)
      BY <1>1, <2>2, <2>4, <3>2
         DEF CountSymbol, SymbolTaken, Continue, End, Wait, TypeOK, CreationFits, Counting
    <3>3. CASE CountAddress(c)
      BY <1>1, <2>2, <2>4, <3>3 DEF CountAddress, Continue, End, Wait, TypeOK, CreationFits, Counting
    <3>4. QED
      BY <1>3, <3>1, <3>2, <3>3
  <2>9. QED
    BY <1>1, <2>1, <2>2, <2>5, <2>6, <2>7, <2>8 DEF CreationFits
<1>4. CASE \/ Writes(c) \/ ChangeToken(c) \/ Compare(c)
           \/ \E n \in Networks, e \in Network : ChangeNetwork(c, n, e)
           \/ \E i \in Networks \cup Calls : Remove(c, i)
  <2>1. pc'[c] \notin Counting
    BY <1>1, <1>4
       DEF Writes, Insert, SoftRemove, Write, ChangeToken, Update, Deprecate, CountRename, Recheck,
           DeprecateUpdate, Compare, ChangeNetwork, Remove, Continue, End, Wait, TypeOK, Counting
  <2>2. QED
    BY <2>1 DEF CreationFits
<1>5. QED
  BY <1>2, <1>3, <1>4 DEF Step, CreateToken, Writes

\* A change that goes on holds a copy that fits.
LEMMA OwnChangeFits ==
    ASSUME RegistryInv, NEW c \in Calls, Step(c)
    PROVE  ChangeFits(c)'
<1>1. TypeOK /\ KindInv(c) /\ ChangeFits(c)
  BY DEF RegistryInv, TypeInv
<1>2. ASSUME NEW t \in Calls, NEW dto \in UpdateTokenDto, Update(c, t, dto)
      PROVE  ChangeFits(c)'
  <2>1. /\ token' = token /\ copy'[c] = Merged(token[t], dto) /\ id'[c] = t
        /\ pc'[c] = IF dto.symbol \in {Null, token[t].symbol} THEN "saving" ELSE "rename"
    BY <1>1, <1>2 DEF Update, Wait, TypeOK
  <2>2. /\ ~token[t].deleted /\ token[t] \in Token
        /\ dto.status # Null /\ token[t].status = "deprecated" => dto.status = "deprecated"
    BY <1>1, <1>2 DEF Update, Found, TransitionAllowed, TypeOK
  <2>3. LET m == Merged(token[t], dto) IN
        /\ m.deleted = token[t].deleted
        /\ \A k \in Fixed : m[k] = token[t][k]
        /\ m.symbol = IF dto.symbol = Null THEN token[t].symbol ELSE dto.symbol
        /\ m.status = IF dto.status = Null THEN token[t].status ELSE dto.status
    BY <2>2, MergedToken
  <2>4. QED
    BY <2>1, <2>2, <2>3 DEF ChangeFits
<1>3. CASE CountRename(c) \/ Recheck(c)
  <2>1. /\ token' = token /\ pc[c] \in {"rename", "recheck"} /\ id[c] \in Calls
        /\ \/ pc'[c] = "done"
           \/ /\ id'[c] = id[c] /\ copy'[c] = copy[c] /\ stale' = stale
              /\ \/ pc'[c] = "recheck"
                 \/ /\ pc'[c] = "saving"
                    /\ \/ ~SymbolTaken(copy[c].network, copy[c].symbol)
                       \/ copy[c].symbol = token[id[c]].symbol
    BY <1>1, <1>3 DEF CountRename, Recheck, Continue, Wait, End, TypeOK, KindInv
  <2>2. /\ ~copy[c].deleted
        /\ \A k \in Fixed : copy[c][k] = token[id[c]][k]
        /\ token[id[c]].deleted => <<id[c], "deleted">> \in stale[c]
        /\ token[id[c]].status = "deprecated" =>
               copy[c].status = "deprecated" \/ <<id[c], "status">> \in stale[c]
    BY <1>1, <2>1 DEF ChangeFits, Saving
  <2>3. copy[c].network = token[id[c]].network
    BY <2>2 DEF Fixed
  <2>4. ~SymbolTaken(copy[c].network, copy[c].symbol)
            => SeemsFree(c, token[id[c]].network, "symbol", copy[c].symbol)
    BY <2>3 DEF SymbolTaken, Taken, SeemsFree
  <2>5. CASE pc'[c] = "done"
    BY <2>5 DEF ChangeFits, Saving
  <2>6. CASE pc'[c] # "done"
    BY <2>1, <2>2, <2>4, <2>6 DEF ChangeFits, SeemsFree, Stale, Found, Saving
  <2>7. QED
    BY <2>5, <2>6
<1>4. CASE DeprecateUpdate(c)
  <2>1. /\ token' = token /\ id[c] \in Calls
        /\ \/ pc'[c] = "done"
           \/ /\ pc'[c] = "saving" /\ id'[c] = id[c] /\ Found(id[c])
              /\ copy'[c] = [token[id[c]] EXCEPT !.status = "deprecated"]
    BY <1>1, <1>4 DEF DeprecateUpdate, Wait, End, TypeOK, KindInv
  <2>2. Found(id[c]) => token[id[c]] \in Token
    BY <1>1, <2>1 DEF Found, TypeOK
  <2>3. QED
    BY <2>1, <2>2 DEF ChangeFits, Found, Token, Fixed, Saving
<1>5. CASE Compare(c)
  BY <1>1, <1>5 DEF Compare, ChangeFits, SeemsFree, Stale, Found, TypeOK, Saving
<1>6. ASSUME NEW n \in Networks, NEW e \in Network, ChangeNetwork(c, n, e)
      PROVE  ChangeFits(c)'
  BY <1>1, <1>6, IdAssumption DEF ChangeNetwork, Wait, TypeOK, ChangeFits
<1>7. CASE \/ Writes(c) \/ CreateToken(c)
           \/ \E i \in Networks \cup Calls : Remove(c, i)
           \/ \E t \in Calls : Deprecate(c, t)
  <2>1. pc'[c] \notin Saving
    BY <1>1, <1>7
       DEF Writes, Insert, SoftRemove, Write, CreateToken, Create, CountNative, CountSymbol,
           CountAddress, Remove, Deprecate, Continue, End, Wait, TypeOK, Saving
  <2>2. QED
    BY <2>1 DEF ChangeFits
<1>8. QED
  BY <1>2, <1>3, <1>4, <1>5, <1>6, <1>7 DEF Step, ChangeToken, Writes

LEMMA RegistryStep == RegistryInv /\ [Next]_vars => RegistryInv'
<1> SUFFICES ASSUME RegistryInv, [Next]_vars PROVE RegistryInv'
  OBVIOUS
<1>1. TypeInv'
  BY TypeStep DEF RegistryInv
<1>2. CASE UNCHANGED vars
  <2>1. ASSUME NEW c \in Calls PROVE CreationFits(c)'
    BY <1>2 DEF vars, RegistryInv, CreationFits, SeemsFree, Stale, Found
  <2>2. ASSUME NEW c \in Calls PROVE ChangeFits(c)'
    BY <1>2 DEF vars, RegistryInv, ChangeFits, SeemsFree, Stale, Found
  <2>3. QED
    BY <1>1, <2>1, <2>2 DEF RegistryInv
<1>3. ASSUME NEW c \in Calls, Step(c) PROVE RegistryInv'
  <2>1. \A d \in Calls : CreationFits(d)' /\ ChangeFits(d)'
    BY <1>3, OtherCreationFits, OtherChangeFits, OwnCreationFits, OwnChangeFits
  <2>2. QED
    BY <1>1, <2>1 DEF RegistryInv
<1>4. QED
  BY <1>2, <1>3 DEF Next

LEMMA Invariance == Spec => []RegistryInv
<1>1. Init => RegistryInv
  <2> SUFFICES ASSUME Init PROVE RegistryInv
    OBVIOUS
  <2>1. TypeInv
    BY DEF Init, TypeInv, TypeOK, KindInv, Network, Counting, Saving
  <2>2. QED
    BY <2>1 DEF Init, RegistryInv, CreationFits, ChangeFits, Counting, Saving
<1>2. QED
  BY <1>1, RegistryStep, PTL DEF Spec

-----------------------------------------------------------------------------
(* The theorems about overlapping calls. *)

\* The call that acts is the one that steps.
LEMMA Actor ==
    ASSUME RegistryInv, NEW c \in Calls, Step(c), NEW d \in Calls, Acts(d)
    PROVE  d = c
BY StepFrame DEF Acts, RegistryInv, TypeInv

\* The clash that an insertion makes.
LEMMA InsertionClash ==
    ASSUME RegistryInv, NEW c \in Calls, Step(c), Insert(c),
           NEW u \in Calls, u # c, NEW k \in Rules, Clash(k, c, u)' \/ Clash(k, u, c)'
    PROVE  Stale(c, u, k)
<1>1. TypeOK /\ KindInv(c) /\ CreationFits(c) /\ pc[c] = "insert"
  BY DEF RegistryInv, TypeInv, Insert
<1>2. token'[c] = copy[c] /\ token'[u] = token[u]
  BY <1>1 DEF Insert, TypeOK
<1>3. /\ Found(u) /\ token[u].network = copy[c].network /\ token[u][k] = copy[c][k]
      /\ k = "type" => copy[c].type = "native"
      /\ k = "address" => copy[c].address # Null
  BY <1>2 DEF Clash, Found
<1>4. SeemsFree(c, copy[c].network, k, copy[c][k])
  BY <1>1, <1>3 DEF CreationFits, Counting, Rules
<1>5. QED
  BY <1>3, <1>4 DEF SeemsFree

\* The clash that a save makes.
LEMMA SaveClash ==
    ASSUME RegistryInv, NEW c \in Calls, Step(c), Write(c),
           NEW t \in Calls, id[c] = t, NEW u \in Calls, u # t, NEW k \in Rules,
           token[t] # Null, token[u] # Null,
           \/ Clash(k, t, u)' /\ ~Clash(k, t, u)
           \/ Clash(k, u, t)' /\ ~Clash(k, u, t)
    PROVE  Stale(c, t, k) \/ Stale(c, u, k)
<1>1. TypeOK /\ KindInv(c) /\ ChangeFits(c) /\ pc[c] = "writing"
  BY DEF RegistryInv, TypeInv, Write
<1>2. token'[u] = token[u]
  BY <1>1, TokenStep
<1>3. /\ \A f \in Fixed : token'[t][f] = token[t][f]
      /\ token'[t].symbol # token[t].symbol => token'[t].symbol = copy[c].symbol
  BY TokenColumns
<1>4. SUFFICES ASSUME ~token[t].deleted PROVE Stale(c, t, k) \/ Stale(c, u, k)
  BY <1>1 DEF ChangeFits, Saving, Stale
<1>5. /\ Found(u) /\ Found(t) /\ token[u].network = token[t].network
      /\ token[u][k] = token'[t][k]
  BY <1>2, <1>3, <1>4 DEF Clash, Found, Fixed
<1>6. k = "symbol" /\ token'[t].symbol # token[t].symbol
  BY <1>2, <1>3, <1>5 DEF Clash, Fixed, Rules
<1>7. \/ Stale(c, t, "symbol")
      \/ SeemsFree(c, token[t].network, "symbol", copy[c].symbol)
  BY <1>1, <1>3, <1>6 DEF ChangeFits, Saving
<1>8. QED
  BY <1>3, <1>5, <1>6, <1>7 DEF SeemsFree

\* However calls overlap, two live tokens of a network come to share a symbol
\* or an address, or to be both native, only in a write that rests on a read
\* which another call has made stale.
THEOREM ClashesNeedStaleReads == Spec => ClashesAreStale
<1>1. ASSUME RegistryInv, [Next]_vars, NEW d \in Calls, NEW t \in Calls, NEW u \in Calls,
             NEW k \in Rules, Acts(d), ~Clash(k, t, u), Clash(k, t, u)'
      PROVE  \E i \in {t, u} : <<i, k>> \in stale[d] \/ <<i, "deleted">> \in stale[d]
  <2>1. PICK c \in Calls : Step(c)
    BY <1>1 DEF Next, vars, Acts
  <2>2. d = c /\ t # u /\ TypeOK /\ KindInv(c)
    BY <1>1, <2>1, Actor DEF Clash, RegistryInv, TypeInv
  <2>3. CASE Insert(c)
    <3>1. t = c \/ u = c
      BY <1>1, <2>2, <2>3 DEF Insert, TypeOK, Clash, Found
    <3>2. QED
      BY <1>1, <2>1, <2>2, <2>3, <3>1, InsertionClash DEF Stale
  <2>4. CASE ~Insert(c)
    <3>1. token[t] # Null /\ token[u] # Null
      BY <1>1, <2>1, <2>2, <2>4, TokensStay DEF Clash, Found
    <3>2. token'[t] # token[t] \/ token'[u] # token[u]
      BY <1>1 DEF Clash, Found
    <3>3. PICK i \in {t, u} : token'[i] # token[i]
      BY <3>2
    <3>4. Write(c) /\ id[c] = i
      <4>1. token[i] # Null /\ ~token'[i].deleted /\ token[i] \in Token
        BY <1>1, <2>2, <3>1 DEF Clash, Found, TypeOK
      <4>2. token'[i] # [token[i] EXCEPT !.deleted = TRUE]
        BY <4>1 DEF Token
      <4>3. QED
        BY <1>1, <2>1, <3>3, <4>1, <4>2, TokenStep
    <3>5. QED
      BY <1>1, <2>1, <2>2, <3>1, <3>4, SaveClash DEF Stale
  <2>5. QED
    BY <2>3, <2>4
<1>2. RegistryInv /\ [Next]_vars
        => [\A c, t, u \in Calls, k \in Rules :
               Acts(c) /\ ~Clash(k, t, u) /\ Clash(k, t, u)' =>
                   \E i \in {t, u} : <<i, k>> \in stale[c] \/ <<i, "deleted">> \in stale[c]]_vars
  BY <1>1
<1>3. QED
  BY <1>2, Invariance, PTL DEF Spec, ClashesAreStale

\* However calls overlap, a token leaves DEPRECATED, or comes back after its
\* removal, only in a save whose copy was read before that was written.
THEOREM RevivalsNeedStaleReads == Spec => RevivalsAreStale
<1>1. ASSUME RegistryInv, [Next]_vars, NEW d \in Calls, NEW t \in Calls, Acts(d),
             token[t] # Null
      PROVE  /\ token[t].status = "deprecated" /\ token'[t].status # "deprecated"
                    => <<t, "status">> \in stale[d]
             /\ token[t].deleted /\ ~token'[t].deleted => <<t, "deleted">> \in stale[d]
  <2>1. PICK c \in Calls : Step(c)
    BY <1>1 DEF Next, vars, Acts
  <2>2. d = c /\ ChangeFits(c)
    BY <1>1, <2>1, Actor DEF RegistryInv
  <2>3. \A k \in {"status", "deleted"} : token'[t][k] # token[t][k] =>
            \/ k = "deleted" /\ token'[t].deleted
            \/ Write(c) /\ id[c] = t /\ token'[t][k] = copy[c][k]
    BY <1>1, <2>1, TokenColumns
  <2>4. Write(c) /\ id[c] = t =>
            /\ token[t].deleted => <<t, "deleted">> \in stale[c]
            /\ token[t].status = "deprecated" =>
                   copy[c].status = "deprecated" \/ <<t, "status">> \in stale[c]
    BY <2>2 DEF Write, ChangeFits, Saving
  <2>5. QED
    BY <2>2, <2>3, <2>4
<1>2. RegistryInv /\ [Next]_vars
        => [\A c, t \in Calls : Acts(c) /\ token[t] # Null =>
               /\ token[t].status = "deprecated" /\ token'[t].status # "deprecated"
                      => <<t, "status">> \in stale[c]
               /\ token[t].deleted /\ ~token'[t].deleted => <<t, "deleted">> \in stale[c]]_vars
  BY <1>1
<1>3. QED
  BY <1>2, Invariance, PTL DEF Spec, RevivalsAreStale

\* However calls overlap, a token is born on a network that does not accept it
\* only if another call wrote the column that says so after create had read it.
THEOREM MisbirthsNeedStaleReads == Spec => MisbirthsAreStale
<1>1. ASSUME RegistryInv, [Next]_vars, NEW t \in Calls, token[t] = Null, token'[t] # Null
      PROVE  LET n == token'[t].network IN
             /\ network[n].isActive \/ <<n, "isActive">> \in stale[t]
             /\ ~network[n].deleted \/ <<n, "deleted">> \in stale[t]
             /\ \/ token'[t].standard \in AllowedStandards[network[n].driver]
                \/ <<n, "driver">> \in stale[t]
  <2>1. PICK c \in Calls : Step(c)
    BY <1>1 DEF Next, vars
  <2>2. /\ Insert(t) /\ TypeOK /\ CreationFits(t)
    BY <1>1, <2>1, TokensStay DEF RegistryInv, TypeInv
  <2>3. token'[t] = copy[t] /\ pc[t] \in Counting
    BY <2>2 DEF Insert, TypeOK, Counting
  <2>4. QED
    BY <2>2, <2>3 DEF CreationFits
<1>2. RegistryInv /\ [Next]_vars
        => [\A t \in Calls :
               token[t] = Null /\ token'[t] # Null =>
                   LET n == token'[t].network IN
                   /\ network[n].isActive \/ <<n, "isActive">> \in stale[t]
                   /\ ~network[n].deleted \/ <<n, "deleted">> \in stale[t]
                   /\ \/ token'[t].standard \in AllowedStandards[network[n].driver]
                      \/ <<n, "driver">> \in stale[t]]_vars
  BY <1>1
<1>3. QED
  BY <1>2, Invariance, PTL DEF Spec, MisbirthsAreStale

=============================================================================
