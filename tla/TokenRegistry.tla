----------------------------- MODULE TokenRegistry -----------------------------
(***************************************************************************)
(* TokenService and the NetworkService it asks, at work on the tokens and  *)
(* networks tables.  Both services check their rules by reading and then   *)
(* write through TypeORM's save (reload, compare, update what differs), so *)
(* every rule is a check followed, some awaits later, by a write.          *)
(*                                                                         *)
(* The entities declare no unique index on tokens: that a network has one  *)
(* native token, and a symbol or a contract address one token, rests on    *)
(* the counts of TokenService.create and update alone, and nothing         *)
(* serialises the calls about one network: they overlap as they please.    *)
(* What the properties need to tell a stale decision from a wrong one is   *)
(* kept in a history variable, stale, which no guard reads.                *)
(*                                                                         *)
(* The cache is the NullCacheService that src/ wires, so wrap always reads *)
(* the table.  A token is known by the call that creates it.  Columns that *)
(* no rule looks at (name, decimals, logo, ...) are left out of the rows   *)
(* and of the request bodies.                                              *)
(***************************************************************************)
EXTENDS Naturals

CONSTANTS
    Calls,      \* the requests of a behaviour; an identifier is used once
    Creators,   \* those that may create a token
    Networks,
    Symbols,
    Addresses,  \* contract addresses
    Null

ASSUME NullAssumption ==
    /\ Null \notin Symbols \cup Addresses \cup Calls \cup Networks
    /\ Null \notin {"active", "inactive", "deprecated", "evm", "tron"}
ASSUME IdAssumption == Calls \cap Networks = {}

VARIABLES
    network,    \* network[n]: the row of network n
    token,      \* token[t]: the row call t inserted, or Null
    pc,         \* pc[c]: the await call c has reached
    id,         \* id[c]: the network or the token call c is about
    copy,       \* copy[c]: the entity it holds, its changes merged in
    dirty,      \* dirty[c]: the columns its save is about to write
    stale       \* stale[c]: the columns others wrote since its first read

vars == <<network, token, pc, id, copy, dirty, stale>>

Drivers == {"evm", "tron"}
Standards == {"native", "erc20", "trc20"}
Statuses == {"active", "inactive", "deprecated"}
Types == {"native", "contract"}

Network == [driver : Drivers, isActive : BOOLEAN, deleted : BOOLEAN]

Token == [network  : Networks,
          type     : Types,
          standard : Standards,
          symbol   : Symbols,
          address  : Addresses \cup {Null},
          status   : Statuses,
          deleted  : BOOLEAN]

ASSUME RowAssumption == Null \notin Network \cup Token

Columns == {"driver", "isActive", "deleted",
            "network", "type", "standard", "symbol", "address", "status"}

\* What the ContractAddressRequired validator lets through.  The field is also
\* @IsOptional, so an address that is missing is never looked at.
ValidAddress(type, address) == type = "native" => address = Null

\* The request bodies that pass validation; Null is a field left out.
CreateTokenDto ==
    {d \in [network : Networks, type : Types, standard : Standards, symbol : Symbols,
            address : Addresses \cup {Null}, status : Statuses \cup {Null}] :
        ValidAddress(d.type, d.address)}

UpdateTokenDto == [symbol : Symbols \cup {Null}, status : Statuses \cup {Null}]

UpdateNetworkDto == [driver : Drivers \cup {Null}]

\* The steps of a call between its first read and its last write.
Counting == {"native", "symbol", "address", "insert"}
Saving == {"rename", "recheck", "saving", "writing"}
InFlight(c) == pc[c] \in Counting \cup Saving \cup {"deprecating", "removing"}

\* What TypeORM's find sees: the rows that are not soft-deleted.
Found(t) == token[t] # Null /\ ~token[t].deleted

TypeOK ==
    /\ network \in [Networks -> Network]
    /\ token \in [Calls -> Token \cup {Null}]
    /\ pc \in [Calls -> {"idle", "done"} \cup Counting \cup Saving \cup {"deprecating", "removing"}]
    /\ id \in [Calls -> Networks \cup Calls \cup {Null}]
    /\ copy \in [Calls -> Network \cup Token \cup {Null}]
    /\ dirty \in [Calls -> SUBSET Columns]
    /\ stale \in [Calls -> SUBSET ((Networks \cup Calls) \X Columns)]

Init ==
    /\ network \in [Networks -> {n \in Network : ~n.deleted}]
    /\ token = [t \in Calls |-> Null]
    /\ pc = [c \in Calls |-> "idle"]
    /\ id = [c \in Calls |-> Null]
    /\ copy = [c \in Calls |-> Null]
    /\ dirty = [c \in Calls |-> {}]
    /\ stale = [c \in Calls |-> {}]

-----------------------------------------------------------------------------

\* Call c holds entity e of the row i and waits at step s.
Wait(c, s, i, e) ==
    /\ pc' = [pc EXCEPT ![c] = s]
    /\ id' = [id EXCEPT ![c] = i]
    /\ copy' = [copy EXCEPT ![c] = e]

\* The call answers, or throws; its entity is garbage.  The columns it wrote,
\* if any, are stale for the calls in flight.
End(c, written) ==
    /\ Wait(c, "done", Null, Null)
    /\ dirty' = [dirty EXCEPT ![c] = {}]
    /\ stale' = [d \in Calls |-> IF d = c THEN {}
                                ELSE IF InFlight(d) THEN stale[d] \cup written
                                ELSE stale[d]]

\* Call c goes on to step s with the entity it has, or throws.
Continue(c, ok, s) ==
    /\ IF ok THEN Wait(c, s, id[c], copy[c]) /\ UNCHANGED <<dirty, stale>> ELSE End(c, {})
    /\ UNCHANGED <<network, token>>

-----------------------------------------------------------------------------
(* TokenService.create *)

\* ALLOWED_STANDARDS_BY_DRIVER
AllowedStandards == [evm |-> {"native", "erc20"}, tron |-> {"native", "trc20"}]

\* Mutant of Accepts: the isActive check is missing.
AcceptsInactive(n, standard) ==
    ~network[n].deleted /\ standard \in AllowedStandards[network[n].driver]

\* What create requires of the network it reads.
Accepts(n, standard) ==
    /\ ~network[n].deleted
    /\ network[n].isActive
    /\ standard \in AllowedStandards[network[n].driver]

\* Mutant of NewToken: an omitted status is not defaulted.
NewTokenAsGiven(dto) == [k \in DOMAIN dto \cup {"deleted"} |-> IF k = "deleted" THEN FALSE ELSE dto[k]]

\* The entity create builds; an omitted status means ACTIVE.
NewToken(dto) ==
    [network |-> dto.network, type |-> dto.type, standard |-> dto.standard,
     symbol |-> dto.symbol, address |-> dto.address, deleted |-> FALSE,
     status |-> IF dto.status = Null THEN "active" ELSE dto.status]

\* The first read: the network.  A refusal changes nothing and is left out.
Create(c, dto) ==
    /\ c \in Creators
    /\ pc[c] = "idle"
    /\ Accepts(dto.network, dto.standard)
    /\ Wait(c, IF dto.type = "native" THEN "native" ELSE "symbol", Null, NewToken(dto))
    /\ UNCHANGED <<network, token, dirty, stale>>

\* Some live token of n has value v in column k.
Taken(n, k, v) == \E t \in Calls : Found(t) /\ token[t].network = n /\ token[t][k] = v

\* Mutant of SymbolTaken: only the active tokens of the network count.
SymbolTakenByActive(n, s) ==
    \E t \in Calls : /\ Found(t) /\ token[t].network = n
                     /\ token[t].symbol = s /\ token[t].status = "active"

SymbolTaken(n, s) == Taken(n, "symbol", s)

\* assertNoNativeTokenForNetwork
CountNative(c) ==
    /\ pc[c] = "native"
    /\ Continue(c, ~Taken(copy[c].network, "type", "native"), "symbol")

\* assertSymbolIsAvailable without excludeId
CountSymbol(c) ==
    /\ pc[c] = "symbol"
    /\ Continue(c, ~SymbolTaken(copy[c].network, copy[c].symbol),
                IF copy[c].address = Null THEN "insert" ELSE "address")

\* assertContractAddressIsAvailable
CountAddress(c) ==
    /\ pc[c] = "address"
    /\ Continue(c, ~Taken(copy[c].network, "address", copy[c].address), "insert")

\* The INSERT.
Insert(c) ==
    /\ pc[c] = "insert"
    /\ token' = [token EXCEPT ![c] = copy[c]]
    /\ End(c, {c} \X DOMAIN copy[c])
    /\ UNCHANGED network

-----------------------------------------------------------------------------
(* TokenService.update, enable, disable, deprecate *)

\* Mutant of TransitionAllowed: only reactivation is refused.
TransitionAllowedToInactive(from, to) == from = "deprecated" => to # "active"

TransitionAllowed(from, to) == from = "deprecated" => to = "deprecated"

\* The entity e after the columns that dto sets are merged in.
Merged(e, dto) ==
    [k \in DOMAIN e |-> IF k \in DOMAIN dto /\ dto[k] # Null THEN dto[k] ELSE e[k]]

\* update reads the token.  enable and disable are updates of the status.
Update(c, t, dto) ==
    /\ pc[c] = "idle"
    /\ Found(t)
    /\ dto.status # Null => TransitionAllowed(token[t].status, dto.status)
    /\ Wait(c, IF dto.symbol \in {Null, token[t].symbol} THEN "saving" ELSE "rename", t,
            Merged(token[t], dto))
    /\ UNCHANGED <<network, token, dirty, stale>>

\* assertSymbolIsAvailable with excludeId: the count ...
CountRename(c) ==
    /\ pc[c] = "rename"
    /\ Continue(c, TRUE, IF SymbolTaken(copy[c].network, copy[c].symbol)
                         THEN "recheck" ELSE "saving")

\* ... and, when it is not zero, a second read of the token itself.
Recheck(c) ==
    /\ pc[c] = "recheck"
    /\ Continue(c, Found(id[c]) /\ token[id[c]].symbol = copy[c].symbol, "saving")

\* deprecate reads the token and checks it, then calls update ...
Deprecate(c, t) ==
    /\ pc[c] = "idle"
    /\ Found(t)
    /\ token[t].status # "deprecated"
    /\ Wait(c, "deprecating", t, Null)
    /\ UNCHANGED <<network, token, dirty, stale>>

\* ... which reads it again.
DeprecateUpdate(c) ==
    /\ pc[c] = "deprecating"
    /\ IF Found(id[c])
       THEN /\ Wait(c, "saving", id[c], [token[id[c]] EXCEPT !.status = "deprecated"])
            /\ UNCHANGED <<dirty, stale>>
       ELSE End(c, {})
    /\ UNCHANGED <<network, token>>

-----------------------------------------------------------------------------
(* NetworkService.activate, deactivate and update; of the columns update    *)
(* sets only the driver matters here.                                       *)

ChangeNetwork(c, n, e) ==
    /\ pc[c] = "idle"
    /\ ~network[n].deleted
    /\ \/ \E b \in BOOLEAN : e = [network[n] EXCEPT !.isActive = b]
       \/ \E dto \in UpdateNetworkDto : e = Merged(network[n], dto)
    /\ Wait(c, "saving", n, e)
    /\ UNCHANGED <<network, token, dirty, stale>>

-----------------------------------------------------------------------------
(* remove of either service *)

Remove(c, i) ==
    /\ pc[c] = "idle"
    /\ IF i \in Networks THEN ~network[i].deleted ELSE Found(i)
    /\ Wait(c, "removing", i, Null)
    /\ UNCHANGED <<network, token, dirty, stale>>

\* softRemove writes deleted_at and nothing else.
SoftRemove(c) ==
    /\ pc[c] = "removing"
    /\ IF id[c] \in Networks
       THEN network' = [network EXCEPT ![id[c]].deleted = TRUE] /\ UNCHANGED token
       ELSE token' = [token EXCEPT ![id[c]].deleted = TRUE] /\ UNCHANGED network
    /\ End(c, {<<id[c], "deleted">>})

-----------------------------------------------------------------------------
(* Repository.save of an entity that was read: the row is reloaded, a       *)
(* soft-deleted one too, and the columns that differ are written.           *)

Stored(i) == IF i \in Networks THEN network[i] ELSE token[i]

Overwrite(r, e, columns) == [k \in DOMAIN r |-> IF k \in columns THEN e[k] ELSE r[k]]

Compare(c) ==
    /\ pc[c] = "saving"
    /\ pc' = [pc EXCEPT ![c] = "writing"]
    /\ dirty' = [dirty EXCEPT ![c] =
                     {k \in DOMAIN copy[c] : copy[c][k] # Stored(id[c])[k]}]
    /\ UNCHANGED <<network, token, id, copy, stale>>

Write(c) ==
    /\ pc[c] = "writing"
    /\ IF id[c] \in Networks
       THEN /\ network' = [network EXCEPT ![id[c]] = Overwrite(@, copy[c], dirty[c])]
            /\ UNCHANGED token
       ELSE /\ token' = [token EXCEPT ![id[c]] = Overwrite(@, copy[c], dirty[c])]
            /\ UNCHANGED network
    /\ End(c, {id[c]} \X dirty[c])

-----------------------------------------------------------------------------

CreateToken(c) ==
    \/ \E dto \in CreateTokenDto : Create(c, dto)
    \/ CountNative(c) \/ CountSymbol(c) \/ CountAddress(c) \/ Insert(c)

ChangeToken(c) ==
    \/ \E t \in Calls : \/ \E dto \in UpdateTokenDto : Update(c, t, dto)
                       \/ Deprecate(c, t)
    \/ CountRename(c) \/ Recheck(c) \/ DeprecateUpdate(c)

Step(c) ==
    \/ CreateToken(c)
    \/ ChangeToken(c)
    \/ \E n \in Networks, e \in Network : ChangeNetwork(c, n, e)
    \/ \E i \in Networks \cup Calls : Remove(c, i)
    \/ SoftRemove(c) \/ Compare(c) \/ Write(c)

Next == \E c \in Calls : Step(c)

Spec == Init /\ [][Next]_vars

-----------------------------------------------------------------------------

\* Call c takes a step.
Acts(c) == pc'[c] # pc[c]

\* Two live tokens of a network break a design invariant of the Token entity:
\* they share their symbol or their contract address, or are both native.
Rules == {"symbol", "type", "address"}

Clash(k, t, u) ==
    /\ t # u /\ Found(t) /\ Found(u)
    /\ token[t].network = token[u].network
    /\ token[t][k] = token[u][k]
    /\ k = "type" => token[t].type = "native"
    /\ k = "address" => token[t].address # Null

\* Tokens come to clash in a write of a call that had looked at one of the two
\* before another call wrote the very column, or before that token was
\* inserted, removed or brought back; never in a write whose reads still hold.
ClashesAreStale ==
    [][\A c, t, u \in Calls, k \in Rules :
           Acts(c) /\ ~Clash(k, t, u) /\ Clash(k, t, u)' =>
               \E i \in {t, u} : <<i, k>> \in stale[c] \/ <<i, "deleted">> \in stale[c]]_vars

\* DEPRECATED "is a terminal state and cannot be reversed", and a token that
\* was removed stays removed (assertStatusTransitionAllowed; remove), unless
\* the save comes from a call that read the token before the status, or the
\* removal, was written.
RevivalsAreStale ==
    [][\A c, t \in Calls : Acts(c) /\ token[t] # Null =>
           /\ token[t].status = "deprecated" /\ token'[t].status # "deprecated"
                  => <<t, "status">> \in stale[c]
           /\ token[t].deleted /\ ~token'[t].deleted => <<t, "deleted">> \in stale[c]]_vars

\* create looks at the network several queries before it inserts.  A token is
\* born on a network that is removed, inactive or of a driver that does not
\* support its standard only if another call wrote that column in between.
MisbirthsAreStale ==
    [][\A t \in Calls :
           token[t] = Null /\ token'[t] # Null =>
               LET n == token'[t].network IN
               /\ network[n].isActive \/ <<n, "isActive">> \in stale[t]
               /\ ~network[n].deleted \/ <<n, "deleted">> \in stale[t]
               /\ \/ token'[t].standard \in AllowedStandards[network[n].driver]
                  \/ <<n, "driver">> \in stale[t]]_vars

-----------------------------------------------------------------------------
(* The inductive invariant.  Whatever overlaps, a call holds an entity of   *)
(* the kind it is about (KindInv), and what it has found out still holds    *)
(* but for the columns that became stale (CreationFits, ChangeFits).        *)

KindInv(c) ==
    /\ token[c] # Null => pc[c] = "done"
    /\ pc[c] \in Counting => copy[c] \in Token /\ ~copy[c].deleted
    /\ pc[c] \in Saving \cup {"deprecating", "removing"} =>
           id[c] \in Networks \/ (id[c] \in Calls /\ token[id[c]] # Null)
    /\ pc[c] \in {"rename", "recheck", "deprecating"} => id[c] \in Calls
    /\ pc[c] \in Saving => IF id[c] \in Networks THEN copy[c] \in Network ELSE copy[c] \in Token

TypeInv == TypeOK /\ \A c \in Calls : KindInv(c)

\* Column k of row i, or whether there is such a row, became stale for c.
Stale(c, i, k) == <<i, k>> \in stale[c] \/ <<i, "deleted">> \in stale[c]

\* As far as c knows, value v is free in column k of the live tokens of n.
SeemsFree(c, n, k, v) ==
    \A t \in Calls : Found(t) /\ token[t].network = n /\ token[t][k] = v => Stale(c, t, k)

\* As far as a creation has looked, and knows, its token may be inserted.
CreationFits(c) ==
    LET n == copy[c].network IN
    pc[c] \in Counting =>
        /\ network[n].isActive \/ <<n, "isActive">> \in stale[c]
        /\ ~network[n].deleted \/ <<n, "deleted">> \in stale[c]
        /\ \/ copy[c].standard \in AllowedStandards[network[n].driver]
           \/ <<n, "driver">> \in stale[c]
        /\ copy[c].type = "native" /\ pc[c] # "native" => SeemsFree(c, n, "type", "native")
        /\ pc[c] \in {"address", "insert"} => SeemsFree(c, n, "symbol", copy[c].symbol)
        /\ copy[c].address # Null /\ pc[c] = "insert" =>
               SeemsFree(c, n, "address", copy[c].address)

\* The columns of a token that no call changes once it is inserted.
Fixed == {"network", "type", "standard", "address"}

\* As far as c knows, its change to a token may be saved: the copy differs in
\* the symbol and the status only, does not leave DEPRECATED, and has a symbol
\* that is free.
ChangeFits(c) ==
    LET i == id[c] IN
    pc[c] \in Saving /\ i \in Calls =>
        /\ ~copy[c].deleted
        /\ \A k \in Fixed : copy[c][k] = token[i][k]
        /\ token[i].deleted => <<i, "deleted">> \in stale[c]
        /\ token[i].status = "deprecated" =>
               copy[c].status = "deprecated" \/ <<i, "status">> \in stale[c]
        /\ pc[c] \in {"saving", "writing"} =>
               \/ copy[c].symbol = token[i].symbol
               \/ Stale(c, i, "symbol")
               \/ SeemsFree(c, token[i].network, "symbol", copy[c].symbol)

RegistryInv == TypeInv /\ \A c \in Calls : CreationFits(c) /\ ChangeFits(c)

=============================================================================
