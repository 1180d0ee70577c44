# Verification of the digi-tether backend

TLA+ modules, TLC runs and TLAPS proofs for the NestJS/TypeORM backend of
digi-tether. Paths below are relative to the repository; `tla/` holds this
project. `PROJECT.json` maps every definition to the lines it models and lists
the runs, the findings, the hazards and the theorems.

## 1. The system

The backend is a stateless Node process (several may run) in front of one
PostgreSQL database. All state is in tables; between two `await`s of a request
any other request, of this process or another, may run.

    offline signer --HTTP poll--> SignerJobController -> SignerJobService -> signer_jobs
    (wallet created by a signer) -> WalletService ------> wallets
    operators ---HTTP-----------> WalletController ----^
    operators ---HTTP-----------> TokenController -> TokenService -> tokens
                                                        | findById
    operators ---HTTP-----------> NetworkController -> NetworkService -> networks

Shared by all: the global ValidationPipe, a cache (`NullCacheService`: stores
nothing), an event publisher (`NullEventPublisher`: does nothing), a logger.
`WalletAuditLogRepository.append` is a no-op as well. Nothing in `src/` is
scheduled: there is no cron, although the documents count on one.

| component | state it keeps | operations | what is hard | what makes it correct |
|---|---|---|---|---|
| signer-job service, repository | rows of `signer_jobs`: status, claim (claimedBy/At, token), result, errorMessage, completedAt, retryCount, expiresAt | createJob, claimJob, completeJob, cancelJob, expireJob, incrementRetry, markFailed, queries | each method reads a copy, checks it, and `save`s it some awaits later; nothing compares the version column; two reads per submission; deadlines | one claim winner, a result written once, states only reached by the method that sets them, bounded retries, no early expiry, terminal is terminal |
| pull API and offline signers | where each signer is in its loop | GET available, POST claim, POST result | offers used late, restarts, deadlines, a stuck head of the queue | FIFO, one signer per job, a live job is served, a job signed in time completes |
| wallet pool | rows of `wallets`: status, customerId, reservationToken, reservedAt, previousStatus | createFromSignerResult, assignWallet (reserve, assign), releaseExpiredReservations, lock, unlock, compromise, archive | two commits per assignment, the shape of a query's result, crashes, reservations that expire under a call, guards on stale reads | an owner is for ever, one wallet per customer, no used wallet in the pool, terminal wallets stay, no leaked reservation |
| token registry | rows of `tokens` | create, update, enable/disable, deprecate, remove | three counts, then an insert; no unique index; stale saves; the network may change meanwhile | uniqueness per network, DEPRECATED and removed are final, tokens born on an active network |
| network registry | rows of `networks`, two cache entries per network | create, update, activate, deactivate, remove, findById, findBySlug | cached reads, saves of stale copies, unique columns that count soft-deleted rows, a crash between the save and the deletion of the entries | a column holds what a request asked for, a stale entry or a 500 needs a cause |
| cache | none as deployed | get, set, del, wrap | the cache-aside race of a caching implementation | an entry is stale only after a race or a crash |
| pagination | none; a client walks the pages of a list | paginate, buildPaginatedResult, findAll of the four repositories | rows come, go and tie while the client reads; `Math.ceil`; page and total from two queries | a page walk misses or repeats a row only for a cause; still lists are paged exactly |
| other helpers, validators | none | chunk, formatters | - | - |
| events, queue, logger, health, core filters/interceptors/middleware, config, database wiring, drivers, queues | none, or fixed at boot | - | - | - |

## 2. Modules

| module | models | built on |
|---|---|---|
| `SignerJobRow` | one row of `signer_jobs`: each method's guard and the columns it changes, as functions of the copy it read; the halves of TypeORM's `save` | - |
| `SignerJob` | the service: calls that read, check, compare and write, interleaved and crashing | `SignerJobRow` |
| `JobLifecycle` | the abstract promise: PENDING to CLAIMED to one outcome, one holder, nothing after a terminal state | - |
| `SignerJobSerial` | the properties of the service that need calls on a job not to overlap, and the refinement mapping to `JobLifecycle` | `SignerJob`, `JobLifecycle` |
| `SignerPolling` | the pull protocol: signers that poll, claim, sign, submit, restart, and repeat requests whose answer is lost | `SignerJobRow`, refinement mapping to `JobLifecycle` |
| `WalletPool` | the wallet service and the SQL statements of its repository, up to the answer of each call | refinement mapping to `WalletAssignment` |
| `WalletAssignment` | the abstract promise of the pool: a wallet is granted once, to a customer that has none, never after it was retired; who asks is told what the customer holds | - |
| `TokenRegistry` | token service and the network service it reads, with every query between check and write | - |
| `NetworkRegistry` | the network service on its table, the unique indexes and a cache | - |
| `Listing` | the paged lists: the arithmetic, the two queries, and a client that walks the pages while rows come and go | - |
| `MCSignerJob`, `MCWalletPool`, `MCTokenRegistry`, `MCNetworkRegistry`, `MCListing` | model values and symmetry for TLC | the above |
| `SignerJobProofs`, `SignerJobSerialProofs`, `SignerPollingProofs`, `WalletPoolProofs`, `WalletAssignmentProofs`, `TokenRegistryProofs`, `NetworkRegistryProofs`, `ListingProofs` | theorems | the above |

### How the models correspond to the code

**A call.** `pc[c]` is the `await` that call `c` has reached. A call identifier is
used once, so it also stands for whatever is unique to the call: the claim
token, the uuid, the timestamp, the payload it writes. This is what lets a
property say *whose* result is stored.

**`save`.** `SignerJobRepository.update` and `TokenRepository.update` merge
changes into the entity that was read and call TypeORM's `save`. `save` reloads
the row by its primary key (soft-deleted or not), compares column by column and
UPDATEs those that differ. The models have both halves as steps (`Compare`,
`Write`): a column another call changed in between counts as differing and is
*written back*. The version column is left out: TypeORM increments it and
compares it with nothing unless a version lock is asked for, and nobody asks.

**`SignerJob`.** `Call` is `requireJob`; `SubmitResult` is the first read, in the
controller, with the integrity check and the claim token taken from that row;
`CompleteJob` is the second read. `Accept`/`Refuse` is the block of guards,
`Crash` the loss of the process or the connection before the UPDATE. The
integrity checks of a result are reduced to the signing window, the one that
depends on time; the others compare immutable fields, and a submission they
reject changes nothing. The controller's first read before a claim is left out:
it only finds the job. `Overlap = FALSE` lets a call start on a job only when no
other is in flight for it: a single backend fed one request at a time, or what a
row lock around each method would give.

**`SignerPolling`.** A request is one step; what overlapping requests do is the
subject of `SignerJob`. `GlobalPipe` says whether the application's
ValidationPipe stands in front of the handlers. With it no result passes
(finding 4), so the protocol is studied as the unit tests run it, without.
`ClaimUnanswered` and `SubmitUnanswered` are requests that did their work and
whose answer never arrived: the signer, still where it was, asks again, and the
second request meets a job that is already claimed or completed.

**`WalletPool`.** Each repository method is one SQL statement, so it is one atomic
step with its WHERE as guard (`UpdateAllowed`, `AssignAllowed`) and its SET as
change (`Updated`, `Assigned`). `AssignWallet` is `findByCustomer`, `Reserve` is
phase 1, `Assign` phase 2; both commit by themselves, because the callback of
`dataSource.transaction` does not use the transaction's manager. Every statement
is followed by `findOneOrFail` (`rereading`), and the answer is built from what
that finds: `Dated` is the date whose `toISOString()` throws when it is null
(`lockedAt` is written and cleared together with `previousStatus`, which stands
for it). A call that throws or dies has no answer (`Fail`); what its statements
did stays. `findById` reads the table: the deployed cache stores nothing. The pool of one
driver family is modelled, since every query is restricted to one. `Dying` are the
calls whose process may die.

What an assignment learns from its two statements depends on the shape of
`query('UPDATE ... RETURNING')`. The repository declares a list of rows, and its
unit tests mock one; the Postgres driver of the TypeORM in `package.json` returns
the pair of the rows and their number. The model has both: `driver`, chosen in
`Init` from `Drivers` and never changed, is `"rows"` for the declared shape and
`"pair"` for the application as it boots. Of a pair the code reads an undefined
id and token (`Read`, `Undefined`), and since its length is 2, never that no row was
matched: an empty pool goes on to phase 2 (`Exhausted`), phase 2 matches nothing
and is not stopped (`AssignMisses`; the token-mismatch error of `AssignFails` needs
`"rows"`), and `findOneOrFail({ where: { id: undefined } })` finds any wallet there
is (`Found`), whose missing `assignedAt` ends the call in a TypeError (`Dated`). So
what the runs and proofs say of assignments that succeed is about the code as it is
written and unit-tested, and `PairAssignsNothing` says what the booted application
does instead. The operators' statements read no result and are the same in both.

**`TokenRegistry`.** `Create` is validation and the network check, then one step per
count and the insert (which stands alone, `save` of a new entity). `Update`,
`CountRename`, `Recheck`, `Compare`, `Write` follow `TokenService.update`; `Deprecate`
has its extra read. `ChangeNetwork` stands for update, activate and deactivate,
`Remove`/`SoftRemove` for the two `remove` methods. A refused first read changes
nothing and is left out. Calls overlap freely. `stale[c]` is a history variable, read
by properties only: the columns (of which row) that other calls wrote since the first
read of `c`; `End` adds what a call wrote to those of the calls in flight. `Creators`
bounds the calls that may create a token. An explicit `null` in an update body is left
out too: the columns are NOT NULL and the database refuses it.

**`NetworkRegistry`.** `Create` is followed by one step per count and the INSERT;
the counts see live rows, the unique indexes (`Clashes`) all rows and the name
too. `Update` stands for update, activate and deactivate: `changes` is the part
of the request about modelled columns, merged into the entity (`Merged`), then
`Compare` and `Write` as above; `todo` holds the columns to write and then the
cache keys to delete, which `Promise.all` deletes in either order. `Find` is
`ICache.wrap`: get, the factory's query, set. An entry may expire at any moment,
so the `NullCacheService` of `src/` is the implementation whose entries always
have. `met` and `stale` are history variables, read by properties only: the calls
that ran while another did, and the columns others wrote since an update read its row.

**`Listing`.** The filter and soft deletion are reduced to the set of rows that
match; `createdAt` gives the order, and a query breaks ties as it likes. A row
appears when its transaction commits, perhaps after a younger one. The total is
a COUNT after the SELECT, or, as newer versions of TypeORM do it, follows from a
page that is not full. `stayed`, `grew` and `shrank` are history variables.

**External parts** are modelled from how `src/` uses them: TypeORM's
find/save/softRemove, PostgreSQL's statement atomicity and unique indexes,
class-validator behind the pipe, the signers (their loop is the one in
`src/modules/signer-job/README.md`, lines 13-30), a client that follows
`hasNextPage`.

## 3. Runs

| run | bounds | checks | shows |
|---|---|---|---|
| `jobs_race` | 1 job, 3 overlapping calls, MaxRetry 1, deadline 1, clock 0..2 | TypeOK, RetryBounded, EveryStateIsEarned, NeverExpiredEarly, UnracedWritesFollowLifecycle | what every interleaving leaves intact: the counter is bounded, no state appears that no call was entitled to set, and every illegal move, a completion under a superseded claim among them, is a lost update |
| `jobs_serial` | 1 job, 4 calls, no overlap, MaxRetry 2 | OneClaimWinner, ResultWrittenOnce, ClosedForGood, ImplementsLifecycle | without races the documented promises hold, a closed job keeps its outcome, and the service refines `JobLifecycle` |
| `jobs_two_winners` | 3 overlapping claims | OneClaimWinner **violated** | finding 1 |
| `jobs_overdue` | 3 serial calls | OverdueJobExpires **violated** | finding 2 |
| `polling` | 2 signers, 3 jobs, equal deadlines, clock 0..2, 1 restart, 1 lost answer | TypeOK, SignerIsRecorded, OrphansHaveACause, FifoClaims, LiveJobIsServed, SignedJobCompletes | exclusion, the price of restarts and lost answers, order and progress of the pull protocol |
| `polling_head_blocked` | 2 jobs with deadlines 0 and 1 | LiveJobIsServed **violated** | finding 3 |
| `polling_result_refused` | 2 signers, 2 jobs, pipe in place | SignedJobCompletes **violated** | finding 4 |
| `wallet_pool` | 2 wallets, 2 customers, 3 calls, both result shapes, TTL 0, clock 0..2 | TypeOK, PoolIsClean, AnswersAgree, PairAssignsNothing, LockForgetsOnlyInARace, TerminalAnswersAreTrue, OwnerIsForever, TerminalIsForever, ImplementsAssignment | ownership, the pool and the answers survive crashes, expiring reservations and operators; the pool implements `WalletAssignment`; the booted application assigns nothing |
| `wallet_reservation_leak` | 2 wallets, 3 calls, the shape of the booted application | ReservationIsHeld **violated** | finding 5 |
| `token_registry` | 1 network, 3 overlapping calls of which 2 may create, 2 symbols, 1 address | TypeOK, ClashesAreStale, RevivalsAreStale, MisbirthsAreStale | tokens clash, come back and are born on networks that refuse them only in a write whose call had read what another changed since |
| `network_registry` | 3 overlapping calls, 2 slugs, 2 chain ids, 2 names | TypeOK, EveryColumnWasAsked, LostUpdatesAreStale, StaleNeedsACause, ServerErrorHasACause | what races, crashes and soft-deleted rows cost, and that nothing else does |
| `listing` | 4 rows, page size 1, 2 or 3 | OmissionsNeedACause, RepeatsNeedACause, StillListIsPaged | what a client that walks the pages may miss or get twice, and why |

**Why the bounds are enough.** Jobs do not interact in `SignerJob` (a call
touches one row), so one job is the whole story; three overlapping calls give
every pair of racing writers and a third whose effect is lost or whose token is
superseded; four serial calls reach claim, retry, complete and one more on a
finished job. A deadline inside the clock's range gives times before, at and
after it. In `polling`, three jobs and two signers give a job that is offered
twice and an older one pending. In `wallet_pool`, TTL 0 and one tick let a
reservation expire under its call and be made again by another (a second tick lets
that one expire too, and orders two wallets by age); two wallets and
two customers are needed for a customer who is handed a second wallet and a
wallet handed to a second customer; three calls are two assignments and an operator,
or the two locks of a forgetting lock and one assignment. A network and its tokens
do not interact with another network's, so one is enough for `token_registry`; its
three calls are two creations that race each other and a change of the network,
or a creation, and two changes of its token that race. The symbol, native and address
clashes, the two revivals and births on inactive and unsupporting networks are all
reached in that instance. In `network_registry` each cause needs
three calls at most (a creation, a lookup or change, and the call it races with or
the crash; a creation, a removal and a creation again), and two values of each
unique column make a clash and its absence possible. Four rows and page sizes 1
to 3 give lists of one to four pages, full and broken last pages, and the empty
list. The bounds on clock, calls and faults (`MaxTime`, `Calls`, `MaxCrash`,
`MaxLost`) are not in the code.

**Deadlock** is checked in `listing`, where the table may change for ever, and
nowhere else: call identifiers, jobs and the clock are bounded, so every behaviour
of the other models runs out of things to do. No code path waits on another (no
lock is held across an await).

**Symmetry** is used in runs of invariants and action properties only (and
`jobs_serial` and `wallet_pool`, whose refinement property is a safety property), over
identifiers that are compared for equality only.

**Fairness.** The service models assume none: requests may stop at any point.
`SignerPolling` assumes weak fairness of each signer's whole loop: the signers
poll for ever (the loop in the module's README), and whatever step of its loop a
signer is at stays possible. Nothing makes time pass, jobs appear, signers
restart, or *one particular* step of the loop happen; with the loop as one fair
action a signer whose every poll is refused is still "running", which is how
the run `polling_head_blocked` starves.

## 4. Proofs

Every safety property and action property of the passing runs, and both refinements
that are checked, are theorems: for every set of jobs, calls, signers, wallets,
customers, networks and rows, every retry bound, deadline, page size and bound on the
clock, on restarts and on lost answers. Assumptions on the constants:

- `Null` is not an identifier or a row (`NullAssumption`, `JobsAssumption`,
  `IdAssumption`, `RowAssumption`), the identifiers of networks are not those of
  tokens (`IdAssumption` of `TokenRegistry`) and are not slugs (`KeyAssumption`);
- the numbers are naturals (`MaxRetryAssumption`, `DeadlinesAssumption`,
  `MaxTimeAssumption`, `BoundsAssumption`), and a page size lies between 1 and 100,
  as the DTO has it (`LimitAssumption`);
- the enabled operations exist (`OpsAssumption`), and the two switches are Booleans
  (`PipeAssumption`, `OverlapAssumption`), and the result shapes are the two of
  section 2 (`DriversAssumption`).

Some theorems have a hypothesis: those of `SignerJobSerialProofs` that calls on a
job do not overlap (`~Overlap`), which is also what their run sets, and
`OrphansAreCaused` that the pipe is not there (behind it every signed job is an
orphan, finding 4).
Nowhere is a set assumed finite; where a number of elements is counted, the
invariant itself says that there is one.

- **`SignerJobProofs`** (overlapping calls): TypeCorrect, RetryStaysBounded,
  StatesStayEarned, ExpiryIsNeverEarly, UnracedWritesAreSafe. None of these is
  inductive over the table alone, because a row is overwritten by copies. `IInv`
  says a copy is as good as a row (`GoodCopy`), since it may become one, and that
  a call on its way to a write passed its guard on its copy at some time up to
  now (`GuardHeld`). A merge of a good row and a good copy, column by column
  (`Saved`), is good: each fact of `Earned` concerns one column.
  `StepKeepsHistory` (a finished call stays finished) keeps old facts true.
- **`SignerJobSerialProofs`** (no overlap): OneWinner, ResultsStay,
  ClosedJobsStay, ServiceImplementsLifecycle. `SerialInv` adds that a row's claim and
  result go with its status (`RowShape`), that at most one call
  is in flight for a job and that its copy *is* the row (`CopyIsCurrent`), so the
  guard that held on the copy holds on the row, and that the row remembers its
  winner (`WinnerHoldsRow`). `WriteRefines` shows that a write is one of
  `JobLifecycle`'s transitions or a stutter.
- **`WalletPoolProofs`**: TypeCorrect, PoolStaysClean, OwnersStay,
  PairAssignsNoWallet, TerminalStays, AnswersStayConsistent, ReportsAreTrue,
  LocksRemember, for both result shapes. `PoolInv`: behind a lock the wallet is as it
  was (`Underneath`, `CleanRow`: this is what makes a lock of a reserved wallet
  harmless), a customer has one wallet, an answer once given under the declared shape
  stays true, and under the pair nobody has a wallet, so that no wallet has the date
  an answer needs. ReportsAreTrue adds that terminal rows stay terminal; LocksRemember
  adds that whoever sent a lock to a wallet stays its sender (`SentStays`), so the
  second lock finds the first.
- **`WalletAssignmentProofs`**: PoolImplementsAssignment. `PoolInv` again: a row that
  is granted is reserved, so it is usable and nobody's; a call is told a wallet whose
  holder it asked for (under the pair none is granted, and none told); every other
  step changes neither the life nor the holder of a wallet, nor what was told, and is
  a stutter.
- **`SignerPollingProofs`**: TypeCorrect, SignersAreRecorded, ClaimsAreFifo,
  OrphansAreCaused, ProtocolImplementsLifecycle. FifoClaims is not inductive: an offer
  may be used long after it was made. `PollInv` adds that no pending job is older than
  an offer in hand (`OfferIsOldest`: later jobs are younger, since no row comes from
  the future), that a signer in its loop has a job that exists, and that a signature
  is no older than its job. `StrandingNeedsAFault` shows that a step takes the signer
  from a job in time only by a restart or a lost answer, and from one job: a result is
  refused only when its job is completed or overdue, since the signature lies between
  the creation of the job and now. `Stranded` grows by one element at most, which is
  how `OrphanInv` carries that it is finite. That the protocol implements
  `JobLifecycle` (with signers as holders) needs no hypothesis, unlike the service:
  each request is one step here. `SignerIsRecorded` is what gives a delivered job its
  holder.
- **`TokenRegistryProofs`** (overlapping calls): TypeCorrect, ClashesNeedStaleReads,
  RevivalsNeedStaleReads, MisbirthsNeedStaleReads. `RegistryInv` says what a call has
  found out and still relies on, up to the columns that became stale for it: the
  network accepts tokens and the columns counted so far are free (`CreationFits`); the
  entity in hand differs from its row in the symbol and the status only, and its symbol
  is free or unchanged (`ChangeFits`). Every write of another call either leaves such a
  fact alone or puts the column it concerns into `stale`, and no call moves a token to
  another network (`Fixed`).
- **`NetworkRegistryProofs`**: TypeCorrect, ColumnsAreAsked, LostUpdatesNeedStaleReads,
  StaleEntriesAreCaused, ServerErrorsAreCaused, with calls overlapping freely.
  `AskedInv` extends EveryColumnWasAsked to the copies, which may be written, and
  counts only requests that did not fail. `Alone` says that a call that met no other
  is the only one in flight, so what it read still holds (`UnmetInv`); `StaleInv` says the
  same of any update but for the columns in `stale`. `RowsDiffer`
  (rows differ in the unique columns) turns the clash of a save into one over the
  name, the only unique column an update may change. `CacheInv` classifies each
  entry at every moment, not only at rest: it shows the table, or a call in flight
  has still to delete it (`Doomed`), or a call died before it did, or the lookup that
  stored it met another call.
- **`ListingProofs`**: OmissionsAreCaused, RepeatsAreCaused, StillListsArePaged. The
  position of a row is its rank, the number of rows up to it. If no other row shares
  its creation time (`Untied`), the rank is fixed by the rows that match: rows that
  join only raise it, rows that leave only lower it. So a row that stays is still to
  come or was given (`ToCome`), and is given once (`AtMostOnce`), unless the list
  shrank or grew in front of it. `StillInv` says that the pages already read are full
  and counts what they gave. `Given` is a set of pairs of page and row, and not a sum
  over the pages: a fold over data of any length cannot be reasoned about here.

Before it was proved, each inductive invariant (`IInv`, `SerialInv`, `PollInv` and
`OrphanInv`, `PoolInv`, `RegistryInv` of both registries, `ListingInv`) was checked
by TLC as an invariant of its run's instance. `JobLifecycle` as implemented by
`SignerPolling` was checked in the instance of `polling`; it is proved and has no run.

Only model-checked: the liveness properties `LiveJobIsServed` and
`SignedJobCompletes`, which need fairness and are out of the prover's reach, and
the five runs that show a violation. Nothing is assumed about what a model leaves
out: the theorems are about the modules, and section 2 says how they stand to the
code.

## 5. Findings

Checked by a run (details and quotes in `PROJECT.json`):

1. `claimJob` lets two overlapping claims both succeed; "Exactly one Signer wins".
2. `expireJob` refuses a job *because* its deadline has passed; only a call in the
   millisecond of the deadline succeeds.
3. `findAvailable` does not filter on `expiresAt`: a stale job at the head of the
   queue is offered for ever and starves the rest.
4. `SignerResultDto` carries no validators, and the pipe forbids fields without:
   no result is ever accepted by the booted application.
5. `assignWallet`'s "one database transaction" is two commits; a crash between them
   leaks the reservation.

Seen while reading or modelling; no run of their own:

- With the result of the Postgres driver (section 2) the booted application assigns no
  wallet: every attempt ends in an error, and one that found a wallet in the pool
  leaves it reserved; an empty pool is never reported, and the "0 rows updated" of
  `ARCHITECTURE.md` line 628 is never noticed. `PairAssignsNothing` checks it; the
  unit tests mock the shape the code declares.
- Two overlapping locks make a wallet remember LOCKED ("`LOCKED` preserves the
  previous status; `unlock()` restores it"); the unlock restores LOCKED with nothing
  remembered, and the next would store NULL in `status` and fails: the wallet can
  never be unlocked. `LockForgetsOnlyInARace` shows that it takes the race.
- Two overlapping creates give a network duplicate tokens; the "partial unique index"
  the token entity's comment promises is not declared. In the same way a save brings a
  deprecated or removed token back, and a token is born on a network that was
  deactivated meanwhile; `ClashesAreStale`, `RevivalsAreStale` and `MisbirthsAreStale`
  show that it takes exactly such a race.
- A stale save may replace or erase a stored result (`signer-job.entity.ts`: "Written
  once"); `UnracedWritesFollowLifecycle` shows that it takes a race, and
  `ResultWrittenOnce` that it needs one.
- `incrementRetry` accepts terminal jobs; `errorMessage` stays empty on EXPIRED
  ("Set when status transitions to FAILED or EXPIRED", `signer-job.entity.ts` line 240);
  cancelling a CLAIMED job is allowed although the enum says PENDING only; the
  signer never presents its claim token (the controller takes it from the row);
  `exists()` looks the id up as a requestId; `@ApiGoneResponse` of the result
  endpoint is never produced.
- `expireJob`, `incrementRetry` and `releaseExpiredReservations` have no caller.
- `lockWallet` keeps the reservation token ("Present in RESERVED only"); archiving a
  LOCKED wallet does not look at what it was before the lock; an unlock whose UPDATE
  matched nothing is answered as success, and so is a compromise or archive that
  another operator was faster to make, while one that lost to something else ends in
  a TypeError (`updated.compromisedAt!`); the retry of ADR-WM-008 is not implemented.
- The wallet module's errors extend `Error`, which `GlobalHttpExceptionFilter` maps
  to 500: the documented 404, 409 and 422 are never answered. `createFromSignerResult`
  has no caller, so no wallet enters the pool.
- A create of a network with the slug or chainId of a removed one, or with a name in
  use, ends in the database's error and a 500 (`ServerErrorHasACause`); the network
  README promises uniqueness among non-deleted networks only.
- The network entity says the version column "prevents lost-update races"; a save
  compares it with nothing (`LostUpdatesAreStale` says which columns a stale save can
  undo).
- `@Type(() => Boolean)` turns `?isActive=false` and `?isTestnet=false` into true.
- Rows with equal `created_at` may be missed or repeated by a page walk over a list
  that does not change at all (`Untied` in `Listing`); a row with a time of its own is
  not.
- A CONTRACT token without an address passes validation (`@IsOptional` switches the
  custom validator off); the comparison of EVM addresses is case-sensitive; a
  network's driver can change under its tokens (ADR-T-007); `existsBySlug` and
  `existsByChainId` skip soft-deleted rows while the unique columns do not.
- `update-token.dto.ts` says unknown fields are stripped; the pipe refuses them.

## 6. Not modelled

Events, queue, logger, audit log (no-ops), health, exception filters,
interceptors, request-id middleware, configuration and wiring (no state after
boot), drivers and queues (an interface and an empty module), formatting
utilities, soft deletion of jobs and wallets (no caller), the query methods that
are neither paged nor cached, columns no rule looks at, and the wallet pool
configuration entity (nothing reads it). The caches of the token and the wallet
modules follow the pattern of `NetworkRegistry`, store nothing as deployed, and
are left out of `TokenRegistry` and `WalletPool`.

## 7. Plan

Written, in this order: `SignerJobRow`, `SignerJob`, `JobLifecycle`,
`SignerJobSerial` and their proofs (the core: every payment passes through a
signer job), `SignerPolling`, `WalletPool` and its proofs, `TokenRegistry`,
`WalletAssignment` and the refinement proof, `NetworkRegistry`, `Listing`; then the
proofs of `SignerPolling` and its refinement of `JobLifecycle`, of both registries
and of `Listing`.

Left to model: `SignerPolling` over the interleaved service instead of atomic
requests; a caching `findById` under the operators' guards of `WalletPool`.

Left to prove: what each of the findings takes, from the other side: that the
promises finding 1 breaks (OneClaimWinner, ResultWrittenOnce) hold for every job
whose own calls did not overlap, whatever happens to other jobs; an abstract
specification of the cache that `NetworkRegistry` implements when no call dies.
