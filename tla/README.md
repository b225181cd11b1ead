# A TLA+ verification of utils-go

`utils-go` is the library that the services of the Owlto bridge are built from: a
cache that refreshes itself, in-memory copies of the configuration database, an
alerter that does not flood its readers, fee arithmetic, clients for ten kinds of
chains, and small helpers. This directory holds TLA+ models of the parts that
carry its logic, the TLC configurations that check them, and TLAPS proofs of what
matters most.

* [The system](#the-system): inventory of the components
* [The modules](#the-modules): which module models which code, and how
* [Properties](#properties), [Runs and bounds](#runs-and-bounds), [Fairness](#fairness)
* [Proofs](#proofs)
* [Disagreements with the code's comments](#disagreements-with-the-codes-comments)
* [What is not modelled](#what-is-not-modelled), [Plan](#plan)

To check a run: `tlc -config MCSharedTicker.cfg MCSharedTicker`; to check proofs:
`tlapm SharedTickerProofs.tla`. `PROJECT.json` lists runs, properties, the source
lines behind each definition, hazards and theorems.

## The system

| Component (source) | State it keeps | Operations | Hard part |
|---|---|---|---|
| asynccache: tickers (`asynccache/asynccache.go`) | per duration: mutex, started flag, set of caches, stop channel of capacity 1, tick goroutines | `NewAsyncCache`, `Close`, `tick` | goroutines started and stopped while others wait for the mutex |
| asynccache: cache (same file) | map of entries; value, error and expire flag per entry; singleflight group | `Get`, `GetOrSet`, `SetDefault`, `DeleteIf`, `refresh`, `expire` | entries are read and repaired without a lock |
| alert (`alert/common.go`, `alert/lark.go`) | one timer per group under a mutex | `AlertText`, `AlertTextLazy`, `AlertTextLazyGroup` | posts while the mutex is held; reset and interval |
| loader: sixteen table managers (`loader/*.go`) | indexes over rows of configuration tables, under an RWMutex | a `LoadAll...` function called periodically, getters | errors in the middle of a result set, several tables, several indexes |
| loader: `ChainInfoManager`, `TokenInfoManager` | the same, and a shared TON client | `LoadAllChains`, `LoadAllToken`, `AddToken`, `AddTokenInfo`, getters | one load reads the other manager twice |
| loader: `DtcManager`, `BridgeFeeManager` | tiers and ratios per token and pair of chains | tier lookups on floats and big integers, `GetBridgeFeeDetail`, `GetMinValueIncludeGasFee` | limits, truncation, two lookups in one call |
| loader: `AggregatorManager` | routes and fee segments | `LoadAll`, `FindBestRoute` | routes and segments are read under separate locks |
| loader: `SrcTxManager`, `DstTxManager` | rows of two transaction tables, no memory | `Save` (INSERT IGNORE), `SetResult`, existence queries | an error reads as absence; retries |
| loader: `SwapTokenInfoManager` | an asynccache | `GetByChainNameTokenAddr` | refresh (1 h) is slower than expiry (30 min) |
| task (`task/task.go`) | goroutines | `RunTask`, `PeriodicTask`, `ScheduleDailyTask` | a panic ends the loop |
| rpc (`rpc/*.go`) | one token manager per client; Ton's client, made by the first call | balances, allowances, receipts, `GetTokenInfo`, `EstimateGas` | a token is cached before it is complete (Sui); a client assigned without a lock (Ton); failed, missing and empty answers |
| txn (`txn/*`) | instructions whose accounts change in place | bodies for Bitcoin, Evm and Solana, `AddInstructions` | amounts cut to machine integers, two token programs |
| util/jwt, middleware, errors, response | signing key, expiry, a shared error value | tokens of users, `Auth`, `WithMsg` | a shared sentinel that is changed |
| json_extract, httputils, network, telemetry, log, config, apollosdk, convert, abi, ... | none of their own | stateless or one call to a library | none |

How they interact. A program that embeds the library runs each `LoadAll...` in a
goroutine of its own, usually through `task`; the getters are called by request
handlers. `LoadAllToken` calls getters of the chain manager, `LoadAllBridgeFee` is
handed the token manager, every manager and the transaction managers report to an
`Alerter`. `SwapTokenInfoManager` is built on asynccache. Every rpc client keeps
a private `TokenInfoManager` that it fills with `AddTokenInfo`.

What makes each part correct:

* tickers: no goroutine is leaked or lost; a registered cache is served; a closed
  one is left alone; `Close` returns;
* cache: an entry is never seen with neither value nor error; a failing refresh
  costs nothing; an entry in use does not expire; entries catch up with the source;
* alerter: alerts are spaced, mean a persistent failure, and are not overdue;
* managers: readers see complete tables and indexes that agree; a load replaces all
  or nothing; what is published becomes current;
* registry: the lookups agree; gas tokens exist and never hide a listed token;
* getters: however rows repeat and spell their keys, two ways to ask give one answer;
* routes: the route that is returned is the cheapest of what was published meanwhile;
* transactions: recorded once, never overwritten, and every job ends;
* tasks: run again until a panic or the cancellation, at the time of day asked for and
  not twice, as far as days of 23 and 25 hours allow;
* chain clients: a failed answer is never a balance or a token, and a token that was given
  out stays as it was;
* bodies: pay what was asked for, with the programs and accounts of the right token;
* tokens of users: a request is passed on only as the user of its own valid token;
* fees: what a sender adds is what is charged; two forms of one function agree; a
  fee never exceeds its ratio.

## The modules

| Module | Code | Proofs | Model checked by |
|---|---|---|---|
| `SharedTicker` | `asynccache.go`: sharedTicker, NewAsyncCache, Close, tick | `SharedTickerProofs` | `MCSharedTicker` |
| `AsyncCache` | `asynccache.go`: entries, calls, refresh, expire | `AsyncCacheProofs` | `MCAsyncCache` |
| `TableManager` | the Load functions of sixteen managers | `TableManagerProofs` | `MCTableManager` |
| `Snapshots` | abstract: what a reader of a table manager is promised | `TableManagerProofs` | `MCTableManager` |
| `TokenRegistry` | `chain_info.go`, `token_info.go` | `TokenRegistryProofs` | `MCTokenRegistry` |
| `Fees` | `dtc.go`, `bridge_fee.go`, `util/common.go` (FromUiString) | `GettersProofs` | `MCServices` |
| `AggregatorRoutes` | `aggregator_route.go`: FindBestRoute and its lookups | `GettersProofs` | `MCServices` |
| `TableLookups` | the getters of fourteen managers | `GettersProofs` | `MCServices` |
| `LazyAlerter` | `alert/common.go`, `alert/lark.go` | `LazyAlerterProofs` | `MCServices` |
| `ChainRpc` | `rpc/*.go`, `token_info.go` (AddTokenInfo) | `ServicesProofs` | `MCServices` |
| `TxBodies` | `txn/*`, `util/svm_instruction.go`, `rpc/evm.go` (EstimateGas) | `ServicesProofs` | `MCServices` |
| `Auth` | `util/jwt.go`, `middleware/auth.go`, `errors/error.go`, `response/response.go` | `ServicesProofs` | `MCServices` |
| `TxStore` | `src_tx.go`, `dst_tx.go` | `JobsProofs` | `MCJobs` |
| `TxRegister` | abstract: what the two tables promise | `JobsProofs` | `MCJobs` |
| `Tasks` | `task/task.go` | `JobsProofs` | `MCJobs` |
| `Texts`, `MachineInts` | trimming and case of strings; integers of fixed width | | with the modules that use them |

`MCServices` and `MCJobs` each hold several components that share no state.
Their variable `part` says which one a behaviour is about; the others stay in their first
state. A conjunction that let them all move would multiply the states and show nothing
more.

**SharedTicker.** The tick goroutines of a ticker are interchangeable and are
counted by position: in the select, waiting for the mutex, holding it. A critical
section that touches only what its mutex protects is one step; the one in `Close`
that sends on the stop channel is two (`Deregister`, `SendStop`), because the send
may block while the mutex is held. `wg.Wait()` is modelled: `TickUnlocks` waits for
`unserved` to become empty, which `Served` empties cache by cache. An owner may open
and close caches for ever; it closes each once.

**AsyncCache.** One step per atomic operation: sync.Map load, store and delete,
atomic.Value loads, the compare-and-swap of the flag, entry into and end of a flight
of `singleflight`. `entry.Store` writes the value and then the error; on an entry
nobody else knows the two writes are one step, on a published one they are two. Entries
are addresses in a small heap; an address that nothing refers to may be allocated
again. The Fetcher reads a source with a growing version, may fail, and may answer
`(nil, nil)`, as it does for the versions in `NilVersions`. `entry.Store` then overwrites
the `atomic.Value` itself, which is no atomic operation: until the next value is stored a
`Get` may load nil, the value from before (`was`), or the type of a value without its data
(`Torn`); `Found` is that set. Handlers run in
their own goroutines and are left out. That at most one refresh and one expire pass
work on a cache is what `SharedTicker` shows.

**LazyAlerter.** One step per branch of `DoAlertTextLazy`; the branch that alerts is
two (`Alert`, `Sent`) because the mutex is held during the post. The history variables
(`first`, `last`, `alerted`, `reports`, `steady`) serve the properties only.

**TableManager.** Every Load function is a straight line of four kinds of statements:
query, scan loop, test of `rows.Err()`, assignment of fields. It is therefore written
down as a sequence of instructions, one sequence per manager, and the actions are the
outcomes of an instruction. The sequence records exactly what differs between the
managers: which errors return, which are skipped and which panic, which tables are
read in which order, which fields are assigned in one critical section. An index is
identified with the rows it is built from. A table of the database is the sequence of the
contents it has had; the code sees the last one only.

**Snapshots** is that module's abstract specification: tables that change at their own pace,
and one view of them, replaced as a whole by every usable row of a content that each table
has had. Under the mapping, `past` is what the database held of the tables whose
`rows.Err()` is tested and `shown` the set of what the manager's indexes show of them, so
that a step which updates one index and not another is no step of `Snapshots`. Each table
is shown as it was at some moment, not all of them as of the same one: the queries of a load
are separate. Nothing is promised of `MakerAddressManager`, which has no lock, or of the
five tables that are not tested.

**TokenRegistry.** `LoadAllToken` builds its indexes row by row, one step per row
(`TokenScanRow`) in whatever order the database returns them, until the rows end or the
iteration fails (`TokenScanned`); then, chain by chain, it adds gas tokens, reading the
chain manager's ids once and each chain again. `LoadAllChains` runs beside it; `AddToken` and `AddTokenInfo` write at any time. A row that
`rows.Scan` rejects (`BadRows`) is skipped by either load, as is a chain whose client cannot
be made. Every key is lower-cased, so texts that differ in case are one value here. Blanks
are a different matter: the loads, `AddToken` and the getters trim (`Trim`), `AddTokenInfo`
takes its token as it is, and `GetTokenInfo` of an Evm client hands it what the contract
calls itself. `Padded` says which texts have blanks around them.

**Fees.** UI amounts are integers in units of 1/UiUnit, amounts in the smallest unit
are integers, and `FromUi` truncates as `decimal.Shift(...).BigInt()` does. An amount
that passes `strconv.ParseFloat` at load time and not `decimal.NewFromString` is the
value `Unparsable`. `GetBridgeFeeDetail` is two steps, one per lookup, and
`GetMinValueIncludeGasFee` one for its first lookup (`MinBegin`) and one for each dtc that it
tests with a lookup of its own (`MinTry`), with reloads anywhere in between. `GetIncludedDtc`
adds a limit and its dtc as float64 and compares: at the limit the sum may be rounded to
either side, so the function has a set of results (`RoundedTiers`). `GetBridgeFeeNotIncluded`
is given a float64: an amount that lies within 1/FloatUnit below a limit may be equal to it
as a float (`FarBelow`).

**AggregatorRoutes.** `FindBestRoute` is one step for the lookup of the routes, one per
route for the lookup of its segments, and one for the return; `PublishRoutes` and
`PublishSegments`, whose loads are `TableManager`'s, come anywhere in between. A slice of
routes is given by positions in the table, since the code keeps that order. UI amounts
are integers in units of 1/AmountUnit. A limit may be missing or not parse; when
`SetString` fails on a fixed fee the code goes on with what it left behind, any of
`Leftovers`. The history `visible` is the set of segment tables published during a call.

**TableLookups.** What a load puts into its maps, row by row in any order the database may
return, and what each getter then answers. An index is given by the rows it was built from
and a lookup is a search for the last row of a key. Rows repeat keys, and spell them
in lower case, upper case or with blanks around them, exactly as `Texts` says of
`strings.TrimSpace`, `ToLower` and `ToUpper`; each getter trims and lowers what the code
trims and lowers. A sorted slice is given by the positions of its rows (`Sorted`).
`sort.Slice` is not stable, so a slice has a set of orders, and a getter that reads one has
the set of the answers it may give.

**ChainRpc.** `GetRpc` gives a client to goroutines that share it. `GetTokenInfo` is one
step per question to the node, with objects in a heap because callers share pointers.
Two addresses that differ by case are one contract on Evm and two coins on Solana and
Sui, while the cache lowers them all. Ton's client, an interface value, is assigned without
a lock: once some goroutine has assigned it, another one may find the field nil, half
assigned (and panic) or assigned, for as long as the client is used (`TonBegin`). Every kind
of reply (failed, absent, empty, malformed, a number) goes through every client's
`GetBalance`, with the panics of those that use what is nil: Ton's for an account that is not
there, and those of callers of Bitcoin's.

**TxBodies.** A body is a record of what the chain reads: an amount of the width it is
stored in, a value and call data, or instructions with programs and accounts. The
accounts of the create instruction for token-2022 are a variable, since `Accounts()`
changes them in place. The ABI packs an amount modulo 2^256 (`Packed`), Bitcoin and Solana
bodies cut it to 64 bits. The word sizes are constants, small in the run, so that amounts
beyond them occur.

**Auth.** A token is its claims and the secret that signed it. The handler is two steps,
one per parse of the token, between which the clock and the secret may change. Before
`SetJWTSecret` and `SetTokenExpireDuration` the secret is empty and the lifetime is zero, as
the package variables are. Other handlers call `WithMsg` and `WithInfo` on the shared
`UnauthorizedErr` at any time.

**TxStore, TxRegister.** Workers, which are the services that call the managers and not in
this repository, save and finish deposits and payments. A statement succeeds, fails, or is
executed and its answer lost; a worker repeats what failed and starts again after a
crash, with the hash as it was first written. The sender that makes and confirms
generations is external. `TxRegister` is a register per transaction that is written at
most once; the refinement maps it to all the values that a table has for a transaction,
whether its name is spelled with or without blanks around it.

**Tasks.** The three kinds of goroutines with panics, a context that is cancelled, and a
clock; a function takes at least one tick, a sleeper may wake up late. Local time is a
calendar: when each day starts, and when, by `time.Date`, the task is due on it. Where clocks
are changed a day is longer or shorter by `Change`, the due time may be before or after the
change, and two due times are not 24 hours apart, while the code adds 24 hours
(`Next24h`).

## Properties

Every property is stated, with the behaviour it is about, above its definition. What the
runs check is often a conjunction; its named parts follow it in brackets.

* `SharedTicker`: `TickerInv` (inductive; with its parts `TypeOK` and `GoroutineBalance`:
  goroutines less pending stops are one per started ticker), `RegisteredIsServed`,
  `NoPassAfterClose`, `JamIsForever`, `CloseReturnsOrJams`, `PassesKeepComing`,
  `AllGoroutinesStop`; refuted: `CloseReturns`; only proved: `AtMostTwoGoroutines`.
* `AsyncCache`: `CacheInv` (`TypeOK`, `NoErrHasValue`, `OwnGetOrSetHasValue`),
  `KeepsGoodValue`, `ExpiresOnlyIdle`, `EventuallyUpToDate`, `CallsReturn`; refuted:
  `GetHasValueOrError`, `GetOrSetHasValue`, `ExpiresOnlyUnused`.
* `LazyAlerter`: `AlertsAreSpaced`, `AlertMeansPersistent`, `SteadyIsAlerted`; only proved:
  `SteadyInv`, its strengthening.
* `TableManager`: `TablesInv` (`TypeOK`, `PublishedIsComplete`, `IndexesAgree`),
  `ShowsSnapshots` (a refinement of `Snapshots`), `AllOrNothing`, `EventuallyCurrent`; refuted: `LoadAllLoadsAll`.
* `TokenRegistry`: `RegistryInv` (`TypeOK`, `LookupsAgree`), `SteadyChainsHaveGas`,
  `ListedTokensWin`, `GasTokensArrive`.
* `Fees`: `QuotesAgree` (`DtcRoundTrip`, `DtcFormsAgree`, `MinValueIsLeast`,
  `FeeTiersAgree`, `DetailIsFair`).
* `AggregatorRoutes`: `BestRouteUnderReload`, `RoutesAreQuoted` (`RoutesAreFound`,
  `TiledRouteHasFee`, `FeeIsFair`).
* `TableLookups`: `GettersAgree` (`LookupTypeOK`, `AccountLookupsAgree`,
  `BlacklistViewsAgree`, `CommissionTier`, `CctpVersionIsShared`, `LpLookupsAgree`,
  `NodePreference`, `KeyedLookupsAgree`, `RolesAreJoined`, `MakerLookupsAgree`, one for each
  manager or family of managers).
* `ChainRpc`: `AnswersAreHonest` (`InfoIsOfCoin`, `SupplyIsAsked`, `BalanceIsHonest`,
  `PendingIsNotFailure`), `InfoIsKept` (`InfoIsStable`, `FoundIsKept`).
* `TxBodies`: `NeverPaysMore`, `BodiesAreExecutable` (`ProgramsDoNotMix`,
  `GasHasHeadroom`, `EstimateIsEnough`, `CreateAtaIsFor2022`).
* `Auth`: `PassedIsTokensUser`, `AuthInv` (`AbortedIsUnauthorized`, `RefreshLasts`).
* `TxStore`: `TablesAreWriteOnce` (`SrcIsWriteOnce` and `DstIsWriteOnce`, refinements of
  `TxRegister`), `FinishedHasResult`, `DoneGenIsOwn`, `EveryJobFinishes`.
* `Tasks`: `PeriodicRunsUntil`, `DailySlotsInOrder`.

The exceptions a property makes are part of what it says. `IndexesAgree` excepts
`MakerAddressManager`, which has no lock. `PublishedIsComplete` excepts five tables
whose `rows.Err()` nobody tests. `AllOrNothing` excepts `AggregatorManager`, which
publishes table by table. `EventuallyCurrent` excepts managers whose every loader has
panicked and `CmsUserManager` with a row it cannot scan. `LookupsAgree` excepts a token
that `AddTokenInfo` put in with blanks around a text, which no getter can name;
`ListedTokensWin` and `GasTokensArrive` except rows that do not scan: such a token is hidden
by a gas token of its name, and such a chain has no gas token. `ExpiresOnlyIdle` speaks of
what was used before the expire pass began; what is used during it may go, which
`ExpiresOnlyUnused` refutes. `DtcFormsAgree` allows the float64 form the next amount's dtc
where the rounding of a sum decides, and `MinValueIsLeast` is about calls that no reload
disturbed. `CctpVersionIsShared` counts a second messenger of blanks as one, as the code
does. `FeeTiersAgree` and the
dtc properties hold for tiers that rise (ratios that fall) and, where two
representations are compared, for tokens with digits enough. `CommissionTier` promises one
ratio only where rows of one channel and threshold have one ratio: the sort leaves the
others in any order. `TiledRouteHasFee` excepts
the greatest amount of a route, which its last segment leaves out. `RoutesAreFound` says
that a route whose symbol has blanks around it is never found. `InfoIsOfCoin` speaks of
the address up to case, since on Solana and Sui the cache gives one coin's entry for the
other. `EstimateIsEnough` excepts recipients with 1 to 200 bytes of code,
`NeverPaysMore` and `GasHasHeadroom` say what becomes of numbers beyond 63, 64 or 256 bits,
`DailySlotsInOrder` what days with a change of clocks do to the daily task: its time is off
by the change, and on a day of more than 24 hours the same time can be taken again. `AuthInv`
holds the code of the shared error, not its message, and `FinishedHasResult` excepts a
worker whose padded hash was saved by somebody else: its result reaches no row. The code does not enforce
these conditions; whoever fills the tables has to.

## Runs and bounds

| Run | Instance | What it shows |
|---|---|---|
| `ticker` | two owners on one refresh ticker, one with an expire ticker | all safety and liveness of the tickers; deadlock is not checked since a jam stops the system |
| `ticker_jam` | two owners, one ticker | `CloseReturns` fails |
| `cache` | two clients, one key, six entries, two versions, all calls against refresh; and one client against refresh and expire | coherence of entries against refresh, deletion and failing fetches; an entry in use survives |
| `cache_live` | two clients, `Get` and `GetOrSet` | calls return, entries catch up |
| `cache_torn_get`, `cache_default`, `cache_expire` | as above; one client against expire | three refuted statements |
| `tables` | each manager in turn, two loaders, one edit, one fault, tables with good, unscannable and malformed rows | complete, consistent, current; a reader sees snapshots |
| `tables_load_all` | `AggregatorManager` | a prefix is published |
| `tokens` | two versions of each table, with a row of each that does not scan and texts with blanks, two edits, one fault, one added token | agreement of lookups, gas tokens |
| `services` | *alert:* two groups, interval 2, reset 5, gap 3, clock to 8; *rpc:* all ten backends, two callers, one fault, one mint; *bodies:* 64-bit words of 16 values and 256-bit words of 32; *auth:* two users, secrets and lifetimes, clock to 2, two tokens; *fees:* 20 dtc entries, 12 fee entries, decimals 0 and 1, amounts to 40; *routes:* three route and three segment tables, eight amounts, decimals 0 and 2; *lookups:* each manager in turn, two to four rows over two words in three spellings | spacing and punctuality of alerts, the clients over a failing node, what bodies pay, who is passed on; the arithmetic of fees, the best route under reloads, agreement of the getters |
| `jobs` | *store:* two workers, two database faults, one crash, two generations; *tasks:* three days of four ticks, one of them of two or six, clock to 9 | write-once tables, every job ends, tasks run when they should |

Why the bounds are enough. *Tickers:* interference needs a stop still in the channel, a
second goroutine and a third party at the mutex, which two owners produce; the proofs
cover any number. *Cache:* keys share nothing but the order of the passes, so one key
suffices; two clients make a leader and a follower of a flight; the map,
the clients and the two passes hold at most keys + clients + 2 entries at once, and with one
more (`EntryAssumption`) allocation never fails, which `FreshIsFree` proves. *Alerter:* the clock passes a reset and an interval after it. *Tables:*
a torn load needs one fault; two loaders produce the overtaking of a newer load by an
older one; with one edit there are two contents to confuse. *Tokens:* the two versions
of the tables contain a chain that goes, one that changes its gas token, a listed gas
token, an address shared by two names, a row without a chain id, a chain and a row that do
not scan, of which the row has a gas token's name, and blanks in a name of each kind. *Fees:* the
entries contain equal limits, falling limits, amounts that do not parse and both sides
of every limit. *Routes:* a reload between two lookups needs two tables, a third one leaves
routes without segments; amounts are on, beside and between all limits. *Lookups:* a clash
needs two rows of one key, and a third that does not clash; tables that are joined have
two rows of some kind. *Chain clients:* a race for the cache or for Ton's client needs two
callers; a supply that is missing needs one fault. *Bodies:* amounts lie on both sides of
half and of the whole word, of either width. *Auth:* the clock passes the end of a lifetime between two
parses; two tokens are an old and a refreshed one. *Store:* two workers cover the same
transaction spelled alike and differently, one hash on two chains, and a deposit beside a
payment; a lost answer and a failure after it need two faults; two generations let the
confirmed one change between two queries. *Tasks:* the clock passes two days and the change of clocks, which comes on any of them, forwards,
backwards or not at all; the function is due at any tick, so also early enough on a long day
that 24 hours later is the same day.

## Fairness

* `SharedTicker`: strong fairness of an owner inside `NewAsyncCache` or `Close` and of
  a goroutine at the mutex, because `sync.Mutex` hands the lock to a waiter that
  starves for a millisecond; strong fairness of both cases of the select, because Go
  chooses among ready cases at random and ticks keep coming; weak fairness of passes,
  which assumes that a Fetcher returns. Nobody has to call `New` or `Close`.
* `AsyncCache`: a call that has begun goes on; passes come again and again, which
  `PassesKeepComing` shows of the tickers; the Fetcher, asked again and again,
  succeeds now and then (strong fairness). No client has to call.
* `TableManager`, `TokenRegistry`: loaders are scheduled and come round again; faults
  and edits are bounded, so that "once they stop" has a meaning.
* `TxStore`: a worker goes on, and the external sender, asked for a payment, makes and
  confirms generations (weak fairness of both); faults and crashes are bounded.
* `Tasks`: the function returns or panics and the timer fires (weak fairness); the select
  does not pass over `ctx.Done()` for ever (strong fairness), because Go chooses among
  ready cases at random. Nobody has to cancel.
* All other modules: safety only. `SteadyIsAlerted` bounds time by the clock and
  needs no fairness.

## Proofs

TLAPS proves the following for all values of the constants that satisfy the named
assumptions.

**`SharedTickerProofs`** for any sets of caches and tickers. `TickerInvariant` is
the induction: `GoroutineBalance` alone is not inductive, for a `Close` that sends
while the flag is already false would break it, so it needs `StartedMatches` (the flag
is set while there are caches, and until the last Close has sent), which needs
`MembersMatch` (who is in the map is a matter of where owners are), `SenderHolds`
(only a sender keeps the mutex between steps), `ExpireSteps` and `PassUnderLock`. From
it follow `TypeCorrect`, `NoGoroutineLeakedOrLost`, `OpenCachesAreServed`,
`GoroutinesBounded`, `ClosedIsQuiescent` and, as an action property, `JamIsPermanent`:
in a jam every step that would touch the ticker needs the mutex or a goroutine in the
select, and the balance says that there is none. `JamTakesTwo` counts who waits in
a jam: the current goroutine and one that was told to return. Assumptions: the refresh and expire
tickers are different tickers, and the names of holders are distinct.

`BalanceStep` proves the one conjunct that counts goroutines, action by action, apart
from the others, because its arithmetic and the sets of the others suit different
provers.

**`LazyAlerterProofs`** for any groups, any interval shorter than the reset.
`AlertInvariant`: the timer of a group is the time of one of its reports and not older
than its last alert, except while that alert is being posted. `SpacedAlerts` and
`PersistentAlerts` follow from it at the one action that alerts. `SteadyAlerts` needs
`SteadyInv`: while reports are at most `MaxGap` apart, the timer is exactly the last
alert or first report, so the reset can never hit. Assumption: interval plus gap are at
most the reset (120 + 780 = 900 seconds for the Lark alerter).

**`JobsProofs`**, the tables: for any workers, jobs, faults, crashes and generations.
`TxInvariant` is the induction, in four parts: a worker keeps its job and spells its key
as the job does or trimmed (`WorkersOK`); the keys of the tables are trimmed (`TablesOK`);
a worker that is past `save` has its row, and one that finished under the trimmed name has
its result (`DepositsOK`); a confirmed generation is of the payment that confirms it, and
so is the one a worker read between its two queries, which may be older (`PaymentsOK`).
`FinishedDepositHasResult` and `FinishedPaymentHasOwnGen` follow. `TablesAreRegisters` is
the refinement: a row is written at most once (`OneRowWritesOnce`), and no step touches two
rows (`OneRowAtATime`). Assumption worth naming: "no result" is not a worker.

**`JobsProofs`**, the tasks: for every calendar (`IsCalendar`: days and due times follow each
other, and due times are 24 hours apart but for a change of clocks).
`TaskInv` relates the clock to the time that was chosen last: the function was started when
it was due, and for no time later than 24 hours past today's. `DailyTasksAreInOrder` follows with `DueToday`,
where the time chosen lies among the due times of today and tomorrow, and
`RegularDayIsNext`: without a change of clocks it is the first one due. Assumption worth
naming: the clock stays within the calendar. `PeriodicEndsForAReason` is the safety part of `PeriodicRunsUntil`.

**`AsyncCacheProofs`** for any finite sets of keys and clients and any versions. `Inv`
describes the heap that clients, refresh and expire share without a lock: who holds a
pointer when (`Locals`), who leads a flight (`Flights`), that an entry anyone can reach has
what a fetch returned, or a default, or an error (`Memory`; an entry that nobody can reach may be anything, which is why
the invariant speaks of what is reachable), what a call is about to store (`Results`), that
an entry belongs to one key and is not ahead of its source (`Versions`), and that the flag
of an entry in use stays clear until the expire pass comes to it (`Expiry`). `CacheIsSound`
is the invariant of the runs; `ValuesAreKept` and `UsedAreNotExpired` are their action
properties. Each step is first reduced to what it does to the heap (`CallEffects`,
`RefreshEffects`, `ExpireEffects`), so that an invariant is shown once for each kind of
effect and not once for each action. Assumptions: there are entries enough
(`EntryAssumption`), and `nil`, the caller's default and half a value are not versions.

**`TableManagerProofs`** for any loaders, rows, edits and faults. What the sixteen Load
functions have in common as sequences of instructions is `Straight`: every swap publishes
tables that were queried, scanned and, but for five tables, tested before it; an index is
assigned in one place; indexes over one table are assigned together (not in
`MakerAddressManager`); after the first assignment no error can be returned (not in
`AggregatorManager`). `LoadsAreStraight` shows it of each function. The rest of the proof
uses nothing else of a Load function: `TableInv` adds to the properties that a load which
scanned a table without an error holds all its usable rows. `TablesAreSound` and the action
property `LoadsAreAllOrNothing` follow. `ManagersShowSnapshots` is the refinement of
`Snapshots`. It needs two facts more: a program that promises anything takes all its tested
tables in its one swap (`Covers`, hence `PromisedFacts`), and what a load has of a table,
from its query on, is a content that table has had (`Fetched`, `HistoryInv`). A swap then is
a `Replace` with the versions the load fetched (`SwapShows`), an edit a `Change`, every
other step a stutter.

**`TokenRegistryProofs`** for any tables in which the id and the name of a chain are keys.
`Coherent` says that the four maps of a set of indexes have the same tokens, each under its
own keys; putting a row, a gas token or an added token keeps it (`PutRowFacts`,
`PutGasFacts`). `Trimmed` says that every text in them is without blanks unless it came with
an added token; the two together give `LookupsAgree` (`CoherentLookups`). `RegInv` adds that rows which were read and scan are found by name (`RowsFound`), and
that a chain which has been there since the ids were read is still to be visited or has its
gas token (`GasFound`). `RegistryIsSound`, `GasTokensOfSteadyChains` and `RowsAreNotHidden`
follow.

**`ServicesProofs`** has three parts. *Auth:* `AuthInductive` says that what the handler
parses is a token somebody was given, and that nothing built on the shared error changed
its code; `AuthIsSound` and the action property `PassedHasItsUser` follow. *ChainRpc:*
`RpcInv` relates the heap of shared tokens to the history of the node: an object says what
the node said at some time, an object without a supply has its one call that is asking for
it, or a fault was spent on it. `ClientsAreHonest` and `InfoStays` follow. *TxBodies:* `BodiesPay` and `BodiesRun` for words of any width. Assumptions: the
Evm, Solana and Sui clients have tables of coins, whose addresses are not padded, with
natural numbers of decimals; gas, code sizes and amounts are natural numbers.

**`GettersProofs`**, the fees: for all entries, tokens and amounts. `TiersRoundTrip`: with
rising limits and dtcs, the tier of an amount among the limits is the tier of the sum among
limits plus dtcs. `AddedIsIncluded` is that for whatever the table holds, the unparsable
included. `QuotesAreSound` adds the other four parts of `QuotesAgree`: the two forms of the dtc
agree, whichever way a sum is rounded (`RoundedTier`, `DtcForms`), the least value is least
(`LeastPayer`: it pays its own dtc, and nothing below it does; `MinSteps` carries it through
the lookups of a call that no reload disturbs), the tier of a fee among the amounts is its tier among what is left
of them, because what is left grows with the amount (`NetMono`, `FeeTiers`), and a fee that
was read in two lookups is fair (`DetailEnds`, an induction: `FeesInv`). The lemmas from
`DivNat` to `ShareFacts` are the arithmetic of truncated division. Assumption worth
naming: powers of ten are natural numbers (the provers have no exponentiation; TLC
evaluates it).

**`GettersProofs`**, the routes: for any tables of routes and segments and any sequence of
reloads during a call. `RoutesInv` is the induction: each route that the loop has tried had
no fee under some table that was published during the call, or is beaten by the best route
so far (`TriedAreBeaten`); and the best so far is a fee of one that was tried (`BestOK`).
When the loop ends every route was tried, which is `BestIsBest`. `QuotedRoutesAreFair`
bounds the fee of `calculateFee` from both sides (`FeeBounds`), finds the segment of an
amount in a tiled route, and shows how the spelling of a symbol decides what is found
(`SymbolsMatch`). `LeastNat`, the least of a set of natural numbers, comes from the
library's well-founded induction, and gives the first segment that matches.

**`GettersProofs`**, the lookups: for any rows of the fourteen managers, in any order.
`GettersAreConsistent` has a lemma for each part of `GettersAgree`, from one small invariant,
`KeysOK`: a primary key is the key of one row. A search for the last or the first of some
rows finds exactly one (`LastIs`, `FirstIs`, from `LeastNat`), which is all that the lemmas of
the maps and loops use (`LastFacts`, `FirstFacts`, `IdFinds`). For the two managers that sort
there is first the question whether `Sorted` has a member at all: `SortedExists` takes away
a row that fewest others come before (`FirstExists`), and does without induction by looking
at a smallest set that could not be sorted. `CommissionEntry` then says where the loop over
thresholds stops, and `NodesDescend` that of two nodes in a slice the first is preferred.

Every safety property that a passing run checks is the subject of a theorem. Only
model-checked is what depends on fairness, which is out of the prover's reach, like all that
needs ENABLED: `CloseReturnsOrJams`, `PassesKeepComing` and `AllGoroutinesStop` of the
tickers, `EventuallyUpToDate` and `CallsReturn` of the cache, `EventuallyCurrent` of the
tables, `GasTokensArrive` of the tokens, `EveryJobFinishes`, and of `PeriodicRunsUntil` all
but its safety part. The refuted statements stay with TLC, which shows their counterexamples.
What `10 ^ n` computes is taken from TLC, as said above; the proofs use no RECURSIVE operator
and no induction over data, but least counterexamples where a smallest number, position or
set is enough.

## Disagreements with the code's comments

* **A Close can hang** (`ticker_jam`). `Close` sends its stop message with the mutex held.
  If the stop of an earlier `Close` is still in the channel and both goroutines of the
  ticker have taken a tick and wait for the mutex, nobody can drain the channel. From
  then on every `NewAsyncCache` and `Close` with that duration blocks (`JamIsPermanent`).
  `CloseReturnsOrJams` shows that there is no other way for `Close` to block.
* **Get can return neither value nor error** (`cache_torn_get`), when refresh repairs a
  cached failure between its two reads.
* **GetOrSet can return nil** (`cache_default`), when it joins the failing flight of a Get.
* **Expire can delete an entry that is useful** (`cache_expire`). The flag of an entry, of
  which a comment says "0 means useful, 1 will expire", is tested in one step and the key
  deleted in another; a call in between clears the flag or stores another entry.
* **LoadAll can publish a prefix** (`tables_load_all`) and return nil, since none of its
  four loaders tests `rows.Err()`.

## What is not modelled

* `httputils`, `network`, `apollosdk`, `config`, `telemetry`, `log` and the Lark bot: one
  call to a library or a remote service each, without retries and without state of their
  own.
* `json_extract`, `convert`, `pointer`, checksums of addresses and the helpers of `util`:
  stateless conversions of strings whose characters the models leave out. `owlconsts` and
  `models`: constants and record types. The 3000 lines of coins in `rpc/sui.go`: data.
* `abi`: generated. `contract`: an on-chain program in Rust of its own.
* `SwapTokenInfoManager` is an `AsyncCache` with a fetcher that may fail; how its key is put
  together and the query are left out.
* Below the grain of the models: slice headers read without a lock (`GetAllChains`,
  `GetAllTokens`), more than 15 digits of a float64, handlers of the cache, a wall clock that
  steps back, a second `Close` of one cache, which stops the ticker of other caches, names and
  symbols of tokens, block heights, gas prices.
* No property can speak of calls that never return, because the code has no timeouts to
  model: a Fetcher or a webhook that hangs keeps its mutex. `AlertText` posts with the
  mutex held; `refresh` fetches with the ticker's mutex held. In `bridge_fee.go` the
  failure of the second query is followed by a nil dereference; `TableManager` has the
  panic, and what becomes of the process is the embedding program's.

## Further work

* The loaders of `TableManager` as tasks of `Tasks`: a load that panics in `PeriodicTask`
  ends the reloading of that table, which neither module shows alone.
* The safety behind `EveryJobFinishes` and `GasTokensArrive` as theorems of their own: what a
  worker or a loader has done is never undone by another, so that each round gets further.
