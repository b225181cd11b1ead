---------------------------- MODULE TableManager ----------------------------
(***************************************************************************)
(* The in-memory table managers of loader/.  A manager keeps one or more   *)
(* indexes (Go maps and slices) over rows of the configuration database.   *)
(* Its Load function, run again and again by a goroutine of the program    *)
(* that embeds the library, queries the tables, builds new indexes from    *)
(* the rows and replaces the old ones, under the write lock of the         *)
(* manager's RWMutex where there is one.                                   *)
(*                                                                         *)
(* Every Load function is a straight line of four kinds of steps, so it is *)
(* written here as a sequence of instructions, and the actions below are   *)
(* what an instruction does:                                               *)
(*   Query  the SELECT; the result set is the table at that moment         *)
(*   Scan   the loop over rows.Next()                                      *)
(*   Check  the test of rows.Err() after the loop                          *)
(*   Swap   the assignments of the new indexes to the manager's fields     *)
(*                                                                         *)
(* Data abstraction.  An index is identified with the rows it was built    *)
(* from, per table; trimming, lower-casing, keys and sort order of the     *)
(* index are left out, and so are the alerts.  A row is fine, unscannable  *)
(* (rows.Scan returns an error) or malformed (it scans, but a number in it *)
(* does not parse).  A getter reads one index under the read lock, so what *)
(* it returns is a function of pub at one moment.  The loop over a result  *)
(* set touches only the load's local variables and is one step.            *)
(***************************************************************************)
EXTENDS Integers, Sequences, FiniteSets

CONSTANTS
  Managers,     \* the managers examined, one per behaviour
  Loaders,      \* the goroutines that call the manager's Load function
  Rows,         \* rows a table may hold
  Unscannable,  \* the rows rows.Scan rejects
  Malformed,    \* the rows that scan, with a number that does not parse
  Contents,     \* the contents a table may have
  MaxEdits,     \* bound on the edits of the database
  MaxFaults     \* bound on the failing database calls

ASSUME RowAssumption ==
  /\ Unscannable \subseteq Rows
  /\ Malformed \subseteq Rows \ Unscannable
  /\ Contents \subseteq SUBSET Rows
  /\ MaxEdits \in Nat
  /\ MaxFaults \in Nat

(***************************************************************************)
(* The instructions.                                                       *)
(***************************************************************************)
Query(t) == [op |-> "query", table |-> t, onErr |-> "return"]

\* A query whose error is alerted and then ignored: the nil *sql.Rows that
\* comes with the error is used, and that panics.
QueryOrPanic(t) == [op |-> "query", table |-> t, onErr |-> "panic"]

\* A loop that skips the rows it cannot scan, one that also skips the
\* malformed ones, and one that gives up the load at the first bad row.
Scan(t) == [op |-> "scan", table |-> t, onBad |-> "skip", parses |-> FALSE]
ScanAndParse(t) == [op |-> "scan", table |-> t, onBad |-> "skip", parses |-> TRUE]
ScanOrReturn(t) == [op |-> "scan", table |-> t, onBad |-> "return", parses |-> FALSE]

Check(t) == [op |-> "check", table |-> t]

\* The fields fs are assigned in one critical section, from the rows of ts.
Swap(fs, ts) == [op |-> "swap", fields |-> fs, from |-> ts]

\* The shape most managers share: one table, every index replaced at once.
LoadOne(t, scan, fs) == << Query(t), scan, Check(t), Swap(fs, {t}) >>

(***************************************************************************)
(* The Load functions.                                                     *)
(***************************************************************************)
LoadAllAccounts ==
  LoadOne("t_account", Scan("t_account"),
          {"idAccounts", "addressCidAccounts", "cidAddressAccounts"})

LoadAllBlacklistsOneByOne ==
  << Query("t_blacklist_address"), Scan("t_blacklist_address"), Check("t_blacklist_address"),
     Swap({"idBlacklists"}, {"t_blacklist_address"}),
     Swap({"addressBlacklists"}, {"t_blacklist_address"}) >>

LoadAllBlacklists ==
  LoadOne("t_blacklist_address", Scan("t_blacklist_address"),
          {"idBlacklists", "addressBlacklists"})

LoadAllCommissionRatio ==
  LoadOne("t_channel_commission_ratio", Scan("t_channel_commission_ratio"),
          {"channelidToCountToRatio", "channelidToRatioArr"})

LoadAllCctpChains ==
  LoadOne("t_cctp_support_chain", ScanAndParse("t_cctp_support_chain"), {"chainIdChains"})

LoadAllExchanges ==
  LoadOne("t_exchange_info", Scan("t_exchange_info"),
          {"idExchanges", "nameExchanges", "allExchanges"})

LoadAllLpInfo ==
  LoadOne("t_lp_info", ScanAndParse("t_lp_info"), {"lpInfos", "allLpInfos"})

LoadAllNodes ==
  LoadOne("t_node_info", Scan("t_node_info"),
          {"idNodes", "realChainIdNodes", "realChainIdTypeNodes", "allNodes"})

LoadAllPopularList ==
  LoadOne("t_popular_list", Scan("t_popular_list"), {"chainToPopularList"})

LoadAllPriceStrict == LoadOne("t_update_price", ScanOrReturn("t_update_price"), {"tokens"})

LoadAllPrice == LoadOne("t_update_price", Scan("t_update_price"), {"tokens"})

LoadAllMultiTransferChains ==
  LoadOne("t_multi_transfer_chain", Scan("t_multi_transfer_chain"),
          {"idChains", "chainIdChains", "allChains"})

LoadAllMultiTransferTokens ==
  LoadOne("t_multi_transfer_token", Scan("t_multi_transfer_token"),
          {"chainNameTokenAddrs", "chainNameTokenNames", "allTokens"})

LoadAllDtc ==
  LoadOne("t_dynamic_dtc", ScanAndParse("t_dynamic_dtc"), {"tokenFromToDtcs"})

\* Both queries are made before either result is read; the second one's error
\* is not acted on, nor are the iteration errors of its rows.
LoadAllBridgeFee ==
  << Query("t_dynamic_bridge_fee"),
     QueryOrPanic("t_bridge_fee_decimal"),
     Scan("t_bridge_fee_decimal"),
     ScanAndParse("t_dynamic_bridge_fee"),
     Check("t_dynamic_bridge_fee"),
     Swap({"tokenFromToBridgeFees"}, {"t_dynamic_bridge_fee", "t_bridge_fee_decimal"}) >>

LoadAllCmsUsersUnchecked ==
  << Query("dev_role"), ScanOrReturn("dev_role"), Check("dev_role"),
     Query("dev_white_admin"), ScanOrReturn("dev_white_admin"),
     Query("dev_roles"), ScanOrReturn("dev_roles"), Check("dev_roles"),
     Swap({"allUsers"}, {"dev_role", "dev_white_admin", "dev_roles"}) >>

\* Roles, users and the links between them, joined in memory.
LoadAllCmsUsers ==
  << Query("dev_role"), ScanOrReturn("dev_role"), Check("dev_role"),
     Query("dev_white_admin"), ScanOrReturn("dev_white_admin"), Check("dev_white_admin"),
     Query("dev_roles"), ScanOrReturn("dev_roles"), Check("dev_roles"),
     Swap({"allUsers"}, {"dev_role", "dev_white_admin", "dev_roles"}) >>

MakerTables == {"t_maker_address_groups", "t_maker_addresses", "t_security_addresses"}

LoadAllMakerAddressesEager ==
  << Query("t_maker_address_groups"), Scan("t_maker_address_groups"),
     Check("t_maker_address_groups"),
     Query("t_maker_addresses"), Scan("t_maker_addresses"), Check("t_maker_addresses"),
     Swap({"backendAddressToGroup"}, {"t_maker_addresses"}),
     Query("t_security_addresses"), Scan("t_security_addresses"),
     Check("t_security_addresses"),
     Swap({"groupIdAddress"}, MakerTables),
     Swap({"envGroup"}, MakerTables) >>

\* This manager has no mutex: its three fields are assigned one after another.
LoadAllMakerAddresses ==
  << Query("t_maker_address_groups"), Scan("t_maker_address_groups"),
     Check("t_maker_address_groups"),
     Query("t_maker_addresses"), Scan("t_maker_addresses"), Check("t_maker_addresses"),
     Query("t_security_addresses"), Scan("t_security_addresses"),
     Check("t_security_addresses"),
     Swap({"groupIdAddress"}, MakerTables),
     Swap({"envGroup"}, MakerTables),
     Swap({"backendAddressToGroup"}, {"t_maker_addresses"}) >>

\* The four loaders LoadAll calls in turn.  None tests rows.Err().
loadAggregatorConfigs ==
  << Query("t_aggregate_config"), Scan("t_aggregate_config"),
     Swap({"aggregatorConfigs"}, {"t_aggregate_config"}) >>

loadAggregateChainConfigs ==
  << Query("t_aggregate_chain_config"), Scan("t_aggregate_chain_config"),
     Swap({"chainConfigs", "chainConfigsByName"}, {"t_aggregate_chain_config"}) >>

loadRouteConfigs ==
  << Query("t_aggregate_route_config"), Scan("t_aggregate_route_config"),
     Swap({"routesByChainPair", "routesBySymbol", "routesByID"},
          {"t_aggregate_route_config"}) >>

loadFeeSegments ==
  << Query("t_aggregate_route_fee_segment"), Scan("t_aggregate_route_fee_segment"),
     Swap({"feeSegmentsByRouteID"}, {"t_aggregate_route_fee_segment"}) >>

LoadAll ==
  loadAggregatorConfigs \o loadAggregateChainConfigs \o loadRouteConfigs \o loadFeeSegments

Load ==
  [ AccountManager                |-> LoadAllAccounts,
    BlacklistAddressManager       |-> LoadAllBlacklists,
    ChannelCommissionRatioManager |-> LoadAllCommissionRatio,
    CircleCctpChainManager        |-> LoadAllCctpChains,
    ExchangeInfoManager           |-> LoadAllExchanges,
    LpInfoManager                 |-> LoadAllLpInfo,
    NodeInfoManager               |-> LoadAllNodes,
    PopularListManager            |-> LoadAllPopularList,
    UpdatePriceManager            |-> LoadAllPrice,
    MultiTransferChainManager     |-> LoadAllMultiTransferChains,
    MultiTransferTokenManager     |-> LoadAllMultiTransferTokens,
    DtcManager                    |-> LoadAllDtc,
    BridgeFeeManager              |-> LoadAllBridgeFee,
    CmsUserManager                |-> LoadAllCmsUsers,
    MakerAddressManager           |-> LoadAllMakerAddresses,
    AggregatorManager             |-> LoadAll ]

ASSUME ManagerAssumption == Managers \subseteq DOMAIN Load

Of(m, op) == { Load[m][k] : k \in { j \in DOMAIN Load[m] : Load[m][j].op = op } }

\* The tables a manager reads, its indexes, and the tables behind an index.
Tables(m) == { q.table : q \in Of(m, "query") }
Indexes(m) == UNION { s.fields : s \in Of(m, "swap") }
Behind(m, i) == UNION { s.from : s \in { w \in Of(m, "swap") : i \in w.fields } }

(***************************************************************************)
(* The state.                                                              *)
(***************************************************************************)
VARIABLES
  mgr,      \* the manager
  db,       \* its tables: the contents each has had, the current one last
            \* (a history variable but for the last)
  at,       \* per loader: the next instruction, Idle between loads
  tab,      \* per loader and table: its result set and what it collected
  swapped,  \* per loader: the indexes its current or last load replaced
  pub,      \* the manager's fields: per index and table, the rows in it (got)
            \* and the result set they are from (ver and rows, history)
  edits,    \* edits of the database so far
  faults    \* failed database calls so far

vars == <<mgr, db, at, tab, swapped, pub, edits, faults>>

Idle == 0
Dead == -1    \* the load panicked: its goroutine is gone

Empty == [ver |-> 0, rows |-> {}, got |-> {}]
Unread == [ver |-> 0, rows |-> {}, got |-> {}, err |-> FALSE]

Init ==
  /\ mgr \in Managers
  /\ \E c \in Contents : db = [t \in Tables(mgr) |-> <<c>>]
  /\ at = [l \in Loaders |-> Idle]
  /\ tab = [l \in Loaders |-> [t \in Tables(mgr) |-> Unread]]
  /\ swapped = [l \in Loaders |-> {}]
  /\ pub = [i \in Indexes(mgr) |-> [t \in Behind(mgr, i) |-> Empty]]
  /\ edits = 0
  /\ faults = 0

\* What an instruction keeps of a set of rows.
Kept(rs, parses) == (rs \ Unscannable) \ (IF parses THEN Malformed ELSE {})

\* What a query of a table returns now, and the number of that content.
Version(t) == Len(db[t])
Current(t) == db[t][Version(t)]

(***************************************************************************)
(* The steps of a load.                                                    *)
(***************************************************************************)
Runs(l, op) == at[l] > 0 /\ Load[mgr][at[l]].op = op

Instr(l) == Load[mgr][at[l]]

\* The load ends and its local variables are gone.
Leave(l, where) ==
  /\ at' = [at EXCEPT ![l] = where]
  /\ tab' = [tab EXCEPT ![l] = [t \in Tables(mgr) |-> Unread]]

Advance(l) == at' = [at EXCEPT ![l] = @ + 1]

Begin(l) ==
  /\ at[l] = Idle
  /\ at' = [at EXCEPT ![l] = 1]
  /\ swapped' = [swapped EXCEPT ![l] = {}]
  /\ UNCHANGED <<mgr, db, tab, pub, edits, faults>>

QueryOk(l) ==
  /\ Runs(l, "query")
  /\ LET t == Instr(l).table IN
       tab' = [tab EXCEPT ![l][t] = [Unread EXCEPT !.ver = Version(t), !.rows = Current(t)]]
  /\ Advance(l)
  /\ UNCHANGED <<mgr, db, swapped, pub, edits, faults>>

QueryFails(l) ==
  /\ Runs(l, "query")
  /\ faults < MaxFaults
  /\ faults' = faults + 1
  /\ Leave(l, IF Instr(l).onErr = "panic" THEN Dead ELSE Idle)
  /\ UNCHANGED <<mgr, db, swapped, pub, edits>>

\* rows.Next() has delivered the rows rs and returned false.
Deliver(l, rs, failed) ==
  /\ rs \cap Unscannable = {} \/ Instr(l).onBad = "skip"
  /\ Advance(l)
  /\ tab' = [tab EXCEPT ![l][Instr(l).table].got = Kept(rs, Instr(l).parses),
                        ![l][Instr(l).table].err = failed]

\* rows.Next() returns false because the result set is exhausted.
ScanDone(l) ==
  /\ Runs(l, "scan")
  /\ Deliver(l, tab[l][Instr(l).table].rows, FALSE)
  /\ UNCHANGED <<mgr, db, swapped, pub, edits, faults>>

\* rows.Next() returns false because the connection failed after some of the
\* rows, in whatever order they came: rows.Err() is set.
ScanFails(l) ==
  /\ Runs(l, "scan")
  /\ faults < MaxFaults
  /\ faults' = faults + 1
  /\ \E rs \in SUBSET tab[l][Instr(l).table].rows : Deliver(l, rs, TRUE)
  /\ UNCHANGED <<mgr, db, swapped, pub, edits>>

\* The loop meets a row it cannot scan and returns.
ScanGivesUp(l) ==
  /\ Runs(l, "scan")
  /\ Instr(l).onBad = "return"
  /\ tab[l][Instr(l).table].rows \cap Unscannable # {}
  /\ Leave(l, Idle)
  /\ UNCHANGED <<mgr, db, swapped, pub, edits, faults>>

CheckErr(l) ==
  /\ Runs(l, "check")
  /\ IF tab[l][Instr(l).table].err
       THEN Leave(l, Idle)
       ELSE Advance(l) /\ UNCHANGED tab
  /\ UNCHANGED <<mgr, db, swapped, pub, edits, faults>>

SwapFields(l) ==
  /\ Runs(l, "swap")
  /\ pub' = [i \in Indexes(mgr) |->
               IF i \in Instr(l).fields
               THEN [t \in Behind(mgr, i) |->
                       [ver |-> tab[l][t].ver, rows |-> tab[l][t].rows, got |-> tab[l][t].got]]
               ELSE pub[i]]
  /\ swapped' = [swapped EXCEPT ![l] = @ \cup Instr(l).fields]
  /\ IF at[l] = Len(Load[mgr]) THEN Leave(l, Idle) ELSE Advance(l) /\ UNCHANGED tab
  /\ UNCHANGED <<mgr, db, edits, faults>>

\* Another program edits a table.
Edit(t) ==
  /\ edits < MaxEdits
  /\ edits' = edits + 1
  /\ \E c \in Contents \ {Current(t)} : db' = [db EXCEPT ![t] = Append(@, c)]
  /\ UNCHANGED <<mgr, at, tab, swapped, pub, faults>>

LoadStep(l) ==
  \/ Begin(l)
  \/ QueryOk(l)
  \/ QueryFails(l)
  \/ ScanDone(l)
  \/ ScanFails(l)
  \/ ScanGivesUp(l)
  \/ CheckErr(l)
  \/ SwapFields(l)

Next ==
  \/ \E l \in Loaders : LoadStep(l)
  \/ \E t \in Tables(mgr) : Edit(t)

Spec == Init /\ [][Next]_vars

\* A loader goroutine is scheduled as long as it has something to do, and its
\* period comes round again.
FairSpec == Spec /\ \A l \in Loaders : WF_vars(LoadStep(l))

(***************************************************************************)
(* Properties.                                                             *)
(***************************************************************************)
\* Type invariant.
TypeOK ==
  /\ mgr \in Managers
  /\ db \in [Tables(mgr) -> Seq(Contents)]
  /\ \A t \in Tables(mgr) : Version(t) \in 1..(MaxEdits + 1)
  /\ at \in [Loaders -> Dead..Len(Load[mgr])]
  /\ tab \in [Loaders -> [Tables(mgr) ->
                [ver : 0..(MaxEdits + 1), rows : SUBSET Rows, got : SUBSET Rows,
                 err : BOOLEAN]]]
  /\ swapped \in [Loaders -> SUBSET Indexes(mgr)]
  /\ \A i \in Indexes(mgr) :
       pub[i] \in [Behind(mgr, i) -> [ver : 0..(MaxEdits + 1), rows : SUBSET Rows,
                                    got : SUBSET Rows]]
  /\ edits \in 0..MaxEdits
  /\ faults \in 0..MaxFaults

\* The tables whose rows.Err() no code looks at.
UncheckedTables ==
  {"t_aggregate_config", "t_aggregate_chain_config", "t_aggregate_route_config",
   "t_aggregate_route_fee_segment", "t_bridge_fee_decimal"}

\* The tables of which a malformed row is dropped.
ParsedTables == {"t_cctp_support_chain", "t_lp_info", "t_dynamic_dtc", "t_dynamic_bridge_fee"}

\* An index over table t has every usable row of the result set it is from.
Whole(v, t) == v.got = Kept(v.rows, t \in ParsedTables)

\* What a manager publishes is never a prefix of a table: an error in the
\* middle of a result set keeps the old indexes.  Every Load function but
\* AggregatorManager's tests rows.Err() before it swaps (and LoadAllBridgeFee
\* does not test it for the decimals).
PublishedIsComplete ==
  \A i \in Indexes(mgr) : \A t \in Behind(mgr, i) \ UncheckedTables : Whole(pub[i][t], t)

\* Two indexes over the same table always come from the same load, for every
\* manager that swaps under its write lock: a key found through one index is
\* found through the others.  MakerAddressManager has no lock and is excepted.
IndexesAgree ==
  mgr # "MakerAddressManager" =>
    \A i, j \in Indexes(mgr) : \A t \in Behind(mgr, i) \cap Behind(mgr, j) :
      pub[i][t] = pub[j][t]

\* What a getter of a manager can rely on between any two steps of its loaders:
\* an index is well formed, is of a whole result set and agrees with the others.
TablesInv == TypeOK /\ PublishedIsComplete /\ IndexesAgree

\* What readers are promised of the tables whose errors are tested, by every
\* manager that has a lock: the indexes are one snapshot of the tables' usable
\* rows (Snapshots), whatever loads, edits and faults come between.
Promised == IF mgr = "MakerAddressManager" THEN {} ELSE Tables(mgr) \ UncheckedTables

Usable(t, rs) == Kept(rs, t \in ParsedTables)

Snap == INSTANCE Snapshots
          WITH past <- [t \in Promised |-> db[t]],
               shown <- { [t \in Promised |-> pub[i][t].got] : i \in Indexes(mgr) }

ShowsSnapshots == Snap!Spec

\* A load that ends has replaced every index of its manager or none: no error
\* path returns between two assignments.  AggregatorManager.LoadAll, which
\* publishes table by table, is excepted.
AllOrNothing ==
  [][ mgr # "AggregatorManager" =>
        \A l \in Loaders :
          at[l] > 0 /\ at'[l] <= 0 => swapped'[l] \in {{}, Indexes(mgr)} ]_vars

\* No load can succeed any more: every loader has panicked, or a row that
\* LoadAllCmsUsers cannot scan makes it give up each time.
Stuck ==
  \/ \A l \in Loaders : at[l] = Dead
  \/ /\ mgr = "CmsUserManager"
     /\ \E t \in Tables(mgr) : Current(t) \cap Unscannable # {}

\* Once edits and faults stop, every index becomes the current table and
\* stays so: a failed or truncated load is repaired by a later one, and a slow
\* load that publishes an old version late does not win for ever.
EventuallyCurrent ==
  <>[]( \/ Stuck
        \/ \A i \in Indexes(mgr) : \A t \in Behind(mgr, i) :
             pub[i][t].ver = Version(t) /\ Whole(pub[i][t], t) )

\* "LoadAll loads all configs into memory" (aggregator_route.go:169): when it
\* returns without an error, each map holds every usable row that its query
\* returned.
LoadAllLoadsAll ==
  mgr = "AggregatorManager" =>
    \A i \in Indexes(mgr) : \A t \in Behind(mgr, i) : Whole(pub[i][t], t)
=============================================================================
