------------------------- MODULE TableManagerProofs --------------------------
(***************************************************************************)
(* The table managers publish whole result sets, indexes that agree, and   *)
(* all of their indexes or none: for any number of loader goroutines, any  *)
(* rows, and any edits and faults of the database.                         *)
(*                                                                         *)
(* The proof has two parts.  Straight says what every Load function has in *)
(* common as a sequence of instructions, and is shown of each of them.     *)
(* The invariants use nothing else of a Load function.                     *)
(***************************************************************************)
EXTENDS TableManager, TLAPS

-----------------------------------------------------------------------------
(* The positions of a kind of instruction in a program. *)
Places(P, op) == { k \in 1..Len(P) : P[k].op = op }

(* The tables a program queries. *)
Queried(P) == { P[k].table : k \in Places(P, "query") }

(* A program ends with a swap, every swap replaces some index, and what it  *)
(* scans, checks or swaps it queries.                                       *)
Shaped(P) ==
  /\ Len(P) \in Nat \ {0} /\ DOMAIN P = 1..Len(P)
  /\ P[Len(P)].op = "swap"
  /\ \A k \in 1..Len(P) : P[k].op \in {"query", "scan", "check", "swap"}
  /\ \A k \in Places(P, "scan") \cup Places(P, "check") : P[k].table \in Queried(P)
  /\ \A k \in Places(P, "swap") : P[k].from \subseteq Queried(P) /\ P[k].fields # {}

(* A table is scanned once, after it was queried, and the test of its       *)
(* rows.Err() comes after that and before it is published, except for the   *)
(* tables that are not tested.                                              *)
Ordered(P) ==
  /\ \A j, k \in Places(P, "scan") : P[j].table = P[k].table => j = k
  /\ \A j \in Places(P, "query"), k \in Places(P, "scan") : P[j].table = P[k].table => j < k
  /\ \A j \in Places(P, "scan") : P[j].parses <=> P[j].table \in ParsedTables
  /\ \A k \in Places(P, "check") : \E j \in Places(P, "scan") : j < k /\ P[j].table = P[k].table
  /\ \A k \in Places(P, "swap") : \A t \in P[k].from \ UncheckedTables :
       \E j \in Places(P, "check") : j < k /\ P[j].table = t

(* An index is assigned in one place. *)
OnePlace(P) == \A j, k \in Places(P, "swap") : P[j].fields \cap P[k].fields # {} => j = k

(* Indexes over the same table are assigned in the same place. *)
Together(P) == \A j, k \in Places(P, "swap") : P[j].from \cap P[k].from # {} => j = k

(* After the first assignment there is no way out. *)
NoWayBack(P) == \A j \in Places(P, "swap"), k \in 1..Len(P) : j < k => P[k].op = "swap"

(* An assignment takes all the tables that are tested: such a program shows *)
(* them all at once.                                                        *)
Covers(P) == \A k \in Places(P, "swap") : Queried(P) \ UncheckedTables \subseteq P[k].from

-----------------------------------------------------------------------------
LEMMA LoadOneIsStraight ==
    ASSUME NEW t, NEW scan \in {Scan(t), ScanAndParse(t), ScanOrReturn(t)},
           scan.parses <=> t \in ParsedTables, NEW fs, fs # {}
    PROVE  LET P == LoadOne(t, scan, fs)
           IN  Shaped(P) /\ Ordered(P) /\ OnePlace(P) /\ Together(P) /\ NoWayBack(P) /\ Covers(P)
  <1> DEFINE P == LoadOne(t, scan, fs)
  <1>1. /\ P = << Query(t), scan, Check(t), Swap(fs, {t}) >>
        /\ Len(P) = 4 /\ DOMAIN P = 1..4
    BY DEF LoadOne
  <1>2. /\ P[1].op = "query" /\ P[1].table = t
        /\ P[2].op = "scan" /\ P[2].table = t /\ (P[2].parses <=> t \in ParsedTables)
        /\ P[3].op = "check" /\ P[3].table = t
        /\ P[4].op = "swap" /\ P[4].fields = fs /\ P[4].from = {t}
    BY DEF LoadOne, Query, Scan, ScanAndParse, ScanOrReturn, Check, Swap
  <1> HIDE DEF P
  <1>3. /\ Places(P, "query") = {1} /\ Places(P, "scan") = {2} /\ Places(P, "check") = {3}
        /\ Places(P, "swap") = {4}
    BY <1>1, <1>2 DEF Places
  <1>4. Shaped(P)
    <2>1. Queried(P) = {t}
      BY <1>2, <1>3 DEF Queried
    <2>2. \A k \in Places(P, "scan") \cup Places(P, "check") : P[k].table \in Queried(P)
      BY <1>2, <1>3, <2>1
    <2>3. \A k \in Places(P, "swap") : P[k].from \subseteq Queried(P) /\ P[k].fields # {}
      BY <1>2, <1>3, <2>1
    <2>4. P[Len(P)].op = "swap" /\ Len(P) \in Nat \ {0} /\ DOMAIN P = 1..Len(P)
      BY <1>1, <1>2
    <2>5. \A k \in 1..Len(P) : k = 1 \/ k = 2 \/ k = 3 \/ k = 4
      BY <1>1
    <2>6. \A k \in 1..Len(P) : P[k].op \in {"query", "scan", "check", "swap"}
      BY <1>2, <2>5, Zenon
    <2> QED
      BY <2>2, <2>3, <2>4, <2>6 DEF Shaped
  <1>5. Ordered(P)
    <2>1. \A k \in Places(P, "swap") : \A u \in P[k].from : 3 < k /\ P[3].table = u
      BY <1>2, <1>3
    <2>2. \A k \in Places(P, "check") : 2 < k /\ P[2].table = P[k].table
      BY <1>2, <1>3
    <2>3. \A j \in Places(P, "query"), k \in Places(P, "scan") : j < k
      BY <1>3
    <2>4. \A j \in Places(P, "scan") : P[j].parses <=> P[j].table \in ParsedTables
      BY <1>2, <1>3, Zenon
    <2> QED
      BY <1>3, <2>1, <2>2, <2>3, <2>4 DEF Ordered
  <1>6. OnePlace(P) /\ Together(P)
    BY <1>3 DEF OnePlace, Together
  <1>7. NoWayBack(P)
    BY <1>1, <1>3 DEF NoWayBack
  <1>8. Covers(P)
    BY <1>2, <1>3 DEF Covers, Queried
  <1> QED
    BY <1>4, <1>5, <1>6, <1>7, <1>8 DEF P

(* The decimals are scanned before the fees and are not tested. *)
LEMMA BridgeFeeIsStraight ==
    LET P == LoadAllBridgeFee
    IN  Shaped(P) /\ Ordered(P) /\ OnePlace(P) /\ Together(P) /\ NoWayBack(P) /\ Covers(P)
  <1> DEFINE P == LoadAllBridgeFee
  <1>1. Len(P) = 6 /\ DOMAIN P = 1..6
    BY DEF LoadAllBridgeFee
  <1>2. /\ P[1].op = "query" /\ P[1].table = "t_dynamic_bridge_fee"
        /\ P[2].op = "query" /\ P[2].table = "t_bridge_fee_decimal"
        /\ P[3].op = "scan" /\ P[3].table = "t_bridge_fee_decimal" /\ ~P[3].parses
        /\ P[4].op = "scan" /\ P[4].table = "t_dynamic_bridge_fee" /\ P[4].parses
        /\ P[5].op = "check" /\ P[5].table = "t_dynamic_bridge_fee"
        /\ P[6].op = "swap" /\ P[6].fields = {"tokenFromToBridgeFees"} /\ P[6].from = {"t_dynamic_bridge_fee", "t_bridge_fee_decimal"}
    BY DEF LoadAllBridgeFee, Query, QueryOrPanic, Scan, ScanAndParse, ScanOrReturn, Check, Swap
  <1> HIDE DEF P
  <1>3. /\ Places(P, "query") = {1, 2}
        /\ Places(P, "scan") = {3, 4}
        /\ Places(P, "check") = {5}
        /\ Places(P, "swap") = {6}
    BY <1>1, <1>2 DEF Places
  <1>4. Queried(P) = {"t_dynamic_bridge_fee", "t_bridge_fee_decimal"}
    BY <1>2, <1>3 DEF Queried
  <1>5. Shaped(P)
    BY <1>1, <1>2, <1>3, <1>4 DEF Shaped
  <1>6. Ordered(P)
    <2>1. \A j, k \in Places(P, "scan") : P[j].table = P[k].table => j = k
      BY <1>2, <1>3
    <2>2. \A j \in Places(P, "query"), k \in Places(P, "scan") : P[j].table = P[k].table => j < k
      BY <1>2, <1>3
    <2>3. \A j \in Places(P, "scan") : P[j].parses <=> P[j].table \in ParsedTables
      BY <1>2, <1>3 DEF ParsedTables
    <2>4. \A k \in Places(P, "check") : \E j \in Places(P, "scan") : j < k /\ P[j].table = P[k].table
      BY <1>2, <1>3
    <2>5. \A k \in Places(P, "swap") : \A t \in P[k].from \ UncheckedTables :
            \E j \in Places(P, "check") : j < k /\ P[j].table = t
      BY <1>2, <1>3 DEF UncheckedTables
    <2> QED
      BY <2>1, <2>2, <2>3, <2>4, <2>5 DEF Ordered
  <1>7. OnePlace(P) /\ Together(P) /\ NoWayBack(P)
    BY <1>1, <1>2, <1>3 DEF OnePlace, Together, NoWayBack
  <1>8. Covers(P)
    BY <1>2, <1>3, <1>4 DEF Covers, UncheckedTables
  <1> QED
    BY <1>5, <1>6, <1>7, <1>8 DEF P

(* Three tables, joined. *)
LEMMA CmsUsersIsStraight ==
    LET P == LoadAllCmsUsers
    IN  Shaped(P) /\ Ordered(P) /\ OnePlace(P) /\ Together(P) /\ NoWayBack(P) /\ Covers(P)
  <1> DEFINE P == LoadAllCmsUsers
  <1>1. Len(P) = 10 /\ DOMAIN P = 1..10
    BY DEF LoadAllCmsUsers
  <1>2. /\ P[1].op = "query" /\ P[1].table = "dev_role"
        /\ P[2].op = "scan" /\ P[2].table = "dev_role" /\ ~P[2].parses
        /\ P[3].op = "check" /\ P[3].table = "dev_role"
        /\ P[4].op = "query" /\ P[4].table = "dev_white_admin"
        /\ P[5].op = "scan" /\ P[5].table = "dev_white_admin" /\ ~P[5].parses
        /\ P[6].op = "check" /\ P[6].table = "dev_white_admin"
        /\ P[7].op = "query" /\ P[7].table = "dev_roles"
        /\ P[8].op = "scan" /\ P[8].table = "dev_roles" /\ ~P[8].parses
        /\ P[9].op = "check" /\ P[9].table = "dev_roles"
        /\ P[10].op = "swap" /\ P[10].fields = {"allUsers"} /\ P[10].from = {"dev_role", "dev_white_admin", "dev_roles"}
    BY DEF LoadAllCmsUsers, Query, QueryOrPanic, Scan, ScanAndParse, ScanOrReturn, Check, Swap
  <1> HIDE DEF P
  <1>3. /\ Places(P, "query") = {1, 4, 7}
        /\ Places(P, "scan") = {2, 5, 8}
        /\ Places(P, "check") = {3, 6, 9}
        /\ Places(P, "swap") = {10}
    BY <1>1, <1>2 DEF Places
  <1>4. Queried(P) = {"dev_role", "dev_white_admin", "dev_roles"}
    BY <1>2, <1>3 DEF Queried
  <1>5. Shaped(P)
    BY <1>1, <1>2, <1>3, <1>4 DEF Shaped
  <1>6. Ordered(P)
    <2>1. \A j, k \in Places(P, "scan") : P[j].table = P[k].table => j = k
      BY <1>2, <1>3
    <2>2. \A j \in Places(P, "query"), k \in Places(P, "scan") : P[j].table = P[k].table => j < k
      BY <1>2, <1>3
    <2>3. \A j \in Places(P, "scan") : P[j].parses <=> P[j].table \in ParsedTables
      BY <1>2, <1>3 DEF ParsedTables
    <2>4. \A k \in Places(P, "check") : \E j \in Places(P, "scan") : j < k /\ P[j].table = P[k].table
      BY <1>2, <1>3
    <2>5. \A k \in Places(P, "swap") : \A t \in P[k].from \ UncheckedTables :
            \E j \in Places(P, "check") : j < k /\ P[j].table = t
      BY <1>2, <1>3 DEF UncheckedTables
    <2> QED
      BY <2>1, <2>2, <2>3, <2>4, <2>5 DEF Ordered
  <1>7. OnePlace(P) /\ Together(P) /\ NoWayBack(P)
    BY <1>1, <1>2, <1>3 DEF OnePlace, Together, NoWayBack
  <1>8. Covers(P)
    BY <1>2, <1>3, <1>4 DEF Covers, UncheckedTables
  <1> QED
    BY <1>5, <1>6, <1>7, <1>8 DEF P

(* Three tables and, without a lock, three assignments. *)
LEMMA MakerIsStraight ==
    LET P == LoadAllMakerAddresses IN Shaped(P) /\ Ordered(P) /\ OnePlace(P) /\ NoWayBack(P)
  <1> DEFINE P == LoadAllMakerAddresses
  <1>1. Len(P) = 12 /\ DOMAIN P = 1..12
    BY DEF LoadAllMakerAddresses
  <1>2. /\ P[1].op = "query" /\ P[1].table = "t_maker_address_groups"
        /\ P[2].op = "scan" /\ P[2].table = "t_maker_address_groups" /\ ~P[2].parses
        /\ P[3].op = "check" /\ P[3].table = "t_maker_address_groups"
        /\ P[4].op = "query" /\ P[4].table = "t_maker_addresses"
        /\ P[5].op = "scan" /\ P[5].table = "t_maker_addresses" /\ ~P[5].parses
        /\ P[6].op = "check" /\ P[6].table = "t_maker_addresses"
        /\ P[7].op = "query" /\ P[7].table = "t_security_addresses"
        /\ P[8].op = "scan" /\ P[8].table = "t_security_addresses" /\ ~P[8].parses
        /\ P[9].op = "check" /\ P[9].table = "t_security_addresses"
        /\ P[10].op = "swap" /\ P[10].fields = {"groupIdAddress"} /\ P[10].from = MakerTables
        /\ P[11].op = "swap" /\ P[11].fields = {"envGroup"} /\ P[11].from = MakerTables
        /\ P[12].op = "swap" /\ P[12].fields = {"backendAddressToGroup"} /\ P[12].from = {"t_maker_addresses"}
    BY DEF LoadAllMakerAddresses, Query, QueryOrPanic, Scan, ScanAndParse, ScanOrReturn, Check, Swap
  <1> HIDE DEF P
  <1>3. /\ Places(P, "query") = {1, 4, 7}
        /\ Places(P, "scan") = {2, 5, 8}
        /\ Places(P, "check") = {3, 6, 9}
        /\ Places(P, "swap") = {10, 11, 12}
    BY <1>1, <1>2 DEF Places
  <1>4. Queried(P) = {"t_maker_address_groups", "t_maker_addresses", "t_security_addresses"}
    BY <1>2, <1>3 DEF Queried
  <1>5. Shaped(P)
    BY <1>1, <1>2, <1>3, <1>4 DEF Shaped, MakerTables
  <1>6. Ordered(P)
    <2>1. \A j, k \in Places(P, "scan") : P[j].table = P[k].table => j = k
      BY <1>2, <1>3
    <2>2. \A j \in Places(P, "query"), k \in Places(P, "scan") : P[j].table = P[k].table => j < k
      BY <1>2, <1>3
    <2>3. \A j \in Places(P, "scan") : P[j].parses <=> P[j].table \in ParsedTables
      BY <1>2, <1>3 DEF ParsedTables
    <2>4. \A k \in Places(P, "check") : \E j \in Places(P, "scan") : j < k /\ P[j].table = P[k].table
      BY <1>2, <1>3
    <2>5. \A k \in Places(P, "swap") : \A t \in P[k].from \ UncheckedTables :
            \E j \in Places(P, "check") : j < k /\ P[j].table = t
      BY <1>2, <1>3 DEF UncheckedTables, MakerTables
    <2> QED
      BY <2>1, <2>2, <2>3, <2>4, <2>5 DEF Ordered
  <1>7. OnePlace(P) /\ NoWayBack(P)
    BY <1>1, <1>2, <1>3 DEF OnePlace, NoWayBack, MakerTables
  <1> QED
    BY <1>5, <1>6, <1>7 DEF P

(* Four tables, published one after another and not tested. *)
LEMMA AggregatorIsStraight ==
    LET P == LoadAll IN Shaped(P) /\ Ordered(P) /\ OnePlace(P) /\ Together(P) /\ Covers(P)
  <1> DEFINE P == LoadAll
  <1>1. Len(P) = 12 /\ DOMAIN P = 1..12
    BY DEF LoadAll, loadAggregatorConfigs, loadAggregateChainConfigs, loadRouteConfigs, loadFeeSegments
  <1>2. /\ P[1].op = "query" /\ P[1].table = "t_aggregate_config"
        /\ P[2].op = "scan" /\ P[2].table = "t_aggregate_config" /\ ~P[2].parses
        /\ P[3].op = "swap" /\ P[3].fields = {"aggregatorConfigs"} /\ P[3].from = {"t_aggregate_config"}
        /\ P[4].op = "query" /\ P[4].table = "t_aggregate_chain_config"
        /\ P[5].op = "scan" /\ P[5].table = "t_aggregate_chain_config" /\ ~P[5].parses
        /\ P[6].op = "swap" /\ P[6].fields = {"chainConfigs", "chainConfigsByName"} /\ P[6].from = {"t_aggregate_chain_config"}
        /\ P[7].op = "query" /\ P[7].table = "t_aggregate_route_config"
        /\ P[8].op = "scan" /\ P[8].table = "t_aggregate_route_config" /\ ~P[8].parses
        /\ P[9].op = "swap" /\ P[9].fields = {"routesByChainPair", "routesBySymbol", "routesByID"} /\ P[9].from = {"t_aggregate_route_config"}
        /\ P[10].op = "query" /\ P[10].table = "t_aggregate_route_fee_segment"
        /\ P[11].op = "scan" /\ P[11].table = "t_aggregate_route_fee_segment" /\ ~P[11].parses
        /\ P[12].op = "swap" /\ P[12].fields = {"feeSegmentsByRouteID"} /\ P[12].from = {"t_aggregate_route_fee_segment"}
    BY DEF LoadAll, loadAggregatorConfigs, loadAggregateChainConfigs, loadRouteConfigs, loadFeeSegments, Query, QueryOrPanic, Scan, ScanAndParse, ScanOrReturn, Check, Swap
  <1> HIDE DEF P
  <1>3. /\ Places(P, "query") = {1, 4, 7, 10}
        /\ Places(P, "scan") = {2, 5, 8, 11}
        /\ Places(P, "check") = {}
        /\ Places(P, "swap") = {3, 6, 9, 12}
    BY <1>1, <1>2 DEF Places
  <1>4. Queried(P) = {"t_aggregate_config", "t_aggregate_chain_config", "t_aggregate_route_config", "t_aggregate_route_fee_segment"}
    BY <1>2, <1>3 DEF Queried
  <1>5. Shaped(P)
    BY <1>1, <1>2, <1>3, <1>4 DEF Shaped
  <1>6. Ordered(P)
    <2>1. \A j, k \in Places(P, "scan") : P[j].table = P[k].table => j = k
      BY <1>2, <1>3
    <2>2. \A j \in Places(P, "query"), k \in Places(P, "scan") : P[j].table = P[k].table => j < k
      BY <1>2, <1>3
    <2>3. \A j \in Places(P, "scan") : P[j].parses <=> P[j].table \in ParsedTables
      BY <1>2, <1>3 DEF ParsedTables
    <2>4. \A k \in Places(P, "check") : \E j \in Places(P, "scan") : j < k /\ P[j].table = P[k].table
      BY <1>2, <1>3
    <2>5. \A k \in Places(P, "swap") : \A t \in P[k].from \ UncheckedTables :
            \E j \in Places(P, "check") : j < k /\ P[j].table = t
      BY <1>2, <1>3 DEF UncheckedTables
    <2> QED
      BY <2>1, <2>2, <2>3, <2>4, <2>5 DEF Ordered
  <1>7. OnePlace(P) /\ Together(P)
    BY <1>1, <1>2, <1>3 DEF OnePlace, Together
  <1>8. Covers(P)
    BY <1>2, <1>3, <1>4 DEF Covers, UncheckedTables
  <1> QED
    BY <1>5, <1>6, <1>7, <1>8 DEF P

(* Every manager's Load function is of this kind.  MakerAddressManager      *)
(* assigns its indexes one by one, and AggregatorManager its tables.        *)
Straight(m) ==
  /\ Shaped(Load[m]) /\ Ordered(Load[m]) /\ OnePlace(Load[m])
  /\ m # "MakerAddressManager" => Together(Load[m]) /\ Covers(Load[m])
  /\ m # "AggregatorManager" => NoWayBack(Load[m])

LEMMA LoadsAreStraight == ASSUME NEW m \in Managers PROVE Straight(m)
  <1>1. ASSUME NEW t, t \notin ParsedTables, \E fs : fs # {} /\ Load[m] = LoadOne(t, Scan(t), fs)
        PROVE  Straight(m)
    <2>1. ~Scan(t).parses
      BY DEF Scan
    <2> PICK fs : fs # {} /\ Load[m] = LoadOne(t, Scan(t), fs)
      BY <1>1
    <2> QED
      BY <1>1, <2>1, LoadOneIsStraight DEF Straight
  <1>2. ASSUME NEW t, t \in ParsedTables, \E fs : fs # {} /\ Load[m] = LoadOne(t, ScanAndParse(t), fs)
        PROVE  Straight(m)
    <2>1. ScanAndParse(t).parses
      BY DEF ScanAndParse
    <2> PICK fs : fs # {} /\ Load[m] = LoadOne(t, ScanAndParse(t), fs)
      BY <1>2
    <2> QED
      BY <1>2, <2>1, LoadOneIsStraight DEF Straight
  <1>3. CASE m = "AccountManager"
    <2>1. \E fs : fs # {} /\ Load[m] = LoadOne("t_account", Scan("t_account"), fs)
      BY <1>3 DEF Load, LoadAllAccounts
    <2>2. "t_account" \notin ParsedTables
      BY DEF ParsedTables
    <2> QED
      BY <1>1, <2>1, <2>2
  <1>4. CASE m = "BlacklistAddressManager"
    <2>1. \E fs : fs # {} /\ Load[m] = LoadOne("t_blacklist_address", Scan("t_blacklist_address"), fs)
      BY <1>4 DEF Load, LoadAllBlacklists
    <2>2. "t_blacklist_address" \notin ParsedTables
      BY DEF ParsedTables
    <2> QED
      BY <1>1, <2>1, <2>2
  <1>5. CASE m = "ChannelCommissionRatioManager"
    <2>1. \E fs : fs # {} /\ Load[m] = LoadOne("t_channel_commission_ratio", Scan("t_channel_commission_ratio"), fs)
      BY <1>5 DEF Load, LoadAllCommissionRatio
    <2>2. "t_channel_commission_ratio" \notin ParsedTables
      BY DEF ParsedTables
    <2> QED
      BY <1>1, <2>1, <2>2
  <1>6. CASE m = "CircleCctpChainManager"
    <2>1. \E fs : fs # {} /\ Load[m] = LoadOne("t_cctp_support_chain", ScanAndParse("t_cctp_support_chain"), fs)
      BY <1>6 DEF Load, LoadAllCctpChains
    <2>2. "t_cctp_support_chain" \in ParsedTables
      BY DEF ParsedTables
    <2> QED
      BY <1>2, <2>1, <2>2
  <1>7. CASE m = "ExchangeInfoManager"
    <2>1. \E fs : fs # {} /\ Load[m] = LoadOne("t_exchange_info", Scan("t_exchange_info"), fs)
      BY <1>7 DEF Load, LoadAllExchanges
    <2>2. "t_exchange_info" \notin ParsedTables
      BY DEF ParsedTables
    <2> QED
      BY <1>1, <2>1, <2>2
  <1>8. CASE m = "LpInfoManager"
    <2>1. \E fs : fs # {} /\ Load[m] = LoadOne("t_lp_info", ScanAndParse("t_lp_info"), fs)
      BY <1>8 DEF Load, LoadAllLpInfo
    <2>2. "t_lp_info" \in ParsedTables
      BY DEF ParsedTables
    <2> QED
      BY <1>2, <2>1, <2>2
  <1>9. CASE m = "NodeInfoManager"
    <2>1. \E fs : fs # {} /\ Load[m] = LoadOne("t_node_info", Scan("t_node_info"), fs)
      BY <1>9 DEF Load, LoadAllNodes
    <2>2. "t_node_info" \notin ParsedTables
      BY DEF ParsedTables
    <2> QED
      BY <1>1, <2>1, <2>2
  <1>10. CASE m = "PopularListManager"
    <2>1. \E fs : fs # {} /\ Load[m] = LoadOne("t_popular_list", Scan("t_popular_list"), fs)
      BY <1>10 DEF Load, LoadAllPopularList
    <2>2. "t_popular_list" \notin ParsedTables
      BY DEF ParsedTables
    <2> QED
      BY <1>1, <2>1, <2>2
  <1>11. CASE m = "UpdatePriceManager"
    <2>1. \E fs : fs # {} /\ Load[m] = LoadOne("t_update_price", Scan("t_update_price"), fs)
      BY <1>11 DEF Load, LoadAllPrice
    <2>2. "t_update_price" \notin ParsedTables
      BY DEF ParsedTables
    <2> QED
      BY <1>1, <2>1, <2>2
  <1>12. CASE m = "MultiTransferChainManager"
    <2>1. \E fs : fs # {} /\ Load[m] = LoadOne("t_multi_transfer_chain", Scan("t_multi_transfer_chain"), fs)
      BY <1>12 DEF Load, LoadAllMultiTransferChains
    <2>2. "t_multi_transfer_chain" \notin ParsedTables
      BY DEF ParsedTables
    <2> QED
      BY <1>1, <2>1, <2>2
  <1>13. CASE m = "MultiTransferTokenManager"
    <2>1. \E fs : fs # {} /\ Load[m] = LoadOne("t_multi_transfer_token", Scan("t_multi_transfer_token"), fs)
      BY <1>13 DEF Load, LoadAllMultiTransferTokens
    <2>2. "t_multi_transfer_token" \notin ParsedTables
      BY DEF ParsedTables
    <2> QED
      BY <1>1, <2>1, <2>2
  <1>14. CASE m = "DtcManager"
    <2>1. \E fs : fs # {} /\ Load[m] = LoadOne("t_dynamic_dtc", ScanAndParse("t_dynamic_dtc"), fs)
      BY <1>14 DEF Load, LoadAllDtc
    <2>2. "t_dynamic_dtc" \in ParsedTables
      BY DEF ParsedTables
    <2> QED
      BY <1>2, <2>1, <2>2
  <1>15. CASE m = "BridgeFeeManager"
    <2>1. Load[m] = LoadAllBridgeFee
      BY <1>15 DEF Load
    <2> QED
      BY <1>15, <2>1, BridgeFeeIsStraight DEF Straight
  <1>16. CASE m = "CmsUserManager"
    <2>1. Load[m] = LoadAllCmsUsers
      BY <1>16 DEF Load
    <2> QED
      BY <1>16, <2>1, CmsUsersIsStraight DEF Straight
  <1>17. CASE m = "MakerAddressManager"
    <2>1. Load[m] = LoadAllMakerAddresses
      BY <1>17 DEF Load
    <2> QED
      BY <1>17, <2>1, MakerIsStraight DEF Straight
  <1>18. CASE m = "AggregatorManager"
    <2>1. Load[m] = LoadAll
      BY <1>18 DEF Load
    <2> QED
      BY <1>18, <2>1, AggregatorIsStraight DEF Straight
  <1>19. m \in DOMAIN Load
    BY ManagerAssumption
  <1> QED
    BY <1>3, <1>4, <1>5, <1>6, <1>7, <1>8, <1>9, <1>10, <1>11, <1>12, <1>13, <1>14, <1>15, <1>16, <1>17, <1>18, <1>19 DEF Load

(* The tables and indexes of a manager, read off its program. *)
LEMMA ProgramFacts ==
    ASSUME NEW m \in Managers
    PROVE  /\ Tables(m) = Queried(Load[m])
           /\ \A i : i \in Indexes(m) <=> \E k \in Places(Load[m], "swap") : i \in Load[m][k].fields
           /\ \A k \in Places(Load[m], "swap") : \A i \in Load[m][k].fields :
                /\ Behind(m, i) = Load[m][k].from /\ Behind(m, i) \subseteq Tables(m)
  <1> DEFINE P == Load[m]
  <1>1. DOMAIN P = 1..Len(P) /\ OnePlace(P) /\ Shaped(P)
    BY LoadsAreStraight DEF Straight, Shaped
  <1>2. ASSUME NEW op PROVE Of(m, op) = { P[k] : k \in Places(P, op) }
    BY <1>1 DEF Of, Places
  <1> HIDE DEF P
  <1>3. Tables(m) = Queried(P)
    BY <1>2 DEF Tables, Queried
  <1>4. \A i : i \in Indexes(m) <=> \E k \in Places(P, "swap") : i \in P[k].fields
    BY <1>2 DEF Indexes
  <1>5. ASSUME NEW k \in Places(P, "swap"), NEW i \in P[k].fields
        PROVE  Behind(m, i) = P[k].from
    <2>1. \A j \in Places(P, "swap") : i \in P[j].fields => j = k
      BY <1>1, <1>5 DEF OnePlace
    <2>2. { w \in Of(m, "swap") : i \in w.fields } = {P[k]}
      BY <1>2, <1>5, <2>1
    <2> QED
      BY <2>2 DEF Behind
  <1>6. \A k \in Places(P, "swap") : P[k].from \subseteq Tables(m)
    BY <1>1, <1>3 DEF Shaped
  <1> QED
    BY <1>3, <1>4, <1>5, <1>6 DEF P

-----------------------------------------------------------------------------
(* The invariant. *)
Prog == Load[mgr]

Result == [ver : 0..(MaxEdits + 1), rows : SUBSET Rows, got : SUBSET Rows, err : BOOLEAN]

\* Versions count edits.
VersionsOK == \A t \in Tables(mgr) : Version(t) <= edits + 1

(* Where a load is decides what it holds: every usable row of a table that  *)
(* it has scanned without an error, no error of a table it has tested, and  *)
(* it has assigned the indexes of the swaps behind it.                      *)
Consistent(P, place, T, assigned) ==
  place > 0 =>
    /\ \A k \in Places(P, "scan") : k < place /\ ~T[P[k].table].err =>
         Whole(T[P[k].table], P[k].table)
    /\ \A k \in Places(P, "check") : k < place => ~T[P[k].table].err
    /\ assigned = UNION { P[k].fields : k \in { j \in Places(P, "swap") : j < place } }

LoadOK(l) == Consistent(Prog, at[l], tab[l], swapped[l])

TableInv ==
  /\ TypeOK /\ VersionsOK
  /\ \A l \in Loaders : LoadOK(l)
  /\ PublishedIsComplete /\ IndexesAgree

(* Where a load stands and what it works on. *)
LEMMA RunsFacts ==
    ASSUME TypeOK, NEW l \in Loaders, NEW op, Runs(l, op)
    PROVE  /\ at[l] \in Places(Prog, op) /\ at[l] \in 1..Len(Prog) /\ Len(Prog) \in Nat
           /\ Instr(l) = Prog[at[l]]
           /\ op # "swap" => at[l] + 1 \in 1..Len(Prog)
           /\ op \in {"query", "scan", "check"} => Instr(l).table \in Tables(mgr)
  <1>1. mgr \in Managers /\ at[l] \in Dead..Len(Prog) /\ at[l] > 0 /\ Prog[at[l]].op = op
    BY DEF TypeOK, Runs, Prog
  <1>2. Shaped(Prog) /\ Tables(mgr) = Queried(Prog)
    BY <1>1, LoadsAreStraight, ProgramFacts DEF Straight, Prog
  <1>3. Len(Prog) \in Nat /\ at[l] \in 1..Len(Prog) /\ Prog[Len(Prog)].op = "swap"
    BY <1>1, <1>2 DEF Shaped, Dead
  <1>4. at[l] \in Places(Prog, op)
    BY <1>1, <1>3 DEF Places
  <1>5. op # "swap" => at[l] # Len(Prog)
    BY <1>1, <1>3
  <1>6. Instr(l) = Prog[at[l]]
    BY DEF Instr, Prog
  <1>7. op \in {"query", "scan", "check"} => Instr(l).table \in Tables(mgr)
    BY <1>2, <1>4, <1>6 DEF Shaped, Queried
  <1> QED
    BY <1>3, <1>4, <1>5, <1>6, <1>7

(* A load that ends forgets its result sets. *)
LEMMA LeaveFacts ==
    ASSUME TypeOK, NEW l \in Loaders, NEW where \in {Idle, Dead}, Leave(l, where), UNCHANGED mgr
    PROVE  /\ at' \in [Loaders -> Dead..Len(Load[mgr])] /\ at'[l] = where
           /\ tab' \in [Loaders -> [Tables(mgr) -> Result]]
           /\ \A m \in Loaders \ {l} : at'[m] = at[m] /\ tab'[m] = tab[m]
  <1>1. Len(Load[mgr]) \in Nat
    BY LoadsAreStraight DEF Straight, Shaped, TypeOK
  <1>2. where \in Dead..Len(Load[mgr])
    BY <1>1 DEF Idle, Dead
  <1>3. [t \in Tables(mgr) |-> Unread] \in [Tables(mgr) -> Result]
    BY RowAssumption DEF Unread, Result
  <1> QED
    BY <1>2, <1>3 DEF Leave, TypeOK, Result

LEMMA AdvanceFacts ==
    ASSUME TypeOK, NEW l \in Loaders, Advance(l), at[l] + 1 \in 1..Len(Load[mgr])
    PROVE  /\ at' \in [Loaders -> Dead..Len(Load[mgr])] /\ at'[l] = at[l] + 1
           /\ \A m \in Loaders \ {l} : at'[m] = at[m]
  <1>1. at[l] + 1 \in Dead..Len(Load[mgr])
    BY DEF Dead
  <1> QED
    BY <1>1 DEF Advance, TypeOK

(* What a step of one load does to the others' bookkeeping: nothing. *)
LEMMA OthersStay ==
    ASSUME TableInv, NEW l \in Loaders, UNCHANGED mgr, LoadOK(l)',
           \A m \in Loaders \ {l} : at'[m] = at[m] /\ tab'[m] = tab[m] /\ swapped'[m] = swapped[m]
    PROVE  \A m \in Loaders : LoadOK(m)'
  <1>1. ASSUME NEW m \in Loaders \ {l} PROVE LoadOK(m)'
    <2>1. at'[m] = at[m] /\ tab'[m] = tab[m] /\ swapped'[m] = swapped[m] /\ Prog' = Prog
      BY <1>1 DEF Prog
    <2>2. LoadOK(m)
      BY <1>1 DEF TableInv
    <2> QED
      BY <2>1, <2>2 DEF LoadOK
  <1> QED
    BY <1>1

(* The indexes do not change but in a swap. *)
LEMMA PublishedStays ==
    ASSUME TableInv, UNCHANGED <<mgr, pub>> PROVE PublishedIsComplete' /\ IndexesAgree'
  BY DEF TableInv, PublishedIsComplete, IndexesAgree, Whole

(* One result set of one load changes. *)
LEMMA ResultFacts ==
    ASSUME TypeOK, NEW l \in Loaders, NEW t \in Tables(mgr), NEW r \in Result,
           tab' = [tab EXCEPT ![l][t] = r]
    PROVE  /\ tab' \in [Loaders -> [Tables(mgr) -> Result]]
           /\ tab'[l][t] = r /\ \A u \in Tables(mgr) \ {t} : tab'[l][u] = tab[l][u]
           /\ \A m \in Loaders \ {l} : tab'[m] = tab[m]
  BY DEF TypeOK, Result

LEMMA InitInv == Init => TableInv
  <1> SUFFICES ASSUME Init PROVE TableInv
    OBVIOUS
  <1>1. mgr \in Managers /\ Len(Load[mgr]) \in Nat
    BY LoadsAreStraight DEF Init, Straight, Shaped
  <1>2. TypeOK
    <2>1. db \in [Tables(mgr) -> Seq(Contents)] /\ \A t \in Tables(mgr) : Version(t) = 1
      BY DEF Init, Version
    <2> QED
      BY <1>1, <2>1, RowAssumption DEF Init, TypeOK, Idle, Dead, Unread, Empty
  <1>3. VersionsOK
    BY DEF Init, VersionsOK, Version
  <1>4. \A l \in Loaders : LoadOK(l)
    BY DEF Init, LoadOK, Consistent, Idle
  <1>5. ASSUME NEW i \in Indexes(mgr), NEW t \in Behind(mgr, i) PROVE pub[i][t] = Empty
    BY DEF Init
  <1>6. PublishedIsComplete
    BY <1>5 DEF PublishedIsComplete, Whole, Empty, Kept
  <1>7. IndexesAgree
    BY <1>5 DEF IndexesAgree
  <1> QED
    BY <1>2, <1>3, <1>4, <1>6, <1>7 DEF TableInv

(* A load begins. *)
LEMMA BeginStep == ASSUME TableInv, NEW l \in Loaders, Begin(l) PROVE TableInv'
  <1>1. Len(Load[mgr]) \in Nat \ {0}
    BY LoadsAreStraight DEF TableInv, TypeOK, Straight, Shaped
  <1>2. TypeOK'
    BY <1>1 DEF TableInv, TypeOK, Begin, Dead, Version
  <1>3. at'[l] = 1 /\ swapped'[l] = {}
    BY DEF TableInv, TypeOK, Begin
  <1>4. LoadOK(l)'
    <2>1. \A op, k : k \in Places(Prog, op) => ~(k < 1)
      BY DEF Places
    <2> QED
      BY <1>3, <2>1 DEF LoadOK, Consistent, Begin, Prog
  <1>5. \A m \in Loaders : LoadOK(m)'
    BY <1>4, OthersStay DEF Begin, TableInv, TypeOK
  <1>6. VersionsOK'
    BY DEF TableInv, VersionsOK, Begin, Version
  <1> QED
    BY <1>2, <1>5, <1>6, PublishedStays DEF TableInv, Begin

(* A load ends early: it has nothing more to keep. *)
LEMMA EndStep ==
    ASSUME TableInv, NEW l \in Loaders, NEW where \in {Idle, Dead}, Leave(l, where),
           UNCHANGED <<mgr, db, swapped, pub, edits>>, faults' \in 0..MaxFaults
    PROVE  TableInv'
  <1>1. TypeOK'
    BY LeaveFacts DEF TableInv, TypeOK, Result, Version
  <1>2. LoadOK(l)'
    BY LeaveFacts DEF TableInv, LoadOK, Consistent, Idle, Dead
  <1>3. \A m \in Loaders : LoadOK(m)'
    BY <1>2, LeaveFacts, OthersStay DEF TableInv
  <1> QED
    BY <1>1, <1>3, PublishedStays DEF TableInv, VersionsOK, Version

(* The swaps behind a load stay the same when it passes another instruction. *)
LEMMA SameSwaps ==
    ASSUME TypeOK, NEW l \in Loaders, NEW op \in {"query", "scan", "check"}, Runs(l, op)
    PROVE  /\ { j \in Places(Prog, "swap") : j < at[l] + 1 } = { j \in Places(Prog, "swap") : j < at[l] }
           /\ \A o \in {"query", "scan", "check"} \ {op} : \A k \in Places(Prog, o) : k < at[l] + 1 => k < at[l]
  <1>1. at[l] \in Places(Prog, op) /\ at[l] \in Nat
    BY RunsFacts
  <1>2. \A o \in {"query", "scan", "check", "swap"} \ {op} : \A k \in Places(Prog, o) : k # at[l] /\ k \in Nat
    BY <1>1 DEF Places
  <1> QED
    BY <1>1, <1>2

(* The content a query returns. *)
LEMMA CurrentFacts ==
    ASSUME TypeOK, NEW t \in Tables(mgr)
    PROVE  /\ db[t] \in Seq(Contents) /\ Version(t) \in DOMAIN db[t] /\ Version(t) \in 1..(MaxEdits + 1)
           /\ Current(t) \in Contents /\ Current(t) \subseteq Rows /\ Current(t) = db[t][Version(t)]
  <1>1. db[t] \in Seq(Contents) /\ Version(t) \in 1..(MaxEdits + 1) /\ Version(t) = Len(db[t])
    BY DEF TypeOK, Version
  <1>2. Version(t) \in DOMAIN db[t] /\ Current(t) = db[t][Version(t)]
    BY <1>1 DEF Current
  <1> QED
    BY <1>1, <1>2, RowAssumption

LEMMA QueryOkStep == ASSUME TableInv, NEW l \in Loaders, QueryOk(l) PROVE TableInv'
  <1> DEFINE t == Instr(l).table
             r == [Unread EXCEPT !.ver = Version(t), !.rows = Current(t)]
  <1>1. /\ Runs(l, "query") /\ TypeOK /\ mgr \in Managers /\ LoadOK(l)
        /\ UNCHANGED <<mgr, db, swapped, pub, edits, faults>>
    BY DEF TableInv, TypeOK, QueryOk
  <1>2. /\ at[l] \in Places(Prog, "query") /\ at[l] \in Nat /\ Instr(l) = Prog[at[l]]
        /\ at[l] + 1 \in 1..Len(Prog) /\ t \in Tables(mgr)
    BY <1>1, RunsFacts
  <1>3. r \in Result
    <2>1. Version(t) \in 0..(MaxEdits + 1) /\ Current(t) \subseteq Rows
      BY <1>1, <1>2, CurrentFacts
    <2> QED
      BY <2>1 DEF Result, Unread
  <1>4. tab' = [tab EXCEPT ![l][t] = r] /\ Advance(l)
    BY DEF QueryOk
  <1> HIDE DEF r, t
  <1>5. /\ tab' \in [Loaders -> [Tables(mgr) -> Result]]
        /\ \A u \in Tables(mgr) \ {t} : tab'[l][u] = tab[l][u]
        /\ \A m \in Loaders \ {l} : tab'[m] = tab[m]
    BY <1>1, <1>2, <1>3, <1>4, ResultFacts
  <1>6. /\ at' \in [Loaders -> Dead..Len(Load[mgr])] /\ at'[l] = at[l] + 1
        /\ \A m \in Loaders \ {l} : at'[m] = at[m]
    BY <1>1, <1>2, <1>4, AdvanceFacts DEF Prog
  <1>7. TypeOK'
    BY <1>1, <1>5, <1>6 DEF TypeOK, Result, Version
  <1>8. Ordered(Prog) /\ Shaped(Prog) /\ Queried(Prog) = Tables(mgr)
    BY <1>1, LoadsAreStraight, ProgramFacts DEF Straight, Prog
  <1>9. \A k \in Places(Prog, "scan") : k < at[l] => Prog[k].table \in Tables(mgr) \ {t}
    BY <1>2, <1>8 DEF Ordered, Shaped, t, Places
  <1>10. \A k \in Places(Prog, "check") : k < at[l] => Prog[k].table \in Tables(mgr) \ {t}
    <2> SUFFICES ASSUME NEW k \in Places(Prog, "check"), k < at[l] PROVE Prog[k].table \in Tables(mgr) \ {t}
      OBVIOUS
    <2>1. PICK j \in Places(Prog, "scan") : j < k /\ Prog[j].table = Prog[k].table
      BY <1>8 DEF Ordered
    <2>2. j < at[l]
      BY <1>2, <2>1 DEF Places
    <2> QED
      BY <1>9, <2>1, <2>2
  <1>11. UNCHANGED Prog
    BY <1>1 DEF Prog
  <1>12. LoadOK(l)'
    <2>1. { j \in Places(Prog, "swap") : j < at[l] + 1 } = { j \in Places(Prog, "swap") : j < at[l] }
      BY <1>1, SameSwaps
    <2>2. \A o \in {"scan", "check"} : \A k \in Places(Prog, o) : k < at[l] + 1 => k < at[l]
      BY <1>1, SameSwaps
    <2>3. at[l] > 0
      BY <1>1 DEF Runs
    <2>4. \A k \in Places(Prog, "scan") : k < at'[l] /\ ~tab'[l][Prog[k].table].err =>
            Whole(tab'[l][Prog[k].table], Prog[k].table)
      BY <1>1, <1>5, <1>6, <1>9, <2>2, <2>3 DEF LoadOK, Consistent
    <2>5. \A k \in Places(Prog, "check") : k < at'[l] => ~tab'[l][Prog[k].table].err
      BY <1>1, <1>5, <1>6, <1>10, <2>2, <2>3 DEF LoadOK, Consistent
    <2>6. swapped'[l] = UNION { Prog[k].fields : k \in { j \in Places(Prog, "swap") : j < at'[l] } }
      BY <1>1, <1>6, <2>1, <2>3 DEF LoadOK, Consistent
    <2> QED
      BY <1>11, <2>4, <2>5, <2>6 DEF LoadOK, Consistent, Whole
  <1>13. \A m \in Loaders : LoadOK(m)'
    BY <1>1, <1>5, <1>6, <1>12, OthersStay
  <1> QED
    BY <1>1, <1>7, <1>13, PublishedStays DEF TableInv, VersionsOK, Version

(* What the loop over a result set leaves. *)
Delivered(l, t, rs, failed) ==
  /\ tab' \in [Loaders -> [Tables(mgr) -> Result]]
  /\ tab'[l][t].got = Kept(rs, Instr(l).parses) /\ tab'[l][t].err = failed
  /\ tab'[l][t].rows = tab[l][t].rows
  /\ \A u \in Tables(mgr) \ {t} : tab'[l][u] = tab[l][u]
  /\ \A m \in Loaders \ {l} : tab'[m] = tab[m]

(* The rows a loop keeps and the error it ends with are those of its table. *)
LEMMA DeliverFacts ==
    ASSUME TypeOK, NEW l \in Loaders, NEW t \in Tables(mgr), t = Instr(l).table, NEW rs \in SUBSET Rows,
           NEW failed \in BOOLEAN, Deliver(l, rs, failed)
    PROVE  Delivered(l, t, rs, failed)
  <1> DEFINE r == [tab[l][t] EXCEPT !.got = Kept(rs, Instr(l).parses), !.err = failed]
  <1>1. tab[l][t] \in Result /\ Kept(rs, Instr(l).parses) \subseteq Rows
    BY DEF TypeOK, Result, Kept
  <1>2. r \in Result
    BY <1>1 DEF Result
  <1>3. r.got = Kept(rs, Instr(l).parses) /\ r.err = failed /\ r.rows = tab[l][t].rows
    BY <1>1 DEF Result
  <1>4. tab' = [tab EXCEPT ![l][t] = r]
    BY DEF Deliver, TypeOK
  <1> HIDE DEF r
  <1> QED
    BY <1>2, <1>3, <1>4, ResultFacts DEF Delivered

LEMMA ScanStep ==
    ASSUME TableInv, NEW l \in Loaders, Runs(l, "scan"), NEW failed \in BOOLEAN,
           NEW rs \in SUBSET tab[l][Instr(l).table].rows, ~failed => rs = tab[l][Instr(l).table].rows,
           Deliver(l, rs, failed),
           UNCHANGED <<mgr, db, swapped, pub, edits>>, faults' \in 0..MaxFaults
    PROVE  TableInv'
  <1> DEFINE t == Instr(l).table
  <1>1. TypeOK /\ mgr \in Managers /\ LoadOK(l)
    BY DEF TableInv, TypeOK
  <1>2. /\ at[l] \in Places(Prog, "scan") /\ at[l] \in Nat /\ Instr(l) = Prog[at[l]]
        /\ at[l] + 1 \in 1..Len(Prog) /\ t \in Tables(mgr)
    BY <1>1, RunsFacts
  <1>3. rs \in SUBSET Rows
    BY <1>1, <1>2 DEF TypeOK
  <1>4. /\ tab' \in [Loaders -> [Tables(mgr) -> Result]]
        /\ tab'[l][t].got = Kept(rs, Instr(l).parses) /\ tab'[l][t].err = failed
        /\ tab'[l][t].rows = tab[l][t].rows
        /\ \A u \in Tables(mgr) \ {t} : tab'[l][u] = tab[l][u]
        /\ \A m \in Loaders \ {l} : tab'[m] = tab[m]
    <2>1. TypeOK /\ t \in Tables(mgr)
      BY <1>1, <1>2
    <2>2. Delivered(l, t, rs, failed)
      BY <1>3, <2>1, DeliverFacts
    <2> QED
      BY <2>2 DEF Delivered
  <1>5. /\ at' \in [Loaders -> Dead..Len(Load[mgr])] /\ at'[l] = at[l] + 1
        /\ \A m \in Loaders \ {l} : at'[m] = at[m]
    BY <1>1, <1>2, AdvanceFacts DEF Prog, Deliver
  <1>6. TypeOK'
    BY <1>1, <1>4, <1>5 DEF TypeOK, Result, Version
  <1>7. Ordered(Prog) /\ Shaped(Prog) /\ Queried(Prog) = Tables(mgr)
    BY <1>1, LoadsAreStraight, ProgramFacts DEF Straight, Prog
  <1>8. Instr(l).parses <=> t \in ParsedTables
    BY <1>2, <1>7 DEF Ordered
  <1>9. ~failed => Whole(tab'[l][t], t)
    BY <1>4, <1>8 DEF Whole, Kept
  <1> HIDE DEF t
  <1>10. \A k \in Places(Prog, "scan") : k < at[l] => Prog[k].table \in Tables(mgr) \ {t}
    BY <1>2, <1>7 DEF Ordered, Shaped, t, Places
  <1>11. \A k \in Places(Prog, "check") : k < at[l] => Prog[k].table \in Tables(mgr) \ {t}
    <2> SUFFICES ASSUME NEW k \in Places(Prog, "check"), k < at[l] PROVE Prog[k].table \in Tables(mgr) \ {t}
      OBVIOUS
    <2>1. PICK j \in Places(Prog, "scan") : j < k /\ Prog[j].table = Prog[k].table
      BY <1>7 DEF Ordered
    <2>2. j < at[l]
      BY <1>2, <2>1 DEF Places
    <2> QED
      BY <1>10, <2>1, <2>2
  <1>12. UNCHANGED Prog
    BY DEF Prog
  <1>13. LoadOK(l)'
    <2>1. { j \in Places(Prog, "swap") : j < at[l] + 1 } = { j \in Places(Prog, "swap") : j < at[l] }
      BY <1>1, SameSwaps
    <2>2. \A k \in Places(Prog, "check") : k < at[l] + 1 => k < at[l]
      BY <1>1, SameSwaps
    <2>3. at[l] > 0
      BY DEF Runs
    <2>4. ASSUME NEW k \in Places(Prog, "scan"), k < at'[l], ~tab'[l][Prog[k].table].err
          PROVE  Whole(tab'[l][Prog[k].table], Prog[k].table)
      <3>1. CASE k = at[l]
        BY <1>2, <1>4, <1>9, <2>4, <3>1 DEF t
      <3>2. CASE k < at[l]
        BY <1>1, <1>4, <1>10, <2>3, <2>4, <3>2 DEF LoadOK, Consistent
      <3> QED
        BY <1>2, <1>5, <2>4, <3>1, <3>2 DEF Places
    <2>5. \A k \in Places(Prog, "check") : k < at'[l] => ~tab'[l][Prog[k].table].err
      BY <1>1, <1>4, <1>5, <1>11, <2>2, <2>3 DEF LoadOK, Consistent
    <2>6. swapped'[l] = UNION { Prog[k].fields : k \in { j \in Places(Prog, "swap") : j < at'[l] } }
      BY <1>1, <1>5, <2>1, <2>3 DEF LoadOK, Consistent
    <2> QED
      BY <1>12, <2>4, <2>5, <2>6 DEF LoadOK, Consistent, Whole
  <1>14. \A m \in Loaders : LoadOK(m)'
    BY <1>4, <1>5, <1>13, OthersStay
  <1> QED
    BY <1>6, <1>14, PublishedStays DEF TableInv, VersionsOK, Version

LEMMA CheckStep ==
    ASSUME TableInv, NEW l \in Loaders, CheckErr(l) PROVE TableInv'
  <1>1. TypeOK /\ mgr \in Managers /\ LoadOK(l) /\ Runs(l, "check") /\ faults' \in 0..MaxFaults
    BY DEF TableInv, TypeOK, CheckErr
  <1>2. CASE Leave(l, Idle)
    BY <1>1, <1>2, EndStep DEF CheckErr
  <1>3. CASE ~tab[l][Instr(l).table].err /\ Advance(l) /\ UNCHANGED tab
    <2>1. /\ at[l] \in Places(Prog, "check") /\ at[l] \in Nat /\ Instr(l) = Prog[at[l]]
          /\ at[l] + 1 \in 1..Len(Prog)
      BY <1>1, RunsFacts
    <2>2. /\ at' \in [Loaders -> Dead..Len(Load[mgr])] /\ at'[l] = at[l] + 1
          /\ \A m \in Loaders \ {l} : at'[m] = at[m]
      BY <1>1, <1>3, <2>1, AdvanceFacts DEF Prog
    <2>3. TypeOK'
      BY <1>1, <1>3, <2>2 DEF TypeOK, CheckErr, Version
    <2>4. LoadOK(l)'
      <3>1. { j \in Places(Prog, "swap") : j < at[l] + 1 } = { j \in Places(Prog, "swap") : j < at[l] }
        BY <1>1, SameSwaps
      <3>2. \A k \in Places(Prog, "scan") : k < at[l] + 1 => k < at[l]
        BY <1>1, SameSwaps
      <3>3. at[l] > 0 /\ UNCHANGED <<Prog, tab, swapped>>
        BY <1>1, <1>3 DEF Runs, CheckErr, Prog
      <3>4. \A k \in Places(Prog, "check") : k < at'[l] => ~tab[l][Prog[k].table].err
        <4> SUFFICES ASSUME NEW k \in Places(Prog, "check"), k < at'[l] PROVE ~tab[l][Prog[k].table].err
          OBVIOUS
        <4>1. k < at[l] \/ k = at[l]
          BY <2>1, <2>2 DEF Places
        <4> QED
          BY <1>1, <1>3, <2>1, <3>3, <4>1 DEF LoadOK, Consistent
      <3>5. \A k \in Places(Prog, "scan") : k < at'[l] /\ ~tab[l][Prog[k].table].err =>
              Whole(tab[l][Prog[k].table], Prog[k].table)
        BY <1>1, <2>2, <3>2, <3>3 DEF LoadOK, Consistent
      <3>6. swapped[l] = UNION { Prog[k].fields : k \in { j \in Places(Prog, "swap") : j < at'[l] } }
        BY <1>1, <2>2, <3>1, <3>3 DEF LoadOK, Consistent
      <3> QED
        BY <3>3, <3>4, <3>5, <3>6 DEF LoadOK, Consistent, Whole
    <2>5. \A m \in Loaders : LoadOK(m)'
      BY <1>3, <2>2, <2>4, OthersStay DEF CheckErr
    <2> QED
      BY <2>3, <2>5, PublishedStays DEF TableInv, VersionsOK, CheckErr, Version
  <1> QED
    BY <1>2, <1>3 DEF CheckErr

(* What a swap publishes is whole, and it replaces all it takes from a table. *)
LEMMA SwapFacts ==
    ASSUME TableInv, NEW l \in Loaders, SwapFields(l)
    PROVE  /\ \A i \in Indexes(mgr) : pub'[i] \in [Behind(mgr, i) ->
                [ver : 0..(MaxEdits + 1), rows : SUBSET Rows, got : SUBSET Rows]]
           /\ PublishedIsComplete' /\ IndexesAgree'
  <1> DEFINE fs == Instr(l).fields
             NewOf(t) == [ver |-> tab[l][t].ver, rows |-> tab[l][t].rows, got |-> tab[l][t].got]
  <1>1. TypeOK /\ mgr \in Managers /\ LoadOK(l) /\ Runs(l, "swap") /\ UNCHANGED mgr
    BY DEF TableInv, TypeOK, SwapFields
  <1>2. at[l] \in Places(Prog, "swap") /\ at[l] \in 1..Len(Prog) /\ fs = Prog[at[l]].fields /\ at[l] > 0
    BY <1>1, RunsFacts
  <1>3. /\ Ordered(Prog) /\ OnePlace(Prog)
        /\ mgr # "MakerAddressManager" => Together(Prog)
    BY <1>1, LoadsAreStraight DEF Straight, Prog
  <1>4. /\ \A i : i \in Indexes(mgr) <=> \E k \in Places(Prog, "swap") : i \in Prog[k].fields
        /\ \A k \in Places(Prog, "swap") : \A i \in Prog[k].fields :
             Behind(mgr, i) = Prog[k].from /\ Behind(mgr, i) \subseteq Tables(mgr)
    BY <1>1, ProgramFacts DEF Prog
  <1>5. pub' = [i \in Indexes(mgr) |-> IF i \in fs THEN [t \in Behind(mgr, i) |-> NewOf(t)] ELSE pub[i]]
    BY DEF SwapFields
  <1>6. \A i \in Indexes(mgr) \ fs : pub'[i] = pub[i]
    BY <1>5
  <1>7. \A i \in Indexes(mgr) : i \in fs => pub'[i] = [t \in Behind(mgr, i) |-> NewOf(t)]
    BY <1>5
  <1>8. \A t \in Tables(mgr) : NewOf(t) \in [ver : 0..(MaxEdits + 1), rows : SUBSET Rows, got : SUBSET Rows]
    BY <1>1 DEF TypeOK
  <1> HIDE DEF fs, NewOf
  <1>9. ASSUME NEW i \in Indexes(mgr)
        PROVE  pub'[i] \in [Behind(mgr, i) -> [ver : 0..(MaxEdits + 1), rows : SUBSET Rows, got : SUBSET Rows]]
    <2>1. CASE i \in fs
      <3> DEFINE R == [ver : 0..(MaxEdits + 1), rows : SUBSET Rows, got : SUBSET Rows]
      <3>1. Behind(mgr, i) \subseteq Tables(mgr)
        BY <1>2, <1>4, <2>1
      <3>2. \A t \in Behind(mgr, i) : NewOf(t) \in R
        BY <1>8, <3>1
      <3>3. pub'[i] = [t \in Behind(mgr, i) |-> NewOf(t)]
        BY <1>7, <2>1
      <3> HIDE DEF R
      <3>4. pub'[i] \in [Behind(mgr, i) -> R]
        BY <3>2, <3>3
      <3> QED
        BY <3>4 DEF R
    <2>2. CASE i \notin fs
      BY <1>1, <1>6, <2>2 DEF TypeOK
    <2> QED
      BY <2>1, <2>2
  <1>10. PublishedIsComplete'
    <2> SUFFICES ASSUME NEW i \in Indexes(mgr), NEW t \in Behind(mgr, i) \ UncheckedTables
                 PROVE  Whole(pub'[i][t], t)
      BY <1>1 DEF PublishedIsComplete, Whole
    <2>1. CASE i \in fs
      <3>1. t \in Prog[at[l]].from \ UncheckedTables
        BY <1>2, <1>4, <2>1
      <3>2. PICK j \in Places(Prog, "check") : j < at[l] /\ Prog[j].table = t
        BY <1>2, <1>3, <3>1 DEF Ordered
      <3>3. PICK h \in Places(Prog, "scan") : h < j /\ Prog[h].table = t
        BY <1>3, <3>2 DEF Ordered
      <3>4. h < at[l]
        BY <1>2, <3>2, <3>3 DEF Places
      <3>5. Whole(tab[l][t], t)
        BY <1>1, <1>2, <3>2, <3>3, <3>4 DEF LoadOK, Consistent
      <3>6. pub'[i][t] = NewOf(t)
        BY <1>7, <2>1
      <3> QED
        BY <3>5, <3>6 DEF Whole, NewOf
    <2>2. CASE i \notin fs
      <3>1. pub'[i] = pub[i]
        BY <1>6, <2>2
      <3> QED
        BY <3>1 DEF TableInv, PublishedIsComplete
    <2> QED
      BY <2>1, <2>2
  <1>11. IndexesAgree'
    <2> SUFFICES ASSUME mgr # "MakerAddressManager", NEW i \in Indexes(mgr), NEW j \in Indexes(mgr),
                        NEW t \in Behind(mgr, i) \cap Behind(mgr, j)
                 PROVE  pub'[i][t] = pub'[j][t]
      BY <1>1 DEF IndexesAgree
    <2>1. PICK k \in Places(Prog, "swap") : i \in Prog[k].fields
      BY <1>4
    <2>2. PICK h \in Places(Prog, "swap") : j \in Prog[h].fields
      BY <1>4
    <2>3. t \in Prog[k].from \cap Prog[h].from
      BY <1>4, <2>1, <2>2
    <2>4. k = h
      BY <1>3, <2>3 DEF Together
    <2>5. CASE k = at[l]
      <3>1. i \in fs /\ j \in fs
        BY <1>2, <2>1, <2>2, <2>4, <2>5
      <3>2. pub'[i][t] = NewOf(t)
        BY <1>7, <3>1
      <3>3. pub'[j][t] = NewOf(t)
        BY <1>7, <3>1
      <3> QED
        BY <3>2, <3>3
    <2>6. CASE k # at[l]
      <3>1. i \notin fs /\ j \notin fs
        BY <1>2, <1>3, <2>1, <2>2, <2>4, <2>6 DEF OnePlace
      <3>2. pub'[i] = pub[i] /\ pub'[j] = pub[j]
        BY <1>6, <3>1
      <3>3. pub[i][t] = pub[j][t]
        BY DEF TableInv, IndexesAgree
      <3> QED
        BY <3>2, <3>3
    <2> QED
      BY <2>5, <2>6
  <1> QED
    BY <1>9, <1>10, <1>11

(* The indexes assigned so far include those of the swap that was made. *)
LEMMA SwapCounts ==
    ASSUME TableInv, NEW l \in Loaders, SwapFields(l)
    PROVE  /\ swapped' \in [Loaders -> SUBSET Indexes(mgr)]
           /\ swapped'[l] = UNION { Prog[k].fields : k \in { j \in Places(Prog, "swap") : j < at[l] + 1 } }
           /\ \A m \in Loaders \ {l} : swapped'[m] = swapped[m]
  <1>1. TypeOK /\ mgr \in Managers /\ LoadOK(l) /\ Runs(l, "swap")
    BY DEF TableInv, TypeOK, SwapFields
  <1>2. at[l] \in Places(Prog, "swap") /\ at[l] \in Nat /\ Instr(l) = Prog[at[l]] /\ at[l] > 0
    BY <1>1, RunsFacts
  <1>3. { j \in Places(Prog, "swap") : j < at[l] + 1 } = { j \in Places(Prog, "swap") : j < at[l] } \cup {at[l]}
    BY <1>2 DEF Places
  <1>4. Prog[at[l]].fields \subseteq Indexes(mgr)
    BY <1>1, <1>2, ProgramFacts DEF Prog
  <1>5. swapped' = [swapped EXCEPT ![l] = @ \cup Prog[at[l]].fields] /\ swapped \in [Loaders -> SUBSET Indexes(mgr)]
    BY <1>1, <1>2 DEF SwapFields, TypeOK
  <1>6. swapped[l] = UNION { Prog[k].fields : k \in { j \in Places(Prog, "swap") : j < at[l] } }
    BY <1>1, <1>2 DEF LoadOK, Consistent
  <1>7. swapped'[l] = swapped[l] \cup Prog[at[l]].fields
    BY <1>5
  <1>8. swapped'[l] = UNION { Prog[k].fields : k \in { j \in Places(Prog, "swap") : j < at[l] + 1 } }
    BY <1>3, <1>6, <1>7
  <1> QED
    BY <1>4, <1>5, <1>8

LEMMA SwapStep == ASSUME TableInv, NEW l \in Loaders, SwapFields(l) PROVE TableInv'
  <1>1. TypeOK /\ mgr \in Managers /\ LoadOK(l) /\ Runs(l, "swap") /\ UNCHANGED <<mgr, db, edits, faults>>
    BY DEF TableInv, TypeOK, SwapFields
  <1>2. at[l] \in Places(Prog, "swap") /\ at[l] \in 1..Len(Prog) /\ Len(Prog) \in Nat /\ at[l] > 0
    BY <1>1, RunsFacts
  <1>3. /\ at' \in [Loaders -> Dead..Len(Load[mgr])]
        /\ tab' \in [Loaders -> [Tables(mgr) -> Result]]
        /\ \A m \in Loaders \ {l} : at'[m] = at[m] /\ tab'[m] = tab[m]
        /\ at'[l] = Idle \/ (at'[l] = at[l] + 1 /\ tab' = tab)
    <2>1. CASE at[l] = Len(Prog)
      BY <1>1, <2>1, LeaveFacts DEF SwapFields, Prog
    <2>2. CASE at[l] # Len(Prog)
      <3>1. at[l] + 1 \in 1..Len(Load[mgr])
        BY <1>2, <2>2 DEF Prog
      <3>2. Advance(l) /\ UNCHANGED tab
        BY <2>2 DEF SwapFields, Prog
      <3> QED
        BY <1>1, <3>1, <3>2, AdvanceFacts DEF TypeOK, Result
    <2> QED
      BY <2>1, <2>2
  <1>4. TypeOK'
    BY <1>1, <1>3, SwapFacts, SwapCounts DEF TypeOK, Result, Version
  <1>5. LoadOK(l)'
    <2>1. CASE at'[l] = Idle
      BY <2>1 DEF LoadOK, Consistent, Idle
    <2>2. CASE at'[l] = at[l] + 1 /\ tab' = tab
      <3>1. \A op \in {"scan", "check"} : \A k \in Places(Prog, op) : k < at[l] + 1 => k < at[l]
        BY <1>2 DEF Places
      <3>2. UNCHANGED Prog
        BY <1>1 DEF Prog
      <3>3. \A k \in Places(Prog, "scan") : k < at'[l] /\ ~tab[l][Prog[k].table].err =>
              Whole(tab[l][Prog[k].table], Prog[k].table)
        BY <1>1, <1>2, <2>2, <3>1 DEF LoadOK, Consistent
      <3>4. \A k \in Places(Prog, "check") : k < at'[l] => ~tab[l][Prog[k].table].err
        BY <1>1, <1>2, <2>2, <3>1 DEF LoadOK, Consistent
      <3>5. swapped'[l] = UNION { Prog[k].fields : k \in { j \in Places(Prog, "swap") : j < at'[l] } }
        BY <2>2, SwapCounts
      <3> QED
        BY <2>2, <3>2, <3>3, <3>4, <3>5 DEF LoadOK, Consistent, Whole
    <2> QED
      BY <1>3, <2>1, <2>2
  <1>6. \A m \in Loaders : LoadOK(m)'
    BY <1>1, <1>3, <1>5, SwapCounts, OthersStay
  <1> QED
    BY <1>1, <1>4, <1>6, SwapFacts DEF TableInv, VersionsOK, Version

(* Another program edits a table: no load notices before its next query. *)
LEMMA EditStep == ASSUME TableInv, NEW t \in Tables(mgr), Edit(t) PROVE TableInv'
  <1>1. /\ TypeOK /\ VersionsOK /\ edits \in Nat /\ MaxEdits \in Nat /\ edits < MaxEdits
        /\ edits' = edits + 1 /\ UNCHANGED mgr
    BY RowAssumption DEF TableInv, TypeOK, Edit
  <1>2. PICK c \in Contents : db' = [db EXCEPT ![t] = Append(@, c)]
    BY DEF Edit
  <1>3. db[t] \in Seq(Contents) /\ Version(t) = Len(db[t]) /\ Version(t) <= edits + 1
    BY <1>1, CurrentFacts DEF Version, VersionsOK
  <1>4. db'[t] \in Seq(Contents) /\ Version(t)' = Version(t) + 1 /\ Version(t) \in Nat
    BY <1>1, <1>2, <1>3 DEF TypeOK, Version
  <1>5. \A u \in Tables(mgr) \ {t} : db'[u] = db[u] /\ Version(u)' = Version(u)
    BY <1>2, <1>1 DEF TypeOK, Version
  <1>6. VersionsOK'
    <2> SUFFICES ASSUME NEW u \in Tables(mgr) PROVE Version(u)' <= edits + 2
      BY <1>1 DEF VersionsOK
    <2>1. CASE u = t
      BY <1>1, <1>3, <1>4, <2>1
    <2>2. CASE u # t
      <3>1. Version(u)' = Version(u) /\ Version(u) <= edits + 1 /\ Version(u) \in Nat
        BY <1>1, <1>5, <2>2, CurrentFacts DEF VersionsOK
      <3> QED
        BY <1>1, <3>1
    <2> QED
      BY <2>1, <2>2
  <1>7. TypeOK'
    <2>1. db' \in [Tables(mgr) -> Seq(Contents)]
      BY <1>1, <1>2, <1>3, <1>4 DEF TypeOK
    <2>2. \A u \in Tables(mgr) : Version(u)' \in 1..(MaxEdits + 1)
      BY <1>1, <1>3, <1>4, <1>5, CurrentFacts
    <2>3. UNCHANGED <<mgr, at, tab, swapped, pub, faults>> /\ edits' \in 0..MaxEdits
      BY <1>1 DEF Edit
    <2> QED
      BY <1>1, <2>1, <2>2, <2>3 DEF TypeOK
  <1>8. \A l \in Loaders : LoadOK(l)'
    <2>1. UNCHANGED <<at, tab, swapped>> /\ Prog' = Prog
      BY DEF Edit, Prog
    <2>2. \A l \in Loaders : LoadOK(l)
      BY DEF TableInv
    <2> QED
      BY <2>1, <2>2 DEF LoadOK
  <1> QED
    BY <1>6, <1>7, <1>8, PublishedStays DEF TableInv, Edit

-----------------------------------------------------------------------------
LEMMA StepInv == TableInv /\ [Next]_vars => TableInv'
  <1> SUFFICES ASSUME TableInv, [Next]_vars PROVE TableInv'
    OBVIOUS
  <1>1. CASE UNCHANGED vars
    <2>1. TypeOK' /\ VersionsOK'
      BY <1>1 DEF TableInv, TypeOK, VersionsOK, vars, Version
    <2>2. UNCHANGED <<at, tab, swapped>> /\ Prog' = Prog
      BY <1>1 DEF vars, Prog
    <2>3. \A l \in Loaders : LoadOK(l)
      BY DEF TableInv
    <2>4. \A l \in Loaders : LoadOK(l)'
      BY <2>2, <2>3 DEF LoadOK
    <2> QED
      BY <1>1, <2>1, <2>4, PublishedStays DEF TableInv, vars
  <1>2. ASSUME NEW l \in Loaders, LoadStep(l) PROVE TableInv'
    <2>1. TypeOK /\ mgr \in Managers
      BY DEF TableInv, TypeOK
    <2>2. faults < MaxFaults => faults + 1 \in 0..MaxFaults
      BY <2>1, RowAssumption DEF TypeOK
    <2>3. CASE QueryFails(l)
      <3>1. faults' \in 0..MaxFaults
        BY <2>2, <2>3 DEF QueryFails
      <3>2. CASE Leave(l, Dead)
        BY <2>3, <3>1, <3>2, EndStep DEF QueryFails
      <3>3. CASE Leave(l, Idle)
        BY <2>3, <3>1, <3>3, EndStep DEF QueryFails
      <3> QED
        BY <2>3, <3>2, <3>3 DEF QueryFails
    <2>4. CASE ScanDone(l)
      <3>1. faults' \in 0..MaxFaults
        BY <2>1, <2>4 DEF ScanDone, TypeOK
      <3> QED
        BY <2>4, <3>1, ScanStep DEF ScanDone
    <2>5. CASE ScanFails(l)
      <3>1. faults' \in 0..MaxFaults
        BY <2>2, <2>5 DEF ScanFails
      <3>2. PICK rs \in SUBSET tab[l][Instr(l).table].rows : Deliver(l, rs, TRUE)
        BY <2>5 DEF ScanFails
      <3> QED
        BY <2>5, <3>1, <3>2, ScanStep DEF ScanFails
    <2>6. CASE ScanGivesUp(l)
      <3>1. faults' \in 0..MaxFaults
        BY <2>1, <2>6 DEF ScanGivesUp, TypeOK
      <3> QED
        BY <2>6, <3>1, EndStep DEF ScanGivesUp
    <2> QED
      BY <1>2, <2>3, <2>4, <2>5, <2>6, BeginStep, QueryOkStep, CheckStep, SwapStep DEF LoadStep
  <1>3. ASSUME NEW t \in Tables(mgr), Edit(t) PROVE TableInv'
    BY <1>3, EditStep
  <1> QED
    BY <1>1, <1>2, <1>3 DEF Next

(* What a getter of any of the sixteen managers relies on, at any moment of *)
(* any number of concurrent loads: an index holds every usable row of one   *)
(* result set (no load whose rows.Next() stopped on an error has published) *)
(* and agrees with the manager's other indexes over that table.             *)
THEOREM TablesAreSound == Spec => []TablesInv
  <1>1. TableInv => TablesInv
    BY DEF TableInv, TablesInv
  <1> QED
    BY InitInv, StepInv, <1>1, PTL DEF Spec

(* A load leaves the indexes as they were or has replaced all of them.  The *)
(* argument is NoWayBack: no exit follows the first assignment but the end. *)
LEMMA LoadsEndWell ==
    ASSUME TableInv, [Next]_vars, mgr # "AggregatorManager", NEW l \in Loaders, at[l] > 0, at'[l] <= 0
    PROVE  swapped'[l] \in {{}, Indexes(mgr)'}
  <1>1. TypeOK /\ mgr \in Managers /\ LoadOK(l) /\ at[l] \in Int
    BY DEF TableInv, TypeOK, Dead
  <1>2. NoWayBack(Prog) /\ Shaped(Prog)
    BY <1>1, LoadsAreStraight DEF Straight, Prog
  <1>3. UNCHANGED mgr
    BY DEF Next, LoadStep, Begin, QueryOk, QueryFails, ScanDone, ScanFails, ScanGivesUp, CheckErr,
           SwapFields, Edit, vars
  <1>4. UNCHANGED Indexes(mgr)
    BY <1>3
  <1>5. CASE at[l] \notin Places(Prog, "swap") /\ UNCHANGED swapped
    <2>1. at[l] \in 1..Len(Prog)
      BY <1>1, <1>2 DEF TypeOK, Prog, Shaped
    <2>2. { j \in Places(Prog, "swap") : j < at[l] } = {}
      BY <1>2, <1>5, <2>1 DEF NoWayBack, Places
    <2>3. swapped[l] = {}
      BY <1>1, <2>2 DEF LoadOK, Consistent
    <2> QED
      BY <1>5, <2>3
  <1>6. CASE SwapFields(l)
    <2>1. at[l] = Len(Prog)
      <3>1. CASE at[l] # Len(Prog)
        <4>1. at'[l] = at[l] + 1
          BY <1>1, <1>6, <3>1 DEF SwapFields, Advance, Prog, TypeOK
        <4> QED
          BY <1>1, <4>1
      <3> QED
        BY <3>1
    <2>2. { j \in Places(Prog, "swap") : j < at[l] + 1 } = Places(Prog, "swap")
      BY <1>2, <2>1 DEF Places, Shaped
    <2>3. swapped'[l] = UNION { Prog[k].fields : k \in Places(Prog, "swap") }
      BY <1>6, <2>2, SwapCounts
    <2>4. \A i : i \in Indexes(mgr) <=> \E k \in Places(Prog, "swap") : i \in Prog[k].fields
      BY <1>1, ProgramFacts DEF Prog
    <2>5. swapped'[l] = Indexes(mgr)
      BY <2>3, <2>4
    <2> QED
      BY <1>4, <2>5
  <1>7. ASSUME NEW m \in Loaders, LoadStep(m), m # l PROVE FALSE
    <2>1. at'[l] = at[l]
      BY <1>1, <1>7 DEF LoadStep, Begin, QueryOk, QueryFails, ScanDone, ScanFails, ScanGivesUp, CheckErr,
                        SwapFields, Leave, Advance, Deliver, TypeOK
    <2> QED
      BY <1>1, <2>1
  <1>8. ASSUME LoadStep(l), ~SwapFields(l)
        PROVE  at[l] \notin Places(Prog, "swap") /\ UNCHANGED swapped
    <2>1. ~Begin(l)
      BY <1>1 DEF Begin, Idle
    <2>2. UNCHANGED swapped
      BY <1>8, <2>1 DEF LoadStep, QueryOk, QueryFails, ScanDone, ScanFails, ScanGivesUp, CheckErr
    <2>3. Prog[at[l]].op # "swap"
      BY <1>8, <2>1 DEF LoadStep, QueryOk, QueryFails, ScanDone, ScanFails, ScanGivesUp, CheckErr, Runs, Prog
    <2> QED
      BY <2>2, <2>3 DEF Places
  <1>9. ASSUME UNCHANGED at PROVE FALSE
    BY <1>1, <1>9
  <1>10. CASE LoadStep(l)
    BY <1>5, <1>6, <1>8, <1>10
  <1> QED
    BY <1>7, <1>9, <1>10 DEF Next, Edit, vars

(* No error path of a Load function returns between two assignments.        *)
THEOREM LoadsAreAllOrNothing == Spec => AllOrNothing
  <1>1. TableInv /\ [Next]_vars =>
          [ mgr # "AggregatorManager" =>
              \A l \in Loaders :
                at[l] > 0 /\ at'[l] <= 0 => swapped'[l] \in {{}, Indexes(mgr)} ]_vars
    <2> SUFFICES ASSUME TableInv, [Next]_vars, mgr # "AggregatorManager",
                        NEW l \in Loaders, at[l] > 0, at'[l] <= 0
                 PROVE  swapped'[l] \in {{}, Indexes(mgr)}
      OBVIOUS
    <2>1. UNCHANGED mgr
      BY DEF Next, LoadStep, Begin, QueryOk, QueryFails, ScanDone, ScanFails, ScanGivesUp, CheckErr,
             SwapFields, Edit, vars
    <2> QED
      BY <2>1, LoadsEndWell
  <1> QED
    BY InitInv, StepInv, <1>1, PTL DEF Spec, AllOrNothing

-----------------------------------------------------------------------------
(* What a load has of a table is one of the contents the table has had,     *)
(* from its query on.                                                       *)
Fetched(l, t) ==
  /\ tab[l][t].ver # 0 => tab[l][t].ver \in DOMAIN db[t] /\ tab[l][t].rows = db[t][tab[l][t].ver]
  /\ \A k \in Places(Prog, "query") : k < at[l] /\ Prog[k].table = t => tab[l][t].ver # 0

AllFetched == \A l \in Loaders, t \in Tables(mgr) : Fetched(l, t)

HistoryInv == TableInv /\ AllFetched

(* A load that has ended, or is about to begin, has fetched nothing. *)
LEMMA NothingFetched ==
    ASSUME NEW l \in Loaders, NEW t \in Tables(mgr), tab[l][t].ver = 0 \/ Fetched(l, t), at[l] <= 1,
           at[l] \in Int
    PROVE  Fetched(l, t)
  <1>1. ASSUME NEW k \in Places(Prog, "query") PROVE ~(k < at[l])
    BY DEF Places
  <1> QED
    BY <1>1 DEF Fetched

(* A load that goes on, past an instruction that is not a query, keeps what *)
(* it has fetched.                                                          *)
LEMMA KeepsFetched ==
    ASSUME TypeOK, NEW l \in Loaders, NEW t \in Tables(mgr), Fetched(l, t), UNCHANGED <<mgr, db>>,
           at[l] \in 1..Len(Prog), Len(Prog) \in Nat,
           Prog[at[l]].op = "query" => Prog[at[l]].table # t, at'[l] = at[l] + 1,
           tab'[l][t].ver = tab[l][t].ver, tab'[l][t].rows = tab[l][t].rows
    PROVE  Fetched(l, t)'
  <1>1. UNCHANGED Prog
    BY DEF Prog
  <1>2. ASSUME NEW k \in Places(Prog, "query"), k < at[l] + 1, Prog[k].table = t PROVE k < at[l]
    <2>1. k \in 1..Len(Prog) /\ Prog[k].op = "query"
      BY DEF Places
    <2>2. k # at[l]
      BY <1>2, <2>1
    <2> QED
      BY <1>2, <2>1, <2>2
  <1> QED
    BY <1>1, <1>2 DEF Fetched

(* The others keep theirs. *)
LEMMA OthersKeepFetched ==
    ASSUME AllFetched, NEW l \in Loaders, UNCHANGED <<mgr, db>>,
           \A m \in Loaders \ {l} : at'[m] = at[m] /\ tab'[m] = tab[m],
           \A t \in Tables(mgr) : Fetched(l, t)'
    PROVE  AllFetched'
  <1>1. UNCHANGED <<Prog, db>> /\ UNCHANGED Tables(mgr)
    BY DEF Prog
  <1>2. ASSUME NEW m \in Loaders \ {l}, NEW t \in Tables(mgr) PROVE Fetched(m, t)'
    <2>1. Fetched(m, t) /\ at'[m] = at[m] /\ tab'[m] = tab[m]
      BY DEF AllFetched
    <2> QED
      BY <1>1, <2>1 DEF Fetched
  <1> QED
    BY <1>1, <1>2 DEF AllFetched

LEMMA InitFetched == Init => AllFetched
  <1> SUFFICES ASSUME Init, NEW l \in Loaders, NEW t \in Tables(mgr) PROVE Fetched(l, t)
    BY DEF AllFetched
  <1>1. tab[l][t].ver = 0 /\ at[l] = 0
    BY DEF Init, Unread, Idle
  <1> QED
    BY <1>1, NothingFetched

(* A load that leaves forgets what it fetched. *)
LEMMA LeaveFetched ==
    ASSUME TableInv, AllFetched, NEW l \in Loaders, NEW where \in {Idle, Dead}, Leave(l, where),
           UNCHANGED <<mgr, db>>
    PROVE  AllFetched'
  <1>1. TypeOK
    BY DEF TableInv
  <1>2. at'[l] = where /\ \A m \in Loaders \ {l} : at'[m] = at[m] /\ tab'[m] = tab[m]
    BY <1>1, LeaveFacts
  <1>3. ASSUME NEW t \in Tables(mgr) PROVE Fetched(l, t)'
    <2>1. tab'[l][t].ver = 0
      BY <1>1 DEF Leave, TypeOK, Unread
    <2>2. \A k \in Places(Prog', "query") : ~(k < at'[l])
      BY <1>2 DEF Places, Idle, Dead
    <2> QED
      BY <2>1, <2>2 DEF Fetched
  <1> QED
    BY <1>2, <1>3, OthersKeepFetched

LEMMA QueryFetched ==
    ASSUME TableInv, AllFetched, NEW l \in Loaders, QueryOk(l) PROVE AllFetched'
  <1>1. TypeOK /\ Runs(l, "query") /\ UNCHANGED <<mgr, db>>
    BY DEF TableInv, QueryOk
  <1>2. /\ at[l] \in Places(Prog, "query") /\ at[l] \in 1..Len(Prog) /\ Len(Prog) \in Nat
        /\ Instr(l) = Prog[at[l]] /\ at[l] + 1 \in 1..Len(Prog) /\ Instr(l).table \in Tables(mgr)
    BY <1>1, RunsFacts
  <1> PICK u \in Tables(mgr) : u = Instr(l).table
    BY <1>2
  <1>3. at'[l] = at[l] + 1 /\ \A m \in Loaders \ {l} : at'[m] = at[m]
    BY <1>1, <1>2, AdvanceFacts DEF QueryOk, Prog
  <1>4. /\ tab'[l][u].ver = Version(u) /\ tab'[l][u].rows = Current(u)
        /\ \A t \in Tables(mgr) \ {u} : tab'[l][t] = tab[l][t]
        /\ \A m \in Loaders \ {l} : tab'[m] = tab[m]
    BY <1>1, <1>2 DEF QueryOk, TypeOK, Unread
  <1>5. Version(u) \in DOMAIN db[u] /\ Version(u) # 0 /\ Current(u) = db[u][Version(u)]
    BY <1>1, <1>2, CurrentFacts
  <1>6. Fetched(l, u)'
    BY <1>1, <1>4, <1>5 DEF Fetched
  <1>7. Prog[at[l]].table = u
    BY <1>2
  <1>8. ASSUME NEW t \in Tables(mgr) \ {u} PROVE Fetched(l, t)'
    <2>1. Fetched(l, t) /\ Prog[at[l]].table # t
      BY <1>7 DEF AllFetched
    <2>2. tab'[l][t].ver = tab[l][t].ver /\ tab'[l][t].rows = tab[l][t].rows
      BY <1>4
    <2> QED
      BY <1>1, <1>2, <1>3, <2>1, <2>2, KeepsFetched
  <1> QED
    BY <1>1, <1>3, <1>4, <1>6, <1>8, OthersKeepFetched

(* The loop over a result set, the test of its error and a swap that is not *)
(* the last instruction leave the result sets alone.                        *)
LEMMA AdvanceFetched ==
    ASSUME TableInv, AllFetched, NEW l \in Loaders, NEW op \in {"scan", "check", "swap"}, Runs(l, op),
           UNCHANGED <<mgr, db>>, Advance(l), at[l] # Len(Prog),
           \A t \in Tables(mgr) : tab'[l][t].ver = tab[l][t].ver /\ tab'[l][t].rows = tab[l][t].rows,
           \A m \in Loaders \ {l} : tab'[m] = tab[m]
    PROVE  AllFetched'
  <1>1. TypeOK
    BY DEF TableInv
  <1>2. at[l] \in 1..Len(Prog) /\ Len(Prog) \in Nat /\ Prog[at[l]].op = op
    BY <1>1, RunsFacts DEF Places
  <1>3. at'[l] = at[l] + 1 /\ \A m \in Loaders \ {l} : at'[m] = at[m]
    <2>1. at[l] + 1 \in 1..Len(Load[mgr])
      BY <1>2 DEF Prog
    <2> QED
      BY <1>1, <2>1, AdvanceFacts
  <1>4. \A t \in Tables(mgr) : Fetched(l, t)'
    BY <1>1, <1>2, <1>3, KeepsFetched DEF AllFetched
  <1> QED
    BY <1>3, <1>4, OthersKeepFetched

LEMMA ScanFetched ==
    ASSUME TableInv, AllFetched, NEW l \in Loaders, Runs(l, "scan"), NEW failed \in BOOLEAN,
           NEW rs \in SUBSET tab[l][Instr(l).table].rows, Deliver(l, rs, failed), UNCHANGED <<mgr, db>>
    PROVE  AllFetched'
  <1> DEFINE u == Instr(l).table
  <1>1. TypeOK /\ u \in Tables(mgr) /\ at[l] \in 1..Len(Prog) /\ at[l] + 1 \in 1..Len(Prog) /\ Advance(l)
    BY RunsFacts DEF TableInv, Deliver
  <1>2. /\ \A t \in Tables(mgr) : tab'[l][t].ver = tab[l][t].ver /\ tab'[l][t].rows = tab[l][t].rows
        /\ \A m \in Loaders \ {l} : tab'[m] = tab[m]
    <2> DEFINE r == [tab[l][u] EXCEPT !.got = Kept(rs, Instr(l).parses), !.err = failed]
    <2>1. tab' = [tab EXCEPT ![l][u] = r]
      BY <1>1 DEF Deliver, TypeOK
    <2>2. r.ver = tab[l][u].ver /\ r.rows = tab[l][u].rows
      BY <1>1 DEF TypeOK
    <2> HIDE DEF r, u
    <2>3. tab \in [Loaders -> [Tables(mgr) -> Result]]
      BY <1>1 DEF TypeOK, Result
    <2>4. \A m \in Loaders \ {l} : tab'[m] = tab[m]
      BY <2>1, <2>3
    <2>5. tab'[l] = [tab[l] EXCEPT ![u] = r] /\ tab[l] \in [Tables(mgr) -> Result]
      BY <2>1, <2>3
    <2> QED
      BY <1>1, <2>2, <2>4, <2>5
  <1>3. at[l] # Len(Prog)
    BY <1>1, RunsFacts
  <1> QED
    BY <1>1, <1>2, <1>3, AdvanceFetched

LEMMA EditFetched == ASSUME TableInv, AllFetched, NEW u \in Tables(mgr), Edit(u) PROVE AllFetched'
  <1>1. TypeOK /\ UNCHANGED <<mgr, at, tab, Prog>> /\ UNCHANGED Tables(mgr)
    BY DEF TableInv, Edit, Prog
  <1>2. PICK c \in Contents : db' = [db EXCEPT ![u] = Append(@, c)]
    BY DEF Edit
  <1>3. ASSUME NEW t \in Tables(mgr), NEW n \in DOMAIN db[t]
        PROVE  n \in DOMAIN db'[t] /\ db'[t][n] = db[t][n]
    <2>1. db[t] \in Seq(Contents)
      BY <1>1 DEF TypeOK
    <2>2. db'[t] = IF t = u THEN Append(db[t], c) ELSE db[t]
      BY <1>1, <1>2 DEF TypeOK
    <2> QED
      BY <2>1, <2>2
  <1>4. ASSUME NEW l \in Loaders, NEW t \in Tables(mgr) PROVE Fetched(l, t)'
    <2>1. Fetched(l, t)
      BY DEF AllFetched
    <2> QED
      BY <1>1, <1>3, <2>1 DEF Fetched
  <1> QED
    BY <1>1, <1>4 DEF AllFetched

LEMMA StepFetched == ASSUME TableInv, AllFetched, [Next]_vars PROVE AllFetched'
  <1>1. CASE UNCHANGED vars
    BY <1>1 DEF AllFetched, Fetched, Prog, vars
  <1>2. ASSUME NEW l \in Loaders, LoadStep(l) PROVE AllFetched'
    <2>1. TypeOK
      BY DEF TableInv
    <2>2. CASE Begin(l)
      <3>1. UNCHANGED <<mgr, db, tab, Prog>> /\ at'[l] = 1 /\ \A m \in Loaders \ {l} : at'[m] = at[m]
        BY <2>1, <2>2 DEF Begin, TypeOK, Prog
      <3>2. \A k \in Places(Prog, "query") : ~(k < at'[l])
        BY <3>1 DEF Places
      <3>3. \A t \in Tables(mgr) : Fetched(l, t)'
        BY <3>1, <3>2 DEF AllFetched, Fetched
      <3> QED
        BY <3>1, <3>3, OthersKeepFetched
    <2>3. CASE \E where \in {Idle, Dead} : Leave(l, where)
      <3>1. UNCHANGED <<mgr, db>>
        BY <1>2 DEF LoadStep, Begin, QueryOk, QueryFails, ScanDone, ScanFails, ScanGivesUp, CheckErr, SwapFields
      <3> QED
        BY <2>3, <3>1, LeaveFetched
    <2>4. CASE QueryOk(l)
      BY <2>4, QueryFetched
    <2>5. CASE ScanDone(l)
      BY <2>5, ScanFetched DEF ScanDone
    <2>6. CASE ScanFails(l)
      BY <2>6, ScanFetched DEF ScanFails
    <2>7. CASE CheckErr(l) /\ Advance(l) /\ UNCHANGED tab
      <3>1. Runs(l, "check") /\ UNCHANGED <<mgr, db>>
        BY <2>7 DEF CheckErr
      <3>2. at[l] # Len(Prog)
        BY <2>1, <3>1, RunsFacts
      <3> QED
        BY <2>7, <3>1, <3>2, AdvanceFetched
    <2>8. CASE SwapFields(l) /\ at[l] # Len(Prog)
      <3>1. Runs(l, "swap") /\ UNCHANGED <<mgr, db, tab>> /\ Advance(l)
        BY <2>8 DEF SwapFields, Prog
      <3> QED
        BY <2>8, <3>1, AdvanceFetched
    <2>9. QueryFails(l) \/ ScanGivesUp(l) => \E where \in {Idle, Dead} : Leave(l, where)
      BY DEF QueryFails, ScanGivesUp
    <2>10. CheckErr(l) => Leave(l, Idle) \/ (Advance(l) /\ UNCHANGED tab)
      BY DEF CheckErr
    <2>11. SwapFields(l) /\ at[l] = Len(Prog) => Leave(l, Idle)
      BY DEF SwapFields, Prog
    <2> QED
      BY <1>2, <2>2, <2>3, <2>4, <2>5, <2>6, <2>7, <2>8, <2>9, <2>10, <2>11 DEF LoadStep
  <1>3. ASSUME NEW t \in Tables(mgr), Edit(t) PROVE AllFetched'
    BY <1>3, EditFetched
  <1> QED
    BY <1>1, <1>2, <1>3 DEF Next

LEMMA HistoryStep == HistoryInv /\ [Next]_vars => HistoryInv'
  BY StepInv, StepFetched DEF HistoryInv

-----------------------------------------------------------------------------
(* The tables readers are promised a snapshot of are behind every index.    *)
LEMMA PromisedFacts ==
    ASSUME TypeOK
    PROVE  /\ Promised \subseteq Tables(mgr) \ UncheckedTables /\ Indexes(mgr) # {}
           /\ \A i \in Indexes(mgr) : Promised \subseteq Behind(mgr, i)
           /\ Promised # {} => \A j, k \in Places(Prog, "swap") : j = k
  <1>1. mgr \in Managers /\ Shaped(Prog)
    BY LoadsAreStraight DEF TypeOK, Straight, Prog
  <1>2. /\ \A i : i \in Indexes(mgr) <=> \E k \in Places(Prog, "swap") : i \in Prog[k].fields
        /\ \A k \in Places(Prog, "swap") : \A i \in Prog[k].fields : Behind(mgr, i) = Prog[k].from
        /\ Tables(mgr) = Queried(Prog)
    BY <1>1, ProgramFacts DEF Prog
  <1>3. Indexes(mgr) # {}
    <2>1. Len(Prog) \in Places(Prog, "swap")
      BY <1>1 DEF Shaped, Places
    <2> QED
      BY <1>1, <1>2, <2>1 DEF Shaped
  <1>4. CASE Promised = {}
    BY <1>3, <1>4
  <1>5. CASE Promised # {}
    <2>1. mgr # "MakerAddressManager" /\ Promised = Queried(Prog) \ UncheckedTables
      BY <1>2, <1>5 DEF Promised
    <2>2. Together(Prog) /\ Covers(Prog)
      BY <1>1, <2>1, LoadsAreStraight DEF Straight, Prog
    <2>3. \A k \in Places(Prog, "swap") : Promised \subseteq Prog[k].from
      BY <2>1, <2>2 DEF Covers
    <2>4. \A j, k \in Places(Prog, "swap") : j = k
      BY <1>5, <2>2, <2>3 DEF Together
    <2>5. \A i \in Indexes(mgr) : Promised \subseteq Behind(mgr, i)
      BY <1>2, <2>3
    <2> QED
      BY <1>2, <1>3, <2>1, <2>4, <2>5
  <1> QED
    BY <1>4, <1>5

LEMMA SnapInit == Init => Snap!Init
  <1> SUFFICES ASSUME Init PROVE Snap!Init
    OBVIOUS
  <1>1. TypeOK
    BY InitInv DEF TableInv
  <1>2. \A t \in Promised : db[t] \in { <<c>> : c \in Contents }
    BY <1>1, PromisedFacts DEF Init
  <1>3. ASSUME NEW i \in Indexes(mgr)
        PROVE  [t \in Promised |-> pub[i][t].got] = [t \in Promised |-> {}]
    <2>1. \A t \in Promised : pub[i][t].got = {}
      BY <1>1, PromisedFacts DEF Init, Empty
    <2> QED
      BY <2>1
  <1>4. { [t \in Promised |-> pub[i][t].got] : i \in Indexes(mgr) } = { [t \in Promised |-> {}] }
    BY <1>1, <1>3, PromisedFacts
  <1> QED
    BY <1>2, <1>4 DEF Snap!Init

(* A swap by which readers get to see a snapshot: its tables are those the  *)
(* load fetched, each as it was then.                                       *)
LEMMA SwapShows ==
    ASSUME HistoryInv, NEW l \in Loaders, SwapFields(l), Promised # {} PROVE Snap!Replace
  <1>1. TypeOK /\ TableInv /\ AllFetched /\ mgr \in Managers /\ Runs(l, "swap") /\ UNCHANGED <<mgr, db>>
    BY DEF HistoryInv, TableInv, TypeOK, SwapFields
  <1>2. at[l] \in Places(Prog, "swap") /\ at[l] \in 1..Len(Prog) /\ Instr(l) = Prog[at[l]]
    BY <1>1, RunsFacts
  <1>3. /\ Promised \subseteq Tables(mgr) \ UncheckedTables /\ Indexes(mgr) # {}
        /\ \A i \in Indexes(mgr) : Promised \subseteq Behind(mgr, i)
        /\ \A k \in Places(Prog, "swap") : k = at[l]
    BY <1>1, <1>2, PromisedFacts
  <1>4. /\ \A i \in Indexes(mgr) : i \in Prog[at[l]].fields
        /\ \A i \in Indexes(mgr) : Behind(mgr, i) = Prog[at[l]].from
        /\ Tables(mgr) = Queried(Prog)
    BY <1>1, <1>3, ProgramFacts DEF Prog
  <1>5. ASSUME NEW i \in Indexes(mgr), NEW t \in Promised
        PROVE  pub'[i][t].rows = tab[l][t].rows /\ pub'[i][t].got = Usable(t, tab[l][t].rows)
    <2>1. pub'[i] = [u \in Behind(mgr, i) |->
                       [ver |-> tab[l][u].ver, rows |-> tab[l][u].rows, got |-> tab[l][u].got]]
      BY <1>2, <1>4 DEF SwapFields
    <2>2. t \in Behind(mgr, i) \ UncheckedTables
      BY <1>3
    <2>3. pub'[i][t].rows = tab[l][t].rows
      BY <2>1, <2>2
    <2>4. Whole(pub'[i][t], t)
      BY <1>1, <2>2, SwapFacts DEF PublishedIsComplete, Whole
    <2> QED
      BY <2>3, <2>4 DEF Whole, Usable
  <1>6. ASSUME NEW t \in Promised
        PROVE  tab[l][t].ver \in DOMAIN db[t] /\ tab[l][t].rows = db[t][tab[l][t].ver]
    <2>1. PICK q \in Places(Prog, "query") : Prog[q].table = t
      BY <1>3, <1>4 DEF Queried
    <2>2. Ordered(Prog)
      BY <1>1, LoadsAreStraight DEF Straight, Prog
    <2>3. t \in Prog[at[l]].from \ UncheckedTables
      BY <1>3, <1>4
    <2>4. PICK j \in Places(Prog, "check") : j < at[l] /\ Prog[j].table = t
      BY <1>2, <2>2, <2>3 DEF Ordered
    <2>5. PICK h \in Places(Prog, "scan") : h < j /\ Prog[h].table = t
      BY <2>2, <2>4 DEF Ordered
    <2>6. q < h
      BY <2>1, <2>2, <2>5 DEF Ordered
    <2>7. q < at[l]
      BY <1>2, <2>4, <2>5, <2>6 DEF Places
    <2>8. Fetched(l, t)
      BY <1>1, <1>3 DEF AllFetched
    <2> QED
      BY <2>1, <2>7, <2>8 DEF Fetched
  <1> DEFINE n == [t \in Promised |-> tab[l][t].ver]
             p == [t \in Promised |-> db[t]]
             seen == [t \in Promised |-> Usable(t, db[t][n[t]])]
  <1>7. DOMAIN p = Promised /\ \A t \in Promised : p[t] = db[t] /\ n[t] = tab[l][t].ver /\ n[t] \in DOMAIN p[t]
    BY <1>6
  <1>8. n \in [Promised -> UNION { DOMAIN p[t] : t \in Promised }]
    BY <1>7
  <1>9. ASSUME NEW i \in Indexes(mgr) PROVE [t \in Promised |-> pub'[i][t].got] = seen
    <2>1. \A t \in Promised : pub'[i][t].got = Usable(t, db[t][n[t]])
      BY <1>5, <1>6, <1>7
    <2> QED
      BY <2>1
  <1>10. UNCHANGED <<Promised, p>> /\ UNCHANGED Indexes(mgr)
    BY <1>1 DEF Promised
  <1> HIDE DEF seen
  <1>11. { [t \in Promised |-> pub[i][t].got] : i \in Indexes(mgr) }' = {seen}
    BY <1>3, <1>9, <1>10
  <1>12. seen = [t \in DOMAIN p |-> Usable(t, p[t][n[t]])]
    BY <1>7 DEF seen
  <1> HIDE DEF n
  <1> QED
    BY <1>7, <1>8, <1>10, <1>11, <1>12 DEF Snap!Replace, Snap!Snapshot

LEMMA EditShows == ASSUME TypeOK, NEW u \in Tables(mgr), Edit(u) PROVE [Snap!Next]_(Snap!vars)
  <1>1. PICK c \in Contents : db' = [db EXCEPT ![u] = Append(@, c)]
    BY DEF Edit
  <1>2. UNCHANGED <<mgr, pub, Promised>> /\ UNCHANGED Indexes(mgr)
    BY DEF Edit, Promised
  <1> DEFINE p == [t \in Promised |-> db[t]]
  <1>3. Promised \subseteq Tables(mgr) /\ DOMAIN db = Tables(mgr)
    BY PromisedFacts DEF TypeOK
  <1>4. UNCHANGED { [t \in Promised |-> pub[i][t].got] : i \in Indexes(mgr) }
    BY <1>2
  <1>5. CASE u \in Promised
    <2>1. p' = [p EXCEPT ![u] = Append(@, c)]
      BY <1>1, <1>2, <1>3, <1>5
    <2>2. u \in DOMAIN p
      BY <1>5
    <2>3. Snap!Change
      BY <1>4, <2>1, <2>2 DEF Snap!Change
    <2> QED
      BY <2>3 DEF Snap!Next
  <1>6. CASE u \notin Promised
    <2>1. p' = p
      BY <1>1, <1>2, <1>3, <1>6
    <2> QED
      BY <1>4, <2>1 DEF Snap!vars
  <1> QED
    BY <1>5, <1>6

LEMMA SnapStep == HistoryInv /\ [Next]_vars => [Snap!Next]_(Snap!vars)
  <1> SUFFICES ASSUME HistoryInv, [Next]_vars PROVE [Snap!Next]_(Snap!vars)
    OBVIOUS
  <1>1. TypeOK
    BY DEF HistoryInv, TableInv
  <1>2. ASSUME UNCHANGED <<mgr, db, pub>> PROVE UNCHANGED Snap!vars
    BY <1>2 DEF Snap!vars, Promised
  <1>3. ASSUME NEW l \in Loaders, SwapFields(l) PROVE [Snap!Next]_(Snap!vars)
    <2>1. CASE Promised # {}
      BY <1>3, <2>1, SwapShows DEF Snap!Next
    <2>2. CASE Promised = {}
      <3>1. UNCHANGED <<mgr, db, Promised>> /\ UNCHANGED Indexes(mgr)
        BY <1>3 DEF SwapFields, Promised
      <3>2. UNCHANGED [t \in Promised |-> db[t]]
        BY <3>1
      <3>3. ASSUME NEW i \in Indexes(mgr)
            PROVE  [t \in Promised |-> pub[i][t].got]' = [t \in Promised |-> pub[i][t].got]
        BY <2>2, <3>1
      <3>4. UNCHANGED { [t \in Promised |-> pub[i][t].got] : i \in Indexes(mgr) }
        BY <3>1, <3>3
      <3> QED
        BY <3>2, <3>4 DEF Snap!vars
    <2> QED
      BY <2>1, <2>2
  <1>4. ASSUME NEW l \in Loaders, LoadStep(l), ~SwapFields(l) PROVE UNCHANGED <<mgr, db, pub>>
    BY <1>4 DEF LoadStep, Begin, QueryOk, QueryFails, ScanDone, ScanFails, ScanGivesUp, CheckErr
  <1>5. ASSUME NEW t \in Tables(mgr), Edit(t) PROVE [Snap!Next]_(Snap!vars)
    BY <1>1, <1>5, EditShows
  <1>6. CASE UNCHANGED vars
    BY <1>2, <1>6 DEF vars
  <1> QED
    BY <1>2, <1>3, <1>4, <1>5, <1>6 DEF Next

(* The managers implement Snapshots: what their getters read of the tables  *)
(* whose errors are tested is at any moment one snapshot, each table as it  *)
(* once was and every usable row of it, and only a swap changes it, as a    *)
(* whole.                                                                   *)
THEOREM ManagersShowSnapshots == Spec => ShowsSnapshots
  <1>1. Init => HistoryInv
    BY InitInv, InitFetched DEF HistoryInv
  <1> QED
    BY <1>1, HistoryStep, SnapInit, SnapStep, PTL DEF Spec, ShowsSnapshots, Snap!Spec
=============================================================================
