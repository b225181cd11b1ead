---------------------------- MODULE TableLookups ----------------------------
(***************************************************************************)
(* What the getters of the table managers of loader/ answer.  A Load       *)
(* function puts the rows of a result set, in whatever order the database  *)
(* returns them, into several maps and slices; each getter reads one of    *)
(* them.  TableManager.tla says when the indexes are replaced, this module *)
(* what is in them.                                                        *)
(*                                                                         *)
(* An assignment m[key] = &row in the loop makes the last row of a key the *)
(* one that is found, so an index is given here by the rows it was built   *)
(* from, rows, and a lookup is a search for the last one.  A lookup        *)
(* returns a set: {} when the Go function returns nil or false.            *)
(***************************************************************************)
EXTENDS Integers, Sequences, FiniteSets, SequencesExt, Texts

CONSTANTS
  LookupTables,  \* the managers examined, one per behaviour
  Ids,           \* primary keys
  Refs,          \* ids of chains, channels, makers, groups, users and roles
  Levels,        \* usabilities, weights and counts of transactions
  MaxRows        \* bound on the rows of each manager's result set

ASSUME LookupAssumption ==
  /\ Refs \subseteq Ids
  /\ Ids \subseteq Nat \ {0}
  /\ Levels \subseteq Nat
  /\ MaxRows \in [LookupTables -> Nat]

(***************************************************************************)
(* The rows of the tables, as far as a getter tells them apart.            *)
(***************************************************************************)
Account == [id : Ids, cid : Refs, address : Text]
BlacklistAddress == [id : Ids, address : Text, status : {0, 1}]
ChannelCommissionRatio == [channel : Refs, txCount : Levels, ratio : Refs]
\* messenger: token_messenger and token_messengerv2
CircleCctpChain ==
  [chainId : Refs, parses : BOOLEAN, messenger : [{1, 2} -> {"empty", "blank", "address"}]]
ExchangeInfo == [id : Ids, name : Text]
LpInfo == [token : Text, from : Text, to : Words, maker : Words, parses : BOOLEAN]
NodeInfo == [id : Ids, realChainId : {1, 2}, type : {1, 2}, usability : Levels]
PopularList == [chain : Text, tag : Words, weight : Levels]
UpdatePrice == [token : Text, price : Levels]
MultiTransferChain == [id : Ids, chainId : Refs]
MultiTransferToken == [id : Ids, chain : Text, address : Text, name : Words]
AggregateChainConfig == [id : Ids, agg : Refs, chainId : Refs, name : Text]
\* dev_role, dev_white_admin and dev_roles, read one after another
CmsRow ==
  [kind : {1}, id : Refs, name : Words] \cup [kind : {2}, id : Refs, address : Text]
    \cup [kind : {3}, user : Refs, role : Refs]
\* t_maker_address_groups, t_maker_addresses and t_security_addresses
MakerRow ==
  [kind : {1}, id : Refs, env : Words] \cup [kind : {2}, group : Refs, address : Words]
    \cup [kind : {3}, group : Refs, address : Words]

RowsOf ==
  [ AccountManager                |-> Account,
    BlacklistAddressManager       |-> BlacklistAddress,
    ChannelCommissionRatioManager |-> ChannelCommissionRatio,
    CircleCctpChainManager        |-> CircleCctpChain,
    ExchangeInfoManager           |-> ExchangeInfo,
    LpInfoManager                 |-> LpInfo,
    NodeInfoManager               |-> NodeInfo,
    PopularListManager            |-> PopularList,
    UpdatePriceManager            |-> UpdatePrice,
    MultiTransferChainManager     |-> MultiTransferChain,
    MultiTransferTokenManager     |-> MultiTransferToken,
    AggregatorManager             |-> AggregateChainConfig,
    CmsUserManager                |-> CmsRow,
    MakerAddressManager           |-> MakerRow ]

VARIABLES
  table,  \* the manager
  rows    \* the rows its loop has put into the indexes, in order

lookupVars == <<table, rows>>

LookupInit == table \in LookupTables /\ rows = <<>>

\* The order the code asks for: of tx_count, or of the three queries.
InOrder(r) ==
  rows # <<>> =>
    /\ table = "ChannelCommissionRatioManager" => Last(rows).txCount <= r.txCount
    /\ table \in {"CmsUserManager", "MakerAddressManager"} => Last(rows).kind <= r.kind

\* id is the primary key of the tables that have one.
KeyIsNew(r) ==
  \A i \in DOMAIN rows :
    "id" \in DOMAIN r /\ "id" \in DOMAIN rows[i] =>
      (r.id = rows[i].id => "kind" \in DOMAIN r /\ r.kind # rows[i].kind)

\* The next row of the loop.  A row with a number that does not parse is skipped.
ScanRow(r) ==
  /\ Len(rows) < MaxRows[table]
  /\ InOrder(r)
  /\ KeyIsNew(r)
  /\ "parses" \in DOMAIN r => r.parses
  /\ rows' = Append(rows, r)
  /\ UNCHANGED table

\* The next LoadAll starts with empty maps.
BeginLoad == rows # <<>> /\ rows' = <<>> /\ UNCHANGED table

LookupNext == BeginLoad \/ \E r \in RowsOf[table] : ScanRow(r)

LookupSpec == LookupInit /\ [][LookupNext]_lookupVars

(***************************************************************************)
(* Searching the rows.                                                     *)
(***************************************************************************)
\* The row a map keeps of those that satisfy P, and the first one a loop meets.
Latest(P(_)) ==
  LET is == { i \in DOMAIN rows : P(rows[i]) }
  IN  { rows[i] : i \in { j \in is : \A k \in is : k <= j } }

Earliest(P(_)) ==
  LET is == { i \in DOMAIN rows : P(rows[i]) }
  IN  { rows[i] : i \in { j \in is : \A k \in is : k >= j } }

AllRows == { rows[i] : i \in DOMAIN rows }

\* A slice is given by the positions of its rows: the orders that sort.Slice,
\* which is not stable, may leave those at S in.
Sorted(S, before) ==
  { p \in [1..Cardinality(S) -> S] :
      \A i, j \in DOMAIN p : i < j => p[i] # p[j] /\ <<p[j], p[i]>> \notin before }
Kind(n) == { r \in AllRows : r.kind = n }

(***************************************************************************)
(* AccountManager                                                          *)
(***************************************************************************)
GetAccountById(id) == Latest(LAMBDA r : r.id = id)

HasAddress(a) == \E r \in AllRows : Norm(r.address) = Norm(a)

GetAccountByAddressCid(a, cid) ==
  Latest(LAMBDA r : Norm(r.address) = Norm(a) /\ r.cid = cid)

GetAddresses(cid) ==
  { Trim(r.address) : r \in UNION { GetAccountByAddressCid(x.address, cid) : x \in AllRows } }

(***************************************************************************)
(* BlacklistAddressManager                                                 *)
(***************************************************************************)
GetBlacklistById(id) == Latest(LAMBDA r : r.id = id)

OfAddress(a) == Latest(LAMBDA r : Norm(r.address) = Norm(a))

IsBlacklisted(a) == \E r \in OfAddress(a) : r.status = 1
GetBlacklistByAddress(a) == { r \in OfAddress(a) : r.status = 1 }

GetAllBlacklists == UNION { GetBlacklistByAddress(x.address) : x \in AllRows }

(***************************************************************************)
(* ChannelCommissionRatioManager                                           *)
(***************************************************************************)
\* channelidToRatioArr: the rows of a channel, sorted by txCount.
RatioArr(channel) ==
  Sorted({ i \in DOMAIN rows : rows[i].channel = channel },
         { ij \in (DOMAIN rows) \X (DOMAIN rows) : rows[ij[1]].txCount < rows[ij[2]].txCount })

FirstAbove(arr, n) ==
  { i \in DOMAIN arr : n < rows[arr[i]].txCount /\ \A j \in 1..(i - 1) : n >= rows[arr[j]].txCount }

\* The first entry the count stays below, or else the last one.
EntryFor(arr, n) ==
  IF FirstAbove(arr, n) # {} THEN FirstAbove(arr, n)
  ELSE { i \in DOMAIN arr : i = Len(arr) }

GetRatioByChannelidAndCount(channel, txcount) ==
  UNION { { rows[arr[i]].ratio : i \in EntryFor(arr, txcount) } : arr \in RatioArr(channel) }

(***************************************************************************)
(* CircleCctpChainManager                                                  *)
(***************************************************************************)
GetChainByChainId(id) == Latest(LAMBDA r : r.chainId = id)
GetChainIds == { r.chainId : r \in AllRows }

\* What is not the empty string once loaded: version 1 is trimmed, 2 is not.
HasMessenger(chain, version) ==
  \/ chain.messenger[version] = "address"
  \/ version = 2 /\ chain.messenger[version] = "blank"

GetCctpVersion(src, dst) ==
  IF HasMessenger(dst, 1) /\ HasMessenger(src, 1) THEN 1
  ELSE IF HasMessenger(dst, 2) /\ HasMessenger(src, 2) THEN 2 ELSE 0

GetDtcUnit(src, dst) == IF src = 1 \/ dst = 1 THEN 10000000 ELSE 5000000

(***************************************************************************)
(* LpInfoManager (of one version)                                          *)
(***************************************************************************)
\* The map of makers under a token, a source and a destination chain.
GetLpInfos(token, from, to) ==
  LET under == { r \in AllRows : /\ Norm(r.token) = Norm(token)
                                 /\ Norm(r.from) = Norm(from) /\ r.to = to }
  IN  { [maker |-> r.maker] : r \in under }

GetLpInfo(token, from, to, maker) ==
  Latest(LAMBDA r : /\ Norm(r.token) = Norm(token) /\ Norm(r.from) = Norm(from)
                    /\ r.to = to /\ r.maker = maker)

GetTokensByLp(from, to) ==
  { Upper(Norm(r.token)) : r \in { x \in AllRows : Norm(x.from) = Norm(from) /\ x.to = to } }

(***************************************************************************)
(* NodeInfoManager                                                         *)
(***************************************************************************)
sortNodesByUsability(nodes) ==
  Sorted(nodes, { ij \in (DOMAIN rows) \X (DOMAIN rows) :
                    LET m == rows[ij[1]]  n == rows[ij[2]]
                    IN  m.usability > n.usability \/ (m.usability = n.usability /\ m.id < n.id) })

GetNodeInfoById(id) == Latest(LAMBDA r : r.id = id)
GetAllNodes == sortNodesByUsability(DOMAIN rows)

\* The places in GetAllNodes of the nodes that are up.
Up(nodes) == { i \in DOMAIN nodes : rows[nodes[i]].usability > 0 }
GetEnabledNodes == { [i \in Up(nodes) |-> rows[nodes[i]]] : nodes \in GetAllNodes }

GetNodeInfosByRealChainId(c) ==
  sortNodesByUsability({ i \in DOMAIN rows : rows[i].realChainId = c })

GetNodeInfosByRealChainIdAndType(c, t) ==
  sortNodesByUsability({ i \in DOMAIN rows : rows[i].realChainId = c /\ rows[i].type = t })

GetBestNodeByRealChainIdAndType(c, t) ==
  UNION { { rows[nodes[i]] : i \in { j \in DOMAIN nodes : j = 1 } }
            : nodes \in GetNodeInfosByRealChainIdAndType(c, t) }

\* The loop returns the first that is up.
GetAvailableNodeByRealChainId(c) ==
  UNION { { rows[nodes[i]] : i \in { j \in Up(nodes) : \A k \in Up(nodes) : j <= k } }
            : nodes \in GetNodeInfosByRealChainId(c) }

(***************************************************************************)
(* ExchangeInfoManager, MultiTransferChainManager, MultiTransferToken-     *)
(* Manager, UpdatePriceManager and PopularListManager                      *)
(***************************************************************************)
GetExchangeInfoById(id) == Latest(LAMBDA r : r.id = id)
GetExchangeInfoByName(name) == Latest(LAMBDA r : Norm(r.name) = Norm(name))
GetAllExchanges == AllRows

GetChainById(id) == Latest(LAMBDA r : r.id = id)
GetMultiTransferChainByChainId(c) == Latest(LAMBDA r : r.chainId = c)
GetAllChains == AllRows

GetByChainNameTokenAddr(chain, a) ==
  Latest(LAMBDA r : Norm(r.chain) = Norm(chain) /\ Norm(r.address) = Norm(a))
GetByChainNameTokenName(chain, n) == Latest(LAMBDA r : Norm(r.chain) = Norm(chain) /\ r.name = n)
GetAllTokens == AllRows

GetUpdatePrice(token) == Latest(LAMBDA r : Norm(r.token) = Norm(token))

\* The weights the caller passes in are overwritten tag by tag.
GetPopularWeight(weights, chain) ==
  LET of(tag) == Latest(LAMBDA r : Norm(r.chain) = Norm(chain) /\ r.tag = tag)
  IN  [tag \in Words |-> IF of(tag) = {} THEN weights[tag]
                         ELSE (CHOOSE r \in of(tag) : TRUE).weight]

(***************************************************************************)
(* AggregatorManager: the configurations of chains                         *)
(***************************************************************************)
GetAggregateChainConfigByChainID(agg, c) == Latest(LAMBDA r : r.agg = agg /\ r.chainId = c)

GetAggregateChainConfigByChainName(agg, n) ==
  Latest(LAMBDA r : r.agg = agg /\ Norm(r.name) = Norm(n))

\* The name is that of whichever aggregator the iteration meets first: of
\* each chain, the set of answers it may get.
GetAllSupportedChains ==
  [c \in { r.chainId : r \in AllRows } |->
     { r.name : r \in UNION { GetAggregateChainConfigByChainID(agg, c) : agg \in Refs } }]

(***************************************************************************)
(* CmsUserManager: addresses are compared without trimming.                *)
(***************************************************************************)
RolesOf(user) ==
  { r \in Kind(1) : \E l \in Kind(3) : l.user = user.id /\ l.role = r.id }

HasRoleOfFirstUser(address, role) ==
  \E u \in Earliest(LAMBDA r : r.kind = 2 /\ Lower(r.address) = Lower(address)) :
    \E r \in RolesOf(u) : r.name = role

HasRole(address, role) ==
  \E u \in Kind(2) : Lower(u.address) = Lower(address) /\ \E r \in RolesOf(u) : r.name = role

\* The first user with the address; the id stands for the name.
GetAddressName(address) ==
  { u.id : u \in Earliest(LAMBDA r : r.kind = 2 /\ Lower(r.address) = Lower(address)) }

GetAllCmsUsers == Kind(2)

(***************************************************************************)
(* MakerAddressManager (of one backend): nothing is trimmed.               *)
(***************************************************************************)
GetMakerAddressByGroupId(g) ==
  { [id |-> r.id, env |-> r.env,
     addresses |-> { a.address : a \in { x \in Kind(2) : x.group = g } },
     security  |-> { a.address : a \in { x \in Kind(3) : x.group = g } }]
    : r \in { x \in Kind(1) : x.id = g } }

GetMakerAddressesByEnv(env) ==
  UNION { GetMakerAddressByGroupId(r.id) : r \in { x \in Kind(1) : x.env = env } }

\* 0 when there is none.
GetGroupIDByBackendAndAddress(address) ==
  LET hit == Latest(LAMBDA r : r.kind = 2 /\ r.address = address)
  IN  IF hit = {} THEN 0 ELSE (CHOOSE r \in hit : TRUE).group

(***************************************************************************)
(* Properties                                                              *)
(***************************************************************************)
\* Type invariant: the indexes hold rows that parse, one for each primary key.
LookupTypeOK ==
  /\ table \in LookupTables
  /\ rows \in Seq(RowsOf[table])
  /\ Len(rows) <= MaxRows[table]
  /\ \A i \in DOMAIN rows : "parses" \in DOMAIN rows[i] => rows[i].parses

\* The three indexes of LoadAllAccounts tell the same story in any spelling of
\* an address, though the rows may repeat a pair of address and chain: what is
\* found by address and chain is found by its id, its address is known and
\* listed for the chain, and nothing else is listed.
AccountLookupsAgree ==
  table = "AccountManager" =>
    \A a \in Text, cid \in Refs :
      LET found == GetAccountByAddressCid(a, cid) IN
      /\ \A r \in found : GetAccountById(r.id) = {r} /\ HasAddress(a)
      /\ { x \in GetAddresses(cid) : Lower(x) = Norm(a) } = { Trim(r.address) : r \in found }

\* The three ways to ask LoadAllBlacklists' index about an address agree, also
\* when the table has an active and an inactive row for it; and the list has
\* an address at most once.
BlacklistViewsAgree ==
  table = "BlacklistAddressManager" =>
    \A a \in Text :
      LET listed == { r \in GetAllBlacklists : Norm(r.address) = Norm(a) } IN
      /\ IsBlacklisted(a) <=> listed # {}
      /\ listed = GetBlacklistByAddress(a)
      /\ Cardinality(listed) <= 1

\* The commission of GetRatioByChannelidAndCount is that of the least
\* threshold above the count, or of the greatest one when the count has passed
\* them all, in whatever order equal thresholds come: every channel with a row
\* has a ratio for every count, and one if equal thresholds have equal ratios.
CommissionTier ==
  table = "ChannelCommissionRatioManager" =>
    \A c \in Refs, n \in Levels :
      LET all   == { r \in AllRows : r.channel = c }
          above == { r \in all : r.txCount > n }
          least == { r \in above : \A q \in above : r.txCount <= q.txCount }
          most  == { r \in all : \A q \in all : r.txCount >= q.txCount }
          got   == GetRatioByChannelidAndCount(c, n)
      IN  /\ got \subseteq { r.ratio : r \in IF above # {} THEN least ELSE most }
          /\ all # {} => got # {}
          /\ (\A q, r \in all : q.txCount = r.txCount => q.ratio = r.ratio) => Cardinality(got) <= 1

\* Two chains agree on the Cctp version whichever of them is the source.  Both
\* have an address of that version, but where a blank one of version 2 is taken
\* for an address, and without a version they have no address in common.
CctpVersionIsShared ==
  table = "CircleCctpChainManager" =>
    \A c, d \in GetChainIds : \A x \in GetChainByChainId(c), y \in GetChainByChainId(d) :
      LET v == GetCctpVersion(x, y)
          both(n, S) == x.messenger[n] \in S /\ y.messenger[n] \in S
      IN  /\ v = GetCctpVersion(y, x)
          /\ v = 1 => both(1, {"address"})
          /\ v = 2 => both(2, {"address", "blank"})
          /\ v = 0 => \A n \in {1, 2} : ~both(n, {"address"})

\* GetTokensByLp, which walks the nested maps, names a token exactly if
\* GetLpInfos and GetLpInfo, which look its keys up, find a maker for it.
LpLookupsAgree ==
  table = "LpInfoManager" =>
    \A tok \in Text, f \in Text, t \in Words :
      LET infos == GetLpInfos(tok, f, t) IN
      /\ Upper(Norm(tok)) \in GetTokensByLp(f, t) <=> infos # {}
      /\ \A m \in Words : [maker |-> m] \in infos <=> GetLpInfo(tok, f, t, m) # {}

\* "GetBestNodeByRealChainIdAndType returns the highest-usability node"
\* (node_info.go:101) and "higher-usability nodes are preferred first"
\* (node_info.go:111), ties going to the lower id whatever the order of rows.
NodePreference ==
  table = "NodeInfoManager" =>
    \A c \in {1, 2}, t \in {1, 2} :
      LET Prefer(S) == { n \in S : \A m \in S \ {n} :
                           n.usability > m.usability \/ (n.usability = m.usability /\ n.id < m.id) }
          ofChain == { r \in AllRows : r.realChainId = c }
      IN  /\ GetBestNodeByRealChainIdAndType(c, t) = Prefer({ r \in ofChain : r.type = t })
          /\ GetAvailableNodeByRealChainId(c) = Prefer({ r \in ofChain : r.usability > 0 })
          /\ \A nodes \in GetEnabledNodes :
               /\ \A r \in AllRows : r.usability > 0 <=> \E i \in DOMAIN nodes : nodes[i] = r
               /\ \A i, j \in DOMAIN nodes : i < j => nodes[j] \notin Prefer({nodes[i], nodes[j]})

\* A lookup by a key other than the id finds a row the id or the list also
\* finds, and every listed row's key finds a row, in any spelling of the key.
KeyedLookupsAgree ==
  /\ table = "ExchangeInfoManager" =>
       \A r \in GetAllExchanges :
         /\ GetExchangeInfoById(r.id) = {r}
         /\ \A n \in Text : Norm(n) = Norm(r.name) =>
              \E q \in GetExchangeInfoByName(n) : q \in GetAllExchanges /\ Norm(q.name) = Norm(n)
  /\ table = "MultiTransferChainManager" =>
       \A r \in GetAllChains : /\ GetChainById(r.id) = {r}
                               /\ GetMultiTransferChainByChainId(r.chainId) \subseteq GetAllChains
  /\ table = "MultiTransferTokenManager" =>
       \A r \in GetAllTokens :
         /\ \A q \in GetByChainNameTokenAddr(r.chain, r.address) : GetByChainNameTokenName(q.chain, q.name) # {}
         /\ \A q \in GetByChainNameTokenName(r.chain, r.name) : GetByChainNameTokenAddr(q.chain, q.address) # {}
  /\ table = "AggregatorManager" =>
       \A c \in DOMAIN GetAllSupportedChains : \A n \in GetAllSupportedChains[c] :
         \E agg \in Refs : /\ \E r \in GetAggregateChainConfigByChainID(agg, c) : r.name = n
                          /\ GetAggregateChainConfigByChainName(agg, n) # {}
  /\ table = "UpdatePriceManager" =>
       \A r \in AllRows, s \in Text : Norm(s) = Norm(r.token) => Cardinality(GetUpdatePrice(s)) = 1
  /\ table = "PopularListManager" =>
       \A s \in Text, w \in Levels, tag \in Words :
         LET given == [x \in Words |-> w]
             said == { r.weight : r \in { q \in AllRows : Norm(q.chain) = Norm(s) /\ q.tag = tag } }
         IN  GetPopularWeight(given, s)[tag] \in IF said = {} THEN {w} ELSE said

\* A user has the roles that dev_roles links to any row with the address, in
\* upper or lower case, and a user with a role has a name.
RolesAreJoined ==
  table = "CmsUserManager" =>
    \A a \in Text, n \in Words :
      /\ HasRole(a, n) <=>
           \E u \in Kind(2), l \in Kind(3), r \in Kind(1) :
             /\ Lower(u.address) = Lower(a) /\ l.user = u.id
             /\ l.role = r.id /\ r.name = n
      /\ HasRole(a, n) => GetAddressName(a) # {}

\* The group an address leads to lists the address, if there is such a group,
\* and is listed for its environment and no other.
MakerLookupsAgree ==
  table = "MakerAddressManager" =>
    /\ \A a \in Words : \A m \in GetMakerAddressByGroupId(GetGroupIDByBackendAndAddress(a)) :
         a \in m.addresses
    /\ \A g \in Refs, env \in Words : \A m \in GetMakerAddressByGroupId(g) :
         m \in GetMakerAddressesByEnv(env) <=> m.env = env

\* The getters of every manager agree with each other and with the rows that
\* were scanned, whatever keys the rows repeat and however they spell them.
GettersAgree ==
  /\ LookupTypeOK
  /\ AccountLookupsAgree
  /\ BlacklistViewsAgree
  /\ CommissionTier
  /\ CctpVersionIsShared
  /\ LpLookupsAgree
  /\ NodePreference
  /\ KeyedLookupsAgree
  /\ RolesAreJoined
  /\ MakerLookupsAgree
=============================================================================
