--------------------------- MODULE TokenRegistry ---------------------------
(***************************************************************************)
(* ChainInfoManager and TokenInfoManager of loader/ side by side.  Each is *)
(* reloaded from its table by a goroutine of its own.  LoadAllToken also   *)
(* asks the chain manager for its chains, first the ids and then chain by  *)
(* chain, and adds the gas token of each chain to the tokens of the table. *)
(* AddToken and AddTokenInfo put a token into the current indexes at any   *)
(* time.                                                                   *)
(*                                                                         *)
(* The nested maps of the code (chain -> token -> info) are functions of   *)
(* pairs.  Every key is lower-cased, so texts that differ in case only are *)
(* one value here; texts that differ in blanks around them are two, since  *)
(* the loads, AddToken and the getters trim and AddTokenInfo does not.     *)
(* What a failing database call or iteration does is one outcome, the      *)
(* return that leaves the manager alone; TableManager has it in detail.    *)
(***************************************************************************)
EXTENDS Integers, Sequences, FiniteSets

CONSTANTS
  ChainTables,  \* the contents t_chain_info may have: sets of chain rows
  TokenTables,  \* the contents t_token_info may have: sets of token rows
  BadRows,      \* the rows of either table that rows.Scan rejects
  AddedTokens,  \* the tokens clients add: records like a token row
  Padded,       \* texts with blanks around them, each with what it is trimmed to
  MaxEdits,     \* bound on the edits of the two tables
  MaxFaults,    \* bound on the failing database and client calls
  MaxAdds       \* bound on the calls of AddToken and AddTokenInfo

\* A chain row has an id, a name, a backend and a gas token (gas, gasAddr); a
\* token row has an id, a chain name, a chain id (cid, 0 when unset), a name
\* and an address.
ASSUME TableAssumption ==
  /\ \A T \in ChainTables : \A x, y \in T : x # y => x.id # y.id
  /\ \A T \in TokenTables : \A x \in T : x.id > 0
  /\ {MaxEdits, MaxFaults, MaxAdds} \subseteq Nat
  /\ \A x \in DOMAIN Padded : Padded[x] \notin DOMAIN Padded

VARIABLES
  chainTable, tokenTable,   \* the database
  idChains,                 \* ChainInfoManager: the chains, by id
  tonClient,                \* ChainInfoManager.tonClient is set
  chainPc, chainRows,       \* LoadAllChains: where it is, the rows it has
  tok,                      \* TokenInfoManager: its four indexes and its list
  tokenPc, tokenRows,       \* LoadAllToken: where it is, its result set
  unread,                   \* LoadAllToken: the rows that are still to come
  new, ids,                 \* LoadAllToken: the new indexes, the ids to visit
  steady,                   \* history: chains present since ids was read
  edits, faults, adds

chainVars == <<idChains, tonClient, chainPc, chainRows>>
tokenVars == <<tok, tokenPc, tokenRows, unread, new, ids>>
bounds == <<edits, faults, adds>>
vars == <<chainTable, tokenTable, chainVars, tokenVars, steady, bounds>>

NoTokens ==
  [names |-> <<>>, addrs |-> <<>>, idNames |-> <<>>, idAddrs |-> <<>>, all |-> {}]

Init ==
  /\ chainTable \in ChainTables
  /\ tokenTable \in TokenTables
  /\ idChains = <<>>
  /\ tonClient = FALSE
  /\ chainPc = "idle" /\ chainRows = {}
  /\ tok = NoTokens
  /\ tokenPc = "idle" /\ tokenRows = {} /\ unread = {} /\ new = NoTokens /\ ids = {}
  /\ steady = {}
  /\ edits = 0 /\ faults = 0 /\ adds = 0

\* strings.TrimSpace, and the fields that the loads and AddToken apply it to.
Trim(x) == IF x \in DOMAIN Padded THEN Padded[x] ELSE x
TrimToken(t) ==
  [id |-> t.id, chain |-> Trim(t.chain), cid |-> t.cid, name |-> Trim(t.name), addr |-> Trim(t.addr)]
TrimChain(c) ==
  [id |-> c.id, name |-> Trim(c.name), backend |-> c.backend,
   gas |-> Trim(c.gas), gasAddr |-> Trim(c.gasAddr)]

Put(index, key, t) == [k \in DOMAIN index \cup {key} |-> IF k = key THEN t ELSE index[k]]

\* The comma-ok lookup: what is there, or nothing.
Lookup(index, key) == IF key \in DOMAIN index THEN {index[key]} ELSE {}

Fault == faults < MaxFaults /\ faults' = faults + 1

(***************************************************************************)
(* ChainInfoManager.LoadAllChains                                          *)
(***************************************************************************)
ChainQuery ==
  /\ chainPc = "idle"
  /\ chainPc' = "scan"
  /\ chainRows' = chainTable
  /\ UNCHANGED <<chainTable, tokenTable, idChains, tonClient, tokenVars, steady, bounds>>

\* The query or the iteration over its rows fails.
ChainLoadFails ==
  /\ chainPc \in {"idle", "scan"}
  /\ Fault
  /\ chainPc' = "idle"
  /\ chainRows' = {}
  /\ UNCHANGED <<chainTable, tokenTable, idChains, tonClient, tokenVars, steady, edits, adds>>

\* The client of a row may fail to be made: always for an EVM or Starknet
\* endpoint, for TON only until one connection pool has been made, which is
\* then shared; never for the other backends.
MayFail(row) == row.backend = "dial" \/ (row.backend = "ton" /\ ~tonClient)

\* The loop over the rows: a row that does not scan is left out, and so is a
\* row without a client.
ChainScan ==
  /\ chainPc = "scan"
  /\ chainPc' = "swap"
  /\ \E lost \in SUBSET { row \in chainRows \ BadRows : MayFail(row) } :
       LET kept == (chainRows \ BadRows) \ lost IN
       /\ IF lost = {} THEN UNCHANGED faults ELSE Fault
       /\ chainRows' = { TrimChain(row) : row \in kept }
       /\ tonClient' = (tonClient \/ \E row \in kept : row.backend = "ton")
  /\ UNCHANGED <<chainTable, tokenTable, idChains, tokenVars, steady, edits, adds>>

ById(rows) == [i \in { row.id : row \in rows } |-> CHOOSE row \in rows : row.id = i]

\* idChains and the other indexes of the manager are replaced under the lock.
ChainSwap ==
  /\ chainPc = "swap"
  /\ chainPc' = "idle"
  /\ idChains' = ById(chainRows)
  /\ steady' = steady \cap chainRows
  /\ chainRows' = {}
  /\ UNCHANGED <<chainTable, tokenTable, tonClient, tokenVars, bounds>>

GetChainInfoAutoIds == DOMAIN idChains
GetChainInfoById(i) == Lookup(idChains, i)

(***************************************************************************)
(* TokenInfoManager.LoadAllToken                                           *)
(***************************************************************************)
TokenQuery ==
  /\ tokenPc = "idle"
  /\ tokenPc' = "scan"
  /\ tokenRows' = tokenTable
  /\ unread' = tokenTable
  /\ UNCHANGED <<chainTable, tokenTable, chainVars, tok, new, ids, steady, bounds>>

TokenLoadFails ==
  /\ tokenPc \in {"idle", "scan"}
  /\ Fault
  /\ tokenPc' = "idle"
  /\ tokenRows' = {}
  /\ unread' = {}
  /\ new' = NoTokens
  /\ UNCHANGED <<chainTable, tokenTable, chainVars, tok, ids, steady, edits, adds>>

\* A token goes into the indexes by chain name.
PutByName(x, t) ==
  [x EXCEPT !.names = Put(@, <<t.chain, t.name>>, t),
            !.addrs = Put(@, <<t.chain, t.addr>>, t)]

\* A row of the table, into all of them; by chain id only if it has one.
PutRow(x, t) ==
  LET y == [PutByName(x, t) EXCEPT !.all = @ \cup {t}]
  IN  IF t.cid > 0
      THEN [y EXCEPT !.idNames = Put(@, <<t.cid, t.name>>, t),
                     !.idAddrs = Put(@, <<t.cid, t.addr>>, t)]
      ELSE y

\* One turn of the loop over the rows, which come in whatever order the
\* database returns them; a row that does not scan is skipped.
TokenScanRow ==
  /\ tokenPc = "scan"
  /\ \E t \in unread :
       /\ unread' = unread \ {t}
       /\ new' = IF t \in BadRows THEN new ELSE PutRow(new, TrimToken(t))
  /\ UNCHANGED <<chainTable, tokenTable, chainVars, tok, tokenPc, tokenRows, ids, steady, bounds>>

\* The rows are exhausted and rows.Err() is nil.
TokenScanned ==
  /\ tokenPc = "scan" /\ unread = {}
  /\ tokenPc' = "ids"
  /\ UNCHANGED <<chainTable, tokenTable, chainVars, tok, tokenRows, unread, new, ids, steady, bounds>>

TokenChainIds ==
  /\ tokenPc = "ids"
  /\ tokenPc' = "gas"
  /\ ids' = GetChainInfoAutoIds
  /\ steady' = { idChains[i] : i \in DOMAIN idChains }
  /\ UNCHANGED <<chainTable, tokenTable, chainVars, tok, tokenRows, unread, new, bounds>>

GasToken(c) == [id |-> 0, chain |-> c.name, cid |-> 0, name |-> c.gas, addr |-> c.gasAddr]

PutGasIfNewAddress(x, t) ==
  IF <<t.chain, t.addr>> \in DOMAIN x.addrs THEN x
  ELSE [PutByName(x, t) EXCEPT !.all = @ \cup {t}]

PutGasAlways(x, t) == [PutByName(x, t) EXCEPT !.all = @ \cup {t}]

PutGasOfListedChain(x, t) ==
  IF \/ <<t.chain, t.name>> \in DOMAIN x.names
     \/ \A k \in DOMAIN x.names : k[1] # t.chain
  THEN x
  ELSE [PutByName(x, t) EXCEPT !.all = @ \cup {t}]

\* A gas token is added unless a token of that name is there already.  It is
\* put into no index by chain id, and it may take the address entry of a row.
PutGas(x, t) ==
  IF <<t.chain, t.name>> \in DOMAIN x.names THEN x
  ELSE [PutByName(x, t) EXCEPT !.all = @ \cup {t}]

\* One turn of the loop over the ids, in map order: GetChainInfoById reads the
\* chain again, and a chain that has gone since is skipped.
TokenGas ==
  /\ tokenPc = "gas"
  /\ \E i \in ids :
       /\ ids' = ids \ {i}
       /\ \/ \E c \in GetChainInfoById(i) : new' = PutGas(new, GasToken(c))
          \/ GetChainInfoById(i) = {} /\ UNCHANGED new
  /\ UNCHANGED <<chainTable, tokenTable, chainVars, tok, tokenPc, tokenRows, unread, steady, bounds>>

TokenSwap ==
  /\ tokenPc = "gas"
  /\ ids = {}
  /\ tokenPc' = "idle"
  /\ tok' = new
  /\ new' = NoTokens
  /\ tokenRows' = {}
  /\ steady' = {}
  /\ UNCHANGED <<chainTable, tokenTable, chainVars, unread, ids, bounds>>

(***************************************************************************)
(* AddToken and AddTokenInfo                                               *)
(***************************************************************************)
Add(x) ==
  /\ adds < MaxAdds
  /\ adds' = adds + 1
  /\ tok' = x
  /\ UNCHANGED <<chainTable, tokenTable, chainVars, tokenPc, tokenRows, unread, new, ids, steady,
                 edits, faults>>

\* AddToken makes a token of the texts it is given, trimmed.
Fresh(t) == [TrimToken(t) EXCEPT !.id = 0, !.cid = 0]

AddTokenAddressOnly ==
  \E t \in AddedTokens :
    Add([tok EXCEPT !.addrs = Put(@, <<Trim(t.chain), Trim(t.addr)>>, Fresh(t))])

AddToken == \E t \in AddedTokens : Add(PutByName(tok, Fresh(t)))

\* AddTokenInfo takes the token as it is, with the name that the chain gave
\* for it and the address its caller wrote.
AddTokenInfo == \E t \in AddedTokens : Add(PutByName(tok, t))

(***************************************************************************)
(* The getters, each one lookup under the read lock                        *)
(***************************************************************************)
GetByChainNameTokenName(c, n) == Lookup(tok.names, <<Trim(c), Trim(n)>>)
GetByChainNameTokenAddr(c, a) == Lookup(tok.addrs, <<Trim(c), Trim(a)>>)
GetByChainIdTokenName(i, n) == Lookup(tok.idNames, <<i, Trim(n)>>)
GetByChainIdTokenAddr(i, a) == Lookup(tok.idAddrs, <<i, Trim(a)>>)
GetTokenAddresses(c) ==
  { tok.addrs[k].addr : k \in { j \in DOMAIN tok.addrs : j[1] = Trim(c) } }
GetTokenAddressesByChainId(i) ==
  { tok.idAddrs[k].addr : k \in { j \in DOMAIN tok.idAddrs : j[1] = i } }

(***************************************************************************)
(* The database                                                            *)
(***************************************************************************)
Edit ==
  /\ edits < MaxEdits
  /\ edits' = edits + 1
  /\ \/ chainTable' \in ChainTables \ {chainTable} /\ UNCHANGED tokenTable
     \/ tokenTable' \in TokenTables \ {tokenTable} /\ UNCHANGED chainTable
  /\ UNCHANGED <<chainVars, tokenVars, steady, faults, adds>>

LoadAllChains == ChainQuery \/ ChainLoadFails \/ ChainScan \/ ChainSwap

LoadAllToken ==
  \/ TokenQuery \/ TokenLoadFails \/ TokenScanRow \/ TokenScanned
  \/ TokenChainIds \/ TokenGas \/ TokenSwap

Next == LoadAllChains \/ LoadAllToken \/ AddToken \/ AddTokenInfo \/ Edit

Spec == Init /\ [][Next]_vars

\* Both loading goroutines are scheduled and come round again.
FairSpec == Spec /\ WF_vars(LoadAllChains) /\ WF_vars(LoadAllToken)

(***************************************************************************)
(* Properties                                                              *)
(***************************************************************************)
\* Type invariant.
TypeOK ==
  /\ chainTable \in ChainTables /\ tokenTable \in TokenTables
  /\ chainPc \in {"idle", "scan", "swap"}
  /\ tokenPc \in {"idle", "scan", "ids", "gas"}
  /\ \A i \in DOMAIN idChains : idChains[i].id = i
  /\ DOMAIN tok = DOMAIN NoTokens /\ DOMAIN new = DOMAIN NoTokens
  /\ edits \in 0..MaxEdits /\ faults \in 0..MaxFaults /\ adds \in 0..MaxAdds

\* No blanks around it.
Bare(x) == Trim(x) = x
Tidy(t) == Bare(t.chain) /\ Bare(t.name) /\ Bare(t.addr)

\* What one getter finds, the others find: a token known by its name is known
\* by its address and the other way round, and one known by chain id is known
\* by chain name; through reloads, AddToken, AddTokenInfo and gas tokens that
\* take over an address entry.  Excepted is what a getter, which trims, cannot
\* name: a text with blanks around it, and only an added token has one.
LookupsAgree ==
  /\ \A k \in DOMAIN tok.names :
       LET t == tok.names[k] IN
         /\ Tidy(t) \/ t \in AddedTokens
         /\ Bare(t.chain) => t.addr \in GetTokenAddresses(t.chain)
         /\ Bare(t.chain) /\ Bare(t.addr) => GetByChainNameTokenAddr(t.chain, t.addr) # {}
  /\ \A k \in DOMAIN tok.addrs :
       LET t == tok.addrs[k] IN
         /\ Tidy(t) \/ t \in AddedTokens
         /\ Bare(t.chain) /\ Bare(t.name) => GetByChainNameTokenName(t.chain, t.name) # {}
  /\ \A k \in DOMAIN tok.idNames :
       LET t == tok.idNames[k] IN
         /\ t.addr \in GetTokenAddressesByChainId(k[1])
         /\ GetByChainIdTokenAddr(k[1], t.addr) # {}
         /\ GetByChainNameTokenName(t.chain, k[2]) # {}
  /\ \A k \in DOMAIN tok.idAddrs :
       LET t == tok.idAddrs[k] IN
         /\ GetByChainIdTokenName(k[1], t.name) # {}
         /\ GetByChainNameTokenAddr(t.chain, k[2]) # {}

\* The token indexes are well formed, each token under its own keys, and agree.
RegistryInv == TypeOK /\ LookupsAgree

\* LoadAllToken publishes a gas token for every chain that the chain manager
\* had from the moment the ids were read to the publication, whatever reload
\* of the chains came in between.
SteadyChainsHaveGas ==
  [][ tokenPc = "gas" /\ tokenPc' = "idle" =>
        \A c \in steady : GetByChainNameTokenName(c.name, c.gas)' # {} ]_vars

\* A gas token never hides a token of the table that was scanned: looked up by
\* name, such a token is a row of the table.  A row that rows.Scan rejects is
\* hidden, if there is a gas token of its name.
ListedTokensWin ==
  [][ tokenPc = "gas" /\ tokenPc' = "idle" =>
        \A t \in tokenRows \ BadRows :
          \E r \in tokenRows \ BadRows :
            GetByChainNameTokenName(t.chain, t.name)' = {TrimToken(r)} ]_vars

\* Once edits and faults stop, every chain of t_chain_info that scans has its
\* gas token among the tokens, and keeps it, though it takes a reload of the
\* chains and then one of the tokens to get there.
GasTokensArrive ==
  <>[](\A c \in chainTable \ BadRows : GetByChainNameTokenName(c.name, c.gas) # {})
=============================================================================
