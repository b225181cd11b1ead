------------------------------ MODULE ChainRpc ------------------------------
(***************************************************************************)
(* The chain clients of rpc/.  GetRpc gives one for the backend of a       *)
(* chain; goroutines share it.  A client asks its node, which may fail,    *)
(* and keeps the tokens it has found in a TokenInfoManager of its own,     *)
(* under the chain's name and the address in lower case (token_info.go).   *)
(*                                                                         *)
(* Addresses are texts.  On Evm the two cases of an address name the same  *)
(* contract; on Solana and Sui they name two coins.  A reply of the node   *)
(* is its kind and a number; decoding is in the kind.                      *)
(***************************************************************************)
EXTENDS MachineInts, Sequences, FiniteSets, Texts

CONSTANTS
  RpcBackends,    \* the numbers of the backends examined
  Callers,        \* goroutines that use the client
  Uses,           \* the operations a program makes of its client: sets of them
  CoinTables,     \* the coins the node of each kind of chain may know
  MaxMints,       \* bound on the changes of a coin's supply
  MaxNodeFaults,  \* bound on failing calls of the node
  LegTokens       \* the addresses in Sui's built-in table

\* The kinds of chain whose clients have a GetTokenInfo have a table.
ASSUME RpcAssumption ==
  /\ {"Evm", "Solana", "Sui"} \subseteq DOMAIN CoinTables
  /\ \A n \in DOMAIN CoinTables : \A t \in CoinTables[n] :
       \A a \in DOMAIN t : t[a].decimals \in Nat /\ a.form # "padded"
  /\ MaxMints \in Nat /\ MaxNodeFaults \in Nat

\* The addresses asked for: coins, and the native coin in any of the ways to
\* write a zero address.
Native == [word |-> "0", form |-> "lower"]
Addresses == Text \cup LegTokens \cup {Native}
SuiCoin == [word |-> "sui", form |-> "lower"]

(***************************************************************************)
(* Which client a chain gets, and what each client implements.             *)
(***************************************************************************)
EvmRpc      == [name |-> "Evm",      ops |-> {"info", "balance", "allowance", "status", "height"}]
StarknetRpc == [name |-> "Starknet", ops |-> {"balance", "status", "height"}]
SolanaRpc   == [name |-> "Solana",   ops |-> {"info", "balance", "allowance", "status", "height"}]
BitcoinRpc  == [name |-> "Bitcoin",  ops |-> {"balance"}]
ZksliteRpc  == [name |-> "Zkslite",  ops |-> {"balance"}]
TonRpc      == [name |-> "Ton",      ops |-> {"balance", "height"}]
BenfenRpc   == [name |-> "Benfen",   ops |-> {"balance"}]
SuiRpc      == [name |-> "Sui",      ops |-> {"info", "balance"}]
FuelRpc     == [name |-> "Fuel",     ops |-> {"balance", "status", "height"}]

\* The client of a backend; the error is an empty set.
GetRpc(n) ==
  CASE n = 1 -> {EvmRpc} [] n = 2 -> {StarknetRpc} [] n = 3 -> {SolanaRpc}
    [] n = 4 -> {BitcoinRpc} [] n = 5 -> {ZksliteRpc} [] n = 6 -> {TonRpc}
    [] n = 8 -> {BenfenRpc} [] n = 9 -> {SuiRpc} [] n = 10 -> {FuelRpc}
    [] OTHER -> {}

(***************************************************************************)
(* Answers and what the clients make of them.  err: an error is returned.  *)
(***************************************************************************)
Ok(n) == [value |-> n, err |-> FALSE, panic |-> FALSE]
Err == [value |-> 0, err |-> TRUE, panic |-> FALSE]
Panic == [value |-> 0, err |-> TRUE, panic |-> TRUE]

\* The node fails; there is no such account; it answers with nothing; with
\* something that is no number; with a number.
Replies == [kind : {"error", "none", "empty", "malformed", "ok"}, n : {0, 3, Word64 - 1}]

\* The coin a balance is asked of: the native one, one of those the client
\* knows by name (brc20_..., USDC and USDT on zkSync Lite), or another.
CoinClass == {"native", "listed", "other"}

EvmGetBalance(coin, r) == IF r.kind = "ok" THEN Ok(r.n) ELSE Err

\* rsp[0], the low 128 bits of the balance, which it is taken not to exceed.
StarknetGetBalance(coin, r) ==
  IF r.kind = "ok" THEN Ok(r.n) ELSE IF r.kind = "empty" THEN Ok(0) ELSE Err

\* An account that does not decode is passed over: of the accounts of the two
\* token programs the first that decodes is taken.
GetSplAccount(r) == IF r.kind \in {"malformed", "empty"} THEN [r EXCEPT !.kind = "none"] ELSE r

\* No account is a balance of 0.
SolanaGetBalance(coin, r) ==
  LET a == IF coin = "native" THEN r ELSE GetSplAccount(r)
  IN  IF a.kind = "ok" THEN Ok(Signed(a.n, Word64)) ELSE IF a.kind = "none" THEN Ok(0) ELSE Err

\* The kind none: the configuration has no entry for the chain.  The kind error:
\* no configuration, no answer, or one with an error code.  A native balance
\* that the answer lacks is a nil *big.Int, on which the caller panics; one of
\* a brc20 token that is empty or no number counts as 0.
BitcoinGetBalance(coin, r) ==
  CASE coin = "other" \/ r.kind = "error" -> Err
    [] r.kind = "ok" -> Ok(r.n)
    [] r.kind = "none" \/ (r.kind = "empty" /\ coin = "native") -> Panic
    [] coin = "native" -> Err
    [] OTHER -> Ok(0)

\* Every reply without the number counts as a balance of 0.
ZksliteGetBalance(coin, r) ==
  IF coin = "other" \/ r.kind = "error" THEN Err ELSE Ok(IF r.kind = "ok" THEN r.n ELSE 0)

\* An account that is not there has a nil State, whose Balance is asked for; the
\* library gives 0 for the wallet of a jetton that is not there.
TonGetBalance(coin, r) ==
  CASE r.kind = "ok" -> Ok(r.n)
    [] r.kind = "none" -> IF coin = "native" THEN Panic ELSE Ok(0)
    [] OTHER -> Err

BenfenGetBalance(coin, r) == IF r.kind = "ok" THEN Ok(r.n) ELSE Err
SuiGetBalance(coin, r) == IF r.kind = "ok" THEN Ok(r.n) ELSE Err

FuelGetBalance(coin, r) == IF r.kind = "ok" THEN Ok(r.n) ELSE Err

GetBalance(name, coin, r) ==
  CASE name = "Evm" -> EvmGetBalance(coin, r) [] name = "Starknet" -> StarknetGetBalance(coin, r)
    [] name = "Solana" -> SolanaGetBalance(coin, r) [] name = "Bitcoin" -> BitcoinGetBalance(coin, r)
    [] name = "Zkslite" -> ZksliteGetBalance(coin, r) [] name = "Ton" -> TonGetBalance(coin, r)
    [] name = "Benfen" -> BenfenGetBalance(coin, r) [] name = "Sui" -> SuiGetBalance(coin, r)
    [] name = "Fuel" -> FuelGetBalance(coin, r)

EvmGetAllowance(r) == IF r.kind = "ok" THEN Ok(r.n) ELSE Err

SolanaGetAllowance(r) ==
  LET a == GetSplAccount(r)
  IN  IF a.kind = "ok" THEN Ok(Signed(a.n, Word64)) ELSE IF a.kind = "none" THEN Ok(0) ELSE Err

\* The status of a transaction: what is not in a block is an error, never
\* a failure.
TxStates == {"error", "unknown", "pending", "failed", "succeeded"}

EvmIsTxSuccess(s) == IF s \in {"failed", "succeeded"} THEN Ok(s = "succeeded") ELSE Err
SolanaIsTxSuccess(s) == IF s \in {"failed", "succeeded"} THEN Ok(s = "succeeded") ELSE Err
StarknetIsTxSuccess(s) == IF s \in {"failed", "succeeded"} THEN Ok(s = "succeeded") ELSE Err

FuelIsTxSuccess(s) == IF s \in {"failed", "succeeded"} THEN Ok(s = "succeeded") ELSE Err

IsTxSuccess(name, s) ==
  CASE name = "Evm" -> EvmIsTxSuccess(s) [] name = "Solana" -> SolanaIsTxSuccess(s)
    [] name = "Starknet" -> StarknetIsTxSuccess(s) [] name = "Fuel" -> FuelIsTxSuccess(s)

(***************************************************************************)
(* The state.                                                              *)
(***************************************************************************)
VARIABLES
  rpc,     \* the client
  coins,   \* the coins the node knows: a function from their addresses
  supply,  \* history: every supply a coin has had, the last one being current
  heap,    \* the TokenInfo objects, in the order they were made
  cache,   \* chainNameTokenAddrs of the chain: from addresses to objects
  asks,    \* the callers
  pool,    \* Ton: the callers that have assigned chainInfo.Client
  faults   \* bound: calls of the node that failed

rpcVars == <<rpc, coins, supply, heap, cache, asks, pool, faults>>

\* A coin has decimals; symbol (Evm), FALSE if it is empty; and names
\* (Solana): its metadata account is there, or does not decode, or is missing.

\* The contract or coin an address names.
Named(name, t) == IF name = "Evm" THEN Lower(t) ELSE t

NoAsk == [pc |-> "idle"]

RpcInit ==
  /\ \E n \in RpcBackends, use \in Uses : \E r \in GetRpc(n) : rpc = [r EXCEPT !.ops = @ \cap use]
  /\ rpc.ops # {}
  /\ coins \in IF "info" \in rpc.ops THEN CoinTables[rpc.name] ELSE {<<>>}
  /\ supply = [a \in DOMAIN coins |-> <<5>>]
  /\ heap = <<>>
  /\ cache = <<>>
  /\ asks = [c \in Callers |-> NoAsk]
  /\ pool = {}
  /\ faults = 0

\* Somebody mints.
Mint(a) ==
  /\ Len(supply[a]) <= MaxMints
  /\ supply' = [supply EXCEPT ![a] = Append(@, 5 + Len(@))]
  /\ UNCHANGED <<rpc, coins, heap, cache, asks, pool, faults>>

Fault == faults < MaxNodeFaults /\ faults' = faults + 1

(***************************************************************************)
(* GetTokenInfo                                                            *)
(***************************************************************************)
NoSupply == 0

\* What a call returns: an error, or an object, or a fixed answer for a coin
\* that is not looked up (fixed is its address).
Fail(c) == asks' = [asks EXCEPT ![c] = [pc |-> "failed", addr |-> @.addr]]
Give(c, i) == asks' = [asks EXCEPT ![c] = [pc |-> "given", addr |-> @.addr, obj |-> i]]

\* An object that is already there is changed.
AddTokenInfoInPlace(ti) ==
  LET k == Lower(ti.addr) IN
  /\ heap' = IF k \in DOMAIN cache THEN [Append(heap, ti) EXCEPT ![cache[k]] = ti] ELSE Append(heap, ti)
  /\ cache' = [x \in DOMAIN cache \cup {k} |-> IF x = k THEN Len(heap) + 1 ELSE cache[x]]

\* TokenInfoManager.AddTokenInfo: under the address in lower case.
AddTokenInfo(ti) ==
  /\ heap' = Append(heap, ti)
  /\ cache' = [k \in DOMAIN cache \cup {Lower(ti.addr)} |->
                 IF k = Lower(ti.addr) THEN Len(heap) + 1 ELSE cache[k]]

\* Up to the first question to the node.  The address is trimmed for the
\* lookup; Sui trims it for good.
TokenBegin(c, t) ==
  LET addr == IF rpc.name = "Sui" THEN (IF t = Native THEN SuiCoin ELSE Trim(t)) ELSE t
      known == Norm(addr) \in DOMAIN cache
  IN  /\ asks[c].pc = "idle" /\ "info" \in rpc.ops
      /\ asks' = [asks EXCEPT ![c] =
           CASE rpc.name = "Sui" /\ Trim(t) \in LegTokens -> [pc |-> "fixed", addr |-> t]
             [] rpc.name # "Sui" /\ t = Native -> [pc |-> "fixed", addr |-> t]
             [] known -> [pc |-> "given", addr |-> addr, obj |-> cache[Norm(addr)]]
             [] OTHER -> [pc |-> "ask", addr |-> addr]]
      /\ UNCHANGED <<rpc, coins, supply, heap, cache, pool, faults>>

Info(a, n) == [addr |-> a, decimals |-> coins[Named(rpc.name, a)].decimals, supply |-> n]
Current(a) == supply[Named(rpc.name, a)][Len(supply[Named(rpc.name, a)])]
Exists(a) == Named(rpc.name, a) \in DOMAIN coins

\* The batch of four calls.
EvmGetTokenInfo(c) ==
  LET a == asks[c].addr
      found == Exists(a) /\ coins[Lower(a)].symbol /\ coins[Lower(a)].decimals > 0
  IN  /\ rpc.name = "Evm" /\ asks[c].pc = "ask"
      /\ \/ Fault /\ Fail(c) /\ UNCHANGED <<heap, cache>>
         \/ ~found /\ Fail(c) /\ UNCHANGED <<heap, cache, faults>>
         \/ /\ found
            /\ AddTokenInfo([Info(a, Current(a)) EXCEPT !.decimals = Signed(@, Word32)])
            /\ Give(c, Len(heap) + 1)
            /\ UNCHANGED faults
      /\ UNCHANGED <<rpc, coins, supply, pool>>

\* The metadata account: that there is none is no error.  A mint address with
\* blanks does not parse.
SolanaMetadata(c) ==
  LET a == asks[c].addr
      bad == a.form = "padded" \/ (Exists(a) /\ coins[a].names = "bad")
  IN  /\ rpc.name = "Solana" /\ asks[c].pc = "ask"
      /\ \/ Fault /\ Fail(c)
         \/ bad /\ Fail(c) /\ UNCHANGED faults
         \/ ~bad /\ asks' = [asks EXCEPT ![c].pc = "mint"] /\ UNCHANGED faults
      /\ UNCHANGED <<rpc, coins, supply, heap, cache, pool>>

\* The mint account.  The names, which its own metadata override, are left out.
SolanaGetTokenInfo(c) ==
  LET a == asks[c].addr IN
  /\ asks[c].pc = "mint"
  /\ \/ Fault /\ Fail(c) /\ UNCHANGED <<heap, cache>>
     \/ ~Exists(a) /\ Fail(c) /\ UNCHANGED <<heap, cache, faults>>
     \/ Exists(a) /\ AddTokenInfo(Info(a, Current(a))) /\ Give(c, Len(heap) + 1) /\ UNCHANGED faults
  /\ UNCHANGED <<rpc, coins, supply, pool>>

\* The coin is kept before its supply is known.
SuiGetTokenInfo(c) ==
  LET a == asks[c].addr IN
  /\ rpc.name = "Sui" /\ asks[c].pc = "ask"
  /\ \/ Fault /\ Fail(c) /\ UNCHANGED <<heap, cache>>
     \/ ~Exists(a) /\ Fail(c) /\ UNCHANGED <<heap, cache, faults>>
     \/ /\ Exists(a) /\ AddTokenInfo(Info(a, NoSupply))
        /\ asks' = [asks EXCEPT ![c] = [pc |-> "supply", addr |-> a, obj |-> Len(heap) + 1]]
        /\ UNCHANGED faults
  /\ UNCHANGED <<rpc, coins, supply, pool>>

\* The supply is forgotten when the object is no longer the one in the cache.
SuiSupplyIfCached(c) ==
  /\ asks[c].pc = "supply"
  /\ \/ Fault /\ UNCHANGED heap
     \/ /\ heap' = IF cache[Lower(asks[c].addr)] # asks[c].obj THEN heap
                   ELSE [heap EXCEPT ![asks[c].obj].supply = Current(asks[c].addr)]
        /\ UNCHANGED faults
  /\ Give(c, asks[c].obj)
  /\ UNCHANGED <<rpc, coins, supply, cache, pool>>

\* A supply that cannot be had is left out.
SuiSupply(c) ==
  /\ asks[c].pc = "supply"
  /\ \/ Fault /\ UNCHANGED heap
     \/ heap' = [heap EXCEPT ![asks[c].obj].supply = Current(asks[c].addr)] /\ UNCHANGED faults
  /\ Give(c, asks[c].obj)
  /\ UNCHANGED <<rpc, coins, supply, cache, pool>>

(***************************************************************************)
(* Ton's client is made and assigned by the first call, without a lock.    *)
(* The field is an interface, two words.  Nothing orders the assignment    *)
(* before the reads of other goroutines, so these may find the field nil,  *)
(* half assigned (a panic) or assigned at any later time, and it may get   *)
(* assigned more than once.  A goroutine sees its own assignment.          *)
(***************************************************************************)
TonBegin(c) ==
  /\ rpc.name = "Ton" /\ asks[c].pc = "idle"
  /\ \E seen \in IF c \in pool THEN {"client"}
                 ELSE IF pool = {} THEN {"connect"}
                 ELSE {"connect", "panicked", "client"} :
       asks' = [asks EXCEPT ![c] = [pc |-> seen]]
  /\ UNCHANGED <<rpc, coins, supply, heap, cache, pool, faults>>

TonConnect(c) ==
  /\ asks[c].pc = "connect"
  /\ \/ Fault /\ asks' = [asks EXCEPT ![c] = [pc |-> "noclient"]]
     \/ asks' = [asks EXCEPT ![c] = [pc |-> "assign"]] /\ UNCHANGED faults
  /\ UNCHANGED <<rpc, coins, supply, heap, cache, pool>>

TonAssign(c) ==
  /\ asks[c].pc = "assign"
  /\ asks' = [asks EXCEPT ![c] = [pc |-> "client"]]
  /\ pool' = pool \cup {c}
  /\ UNCHANGED <<rpc, coins, supply, heap, cache, faults>>

(***************************************************************************)
(* The calls that ask the node and keep nothing.                           *)
(***************************************************************************)
Ready(c) == asks[c].pc = IF rpc.name = "Ton" THEN "client" ELSE "idle"

Tell(c, op, said, coin, ret) ==
  /\ Ready(c) /\ op \in rpc.ops
  /\ asks' = [asks EXCEPT ![c] = [pc |-> IF ret.panic THEN "panicked" ELSE "told", op |-> op,
                                  said |-> said, coin |-> coin, ret |-> ret]]
  /\ UNCHANGED <<rpc, coins, supply, heap, cache, pool, faults>>

AskBalance(c) ==
  \E r \in Replies, coin \in CoinClass : Tell(c, "balance", r, coin, GetBalance(rpc.name, coin, r))

AskAllowance(c) ==
  \E r \in Replies :
    Tell(c, "allowance", r, "other", IF rpc.name = "Evm" THEN EvmGetAllowance(r) ELSE SolanaGetAllowance(r))

AskStatus(c) == \E s \in TxStates : Tell(c, "status", s, "other", IsTxSuccess(rpc.name, s))

RpcReturn(c) ==
  /\ asks[c].pc \in {"failed", "given", "fixed", "told", "noclient", "panicked"}
  /\ asks' = [asks EXCEPT ![c] = NoAsk]
  /\ UNCHANGED <<rpc, coins, supply, heap, cache, pool, faults>>

RpcNext ==
  \/ \E a \in DOMAIN supply : Mint(a)
  \/ \E c \in Callers :
       \/ \E t \in Addresses : TokenBegin(c, t)
       \/ EvmGetTokenInfo(c)
       \/ SolanaMetadata(c) \/ SolanaGetTokenInfo(c)
       \/ SuiGetTokenInfo(c) \/ SuiSupply(c)
       \/ TonBegin(c) \/ TonConnect(c) \/ TonAssign(c)
       \/ AskBalance(c) \/ AskAllowance(c) \/ AskStatus(c)
       \/ RpcReturn(c)

RpcSpec == RpcInit /\ [][RpcNext]_rpcVars

(***************************************************************************)
(* Properties                                                              *)
(***************************************************************************)
\* The object GetTokenInfo gives for an address, whoever put it into the cache
\* and whenever, says of a coin of that address, up to the case of letters,
\* what the node said of it.  Only Sui's may be without a supply.
InfoIsOfCoin ==
  \A c \in Callers : asks[c].pc = "given" =>
    LET ti == heap[asks[c].obj]
        coin == coins[Named(rpc.name, ti.addr)]
    IN  /\ Lower(ti.addr) = Norm(asks[c].addr)
        /\ 2 * coin.decimals < Word32 => ti.decimals = coin.decimals
        /\ \/ \E i \in DOMAIN supply[Named(rpc.name, ti.addr)] : supply[Named(rpc.name, ti.addr)][i] = ti.supply
           \/ ti.supply = NoSupply /\ rpc.name = "Sui"

\* Every object without a supply is the doing of a call that has yet to ask
\* for it, or of a failure of the node.
SupplyIsAsked ==
  Cardinality({ i \in DOMAIN heap :
                 /\ heap[i].supply = NoSupply
                 /\ ~\E c \in Callers : asks[c].pc = "supply" /\ asks[c].obj = i }) <= faults

\* An object that was given out does not change, though callers share it,
\* except that Sui's gets its supply once.
InfoIsStable ==
  [][\A i \in DOMAIN heap :
       \/ heap'[i] = heap[i]
       \/ heap[i].supply = NoSupply /\ heap'[i] = [heap[i] EXCEPT !.supply = heap'[i].supply]]_rpcVars

\* A coin found once is found again without asking the node, in any spelling.
FoundIsKept ==
  [][\A c \in Callers : asks[c].pc = "idle" /\ asks'[c].pc = "ask" =>
       \A i \in DOMAIN heap : Lower(heap[i].addr) # Norm(asks'[c].addr)]_rpcVars

\* What GetTokenInfo has given out stays as it was and stays in the cache.
InfoIsKept == InfoIsStable /\ FoundIsKept

\* A balance without an error is what the node said, as an int64 on Solana, or
\* 0 where the node had nothing to say: a failed call is never a balance.
BalanceIsHonest ==
  \A c \in Callers : asks[c].pc = "told" /\ asks[c].op \in {"balance", "allowance"} =>
    LET said == asks[c].said
        ret  == asks[c].ret
    IN  ~ret.err =>
          /\ said.kind # "error"
          /\ ret.value = IF said.kind # "ok" THEN 0
                         ELSE IF rpc.name = "Solana" THEN Signed(said.n, Word64) ELSE said.n
          /\ said.kind # "ok" => rpc.name \in {"Starknet", "Solana", "Bitcoin", "Zkslite", "Ton"}

\* A transaction that is not in a block yet is never reported as failed.
PendingIsNotFailure ==
  \A c \in Callers : asks[c].pc = "told" /\ asks[c].op = "status" /\ ~asks[c].ret.err =>
    asks[c].said = IF asks[c].ret.value THEN "succeeded" ELSE "failed"

\* No client answers with what the node did not say: not with another coin's
\* data, a supply nobody asked for, the balance of a failed call or a failure
\* that has not happened.
AnswersAreHonest == InfoIsOfCoin /\ SupplyIsAsked /\ BalanceIsHonest /\ PendingIsNotFailure
=============================================================================
