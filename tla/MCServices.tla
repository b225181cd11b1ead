---------------------------- MODULE MCServices ------------------------------
(***************************************************************************)
(* The parts of the library that a service calls and that share no state   *)
(* with one another: lazy alerts, chain clients, transaction bodies, tokens*)
(* of users, and what it asks of the loaded tables, fees, routes and       *)
(* lookups.  A behaviour is one of a single part; the others stay in their *)
(* first state.                                                            *)
(***************************************************************************)
EXTENDS LazyAlerter, ChainRpc, TxBodies, Auth, Fees, AggregatorRoutes, TableLookups, TLC

VARIABLE part

callVars == <<vars, rpcVars, bodyVars, authVars>>
tableVars == <<feeVars, routeVars, lookupVars>>
serviceVars == <<part, callVars, tableVars>>

(* ChainRpc: coins with and without decimals, symbols and metadata; two     *)
(* coins of Solana and Sui whose addresses differ in case only.             *)
At(f) == [word |-> "x", form |-> f]
Coin(d, s, n) == [decimals |-> d, symbol |-> s, names |-> n]
MCLegTokens == {[word |-> "y", form |-> "upper"]}
MCCoinTables ==
  [ Evm    |-> { At("lower") :> c : c \in {Coin(6, TRUE, "ok"), Coin(22, TRUE, "ok"),
                                           Coin(0, TRUE, "ok"), Coin(6, FALSE, "ok")} },
    Solana |-> { At("lower") :> Coin(6, TRUE, n) @@ At("upper") :> Coin(0, TRUE, "ok")
                 : n \in {"ok", "bad", "none"} },
    Sui    |-> { SuiCoin :> Coin(7, TRUE, "ok") @@ At("lower") :> Coin(6, TRUE, "ok")
                 @@ At("upper") :> Coin(0, TRUE, "ok") } ]

(* TxBodies: decimals that are unknown, fit into 8 bits and do not.         *)
MCAskedDecimals == {-1, 0, 3, 4}

RpcIdle ==
  /\ rpc = CHOOSE r \in GetRpc(1) : TRUE
  /\ coins = <<>> /\ supply = <<>> /\ heap = <<>> /\ cache = <<>>
  /\ asks = [c \in Callers |-> NoAsk] /\ pool = {} /\ faults = 0

(* Fees: entries with equal, rising and falling tiers and with amounts that *)
(* do not parse; ratios of 50%, 25% and less; decimals with and without     *)
(* enough digits for the entries.                                           *)
MCDtcConfigs ==
  [ a : {<<0, 0, 0>>, <<5, 20, 20>>, <<4, 15, 37>>},
    d : {<<1, 2, 17, 21>>, <<9, 4, 2, 0>>, <<3, 6, 6, 15>>, <<Unparsable, 2, 3, 4>>} ]

MCFeeConfigs ==
  [ a : {<<10, 20, 30>>, <<20, 20, 200>>, <<10, Unparsable, 30>>},
    r : {<<50000000, 25000000, 25000000, 0>>, <<0, 10000000, 40000000, 50000000>>},
    keep : {0, 3} ]

(* AggregatorRoutes: routes with, without and with unparsable limits; with  *)
(* segments that tile, overlap, leave gaps or are missing.                  *)
Txt(w, f) == [word |-> w, form |-> f]
Usdt == Txt("x", "upper")
Rt(i, p, s, min, max) == [id |-> i, pair |-> p, symbol |-> s, min |-> min, max |-> max]
Sg(min, max, fixed, rate, protocol) ==
  [min |-> min, max |-> max, fixed |-> fixed, rate |-> rate, protocol |-> protocol]

MCAskedAmounts == {-2, 0, 7, 10, 29, 30, 60, 61}

MCRouteTables ==
  { << Rt(1, 1, Usdt, 10, 60), Rt(2, 1, Txt("x", "lower"), NoLimit, NoLimit),
       Rt(3, 1, Usdt, 7, BadNumber) >>,
    << Rt(2, 1, Usdt, NoLimit, 60), Rt(1, 1, Usdt, BadNumber, 40),
       Rt(3, 1, Txt("x", "padded"), NoLimit, NoLimit) >>,
    << Rt(3, 2, Usdt, NoLimit, 0), Rt(1, 1, Txt("y", "upper"), 10, NoLimit),
       Rt(2, 1, Txt("y", "lower"), 1, NoLimit) >> }

MCSegmentTables ==
  { (1 :> << Sg(10, 30, 3, 0, 10), Sg(30, 60, 1, 1500, 0) >>
     @@ 2 :> << Sg(NoLimit, 30, 3, 100, 0), Sg(30, NoLimit, BadNumber, 3000, 10) >>
     @@ 3 :> << Sg(0, NoLimit, 0, 0, 0) >>),
    (1 :> << Sg(NoLimit, NoLimit, 1, 2000, 0) >>
     @@ 2 :> << Sg(BadNumber, 30, 0, 0, 0), Sg(7, 60, 13, 10, 25) >>),
    (1 :> << Sg(0, 40, NoLimit, 500, 0), Sg(30, BadNumber, 0, 0, 0) >>
     @@ 2 :> << Sg(0, 30, 1, 333, 0), Sg(30, NoLimit, 0, 700, 0) >>
     @@ 3 :> <<>>) }

(* TableLookups: enough rows for two of each kind, where there are kinds,   *)
(* and for two that clash beside one that does not, where there are none.   *)
MCMaxRows ==
  [t \in LookupTables |->
     CASE t \in {"CmsUserManager", "MakerAddressManager"} -> 4
       [] t \in {"AggregatorManager", "LpInfoManager", "MultiTransferTokenManager"} -> 2
       [] OTHER -> 3]

FeesIdle == FeeInit /\ dtc = {} /\ fee = {}
                    /\ decimals = CHOOSE d \in Decimals : TRUE
RouteIdle == RouteInit /\ segments = [r \in DOMAIN (CHOOSE t \in SegmentTables : TRUE) |-> <<>>]
LookupIdle == LookupInit /\ table = CHOOSE t \in LookupTables : TRUE

ServiceInit ==
  /\ part \in {"alert", "rpc", "bodies", "auth", "fees", "routes", "lookups"}
  /\ Init /\ BodyInit /\ AuthInit
  /\ IF part = "rpc" THEN RpcInit ELSE RpcIdle
  /\ IF part = "fees" THEN FeeInit ELSE FeesIdle
  /\ IF part = "routes" THEN RouteInit ELSE RouteIdle
  /\ IF part = "lookups" THEN LookupInit ELSE LookupIdle

CallNext ==
  \/ part = "alert" /\ Next /\ UNCHANGED <<part, rpcVars, bodyVars, authVars>>
  \/ part = "rpc" /\ RpcNext /\ UNCHANGED <<part, vars, bodyVars, authVars>>
  \/ part = "bodies" /\ BodyNext /\ UNCHANGED <<part, vars, rpcVars, authVars>>
  \/ part = "auth" /\ AuthNext /\ UNCHANGED <<part, vars, rpcVars, bodyVars>>

TableNext ==
  \/ part = "fees" /\ FeeNext /\ UNCHANGED <<part, routeVars, lookupVars>>
  \/ part = "routes" /\ RouteNext /\ UNCHANGED <<part, feeVars, lookupVars>>
  \/ part = "lookups" /\ LookupNext /\ UNCHANGED <<part, feeVars, routeVars>>

ServiceNext ==
  \/ CallNext /\ UNCHANGED tableVars
  \/ TableNext /\ UNCHANGED callVars

ServiceSpec == ServiceInit /\ [][ServiceNext]_serviceVars
=============================================================================
