-------------------------- MODULE AggregatorRoutes --------------------------
(***************************************************************************)
(* AggregatorManager.FindBestRoute of loader/aggregator_route.go and the   *)
(* lookups it makes.  The routes are read under one read lock, the fee     *)
(* segments of each route under another, so a reload may come in between:  *)
(* every lookup is a step of its own.                                      *)
(*                                                                         *)
(* UI amounts, which the code keeps as big.Rat, are integers in units of   *)
(* 1/AmountUnit.  A limit of a configuration is such a number, NoLimit (""  *)
(* or "0") or BadNumber (SetString rejects it).  An amount of 0 is one     *)
(* that is written in another way, as "0.0", and is no NoLimit.            *)
(***************************************************************************)
EXTENDS Integers, Sequences, FiniteSets, Texts

CONSTANTS
  RouteTables,    \* the contents t_aggregate_route_config may have
  SegmentTables,  \* the contents of t_aggregate_route_fee_segment, by route id
  Pairs,          \* pairs of chains
  AskedAmounts,   \* the amounts FindBestRoute is called with
  RouteDecimals,  \* decimals of the token
  AmountUnit,     \* UI amounts are multiples of 1/AmountUnit, a power of ten
  Leftovers       \* what SetString may leave behind when it fails

\* Rates are in basis points.
FullRate == 10000

NoLimit == -1
BadNumber == -2

Limits == Nat \cup {NoLimit, BadNumber}

Segment == [min : Limits, max : Limits, fixed : Limits, rate : Nat, protocol : Nat]

\* The powers of ten are integers: the provers have no exponentiation.
ASSUME RouteAssumption ==
  /\ AmountUnit \in Nat \ {0}
  /\ \A d \in RouteDecimals : 10^d \in Nat \ {0}
  /\ Leftovers \subseteq Nat /\ Leftovers # {}
  /\ AskedAmounts \subseteq Int
  /\ \A t \in RouteTables : \A i \in DOMAIN t :
       i \in Nat /\ t[i].symbol \in Text /\ t[i].min \in Limits /\ t[i].max \in Limits
  /\ \A t \in SegmentTables : \A r \in DOMAIN t : t[r] \in Seq(Segment)

VARIABLES
  routes,    \* routesByChainPair and routesByID: all routes, in table order
  segments,  \* feeSegmentsByRouteID
  find,      \* one call of FindBestRoute
  visible    \* history: the segment tables published while it runs

routeVars == <<routes, segments, find, visible>>

NoFind == [pc |-> "idle", amount |-> 0, decimals |-> 0, read |-> <<>>, todo |-> {},
           best |-> {}, err |-> FALSE]

RouteInit ==
  /\ routes = <<>>
  /\ segments \in { [r \in DOMAIN t |-> <<>>] : t \in SegmentTables }
  /\ find = NoFind
  /\ visible = {}

\* The segments of a route; nil if it has none.
GetFeeSegments(segs, id) == IF id \in DOMAIN segs THEN segs[id] ELSE <<>>

GetAllRoutes == { routes[i] : i \in DOMAIN routes }

\* A slice of routes is given by the positions they have in the table, whose
\* order it keeps.
GetRoutesByChainPair(pair) == { i \in DOMAIN routes : routes[i].pair = pair }

\* The symbol asked for is trimmed, the one of the table is not.
GetRoutesByChainPairAndSymbol(pair, symbol) ==
  [ i \in { j \in GetRoutesByChainPair(pair) : Upper(routes[j].symbol) = Upper(Trim(symbol)) }
    |-> routes[i] ]

\* Both ends of the range of a route belong to it.
isAmountInRouteRange(amt, r) ==
  /\ r.min # NoLimit => r.min # BadNumber /\ amt >= r.min
  /\ r.max # NoLimit => r.max # BadNumber /\ amt <= r.max

\* A segment reaches from its minimum up to, not including, its maximum.
SegmentHas(seg, amt) ==
  /\ seg.min # BadNumber /\ seg.max # BadNumber
  /\ amt >= (IF seg.min = NoLimit THEN 0 ELSE seg.min)
  /\ seg.max # NoLimit => amt < seg.max

\* The minimum left out as well.
SegmentIsAbove(seg, amt) == SegmentHas(seg, amt) /\ amt > seg.min

FirstWith(segs, Has(_)) ==
  { segs[i] : i \in { j \in DOMAIN segs : Has(segs[j]) /\ \A k \in 1..(j - 1) : ~Has(segs[k]) } }

findMatchingSegmentAbove(segs, id, amt) ==
  FirstWith(GetFeeSegments(segs, id), LAMBDA seg : SegmentIsAbove(seg, amt))

findMatchingSegment(segs, id, amt) ==
  FirstWith(GetFeeSegments(segs, id), LAMBDA seg : SegmentHas(seg, amt))

\* In smallest units, rounded down.
Wei(ui, dec) == (ui * 10^dec) \div AmountUnit

\* calculateFee: one result, or one for each value that the ignored failure of
\* SetString may leave.  The channel's fee is the fixed fee over again.
calculateFee(amt, seg, dec) ==
  { LET fixed == Wei(f, dec)
        owlto == fixed + (Wei(amt, dec) * seg.rate) \div FullRate
    IN  [channel |-> fixed, owlto |-> owlto, total |-> fixed + owlto,
         protocol |-> (Wei(amt, dec) * seg.protocol) \div FullRate]
    : f \in IF seg.fixed = BadNumber THEN Leftovers
            ELSE {IF seg.fixed = NoLimit THEN 0 ELSE seg.fixed} }

(***************************************************************************)
(* Reloads.  TableManager.tla has the loads themselves.                    *)
(***************************************************************************)
PublishRoutes(t) == routes' = t /\ UNCHANGED <<segments, find, visible>>

PublishSegments(t) ==
  /\ segments' = t
  /\ visible' = IF find.pc = "loop" THEN visible \cup {t} ELSE visible
  /\ UNCHANGED <<routes, find>>

(***************************************************************************)
(* FindBestRoute                                                           *)
(***************************************************************************)
\* Up to and including the lookup of the routes.
FindBegin(pair, symbol, amt, dec) ==
  LET found == GetRoutesByChainPairAndSymbol(pair, symbol)
      fails == DOMAIN found = {} \/ amt <= 0
  IN  /\ find.pc = "idle"
      /\ find' = [NoFind EXCEPT !.pc = IF fails THEN "done" ELSE "loop", !.amount = amt,
                                !.decimals = dec, !.read = found,
                                !.todo = DOMAIN found, !.err = fails]
      /\ visible' = {segments}
      /\ UNCHANGED <<routes, segments>>

\* Later routes replace the best so far if they cost as little.
KeepLast(best, x) == IF \A b \in best : x.fee.total <= b.fee.total THEN {x} ELSE best

KeepBest(best, x) == IF \A b \in best : x.fee.total < b.fee.total THEN {x} ELSE best

\* One turn of the loop: the next route is out of range, has no segment for
\* the amount, or competes with the best so far.
FindTry ==
  /\ find.pc = "loop"
  /\ \E i \in find.todo :
       /\ \A j \in find.todo : i <= j
       /\ LET r    == find.read[i]
              segs == IF isAmountInRouteRange(find.amount, r)
                      THEN findMatchingSegment(segments, r.id, find.amount) ELSE {}
              rest == [find EXCEPT !.todo = @ \ {i}]
          IN  \/ segs = {} /\ find' = rest
              \/ \E seg \in segs : \E f \in calculateFee(find.amount, seg, find.decimals) :
                   find' = [rest EXCEPT !.best = KeepBest(@, [at |-> i, seg |-> seg, fee |-> f])]
  /\ UNCHANGED <<routes, segments, visible>>

FindEnd ==
  /\ find.pc = "loop" /\ find.todo = {}
  /\ find' = [find EXCEPT !.pc = "done", !.err = find.best = {}]
  /\ UNCHANGED <<routes, segments, visible>>

FindReturn ==
  /\ find.pc = "done"
  /\ find' = NoFind
  /\ visible' = {}
  /\ UNCHANGED <<routes, segments>>

RouteNext ==
  \/ \E t \in RouteTables : PublishRoutes(t)
  \/ \E t \in SegmentTables : PublishSegments(t)
  \/ \E p \in Pairs, s \in Text, a \in AskedAmounts, d \in RouteDecimals : FindBegin(p, s, a, d)
  \/ FindTry
  \/ FindEnd
  \/ FindReturn

RouteSpec == RouteInit /\ [][RouteNext]_routeVars

(***************************************************************************)
(* Properties                                                              *)
(***************************************************************************)
\* The fees a route may be found to have in a table of segments.
FeesIn(segs, r) ==
  IF isAmountInRouteRange(find.amount, r)
  THEN UNION { calculateFee(find.amount, seg, find.decimals)
               : seg \in findMatchingSegment(segs, r.id, find.amount) }
  ELSE {}

\* "Keep the route with the lowest fee" (aggregator_route.go:526), whatever is
\* reloaded between the lookups: what FindBestRoute returns was a fee of its
\* route in a segment table published during the call, and no route is left
\* aside that was cheaper, or came first at the same price, in all of them.
\* It fails only if no route had a segment in all of them.
BestRouteUnderReload ==
  find.pc = "done" =>
    /\ \A b \in find.best :
         /\ \E t \in visible : b.fee \in FeesIn(t, find.read[b.at])
         /\ \A i \in DOMAIN find.read \ {b.at} :
              ~\A t \in visible :
                 /\ FeesIn(t, find.read[i]) # {}
                 /\ \A f \in FeesIn(t, find.read[i]) :
                      f.total < b.fee.total \/ (f.total = b.fee.total /\ i < b.at)
    /\ find.err /\ find.amount > 0 =>
         \A i \in DOMAIN find.read : \E t \in visible : FeesIn(t, find.read[i]) = {}

\* The segments of a route that follow one another without a gap from the
\* route's minimum to its maximum, and parse.
Tiled(segs, r) ==
  /\ segs # <<>>
  /\ \A i \in DOMAIN segs : segs[i].min # BadNumber /\ segs[i].max # BadNumber
  /\ segs[1].min <= (IF r.min = NoLimit THEN 0 ELSE r.min)
  /\ \A i \in 1..(Len(segs) - 1) : segs[i + 1].min = segs[i].max
  /\ segs[Len(segs)].max \in {r.max, NoLimit}

\* A route whose segments tile its range has a segment for every amount in the
\* range but the greatest one, which isAmountInRouteRange includes and the last
\* segment, which ends before its maximum, does not.
TiledRouteHasFee ==
  \A r \in GetAllRoutes :
    LET segs == GetFeeSegments(segments, r.id) IN
    Tiled(segs, r) =>
      \A amt \in AskedAmounts :
        amt > 0 /\ isAmountInRouteRange(amt, r) /\ findMatchingSegment(segments, r.id, amt) = {}
          => amt = r.max /\ segs[Len(segs)].max = r.max

\* The rounding of calculateFee: nobody is charged more than the fixed fee,
\* taken twice, and the exact share of the amount, nor less by three of the
\* token's smallest units and the share of a fourth; and a larger amount in a
\* segment costs no less.
FeeIsFair ==
  \A b \in find.best :
    LET dec == find.decimals
        share(a, rate) == a * 10^dec * rate
        exact == (2 * b.seg.fixed * FullRate * 10^dec) + share(find.amount, b.seg.rate)
    IN  /\ b.seg.fixed >= 0 =>
             /\ b.fee.total * FullRate * AmountUnit <= exact
             /\ exact < ((b.fee.total + 3) * FullRate + b.seg.rate) * AmountUnit
        /\ b.fee.protocol * FullRate * AmountUnit <= share(find.amount, b.seg.protocol)
        /\ \A a \in AskedAmounts : a >= find.amount /\ SegmentHas(b.seg, a) =>
             \A f \in calculateFee(a, b.seg, dec) : b.seg.fixed # BadNumber => f.total >= b.fee.total

\* Every route is found under its pair and its symbol however it is spelled,
\* and under no other, unless the symbol in the table has blanks around it;
\* such a route is never found.
RoutesAreFound ==
  \A i \in DOMAIN routes, p \in Pairs, s \in Text :
    i \in DOMAIN GetRoutesByChainPairAndSymbol(p, s) <=>
      /\ p = routes[i].pair
      /\ Norm(s) = Norm(routes[i].symbol)
      /\ Trim(routes[i].symbol) = routes[i].symbol

\* A route that should be quoted is found, has a fee, and the fee is fair.
RoutesAreQuoted == RoutesAreFound /\ TiledRouteHasFee /\ FeeIsFair
=============================================================================
