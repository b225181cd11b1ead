-------------------------------- MODULE Fees --------------------------------
(***************************************************************************)
(* The arithmetic of DtcManager and BridgeFeeManager of loader/: which of  *)
(* four tiers an amount falls into, and what is charged.  Amounts come in  *)
(* two forms: UI amounts (decimal strings in the tables, here integers in  *)
(* units of 1/UiUnit) and amounts in the token's smallest unit (big.Int).  *)
(* A float64 is taken to tell apart UI amounts that differ by 1/FloatUnit, *)
(* as it does for amounts of up to 15 digits.  Nearer ones may be equal as *)
(* floats, and a sum may be rounded either way: a float64 function has a   *)
(* set of results.                                                         *)
(*                                                                         *)
(* dtc and fee are the entries of one token and chain pair in the two      *)
(* managers; a reload replaces them at any time.  GetBridgeFeeDetail looks *)
(* its entry up twice and GetMinValueIncludeGasFee up to five times, each  *)
(* a step.  The two run one at a time here: they share nothing.            *)
(***************************************************************************)
EXTENDS Integers

CONSTANTS
  DtcConfigs,   \* the entries of t_dynamic_dtc: records of a and d
  FeeConfigs,   \* the entries of t_dynamic_bridge_fee: records of a, r and keep
  Decimals,     \* the decimals a token may have
  Values,       \* the amounts GetBridgeFeeDetail is called with
  UiUnit,       \* UI amounts are multiples of 1/UiUnit, a power of ten
  FloatUnit     \* float64 tells UI amounts apart that differ by 1/FloatUnit

\* An amount that strconv.ParseFloat accepts at load time and decimal.Decimal
\* does not (a hexadecimal float, an infinity).
Unparsable == -1

UiAmounts == Nat \cup {Unparsable}

\* Ratios are in units of 1/FullRatio.
FullRatio == 100000000

\* The last two conjuncts of DecimalsAssumption are arithmetic of powers of ten,
\* which UiUnit is; the provers have no exponentiation.
ASSUME DecimalsAssumption ==
  /\ UiUnit \in Nat \ {0}
  /\ FloatUnit \in Nat /\ FloatUnit >= UiUnit
  /\ Decimals \subseteq Nat
  /\ \A d \in Decimals : \A k \in 0..d : 10^k \in Nat \ {0}
  /\ \A d \in Decimals : 10^d >= UiUnit => 10^d % UiUnit = 0

ASSUME DtcAssumption ==
  DtcConfigs \subseteq [a : [1..3 -> UiAmounts], d : [1..4 -> UiAmounts]]

ASSUME FeeAssumption ==
  /\ Values \subseteq Nat
  /\ \A x \in FeeConfigs :
       /\ x.a \in [1..3 -> UiAmounts]
       /\ x.r \in [1..4 -> 0..FullRatio]
       /\ x.keep \in Nat

\* util.FromUiString: shift by the decimals and drop the fraction.
FromUi(ui, dec) == (ui * 10^dec) \div UiUnit

(***************************************************************************)
(* DtcManager                                                              *)
(***************************************************************************)
\* The manager's own FromUiString: what does not parse counts as nothing.
DtcFromUi(ui, dec) == IF ui = Unparsable THEN 0 ELSE FromUi(ui, dec)

\* The tier of n among thresholds t, searched from below or from above.
TierUp(n, t) == IF n <= t[1] THEN 1 ELSE IF n <= t[2] THEN 2 ELSE IF n <= t[3] THEN 3 ELSE 4
TierDown(n, t) == IF n > t[3] THEN 4 ELSE IF n > t[2] THEN 3 ELSE IF n > t[1] THEN 2 ELSE 1

\* The entry in smallest units.
InUnits(x, dec) ==
  [a |-> [i \in 1..3 |-> DtcFromUi(x.a[i], dec)],
   d |-> [i \in 1..4 |-> DtcFromUi(x.d[i], dec)]]

\* The amounts up to which tiers 1 to 3 reach, the dtc included.
WithDtc(c) == [i \in 1..3 |-> c.a[i] + c.d[i]]

\* What the two functions of each kind compute from the tiers c.
Included(c, n) == c.d[TierUp(n, WithDtc(c))]
ToInclude(c, n) == c.d[TierUp(n, c.a)]

GetIncludedDtcBigInt(x, n, dec) == Included(InUnits(x, dec), n)
GetDtcToIncludeBigInt(x, n, dec) == ToInclude(InUnits(x, dec), n)

\* The float64 functions, on UI amounts.  The sum of a limit and its dtc is
\* rounded, so that n may pass for above or for below a limit that it equals.
LastTier(S) == IF 3 \in S THEN 4 ELSE IF 2 \in S THEN 3 ELSE IF 1 \in S THEN 2 ELSE 1
RoundedTiers(n, t) ==
  { LastTier({ i \in 1..3 : n > t[i] } \cup S) : S \in SUBSET { i \in 1..3 : n = t[i] } }

GetIncludedDtc(x, ui) == { x.d[k] : k \in RoundedTiers(ui, WithDtc(x)) }
GetDtcToInclude(x, ui) == x.d[TierDown(ui, x.a)]

(***************************************************************************)
(* BridgeFeeManager                                                        *)
(***************************************************************************)
\* The digits of a fee below the kept ones are dropped.
Truncate(n, scale) == n - (n % scale)

\* FromUiString of the manager: an amount less its fee.
Net(n, ratio, scale) ==
  IF ratio > 0 THEN n - Truncate((n * ratio) \div FullRatio, scale) ELSE n

\* 10^(decimal - keepDecimal), keepDecimal being at most decimal.
Scale(x, dec) == 10^(dec - (IF x.keep < dec THEN x.keep ELSE dec))

\* The amount itself taken for what is left of it.
IncludedTierGross(x, n, dec) ==
  LET Below(i) == FromUi(x.a[i], dec) > n
  IN  IF Below(1) THEN 1 ELSE IF Below(2) THEN 2 ELSE IF Below(3) THEN 3 ELSE 4

\* The tier whose limit the amount, less that tier's fee, stays below.
IncludedTier(x, n, dec) ==
  LET Below(i) == FromUi(x.a[i], dec) > Net(n, x.r[i], Scale(x, dec))
  IN  IF Below(1) THEN 1 ELSE IF Below(2) THEN 2 ELSE IF Below(3) THEN 3 ELSE 4

\* GetIncludedBridgeFeeBigInt: the ratio, or nothing if a limit does not parse.
GetIncludedBridgeFeeBigInt(x, n, dec) ==
  IF \E i \in 1..3 : x.a[i] = Unparsable THEN {} ELSE {x.r[IncludedTier(x, n, dec)]}

\* GetBridgeFeeNotIncluded, on the UI amount n / 10^dec as a float64, from
\* which the fee is already taken.  An amount just below a limit may be equal
\* to it as a float.
Below(x, n, dec) == { i \in 1..3 : n * UiUnit < x.a[i] * 10^dec }
FarBelow(x, n, dec) ==
  { i \in Below(x, n, dec) : (x.a[i] * 10^dec - n * UiUnit) * FloatUnit >= UiUnit * 10^dec }
FirstTier(S) == IF 1 \in S THEN 1 ELSE IF 2 \in S THEN 2 ELSE IF 3 \in S THEN 3 ELSE 4

GetBridgeFeeNotIncluded(x, n, dec) ==
  { x.r[FirstTier(S)] : S \in { C \in SUBSET Below(x, n, dec) : FarBelow(x, n, dec) \subseteq C } }

(***************************************************************************)
(* The managers' entries, and the calls with several lookups.              *)
(***************************************************************************)
VARIABLES
  decimals,   \* of the token
  dtc, fee,   \* the two managers' entries, in a set; empty if there is none
  call,       \* GetBridgeFeeDetail: where it is, its argument, the entry it
              \* read first and its results
  least         \* GetMinValueIncludeGasFee: where it is, the entry it read first,
              \* the dtc it tries, its result, and whether (history) all its
              \* lookups have found that entry

feeVars == <<decimals, dtc, fee, call, least>>

NoCall == [pc |-> "idle", value |-> 0, first |-> {}, ratio |-> 0, amount |-> 0]

NoMin == [pc |-> "idle", first |-> {}, i |-> 1, result |-> {}, steady |-> TRUE]

DtcEntries == {{}} \cup { {x} : x \in DtcConfigs }
FeeEntries == {{}} \cup { {x} : x \in FeeConfigs }

FeeInit ==
  /\ decimals \in Decimals
  /\ dtc \in DtcEntries
  /\ fee \in FeeEntries
  /\ call = NoCall /\ least = NoMin

LoadAllDtc == dtc' \in DtcEntries /\ UNCHANGED <<decimals, fee, call, least>>

LoadAllBridgeFee == fee' \in FeeEntries /\ UNCHANGED <<decimals, dtc, call, least>>

\* GetMinValueIncludeGasFee up to and including its first lookup.
MinBegin ==
  /\ least.pc = "idle" /\ call.pc = "idle"
  /\ least' = [NoMin EXCEPT !.pc = IF dtc = {} THEN "done" ELSE "try", !.first = dtc]
  /\ UNCHANGED <<decimals, dtc, fee, call>>

\* One turn of its loop: the i-th dtc of the entry read first is returned if it
\* pays for the dtc that GetIncludedDtcBigInt finds in it now.
MinTry ==
  /\ least.pc = "try"
  /\ \E x \in least.first :
       LET m == InUnits(x, decimals).d[least.i]
           pays == \E y \in dtc : GetIncludedDtcBigInt(y, m, decimals) <= m
       IN  least' = [least EXCEPT !.pc = IF pays \/ least.i = 4 THEN "done" ELSE "try",
                              !.i = IF pays \/ least.i = 4 THEN least.i ELSE least.i + 1,
                              !.result = IF pays THEN {m} ELSE {},
                              !.steady = @ /\ dtc = least.first]
  /\ UNCHANGED <<decimals, dtc, fee, call>>

MinReturn == least.pc = "done" /\ least' = NoMin /\ UNCHANGED <<decimals, dtc, fee, call>>

\* GetBridgeFeeDetail up to and including its first lookup.
DetailBegin(n) ==
  /\ call.pc = "idle" /\ least.pc = "idle"
  /\ call' = [NoCall EXCEPT !.pc = IF fee = {} THEN "done" ELSE "ratio",
                            !.value = n, !.first = fee]
  /\ UNCHANGED <<decimals, dtc, fee, least>>

\* The ratio comes from the second lookup, the kept digits from the first.
DetailEnd ==
  /\ call.pc = "ratio"
  /\ \E x \in call.first :
       LET rs == UNION { GetIncludedBridgeFeeBigInt(y, call.value, decimals) : y \in fee } IN
       \/ rs = {} /\ call' = [call EXCEPT !.pc = "done"]
       \/ \E r \in rs :
            call' = [call EXCEPT !.pc = "done", !.ratio = r,
                       !.amount = call.value - Net(call.value, r, Scale(x, decimals))]
  /\ UNCHANGED <<decimals, dtc, fee, least>>

Return == call.pc = "done" /\ call' = NoCall /\ UNCHANGED <<decimals, dtc, fee, least>>

FeeNext ==
  \/ LoadAllDtc
  \/ LoadAllBridgeFee
  \/ MinBegin \/ MinTry \/ MinReturn
  \/ \E n \in Values : DetailBegin(n)
  \/ DetailEnd
  \/ Return

FeeSpec == FeeInit /\ [][FeeNext]_feeVars

(***************************************************************************)
(* Properties                                                              *)
(***************************************************************************)
\* Limits and dtcs that do not fall from tier to tier.
Rising(c) ==
  /\ c.a[1] <= c.a[2] /\ c.a[2] <= c.a[3]
  /\ c.d[1] <= c.d[2] /\ c.d[2] <= c.d[3] /\ c.d[3] <= c.d[4]

Parsable(amounts) == \A i \in DOMAIN amounts : amounts[i] # Unparsable

\* No UI amount of an entry has a fraction in the token's smallest unit.
EnoughDigits == 10^decimals >= UiUnit

\* The amounts the invariants about one entry are evaluated on.
Amounts == 0..60

\* What is added to an amount is what is later found to be included in it: a
\* sender who pays n plus GetDtcToIncludeBigInt(n) is charged that dtc, at
\* every limit and in spite of the fractions that the conversion drops.
DtcRoundTrip ==
  \A x \in dtc : Rising(InUnits(x, decimals)) =>
    \A n \in Amounts :
      LET added == GetDtcToIncludeBigInt(x, n, decimals)
      IN  GetIncludedDtcBigInt(x, n + added, decimals) = added

\* The float64 functions, which search the tiers from above, and the big.Int
\* ones, which search from below, charge the same for the same amount if the
\* token has digits enough for the entry; where the rounding of a sum decides,
\* which is at the limits, GetIncludedDtc charges the amount or the next one.
DtcFormsAgree ==
  \A x \in dtc : Rising(x) /\ Parsable(x.a) /\ Parsable(x.d) /\ EnoughDigits =>
    \A ui \in Amounts :
      LET n == FromUi(ui, decimals) IN
        /\ \A v \in GetIncludedDtc(x, ui) :
             FromUi(v, decimals) \in { GetIncludedDtcBigInt(x, n, decimals),
                                      GetIncludedDtcBigInt(x, n + 1, decimals) }
        /\ GetDtcToIncludeBigInt(x, n, decimals) = FromUi(GetDtcToInclude(x, ui), decimals)

\* If no reload comes between its lookups, GetMinValueIncludeGasFee returns the
\* least of all amounts that pay for their own dtc.
MinValueIsLeast ==
  least.pc = "done" /\ least.steady =>
    \A x \in least.first : Rising(InUnits(x, decimals)) =>
      \E m \in least.result :
        /\ GetIncludedDtcBigInt(x, m, decimals) <= m
        /\ \A n \in 0..(m - 1) : GetIncludedDtcBigInt(x, n, decimals) > n

\* The tier found for an amount that includes the fee is the tier of what is
\* left after the fee, when larger amounts pay no higher ratio and no limit
\* has digits the token lacks.  GetBridgeFeeNotIncluded, on a float64, finds
\* a lower ratio at most where the token is finer than the floats are.
FeeTiersAgree ==
  \A x \in fee :
    /\ x.a[1] <= x.a[2] /\ x.a[2] <= x.a[3]
    /\ x.r[1] >= x.r[2] /\ x.r[2] >= x.r[3] /\ x.r[3] >= x.r[4]
    /\ Parsable(x.a) /\ EnoughDigits
    => \A n \in Values : \A r \in GetIncludedBridgeFeeBigInt(x, n, decimals) :
         LET found == GetBridgeFeeNotIncluded(x, Net(n, r, Scale(x, decimals)), decimals)
         IN  /\ r \in found /\ \A s \in found : s <= r
             /\ 10^decimals <= FloatUnit => found = {r}

\* Whatever reload comes between its lookups, GetBridgeFeeDetail charges no
\* more than the ratio it returns, by less than one kept digit, and a multiple
\* of the smallest kept digit.
DetailIsFair ==
  call.pc = "done" =>
    LET exact == (call.value * call.ratio) \div FullRatio
        scale == IF call.first = {} THEN 1
                 ELSE Scale(CHOOSE x \in call.first : TRUE, decimals)
    IN  /\ call.amount % scale = 0
        /\ call.amount \in 0..call.value
        /\ call.ratio > 0 => call.amount <= exact /\ exact < call.amount + scale
        /\ call.ratio = 0 => call.amount = 0

\* The quotes of the two managers agree with each other: the dtc added with the
\* dtc found in the sum, float64 with big.Int dtcs but for the rounding at the
\* limits, a minimum that no reload disturbed with the dtc it has to pay, a fee
\* taken from a sum with the fee put on top, and, across reloads, an amount with
\* the ratio it is returned with.
QuotesAgree ==
  DtcRoundTrip /\ DtcFormsAgree /\ MinValueIsLeast /\ FeeTiersAgree /\ DetailIsFair
=============================================================================
