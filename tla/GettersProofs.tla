---------------------------- MODULE GettersProofs ----------------------------
(***************************************************************************)
(* What services ask of the loaded tables.  The quotes of the two fee      *)
(* managers: what is added to an amount is what is found in the sum, the   *)
(* forms of a function agree, and a fee is fair.  The best route: what     *)
(* FindBestRoute returns while routes and segments are reloaded between    *)
(* its lookups, and that a route that should be quoted is.  The lookups of *)
(* the other managers: that they agree with each other and with the rows.  *)
(* For every table, token and amount, and any sequence of reloads.         *)
(***************************************************************************)
EXTENDS Fees, AggregatorRoutes, TableLookups, FiniteSetTheorems, FunctionTheorems,
        SequenceTheorems, WellFoundedInduction, TLAPS

\* Tiers in smallest units: three limits and four dtcs.
Tiers == [a : [1..3 -> Nat], d : [1..4 -> Nat]]

\* An entry whose amounts are natural numbers in smallest units.
LEMMA TierFacts ==
  ASSUME NEW c \in Tiers
  PROVE  /\ c.a[1] \in Nat /\ c.a[2] \in Nat /\ c.a[3] \in Nat
         /\ c.d[1] \in Nat /\ c.d[2] \in Nat /\ c.d[3] \in Nat /\ c.d[4] \in Nat
         /\ WithDtc(c)[1] = c.a[1] + c.d[1]
         /\ WithDtc(c)[2] = c.a[2] + c.d[2]
         /\ WithDtc(c)[3] = c.a[3] + c.d[3]
<1>1. c.a \in [1..3 -> Nat] /\ c.d \in [1..4 -> Nat]
  BY SMT DEF Tiers
<1>2. QED
  BY <1>1, SMT DEF WithDtc

\* The dtc that ToInclude adds to an amount is the one that Included finds in
\* the sum, for all rising tiers and all amounts.
LEMMA TiersRoundTrip ==
  ASSUME NEW c \in Tiers, Rising(c), NEW n \in Nat
  PROVE  Included(c, n + ToInclude(c, n)) = ToInclude(c, n)
<1>1. /\ c.a[1] <= c.a[2] /\ c.a[2] <= c.a[3]
      /\ c.d[1] <= c.d[2] /\ c.d[2] <= c.d[3] /\ c.d[3] <= c.d[4]
  BY SMT DEF Rising
<1>2. CASE n <= c.a[1]
  <2>1. TierUp(n, c.a) = 1
    BY <1>2, SMT DEF TierUp
  <2>2. TierUp(n + c.d[1], WithDtc(c)) = 1
    BY <1>2, TierFacts, SMT DEF TierUp
  <2>3. QED
    BY <2>1, <2>2, SMT DEF Included, ToInclude
<1>3. CASE ~(n <= c.a[1]) /\ n <= c.a[2]
  <2>1. TierUp(n, c.a) = 2
    BY <1>3, SMT DEF TierUp
  <2>2. TierUp(n + c.d[2], WithDtc(c)) = 2
    BY <1>1, <1>3, TierFacts, SMT DEF TierUp
  <2>3. QED
    BY <2>1, <2>2, SMT DEF Included, ToInclude
<1>4. CASE ~(n <= c.a[1]) /\ ~(n <= c.a[2]) /\ n <= c.a[3]
  <2>1. TierUp(n, c.a) = 3
    BY <1>4, SMT DEF TierUp
  <2>2. TierUp(n + c.d[3], WithDtc(c)) = 3
    BY <1>1, <1>4, TierFacts, SMT DEF TierUp
  <2>3. QED
    BY <2>1, <2>2, SMT DEF Included, ToInclude
<1>5. CASE ~(n <= c.a[1]) /\ ~(n <= c.a[2]) /\ ~(n <= c.a[3])
  <2>1. TierUp(n, c.a) = 4
    BY <1>5, SMT DEF TierUp
  <2>2. TierUp(n + c.d[4], WithDtc(c)) = 4
    BY <1>1, <1>5, TierFacts, SMT DEF TierUp
  <2>3. QED
    BY <2>1, <2>2, SMT DEF Included, ToInclude
<1>6. QED
  BY <1>2, <1>3, <1>4, <1>5, SMT

-----------------------------------------------------------------------------
\* Integer division of naturals.
LEMMA DivNat ==
  ASSUME NEW m \in Nat, NEW k \in Nat \ {0}
  PROVE  m \div k \in Nat /\ m % k \in 0..(k - 1)
BY SMT

LEMMA DivRest ==
  ASSUME NEW m \in Nat, NEW k \in Nat \ {0}
  PROVE  m - (m % k) = k * (m \div k)
BY Z3

LEMMA DivMul ==
  ASSUME NEW m \in Nat, NEW k \in Nat \ {0}
  PROVE  (m * k) \div k = m /\ (k * m) % k = 0
<1>1. (m * k) \div k = m
  BY SMT
<1>2. (k * m) % k = 0
  BY SMT
<1> QED
  BY <1>1, <1>2, Zenon

LEMMA MulMono ==
  ASSUME NEW m \in Nat, NEW a \in Nat, NEW b \in Nat, a <= b
  PROVE  m * a <= m * b /\ m * a \in Nat /\ m * b \in Nat
BY SMT

LEMMA MulOrder ==
  ASSUME NEW m \in Nat \ {0}, NEW a \in Nat, NEW b \in Nat
  PROVE  (a * m <= b * m <=> a <= b) /\ a * m \in Nat /\ b * m \in Nat
<1>1. a * m <= b * m <=> a <= b
  BY SMT
<1>2. a * m \in Nat /\ b * m \in Nat
  BY SMT
<1> QED
  BY <1>1, <1>2, Zenon

LEMMA DivMono ==
  ASSUME NEW a \in Nat, NEW b \in Nat, NEW k \in Nat \ {0}, a <= b
  PROVE  a \div k <= b \div k
BY SMT

\* Dropping the digits below a place keeps the order, and is never below zero.
LEMMA TruncateFacts ==
  ASSUME NEW m \in Nat, NEW k \in Nat \ {0}
  PROVE  /\ Truncate(m, k) \in 0..m /\ Truncate(m, k) % k = 0
         /\ m < Truncate(m, k) + k
<1>1. m % k \in 0..(k - 1) /\ m \div k \in Nat
  BY DivNat
<1>2. m - (m % k) = k * (m \div k)
  BY DivRest
<1>3. (m - (m % k)) % k = 0
  BY <1>1, <1>2, DivMul
<1>4. m - (m % k) <= m /\ m < (m - (m % k)) + k /\ m - (m % k) \in Int
  <2> DEFINE e == m % k
  <2>1. e \in 0..(k - 1)
    BY <1>1
  <2> HIDE DEF e
  <2>2. m - e <= m /\ m < (m - e) + k /\ m - e \in Int
    BY <2>1
  <2> QED
    BY <2>2 DEF e
<1>5. m - (m % k) >= 0
  <2> DEFINE f == m \div k
  <2>1. f \in Nat
    BY <1>1
  <2> HIDE DEF f
  <2>2. k * f \in Nat
    BY <2>1, MulMono
  <2> QED
    BY <1>2, <2>2 DEF f
<1> QED
  BY <1>3, <1>4, <1>5 DEF Truncate

LEMMA TruncateMono ==
  ASSUME NEW a \in Nat, NEW b \in Nat, NEW k \in Nat \ {0}, a <= b
  PROVE  Truncate(a, k) <= Truncate(b, k)
<1>1. a \div k <= b \div k /\ a \div k \in Nat /\ b \div k \in Nat
  BY DivMono, DivNat
<1>2. k * (a \div k) <= k * (b \div k)
  BY <1>1, MulMono
<1> QED
  BY <1>2, DivRest DEF Truncate

\* A part of an amount.
LEMMA ShareFacts ==
  ASSUME NEW n \in Nat, NEW w \in Nat \ {0}, NEW r \in 0..w
  PROVE  (n * r) \div w \in 0..n
<1>1. r \in Nat /\ r <= w
  OBVIOUS
<1>2. n * r <= n * w /\ n * r \in Nat /\ n * w \in Nat
  BY <1>1, MulMono
<1>3. (n * r) \div w <= (n * w) \div w
  BY <1>2, DivMono
<1>4. (n * w) \div w = n
  BY DivMul
<1>5. (n * r) \div w \in Nat
  BY <1>2, DivNat
<1> QED
  BY <1>3, <1>4, <1>5

-----------------------------------------------------------------------------
\* The powers of ten that occur.
LEMMA PowerNat ==
  ASSUME NEW dec \in Decimals
  PROVE  10^dec \in Nat /\ 10^dec \in Nat \ {0}
<1>1. dec \in 0..dec
  BY DecimalsAssumption, SMT
<1>2. 10^dec \in Nat \ {0}
  BY <1>1, DecimalsAssumption, Zenon
<1> QED
  BY <1>2, Zenon

\* What does not parse counts as nothing, so every amount of an entry is a
\* natural number of smallest units.
LEMMA DtcFromUiNat ==
  ASSUME NEW ui \in UiAmounts, NEW dec \in Decimals
  PROVE  DtcFromUi(ui, dec) \in Nat
<1>1. CASE ui = Unparsable
  BY <1>1, SMT DEF DtcFromUi
<1>2. CASE ui # Unparsable
  <2>1. ui \in Nat /\ 10^dec \in Nat
    BY <1>2, PowerNat, Zenon DEF UiAmounts
  <2> DEFINE p == 10^dec
  <2>2. ui * p \in Nat
    <3> HIDE DEF p
    <3>1. ASSUME p \in Nat PROVE ui * p \in Nat
      BY <2>1, <3>1, SMT
    <3>2. QED
      BY <2>1, <3>1, Zenon DEF p
  <2>3. UiUnit \in Nat \ {0}
    BY DecimalsAssumption, Zenon
  <2>4. (ui * p) \div UiUnit \in Nat
    BY <2>2, <2>3, DivNat, Zenon
  <2>5. QED
    BY <1>2, <2>4, Zenon DEF DtcFromUi, FromUi
<1>3. QED
  BY <1>1, <1>2, Zenon

\* Every entry of t_dynamic_dtc is tiers in smallest units.
LEMMA InUnitsTiers ==
  ASSUME NEW x \in DtcConfigs, NEW dec \in Decimals
  PROVE  InUnits(x, dec) \in Tiers
<1>1. x.a \in [1..3 -> UiAmounts] /\ x.d \in [1..4 -> UiAmounts]
  BY DtcAssumption, SMT
<1>2. /\ \A i \in 1..3 : DtcFromUi(x.a[i], dec) \in Nat
      /\ \A i \in 1..4 : DtcFromUi(x.d[i], dec) \in Nat
  BY <1>1, DtcFromUiNat, Zenon
<1>3. QED
  BY <1>2, Zenon DEF InUnits, Tiers

\* For every entry, token and amount: a sender who adds the dtc of
\* GetDtcToIncludeBigInt to an amount is charged that dtc by
\* GetIncludedDtcBigInt, although both conversions drop fractions.
THEOREM DtcRoundTripForAll ==
  ASSUME NEW x \in DtcConfigs, NEW dec \in Decimals, NEW n \in Nat,
         Rising(InUnits(x, dec))
  PROVE  LET added == GetDtcToIncludeBigInt(x, n, dec)
         IN  GetIncludedDtcBigInt(x, n + added, dec) = added
<1>1. InUnits(x, dec) \in Tiers
  BY InUnitsTiers, Zenon
<1>2. QED
  BY <1>1, TiersRoundTrip, Zenon DEF GetDtcToIncludeBigInt, GetIncludedDtcBigInt

-----------------------------------------------------------------------------
\* With digits enough no UI amount has a fraction in smallest units, and the
\* conversion is a multiplication.
LEMMA ExactUnits ==
  ASSUME NEW dec \in Decimals, 10^dec >= UiUnit
  PROVE  \E q \in Nat \ {0} :
           /\ 10^dec = UiUnit * q
           /\ \A ui \in Nat : FromUi(ui, dec) = ui * q
<1> DEFINE p == 10^dec
           q == p \div UiUnit
<1>1. p \in Nat \ {0} /\ UiUnit \in Nat \ {0}
  BY PowerNat, DecimalsAssumption, Zenon
<1>2. p % UiUnit = 0
  BY DecimalsAssumption, Zenon
<1>3. \A ui : FromUi(ui, dec) = (ui * p) \div UiUnit
  BY Zenon DEF FromUi
<1> HIDE DEF p
<1>4. q \in Nat
  BY <1>1, DivNat
<1>5. p - (p % UiUnit) = UiUnit * q
  BY <1>1, DivRest
<1> HIDE DEF q
<1>6. p = UiUnit * q
  BY <1>1, <1>2, <1>5
<1>7. q # 0
  BY <1>1, <1>6
<1>8. ASSUME NEW ui \in Nat PROVE FromUi(ui, dec) = ui * q
  <2>1. ui * p = (ui * q) * UiUnit
    BY <1>1, <1>4, <1>6
  <2>2. ui * q \in Nat
    BY <1>4, MulMono
  <2>3. ((ui * q) * UiUnit) \div UiUnit = ui * q
    BY <1>1, <2>2, DivMul
  <2> QED
    BY <1>3, <2>1, <2>3
<1> QED
  BY <1>4, <1>6, <1>7, <1>8, Zenon DEF p

\* The search from below in smallest units and the search from above in UI
\* amounts find the same tier.
LEMMA ScaledTier ==
  ASSUME NEW q \in Nat \ {0}, NEW t \in [1..3 -> Nat], NEW s, t[1] <= t[2], t[2] <= t[3],
         \A i \in 1..3 : s[i] = t[i] * q, NEW ui \in Nat
  PROVE  TierUp(ui * q, s) = TierDown(ui, t)
<1>1. \A i \in 1..3 : ui * q <= s[i] <=> ui <= t[i]
  BY MulOrder
<1>2. t[1] \in Nat /\ t[2] \in Nat /\ t[3] \in Nat
  OBVIOUS
<1>3. /\ ui * q <= s[1] <=> ui <= t[1]
      /\ ui * q <= s[2] <=> ui <= t[2]
      /\ ui * q <= s[3] <=> ui <= t[3]
  BY <1>1
<1> DEFINE n == ui * q
<1> HIDE DEF n
<1>4. TierUp(n, s) = TierDown(ui, t)
  BY <1>2, <1>3 DEF TierUp, TierDown, n
<1> QED
  BY <1>4 DEF n

\* A rounded search from above lands in the tier of the amount, in that of the
\* next amount, or between limits that are equal.
LEMMA RoundedTier ==
  ASSUME NEW q \in Nat \ {0}, NEW t \in [1..3 -> Nat], NEW s, t[1] <= t[2], t[2] <= t[3],
         \A i \in 1..3 : s[i] = t[i] * q, NEW ui \in Nat, NEW k \in RoundedTiers(ui, t)
  PROVE  /\ k \in 1..4
         /\ \/ k = TierUp(ui * q, s)
            \/ k = TierUp(ui * q + 1, s)
            \/ k = 2 /\ t[1] = t[2] /\ TierUp(ui * q, s) = 1
            \/ k = 2 /\ t[1] = t[2] /\ TierUp(ui * q, s) = 2
            \/ k = 3 /\ t[2] = t[3] /\ (TierUp(ui * q, s) = 2 \/ (t[1] = t[2] /\ TierUp(ui * q, s) = 1))
<1>1. ASSUME NEW i \in 1..3
      PROVE  /\ ui * q <= s[i] <=> ui <= t[i]
             /\ ui * q + 1 <= s[i] <=> ui < t[i]
  <2>1. ui * q <= t[i] * q <=> ui <= t[i]
    BY MulOrder
  <2>2. t[i] * q <= ui * q <=> t[i] <= ui
    BY MulOrder
  <2>3. t[i] \in Nat /\ ui * q \in Nat /\ t[i] * q \in Nat
    BY MulOrder
  <2> DEFINE m == ui * q
             w == t[i] * q
  <2>4. s[i] = w
    OBVIOUS
  <2> HIDE DEF m, w
  <2>5. m + 1 <= w <=> ~(w <= m)
    BY <2>3 DEF m, w
  <2> QED
    BY <2>1, <2>2, <2>3, <2>4, <2>5 DEF m, w
<1>2. t[1] \in Nat /\ t[2] \in Nat /\ t[3] \in Nat
  OBVIOUS
<1> DEFINE n == ui * q
<1>3. /\ n <= s[1] <=> ui <= t[1]
      /\ n <= s[2] <=> ui <= t[2]
      /\ n <= s[3] <=> ui <= t[3]
      /\ n + 1 <= s[1] <=> ui < t[1]
      /\ n + 1 <= s[2] <=> ui < t[2]
      /\ n + 1 <= s[3] <=> ui < t[3]
  BY <1>1
<1> HIDE DEF n
<1>4. PICK S \in SUBSET { i \in 1..3 : ui = t[i] } : k = LastTier({ i \in 1..3 : ui > t[i] } \cup S)
  BY DEF RoundedTiers
<1> DEFINE A == { i \in 1..3 : ui > t[i] } \cup S
<1>5. /\ (1 \in A => ui >= t[1]) /\ (ui > t[1] => 1 \in A)
      /\ (2 \in A => ui >= t[2]) /\ (ui > t[2] => 2 \in A)
      /\ (3 \in A => ui >= t[3]) /\ (ui > t[3] => 3 \in A)
  BY <1>2, <1>4
<1>6. k = LastTier(A)
  BY <1>4
<1> HIDE DEF A
<1>7. /\ k = 1 => ~(ui > t[1]) /\ ~(ui > t[2]) /\ ~(ui > t[3])
      /\ k = 2 => ui >= t[1] /\ ~(ui > t[2]) /\ ~(ui > t[3])
      /\ k = 3 => ui >= t[2] /\ ~(ui > t[3])
      /\ k = 4 => ui >= t[3]
      /\ k \in 1..4
  BY <1>5, <1>6 DEF LastTier
<1>8. /\ TierUp(n, s) = IF ui <= t[1] THEN 1 ELSE IF ui <= t[2] THEN 2 ELSE IF ui <= t[3] THEN 3 ELSE 4
      /\ TierUp(n + 1, s) = IF ui < t[1] THEN 1 ELSE IF ui < t[2] THEN 2 ELSE IF ui < t[3] THEN 3 ELSE 4
  BY <1>3 DEF TierUp
<1>9. CASE k = 1
  BY <1>2, <1>7, <1>8, <1>9 DEF n
<1>10. CASE k = 2
  BY <1>2, <1>7, <1>8, <1>10 DEF n
<1>11. CASE k = 3
  BY <1>2, <1>7, <1>8, <1>11 DEF n
<1>12. CASE k = 4
  BY <1>2, <1>7, <1>8, <1>12 DEF n
<1> QED
  BY <1>7, <1>9, <1>10, <1>11, <1>12

\* The dtc of an entry in both forms.
LEMMA DtcForms ==
  ASSUME NEW x \in DtcConfigs, NEW dec \in Decimals, NEW ui \in Nat,
         Rising(x), Parsable(x.a), Parsable(x.d), 10^dec >= UiUnit
  PROVE  LET n == FromUi(ui, dec) IN
         /\ \A v \in GetIncludedDtc(x, ui) :
              FromUi(v, dec) \in { GetIncludedDtcBigInt(x, n, dec), GetIncludedDtcBigInt(x, n + 1, dec) }
         /\ GetDtcToIncludeBigInt(x, n, dec) = FromUi(GetDtcToInclude(x, ui), dec)
<1> DEFINE c == InUnits(x, dec)
           w == WithDtc(x)
<1>1. x.a \in [1..3 -> Nat] /\ x.d \in [1..4 -> Nat]
  <2>1. x.a \in [1..3 -> UiAmounts] /\ x.d \in [1..4 -> UiAmounts]
    BY DtcAssumption, SMT
  <2> QED
    BY <2>1 DEF Parsable, UiAmounts
<1>2. PICK q \in Nat \ {0} : \A u \in Nat : FromUi(u, dec) = u * q
  BY ExactUnits
<1>3. \A u \in Nat : DtcFromUi(u, dec) = u * q
  BY <1>2 DEF DtcFromUi, Unparsable
<1>4. /\ \A i \in 1..3 : c.a[i] = x.a[i] * q
      /\ \A i \in 1..4 : c.d[i] = x.d[i] * q
  BY <1>1, <1>3 DEF InUnits
<1> HIDE DEF c
<1>5. TierUp(ui * q, c.a) = TierDown(ui, x.a)
  <2>1. x.a[1] <= x.a[2] /\ x.a[2] <= x.a[3]
    BY DEF Rising
  <2> QED
    BY <1>1, <1>2, <1>4, <2>1, ScaledTier
<1>6. TierDown(ui, x.a) \in 1..4
  BY DEF TierDown
<1>7. \A i \in 1..4 : c.d[i] = FromUi(x.d[i], dec)
  BY <1>1, <1>2, <1>4
<1>8. FromUi(ui, dec) = ui * q
  BY <1>2
<1>9. GetDtcToIncludeBigInt(x, ui * q, dec) = FromUi(GetDtcToInclude(x, ui), dec)
  BY <1>5, <1>6, <1>7 DEF GetDtcToIncludeBigInt, GetDtcToInclude, ToInclude, c
<1>10. /\ w \in [1..3 -> Nat] /\ w[1] <= w[2] /\ w[2] <= w[3]
       /\ w[1] = w[2] => x.d[1] = x.d[2]
       /\ w[2] = w[3] => x.d[2] = x.d[3]
  BY <1>1 DEF WithDtc, Rising
<1>11. ASSUME NEW i \in 1..3 PROVE WithDtc(c)[i] = w[i] * q
  <2>1. WithDtc(c)[i] = x.a[i] * q + x.d[i] * q /\ w[i] = x.a[i] + x.d[i]
    BY <1>4 DEF WithDtc
  <2>2. x.a[i] \in Nat /\ x.d[i] \in Nat
    BY <1>1
  <2>3. (x.a[i] + x.d[i]) * q = x.a[i] * q + x.d[i] * q
    BY <2>2
  <2> QED
    BY <2>1, <2>3
<1> HIDE DEF w
<1>12. ASSUME NEW v \in GetIncludedDtc(x, ui)
       PROVE  FromUi(v, dec) \in { GetIncludedDtcBigInt(x, ui * q, dec),
                                   GetIncludedDtcBigInt(x, ui * q + 1, dec) }
  <2>1. PICK k \in RoundedTiers(ui, w) : v = x.d[k]
    BY DEF GetIncludedDtc, w
  <2> DEFINE j == TierUp(ui * q, WithDtc(c))
             l == TierUp(ui * q + 1, WithDtc(c))
  <2>2. /\ k \in 1..4
        /\ \/ k = j \/ k = l
           \/ k = 2 /\ w[1] = w[2] /\ j = 1
           \/ k = 2 /\ w[1] = w[2] /\ j = 2
           \/ k = 3 /\ w[2] = w[3] /\ (j = 2 \/ (w[1] = w[2] /\ j = 1))
    <3>1. \A i \in 1..3 : WithDtc(c)[i] = w[i] * q
      BY <1>11
    <3> QED
      BY <1>10, <3>1, RoundedTier
  <2>3. j \in 1..4 /\ l \in 1..4
    BY DEF TierUp
  <2>4. /\ GetIncludedDtcBigInt(x, ui * q, dec) = FromUi(x.d[j], dec)
        /\ GetIncludedDtcBigInt(x, ui * q + 1, dec) = FromUi(x.d[l], dec)
    BY <1>7, <2>3 DEF GetIncludedDtcBigInt, Included, c
  <2> HIDE DEF j, l
  <2>5. x.d[k] = x.d[j] \/ x.d[k] = x.d[l]
    BY <1>10, <2>2
  <2> QED
    BY <2>1, <2>4, <2>5
<1> QED
  BY <1>8, <1>9, <1>12

-----------------------------------------------------------------------------
\* The i-th dtc pays for the dtc that is included in it.
Pays(c, i) == Included(c, c.d[i]) <= c.d[i]

\* No amount below the first dtc that pays for itself pays for its own: its
\* dtc would be a smaller one of the four that pays.
LEMMA LeastPayer ==
  ASSUME NEW c \in Tiers, Rising(c)
  PROVE  \E i \in 1..4 :
           /\ Pays(c, i) /\ \A k \in 1..(i - 1) : ~Pays(c, k)
           /\ \A n \in 0..(c.d[i] - 1) : Included(c, n) > n
<1> DEFINE t == WithDtc(c)
<1>1. /\ t[1] \in Nat /\ t[2] \in Nat /\ t[3] \in Nat
      /\ \A i \in 1..4 : c.d[i] \in Nat
  BY TierFacts DEF Tiers
<1>2. \A n \in Nat : TierUp(n, t) \in 1..4
  BY DEF TierUp
<1>3. \A m, n \in Nat : m <= n => TierUp(m, t) <= TierUp(n, t)
  BY <1>1 DEF TierUp
<1>4. \A i, j \in 1..4 : i <= j => c.d[i] <= c.d[j]
  BY <1>1 DEF Rising
<1> HIDE DEF t
<1>5. \A n : Included(c, n) = c.d[TierUp(n, t)]
  BY DEF Included, t
<1>6. Pays(c, 4)
  BY <1>1, <1>2, <1>4, <1>5 DEF Pays
<1>7. PICK i \in 1..4 : Pays(c, i) /\ \A k \in 1..(i - 1) : ~Pays(c, k)
  <2>1. CASE Pays(c, 1)
    BY <2>1
  <2>2. CASE ~Pays(c, 1) /\ Pays(c, 2)
    BY <2>2
  <2>3. CASE ~Pays(c, 1) /\ ~Pays(c, 2) /\ Pays(c, 3)
    <3>1. \A k \in 1..(3 - 1) : k = 1 \/ k = 2
      OBVIOUS
    <3> QED
      BY <2>3, <3>1
  <2>4. CASE ~Pays(c, 1) /\ ~Pays(c, 2) /\ ~Pays(c, 3)
    <3>1. \A k \in 1..(4 - 1) : k = 1 \/ k = 2 \/ k = 3
      OBVIOUS
    <3> QED
      BY <1>6, <2>4, <3>1
  <2> QED
    BY <2>1, <2>2, <2>3, <2>4
<1>8. ASSUME NEW n \in 0..(c.d[i] - 1) PROVE Included(c, n) > n
  <2> DEFINE j == TierUp(n, t)
  <2>1. n \in Nat /\ n < c.d[i] /\ j \in 1..4 /\ Included(c, n) = c.d[j] /\ c.d[j] \in Nat
    BY <1>1, <1>2, <1>5
  <2> HIDE DEF j
  <2>2. ASSUME c.d[j] <= n PROVE FALSE
    <3>1. j < i
      BY <1>1, <1>4, <2>1, <2>2
    <3>2. TierUp(c.d[j], t) <= j /\ TierUp(c.d[j], t) \in 1..4
      BY <1>2, <1>3, <2>1, <2>2 DEF j
    <3>3. c.d[TierUp(c.d[j], t)] <= c.d[j]
      BY <1>4, <2>1, <3>2
    <3>4. Pays(c, j)
      BY <1>5, <3>3 DEF Pays
    <3>5. j \in 1..(i - 1)
      BY <2>1, <3>1
    <3> QED
      BY <1>7, <3>4, <3>5
  <2> QED
    BY <2>1, <2>2
<1> QED
  BY <1>7, <1>8

-----------------------------------------------------------------------------
LEMMA RatioUnit == FullRatio \in Nat \ {0}
BY SMT DEF FullRatio

\* Dropping digits is dropping a power of ten.
LEMMA ScaleNat ==
  ASSUME NEW x \in FeeConfigs, NEW dec \in Decimals
  PROVE  Scale(x, dec) \in Nat \ {0}
<1> DEFINE kept == IF x.keep < dec THEN x.keep ELSE dec
<1>1. dec \in Nat /\ x.keep \in Nat
  BY DecimalsAssumption, FeeAssumption, SMT
<1>2. dec - kept \in 0..dec
  BY <1>1, SMT
<1>3. Scale(x, dec) = 10^(dec - kept)
  BY Zenon DEF Scale
<1> HIDE DEF kept
<1> QED
  BY <1>2, <1>3, DecimalsAssumption, Zenon

\* What is taken from an amount: no more than the ratio of it, by less than
\* one kept digit, and whole kept digits.
LEMMA NetFacts ==
  ASSUME NEW n \in Nat, NEW r \in 0..FullRatio, NEW k \in Nat \ {0}
  PROVE  LET taken == n - Net(n, r, k)
             exact == (n * r) \div FullRatio
         IN  /\ taken \in 0..n /\ taken % k = 0
             /\ r > 0 => taken <= exact /\ exact < taken + k
             /\ r = 0 => taken = 0
<1> DEFINE e == (n * r) \div FullRatio
<1>1. e \in 0..n
  BY RatioUnit, ShareFacts
<1>2. Net(n, r, k) = IF r > 0 THEN n - Truncate(e, k) ELSE n
  BY DEF Net
<1> HIDE DEF e
<1>3. /\ Truncate(e, k) \in 0..e /\ Truncate(e, k) % k = 0
      /\ e < Truncate(e, k) + k
  BY <1>1, TruncateFacts
<1>4. CASE r > 0
  <2>1. n - Net(n, r, k) = Truncate(e, k)
    BY <1>1, <1>2, <1>3, <1>4
  <2> QED
    BY <1>1, <1>3, <1>4, <2>1 DEF e
<1>5. CASE ~(r > 0)
  <2>1. n - Net(n, r, k) = 0 /\ r = 0
    BY <1>2, <1>5, RatioUnit
  <2>2. 0 % k = 0
    BY SMT
  <2> QED
    BY <2>1, <2>2
<1> QED
  BY <1>4, <1>5

\* A lower ratio leaves more.
LEMMA NetMono ==
  ASSUME NEW n \in Nat, NEW r \in 0..FullRatio, NEW s \in 0..FullRatio, r <= s, NEW k \in Nat \ {0}
  PROVE  Net(n, s, k) <= Net(n, r, k) /\ Net(n, s, k) \in 0..n /\ Net(n, r, k) \in 0..n
<1> DEFINE d == (n * r) \div FullRatio
           e == (n * s) \div FullRatio
<1>1. r \in Nat /\ s \in Nat
  BY RatioUnit
<1>2. n * r <= n * s /\ n * r \in Nat /\ n * s \in Nat
  BY <1>1, MulMono
<1>3. d <= e
  BY <1>2, RatioUnit, DivMono
<1>4. d \in 0..n /\ e \in 0..n
  BY RatioUnit, ShareFacts
<1>5. /\ Net(n, r, k) = IF r > 0 THEN n - Truncate(d, k) ELSE n
      /\ Net(n, s, k) = IF s > 0 THEN n - Truncate(e, k) ELSE n
  BY DEF Net
<1> HIDE DEF d, e
<1>6. /\ Truncate(d, k) \in 0..d /\ Truncate(e, k) \in 0..e /\ Truncate(d, k) <= Truncate(e, k)
  BY <1>3, <1>4, TruncateFacts, TruncateMono
<1> QED
  BY <1>1, <1>3, <1>4, <1>5, <1>6

\* A gap of one smallest unit is one that the floats see.
LEMMA GapIsSeen ==
  ASSUME NEW u \in Nat \ {0}, NEW f \in Nat, NEW q \in Nat, NEW p, p = u * q, p <= f,
         NEW a \in Nat, NEW m \in Nat, m < a * q
  PROVE  (a * p - m * u) * f >= u * p
<1> DEFINE g == a * q - m
<1>1. g \in Nat \ {0} /\ p \in Nat
  BY MulOrder
<1>2. a * p - m * u = g * u
  OBVIOUS
<1> HIDE DEF g
<1>3. g * u >= u /\ g * u \in Nat
  BY <1>1
<1>4. (g * u) * f >= u * f
  BY <1>3
<1>5. u * f >= u * p
  BY <1>1
<1>6. u * p \in Nat /\ u * f \in Nat /\ (g * u) * f \in Nat
  BY <1>1, <1>3
<1> QED
  BY <1>2, <1>4, <1>5, <1>6

\* The tier of an amount with the fee in it is the tier of what is left.  The
\* tiers before it leave less and are passed already with that.
LEMMA FeeTiers ==
  ASSUME NEW x \in FeeConfigs, NEW dec \in Decimals, NEW n \in Nat,
         x.r[1] >= x.r[2], x.r[2] >= x.r[3], x.r[3] >= x.r[4], Parsable(x.a), 10^dec >= UiUnit,
         NEW r \in GetIncludedBridgeFeeBigInt(x, n, dec)
  PROVE  LET found == GetBridgeFeeNotIncluded(x, Net(n, r, Scale(x, dec)), dec)
         IN  /\ r \in found /\ \A s \in found : s <= r
             /\ 10^dec <= FloatUnit => found = {r}
<1> DEFINE k == Scale(x, dec)
           left(i) == Net(n, x.r[i], k)
           limit(i) == FromUi(x.a[i], dec)
           tier == IncludedTier(x, n, dec)
<1>1. x.a \in [1..3 -> Nat] /\ x.r \in [1..4 -> 0..FullRatio]
  <2>1. x.a \in [1..3 -> UiAmounts] /\ x.r \in [1..4 -> 0..FullRatio]
    BY FeeAssumption, Zenon
  <2> QED
    BY <2>1 DEF Parsable, UiAmounts
<1>2. k \in Nat \ {0}
  BY ScaleNat
<1>3. PICK q \in Nat \ {0} :
        10^dec = UiUnit * q /\ \A u \in Nat : FromUi(u, dec) = u * q
  BY ExactUnits
<1>4. r = x.r[tier]
  BY DEF GetIncludedBridgeFeeBigInt
<1>5. tier = IF limit(1) > left(1) THEN 1 ELSE IF limit(2) > left(2) THEN 2
             ELSE IF limit(3) > left(3) THEN 3 ELSE 4
  BY DEF IncludedTier
<1>6. \A i \in 1..3 : limit(i) = x.a[i] * q /\ limit(i) \in Nat
  BY <1>1, <1>3, MulOrder
<1>7. ASSUME NEW m \in Nat, NEW i \in 1..3
      PROVE  m * UiUnit < x.a[i] * 10^dec <=> m < limit(i)
  <2>1. UiUnit \in Nat \ {0} /\ x.a[i] \in Nat
    BY <1>1, DecimalsAssumption, Zenon
  <2> DEFINE p == 10^dec
             b == x.a[i]
  <2>2. p = UiUnit * q
    BY <1>3
  <2> HIDE DEF p, b
  <2>3. b * p = (b * q) * UiUnit
    BY <2>1, <2>2 DEF b
  <2>4. b * q \in Nat
    BY <2>1, MulOrder DEF b
  <2>5. /\ (b * q) * UiUnit <= m * UiUnit <=> b * q <= m
        /\ (b * q) * UiUnit \in Nat /\ m * UiUnit \in Nat
    BY <2>1, <2>4, MulOrder
  <2>6. m * UiUnit < b * p <=> m < b * q
    BY <2>3, <2>4, <2>5
  <2> QED
    BY <1>6, <2>6 DEF p, b
<1>8. \A i, j \in 1..4 : i <= j => x.r[j] <= x.r[i]
  BY <1>1
<1>9. \A i, j \in 1..4 : i <= j => left(i) <= left(j) /\ left(i) \in Nat /\ left(j) \in Nat
  <2> SUFFICES ASSUME NEW i \in 1..4, NEW j \in 1..4, i <= j
               PROVE  left(i) <= left(j) /\ left(i) \in Nat /\ left(j) \in Nat
    OBVIOUS
  <2>1. x.r[i] \in 0..FullRatio /\ x.r[j] \in 0..FullRatio /\ x.r[j] <= x.r[i]
    BY <1>1, <1>8
  <2>2. /\ Net(n, x.r[i], k) <= Net(n, x.r[j], k)
        /\ Net(n, x.r[i], k) \in 0..n /\ Net(n, x.r[j], k) \in 0..n
    BY <1>2, <2>1, NetMono
  <2> QED
    BY <2>2
<1> HIDE DEF left, limit, tier
<1>10. tier \in 1..4 /\ left(tier) \in Nat
  BY <1>5, <1>9
<1>11. \A i \in 1..3 : left(tier) < limit(i) <=> i >= tier /\ left(tier) < limit(i)
  <2> SUFFICES ASSUME NEW i \in 1..3, i < tier PROVE ~(left(tier) < limit(i))
    BY <1>10
  <2>1. limit(i) <= left(i)
    BY <1>5, <1>6, <1>9
  <2>2. left(i) <= left(tier)
    BY <1>9, <1>10
  <2> QED
    BY <1>6, <1>9, <1>10, <2>1, <2>2
<1>12. tier # 4 => left(tier) < limit(tier)
  BY <1>5, <1>6, <1>9
<1> DEFINE m == left(tier)
           B == Below(x, m, dec)
           F == FarBelow(x, m, dec)
<1>13. \A i \in 1..3 : i \in B <=> m < limit(i)
  BY <1>7, <1>10 DEF Below
<1>14. B \subseteq 1..3 /\ F \subseteq B
  BY DEF Below, FarBelow
<1> HIDE DEF B, F
<1>15. FirstTier(B) = tier
  <2>1. \A i \in 1..3 : i \in B => i >= tier
    BY <1>11, <1>13
  <2>2. tier # 4 => tier \in B
    BY <1>10, <1>12, <1>13
  <2> QED
    BY <1>10, <2>1, <2>2 DEF FirstTier
<1>16. GetBridgeFeeNotIncluded(x, m, dec) = { x.r[FirstTier(S)] : S \in { C \in SUBSET B : F \subseteq C } }
  BY DEF GetBridgeFeeNotIncluded, B, F
<1>17. r \in GetBridgeFeeNotIncluded(x, m, dec)
  BY <1>4, <1>14, <1>15, <1>16
<1>18. ASSUME NEW S \in SUBSET B PROVE x.r[FirstTier(S)] <= r
  <2>1. FirstTier(B) <= FirstTier(S) /\ FirstTier(S) \in 1..4
    BY <1>18 DEF FirstTier
  <2> QED
    BY <1>4, <1>8, <1>10, <1>15, <2>1
<1>19. 10^dec <= FloatUnit => F = B
  <2> SUFFICES ASSUME 10^dec <= FloatUnit, NEW i \in B
               PROVE  (x.a[i] * 10^dec - m * UiUnit) * FloatUnit >= UiUnit * 10^dec
    BY <1>14 DEF F, B, FarBelow
  <2>1. i \in 1..3 /\ m < limit(i) /\ m \in Nat
    BY <1>10, <1>13, <1>14
  <2>2. FloatUnit \in Nat /\ UiUnit \in Nat \ {0}
    BY DecimalsAssumption, Zenon
  <2> QED
    BY <1>1, <1>3, <1>6, <2>1, <2>2, GapIsSeen
<1>20. 10^dec <= FloatUnit => GetBridgeFeeNotIncluded(x, m, dec) = {r}
  BY <1>4, <1>15, <1>16, <1>19
<1>21. m = Net(n, r, k)
  BY <1>4 DEF left
<1> QED
  BY <1>16, <1>17, <1>18, <1>20, <1>21

-----------------------------------------------------------------------------
\* The entries come from the tables whatever was reloaded, and a call keeps
\* the amount it was given and the entry it read, and has no results before
\* its second lookup.
EntryInv == decimals \in Decimals /\ dtc \in DtcEntries /\ fee \in FeeEntries

CallOK ==
  call \in [pc : {"idle", "ratio", "done"}, value : Nat, first : FeeEntries,
            ratio : 0..FullRatio, amount : Int]

NoResultsYet == call.pc # "done" => call.ratio = 0 /\ call.amount = 0

\* GetMinValueIncludeGasFee tries the dtcs of the entry it read first.  As long
\* as every lookup finds that entry, none of those before has paid for itself.
MinOK ==
  /\ least \in [pc : {"idle", "try", "done"}, first : DtcEntries, i : 1..4,
                result : SUBSET Nat, steady : BOOLEAN]
  /\ least.pc = "try" /\ least.steady =>
       \A x \in least.first : \A k \in 1..(least.i - 1) : ~Pays(InUnits(x, decimals), k)

FeesInv == EntryInv /\ CallOK /\ NoResultsYet /\ DetailIsFair /\ MinOK /\ MinValueIsLeast

LEMMA NoMinTyped ==
  NoMin \in [pc : {"idle", "try", "done"}, first : DtcEntries, i : 1..4,
             result : SUBSET Nat, steady : BOOLEAN]
<1>1. {} \in DtcEntries
  BY DEF DtcEntries
<1> QED
  BY <1>1 DEF NoMin

LEMMA FeesBegin == FeeInit => FeesInv
<1> SUFFICES ASSUME FeeInit PROVE FeesInv
  OBVIOUS
<1>1. EntryInv
  BY Zenon DEF FeeInit, EntryInv
<1>2. {} \in FeeEntries /\ 0 \in 0..FullRatio
  BY RatioUnit DEF FeeEntries
<1>3. CallOK /\ NoResultsYet /\ DetailIsFair
  BY <1>2 DEF FeeInit, CallOK, NoResultsYet, NoCall, DetailIsFair
<1>4. MinOK /\ MinValueIsLeast
  BY NoMinTyped DEF FeeInit, MinOK, MinValueIsLeast, NoMin
<1> QED
  BY <1>1, <1>3, <1>4 DEF FeesInv

\* What leaves the call of GetMinValueIncludeGasFee alone.
LEMMA MinStays ==
  ASSUME FeesInv, UNCHANGED <<decimals, least>> PROVE MinOK' /\ MinValueIsLeast'
<1>1. MinOK'
  BY DEF FeesInv, MinOK
<1>2. MinValueIsLeast'
  BY DEF FeesInv, MinValueIsLeast, GetIncludedDtcBigInt, InUnits
<1> QED
  BY <1>1, <1>2

\* The call of GetMinValueIncludeGasFee: it returns the first dtc of its entry
\* that pays for itself, if the entry stays.
LEMMA MinSteps ==
  ASSUME FeesInv, MinBegin \/ MinTry \/ MinReturn PROVE FeesInv'
<1>1. UNCHANGED <<decimals, dtc, fee, call>>
  BY Zenon DEF MinBegin, MinTry, MinReturn
<1>2. EntryInv' /\ CallOK' /\ NoResultsYet' /\ DetailIsFair'
  BY <1>1 DEF FeesInv, EntryInv, CallOK, NoResultsYet, DetailIsFair
<1>3. CASE MinBegin
  <2> DEFINE where == IF dtc = {} THEN "done" ELSE "try"
  <2>1. dtc \in DtcEntries /\ where \in {"idle", "try", "done"} /\ (where = "done" => dtc = {})
    BY DEF FeesInv, EntryInv
  <2>2. least' = [NoMin EXCEPT !.pc = where, !.first = dtc]
    BY <1>3 DEF MinBegin
  <2> HIDE DEF where
  <2>3. least' = [pc |-> where, first |-> dtc, i |-> 1, result |-> {}, steady |-> TRUE]
    BY <2>2 DEF NoMin
  <2>4. MinOK'
    BY <2>1, <2>3 DEF MinOK
  <2>5. MinValueIsLeast'
    BY <2>1, <2>3 DEF MinValueIsLeast
  <2> QED
    BY <1>2, <2>4, <2>5 DEF FeesInv
<1>4. CASE MinReturn
  <2>1. least' = NoMin /\ NoMin.pc = "idle"
    BY <1>4 DEF MinReturn, NoMin
  <2>2. MinOK' /\ MinValueIsLeast'
    BY <2>1, NoMinTyped DEF MinOK, MinValueIsLeast
  <2> QED
    BY <1>2, <2>2 DEF FeesInv
<1>5. CASE MinTry
  <2>1. least.pc = "try" /\ MinOK
    BY <1>5, Zenon DEF MinTry, FeesInv
  <2>2. PICK x \in least.first :
          LET m == InUnits(x, decimals).d[least.i]
              pays == \E y \in dtc : GetIncludedDtcBigInt(y, m, decimals) <= m
          IN  least' = [least EXCEPT !.pc = IF pays \/ least.i = 4 THEN "done" ELSE "try",
                              !.i = IF pays \/ least.i = 4 THEN least.i ELSE least.i + 1,
                              !.result = IF pays THEN {m} ELSE {},
                              !.steady = @ /\ dtc = least.first]
    BY <1>5, Zenon DEF MinTry
  <2>3. least.first = {x} /\ x \in DtcConfigs /\ least.first \in DtcEntries
    BY <2>1, <2>2 DEF MinOK, DtcEntries
  <2> DEFINE c == InUnits(x, decimals)
             m == c.d[least.i]
             pays == \E y \in dtc : GetIncludedDtcBigInt(y, m, decimals) <= m
  <2>4. least' = [least EXCEPT !.pc = IF pays \/ least.i = 4 THEN "done" ELSE "try",
                              !.i = IF pays \/ least.i = 4 THEN least.i ELSE least.i + 1,
                              !.result = IF pays THEN {m} ELSE {},
                              !.steady = @ /\ dtc = least.first]
    BY <2>2
  <2>5. c \in Tiers
    BY <2>3, InUnitsTiers DEF FeesInv, EntryInv
  <2>6. dtc = {x} => (pays <=> Pays(c, least.i))
    BY DEF GetIncludedDtcBigInt, Pays
  <2> HIDE DEF pays, m
  <2>7. \A n : GetIncludedDtcBigInt(x, n, decimals) = Included(c, n)
    BY DEF GetIncludedDtcBigInt
  <2> HIDE DEF c
  <2>8. least.steady => \A k \in 1..(least.i - 1) : ~Pays(c, k)
    BY <2>1, <2>3 DEF MinOK, c
  <2> DEFINE where == IF pays \/ least.i = 4 THEN "done" ELSE "try"
             next == IF pays \/ least.i = 4 THEN least.i ELSE least.i + 1
             found == IF pays THEN {m} ELSE {}
             same == least.steady /\ dtc = least.first
  <2>9. /\ where \in {"idle", "try", "done"} /\ next \in 1..4 /\ same \in BOOLEAN
        /\ found \in SUBSET Nat /\ least.i \in 1..4
    <3>1. least.i \in 1..4 /\ least.steady \in BOOLEAN
      BY <2>1 DEF MinOK
    <3>2. m \in Nat
      BY <2>5, <3>1 DEF m, Tiers
    <3> QED
      BY <3>1, <3>2
  <2>10. least' = [least EXCEPT !.pc = where, !.i = next, !.result = found, !.steady = same]
    BY <2>4
  <2>11. /\ where = "try" => ~pays /\ least.i # 4 /\ next = least.i + 1
         /\ where = "done" => pays \/ least.i = 4
         /\ same => least.steady /\ (pays <=> Pays(c, least.i))
    BY <2>3, <2>6
  <2>12. pays => found = {m}
    OBVIOUS
  <2> HIDE DEF where, next, found, same
  <2>13. /\ least' \in [pc : {"idle", "try", "done"}, first : DtcEntries, i : 1..4,
                          result : SUBSET Nat, steady : BOOLEAN]
         /\ least'.pc = where /\ least'.i = next /\ least'.result = found
         /\ least'.steady = same /\ least'.first = {x}
    BY <2>1, <2>3, <2>9, <2>10 DEF MinOK
  <2>14. ASSUME where = "try", same, NEW k \in 1..(next - 1) PROVE ~Pays(c, k)
    BY <2>8, <2>9, <2>11, <2>14
  <2>15. MinOK'
    BY <1>1, <2>13, <2>14 DEF MinOK, c
  <2>16. ASSUME where = "done", same, Rising(c)
         PROVE  \E v \in found : /\ Included(c, v) <= v
                                 /\ \A n \in 0..(v - 1) : Included(c, n) > n
    <3>1. PICK i \in 1..4 : /\ Pays(c, i) /\ \A k \in 1..(i - 1) : ~Pays(c, k)
                            /\ \A n \in 0..(c.d[i] - 1) : Included(c, n) > n
      BY <2>5, <2>16, LeastPayer
    <3>2. \A k \in 1..(least.i - 1) : ~Pays(c, k)
      BY <2>8, <2>11, <2>16
    <3>3. i >= least.i
      BY <2>9, <3>1, <3>2
    <3>4. pays
      BY <2>9, <2>11, <2>16, <3>1, <3>3
    <3>5. i = least.i
      BY <2>9, <2>11, <2>16, <3>1, <3>3, <3>4
    <3> QED
      BY <2>12, <3>1, <3>4, <3>5 DEF m, Pays
  <2>17. MinValueIsLeast'
    <3> SUFFICES ASSUME where = "done", same, Rising(c)
                 PROVE  \E v \in found :
                          /\ GetIncludedDtcBigInt(x, v, decimals) <= v
                          /\ \A n \in 0..(v - 1) : GetIncludedDtcBigInt(x, n, decimals) > n
      BY <1>1, <2>13 DEF MinValueIsLeast, c
    <3> QED
      BY <2>7, <2>16
  <2> QED
    BY <1>2, <2>15, <2>17 DEF FeesInv
<1> QED
  BY <1>3, <1>4, <1>5

\* The call finds no entry, or goes on with the one it found.
LEMMA DetailBegins ==
  ASSUME FeesInv, NEW n \in Values, DetailBegin(n)
  PROVE  FeesInv'
<1>1. n \in Nat
  BY FeeAssumption
<1>2. EntryInv' /\ UNCHANGED decimals
  BY DEF FeesInv, EntryInv, DetailBegin
<1>3. /\ call' \in [pc : {"idle", "ratio", "done"}, value : Nat, first : FeeEntries,
                     ratio : 0..FullRatio, amount : Int]
      /\ call'.value = n /\ call'.first = fee /\ call'.ratio = 0 /\ call'.amount = 0
      /\ call'.pc = "done" => fee = {}
  <2> DEFINE where == IF fee = {} THEN "done" ELSE "ratio"
  <2>1. /\ where \in {"idle", "ratio", "done"}
        /\ where = "done" => fee = {}
    OBVIOUS
  <2>2. 0 \in 0..FullRatio /\ fee \in FeeEntries
    BY RatioUnit DEF FeesInv, EntryInv
  <2>3. call' = [NoCall EXCEPT !.pc = where, !.value = n, !.first = fee]
    BY DEF DetailBegin
  <2> HIDE DEF where
  <2>4. call' = [pc |-> where, value |-> n, first |-> fee, ratio |-> 0, amount |-> 0]
    BY <2>3 DEF NoCall
  <2> QED
    BY <1>1, <2>1, <2>2, <2>4
<1>4. DetailIsFair'
  <2> SUFFICES ASSUME fee = {}, call'.pc = "done"
               PROVE  DetailIsFair'
    BY <1>3 DEF DetailIsFair
  <2>1. 0 % 1 = 0
    BY SMT
  <2> QED
    BY <1>1, <1>3, <2>1 DEF DetailIsFair
<1>5. MinOK' /\ MinValueIsLeast'
  BY MinStays DEF DetailBegin
<1> QED
  BY <1>2, <1>3, <1>4, <1>5 DEF FeesInv, CallOK, NoResultsYet

\* Whatever entry the second lookup finds, the amount goes with its ratio.
LEMMA DetailEnds == ASSUME FeesInv, DetailEnd PROVE FeesInv'
<1>1. EntryInv' /\ UNCHANGED decimals /\ decimals \in Decimals
  BY DEF FeesInv, EntryInv, DetailEnd
<1>2. /\ call.pc = "ratio" /\ CallOK /\ call.ratio \in 0..FullRatio /\ call.value \in Nat
      /\ call.ratio = 0 /\ call.amount = 0
  BY DEF FeesInv, CallOK, NoResultsYet, DetailEnd
<1> DEFINE rs == UNION { GetIncludedBridgeFeeBigInt(y, call.value, decimals) : y \in fee }
<1>3. PICK x \in call.first :
        \/ rs = {} /\ call' = [call EXCEPT !.pc = "done"]
        \/ \E r \in rs : call' = [call EXCEPT !.pc = "done", !.ratio = r,
                             !.amount = call.value - Net(call.value, r, Scale(x, decimals))]
  BY DEF DetailEnd
<1>4. x \in FeeConfigs /\ call.first = {x}
  BY <1>2 DEF CallOK, FeeEntries
<1>5. Scale(x, decimals) \in Nat \ {0}
  BY <1>1, <1>4, ScaleNat
<1>6. ASSUME NEW r \in rs PROVE r \in 0..FullRatio
  <2>1. PICK y \in fee : r \in GetIncludedBridgeFeeBigInt(y, call.value, decimals)
    OBVIOUS
  <2>2. y \in FeeConfigs
    BY DEF FeesInv, EntryInv, FeeEntries
  <2>3. y.r \in [1..4 -> 0..FullRatio]
    BY <2>2, FeeAssumption, Zenon
  <2>4. r = y.r[IncludedTier(y, call.value, decimals)]
    BY <2>1 DEF GetIncludedBridgeFeeBigInt
  <2>5. IncludedTier(y, call.value, decimals) \in 1..4
    BY DEF IncludedTier
  <2> QED
    BY <2>3, <2>4, <2>5
<1> HIDE DEF rs
<1>7. PICK r \in 0..FullRatio, a \in Int :
        /\ call' \in [pc : {"idle", "ratio", "done"}, value : Nat, first : FeeEntries,
                       ratio : 0..FullRatio, amount : Int]
        /\ call'.pc = "done"
        /\ call'.value = call.value /\ call'.first = call.first /\ call'.ratio = r /\ call'.amount = a
        /\ a \in 0..call.value /\ a % Scale(x, decimals) = 0
        /\ r > 0 => /\ a <= (call.value * r) \div FullRatio
                    /\ (call.value * r) \div FullRatio < a + Scale(x, decimals)
        /\ r = 0 => a = 0
  <2>1. CASE \E r \in rs : call' = [call EXCEPT !.pc = "done", !.ratio = r,
                             !.amount = call.value - Net(call.value, r, Scale(x, decimals))]
    <3>1. PICK r \in rs : call' = [call EXCEPT !.pc = "done", !.ratio = r,
                             !.amount = call.value - Net(call.value, r, Scale(x, decimals))]
      BY <2>1
    <3> DEFINE a == call.value - Net(call.value, r, Scale(x, decimals))
    <3>2. r \in 0..FullRatio
      BY <1>6
    <3>3. /\ a \in 0..call.value /\ a % Scale(x, decimals) = 0
          /\ r > 0 => /\ a <= (call.value * r) \div FullRatio
                      /\ (call.value * r) \div FullRatio < a + Scale(x, decimals)
          /\ r = 0 => a = 0
      BY <1>2, <1>5, <3>2, NetFacts
    <3>4. call' = [call EXCEPT !.pc = "done", !.ratio = r, !.amount = a]
      BY <3>1
    <3> HIDE DEF a
    <3>5. a \in Int
      BY <1>2, <3>3
    <3>6. /\ call' \in [pc : {"idle", "ratio", "done"}, value : Nat, first : FeeEntries,
                         ratio : 0..FullRatio, amount : Int]
          /\ call'.pc = "done"
          /\ call'.value = call.value /\ call'.first = call.first /\ call'.ratio = r /\ call'.amount = a
      BY <1>2, <3>2, <3>4, <3>5 DEF CallOK
    <3> QED
      BY <3>2, <3>3, <3>5, <3>6
  <2>2. CASE call' = [call EXCEPT !.pc = "done"]
    <3>1. 0 % Scale(x, decimals) = 0
      BY <1>5
    <3>2. 0 \in 0..FullRatio /\ 0 \in Int /\ 0 \in 0..call.value
      BY <1>2, RatioUnit
    <3>3. /\ call' \in [pc : {"idle", "ratio", "done"}, value : Nat, first : FeeEntries,
                         ratio : 0..FullRatio, amount : Int]
          /\ call'.pc = "done"
          /\ call'.value = call.value /\ call'.first = call.first /\ call'.ratio = 0 /\ call'.amount = 0
      BY <1>2, <2>2 DEF CallOK
    <3> QED
      BY <3>1, <3>2, <3>3
  <2> QED
    BY <1>3, <2>1, <2>2
<1>8. DetailIsFair'
  <2>1. (CHOOSE y \in call.first : TRUE) = x /\ call.first # {}
    BY <1>4
  <2> QED
    BY <1>1, <1>7, <2>1 DEF DetailIsFair
<1>9. MinOK' /\ MinValueIsLeast'
  BY MinStays DEF DetailEnd
<1> QED
  BY <1>1, <1>7, <1>8, <1>9 DEF FeesInv, CallOK, NoResultsYet

LEMMA FeesStep == FeesInv /\ [FeeNext]_feeVars => FeesInv'
<1> SUFFICES ASSUME FeesInv, [FeeNext]_feeVars PROVE FeesInv'
  OBVIOUS
<1>1. CASE UNCHANGED feeVars
  <2>1. EntryInv' /\ CallOK' /\ NoResultsYet' /\ DetailIsFair'
    BY <1>1 DEF FeesInv, EntryInv, CallOK, NoResultsYet, DetailIsFair, feeVars
  <2> QED
    BY <1>1, <2>1, MinStays DEF FeesInv, feeVars
<1>2. CASE LoadAllDtc \/ LoadAllBridgeFee
  <2>1. EntryInv' /\ CallOK' /\ NoResultsYet' /\ DetailIsFair'
    BY <1>2 DEF FeesInv, EntryInv, CallOK, NoResultsYet, DetailIsFair, LoadAllDtc, LoadAllBridgeFee
  <2> QED
    BY <1>2, <2>1, MinStays DEF FeesInv, LoadAllDtc, LoadAllBridgeFee
<1>3. CASE Return
  <2>1. EntryInv'
    BY <1>3 DEF FeesInv, EntryInv, Return
  <2>2. {} \in FeeEntries /\ 0 \in 0..FullRatio
    BY RatioUnit DEF FeeEntries
  <2>3. CallOK' /\ NoResultsYet' /\ DetailIsFair'
    BY <1>3, <2>2 DEF Return, CallOK, NoResultsYet, NoCall, DetailIsFair
  <2>4. MinOK' /\ MinValueIsLeast'
    BY <1>3, MinStays DEF Return
  <2> QED
    BY <2>1, <2>3, <2>4 DEF FeesInv
<1> QED
  BY <1>1, <1>2, <1>3, MinSteps, DetailBegins, DetailEnds DEF FeeNext

\* The amounts of the run are among those that round trip.
LEMMA InvRoundTrip == FeesInv => DtcRoundTrip
<1>1. \A n \in Amounts : n \in Nat
  BY SMT DEF Amounts
<1>2. FeesInv => decimals \in Decimals /\ \A x \in dtc : x \in DtcConfigs
  BY DEF FeesInv, EntryInv, DtcEntries
<1>3. QED
  BY <1>1, <1>2, DtcRoundTripForAll, Zenon DEF DtcRoundTrip

\* The dtc a sender adds is the one found in the sum, for every table, every
\* token and every sequence of reloads.
THEOREM AddedIsIncluded == FeeSpec => []DtcRoundTrip
  BY FeesBegin, FeesStep, InvRoundTrip, PTL DEF FeeSpec

\* The quotes of the two managers agree with each other: the dtc added with the
\* dtc found in the sum; float64 functions with big.Int ones, but for the
\* rounding at the limits; the result of GetMinValueIncludeGasFee, if no reload
\* comes between its lookups, with the dtc it has to pay; the fee taken from a
\* sum with the fee put on top, as far as floats tell amounts apart; and, across
\* reloads, GetBridgeFeeDetail's amount with its ratio.
THEOREM QuotesAreSound == FeeSpec => []QuotesAgree
<1>1. FeesInv => QuotesAgree
  <2> SUFFICES ASSUME FeesInv PROVE QuotesAgree
    OBVIOUS
  <2>1. /\ decimals \in Decimals /\ \A x \in dtc : x \in DtcConfigs
        /\ \A n \in Amounts : n \in Nat
    BY DEF FeesInv, EntryInv, DtcEntries, Amounts
  <2>2. DtcFormsAgree
    BY <2>1, DtcForms, Zenon DEF DtcFormsAgree, EnoughDigits
  <2>3. MinValueIsLeast
    BY DEF FeesInv
  <2>4. FeeTiersAgree
    <3>1. \A x \in fee : x \in FeeConfigs
      BY DEF FeesInv, EntryInv, FeeEntries
    <3>2. \A n \in Values : n \in Nat
      BY FeeAssumption, Zenon
    <3> QED
      BY <2>1, <3>1, <3>2, FeeTiers, Zenon DEF FeeTiersAgree, EnoughDigits
  <2> QED
    BY <2>2, <2>3, <2>4, InvRoundTrip, Zenon DEF FeesInv, QuotesAgree
<1> QED
  BY FeesBegin, FeesStep, <1>1, PTL DEF FeeSpec

-----------------------------------------------------------------------------
\* A nonempty set of naturals has a least element, which is what a loop that
\* goes up meets first.
LEMMA LeastNat ==
  ASSUME NEW S \in SUBSET Nat, S # {}
  PROVE  \E m \in S : \A n \in S : m <= n
<1> DEFINE R == OpToRel(<, Nat)
<1>1. IsWellFoundedOn(R, Nat)
  BY NatLessThanWellFounded
<1>2. \A m, n \in Nat : m < n => <<m, n>> \in R
  BY DEF OpToRel
<1> HIDE DEF R
<1>3. PICK m \in S : \A n \in S : ~(<<n, m>> \in R)
  BY <1>1, WFMin
<1>4. \A n \in S : ~(n < m)
  BY <1>2, <1>3
<1> QED
  BY <1>4

\* findMatchingSegment returns the first segment that has the amount: one that
\* has it, and none only if none has it.
LEMMA MatchFacts ==
  ASSUME NEW segs, NEW id, NEW amt, GetFeeSegments(segs, id) \in Seq(Segment)
  PROVE  /\ \A seg \in findMatchingSegment(segs, id, amt) : seg \in Segment /\ SegmentHas(seg, amt)
         /\ findMatchingSegment(segs, id, amt) = {} =>
              \A i \in 1..Len(GetFeeSegments(segs, id)) :
                ~SegmentHas(GetFeeSegments(segs, id)[i], amt)
<1> DEFINE s == GetFeeSegments(segs, id)
           first == { i \in DOMAIN s : SegmentHas(s[i], amt)
                                       /\ \A k \in 1..(i - 1) : ~SegmentHas(s[k], amt) }
<1>1. findMatchingSegment(segs, id, amt) = { s[i] : i \in first }
  BY DEF findMatchingSegment, FirstWith
<1>2. s \in Seq(Segment) /\ DOMAIN s = 1..Len(s) /\ Len(s) \in Nat
  OBVIOUS
<1> HIDE DEF s
<1>3. ASSUME NEW i \in 1..Len(s), SegmentHas(s[i], amt)
      PROVE  first # {}
  <2> DEFINE having == { j \in 1..Len(s) : SegmentHas(s[j], amt) }
  <2>1. having \in SUBSET Nat /\ having # {}
    BY <1>2, <1>3
  <2>2. PICK m \in having : \A j \in having : m <= j
    BY <2>1, LeastNat
  <2>3. \A k \in 1..(m - 1) : k \in 1..Len(s) /\ ~(m <= k)
    BY <1>2
  <2>4. m \in first
    BY <1>2, <2>2, <2>3
  <2> QED
    BY <2>4
<1>4. \A i \in first : s[i] \in Segment /\ SegmentHas(s[i], amt)
  BY <1>2
<1>5. { s[i] : i \in first } = {} => first = {}
  OBVIOUS
<1> HIDE DEF first
<1>6. \A seg \in findMatchingSegment(segs, id, amt) : seg \in Segment /\ SegmentHas(seg, amt)
  BY <1>1, <1>4
<1>7. findMatchingSegment(segs, id, amt) = {} => \A i \in 1..Len(s) : ~SegmentHas(s[i], amt)
  BY <1>1, <1>3, <1>5
<1> QED
  BY <1>6, <1>7 DEF s

-----------------------------------------------------------------------------
\* Amounts in smallest units are naturals, and what is rounded off is less
\* than one of them.
LEMMA WeiFacts ==
  ASSUME NEW ui \in Nat, NEW dec \in RouteDecimals
  PROVE  /\ 10^dec \in Nat \ {0} /\ Wei(ui, dec) \in Nat
         /\ Wei(ui, dec) * AmountUnit <= ui * 10^dec
         /\ ui * 10^dec < (Wei(ui, dec) + 1) * AmountUnit
<1> DEFINE p == 10^dec
<1>1. p \in Nat \ {0} /\ AmountUnit \in Nat \ {0}
  BY RouteAssumption, Zenon
<1>2. Wei(ui, dec) = (ui * p) \div AmountUnit
  BY DEF Wei
<1> HIDE DEF p
<1>3. ui * p \in Nat
  BY <1>1, MulMono
<1>4. \A m \in Nat, k \in Nat \ {0} : /\ m \div k \in Nat
                                      /\ (m \div k) * k <= m /\ m < ((m \div k) + 1) * k
  BY Z3
<1>5. /\ Wei(ui, dec) \in Nat /\ Wei(ui, dec) * AmountUnit <= ui * p
      /\ ui * p < (Wei(ui, dec) + 1) * AmountUnit
  BY <1>1, <1>2, <1>3, <1>4
<1> QED
  BY <1>1, <1>5, Zenon DEF p

\* The share of n at rate r, in ten-thousandths.
Share(n, r) == (n * r) \div FullRate

LEMMA RateUnit == FullRate \in Nat \ {0}
BY SMT DEF FullRate

LEMMA ShareOfWei ==
  ASSUME NEW n \in Nat, NEW r \in Nat
  PROVE  /\ Share(n, r) \in Nat
         /\ Share(n, r) * FullRate <= n * r /\ n * r < (Share(n, r) + 1) * FullRate
<1>1. n * r \in Nat
  BY MulMono
<1>2. \A m \in Nat, k \in Nat \ {0} : /\ m \div k \in Nat
                                      /\ (m \div k) * k <= m /\ m < ((m \div k) + 1) * k
  BY Z3
<1> QED
  BY <1>1, <1>2, RateUnit, Zenon DEF Share

\* What calculateFee returns: the fixed fee in smallest units, from the table
\* or left behind by a failed SetString, twice, and the share.
LEMMA FeeFacts ==
  ASSUME NEW amt \in Nat, NEW seg \in Segment, NEW dec \in RouteDecimals,
         NEW f \in calculateFee(amt, seg, dec)
  PROVE  /\ \E x \in Nat :
              /\ seg.fixed >= 0 => x = seg.fixed
              /\ seg.fixed = NoLimit => x = 0
              /\ f.total = (Wei(x, dec) + Wei(x, dec)) + Share(Wei(amt, dec), seg.rate)
         /\ f.protocol = Share(Wei(amt, dec), seg.protocol)
         /\ f.total \in Nat
<1> DEFINE fixeds == IF seg.fixed = BadNumber THEN Leftovers
                     ELSE {IF seg.fixed = NoLimit THEN 0 ELSE seg.fixed}
<1>1. PICK x \in fixeds :
        f = [channel |-> Wei(x, dec),
             owlto |-> Wei(x, dec) + (Wei(amt, dec) * seg.rate) \div FullRate,
             total |-> Wei(x, dec) + (Wei(x, dec) + (Wei(amt, dec) * seg.rate) \div FullRate),
             protocol |-> (Wei(amt, dec) * seg.protocol) \div FullRate]
  BY DEF calculateFee
<1>2. seg.fixed \in Limits /\ seg.rate \in Nat /\ seg.protocol \in Nat
  BY DEF Segment
<1>3. x \in Nat /\ (seg.fixed >= 0 => x = seg.fixed) /\ (seg.fixed = NoLimit => x = 0)
  BY <1>2, RouteAssumption DEF Limits, NoLimit, BadNumber
<1> HIDE DEF fixeds
<1>4. Wei(x, dec) \in Nat /\ Wei(amt, dec) \in Nat
  BY <1>3, WeiFacts
<1>5. f.total = Wei(x, dec) + (Wei(x, dec) + Share(Wei(amt, dec), seg.rate))
  BY <1>1 DEF Share
<1>6. f.protocol = Share(Wei(amt, dec), seg.protocol)
  BY <1>1 DEF Share
<1>7. Share(Wei(amt, dec), seg.rate) \in Nat
  BY <1>2, <1>4, ShareOfWei, Zenon
<1>8. /\ f.total = (Wei(x, dec) + Wei(x, dec)) + Share(Wei(amt, dec), seg.rate)
      /\ f.total \in Nat
  BY <1>4, <1>5, <1>7
<1> QED
  BY <1>3, <1>6, <1>8

\* A share is of the amount in smallest units: it falls short of the exact one
\* by less than one unit and the share of one.
LEMMA ShareIsFair ==
  ASSUME NEW amt \in Nat, NEW r \in Nat, NEW dec \in RouteDecimals
  PROVE  LET s == Share(Wei(amt, dec), r) IN
         /\ s \in Nat
         /\ s * FullRate * AmountUnit <= amt * 10^dec * r
         /\ amt * 10^dec * r < ((s + 1) * FullRate + r) * AmountUnit
<1> DEFINE w == Wei(amt, dec)
           s == Share(w, r)
           e == amt * 10^dec
           u == AmountUnit
<1>1. w \in Nat /\ w * u <= e /\ e < (w + 1) * u /\ u \in Nat \ {0} /\ e \in Nat
  <2>1. 10^dec \in Nat
    BY WeiFacts
  <2>2. amt * 10^dec \in Nat
    BY <2>1, MulMono
  <2> QED
    BY <2>2, WeiFacts, RouteAssumption
<1> HIDE DEF w, e, u
<1>2. s \in Nat /\ s * FullRate <= w * r /\ w * r < (s + 1) * FullRate
  BY <1>1, ShareOfWei
<1> HIDE DEF s
<1>3. (s * FullRate) * u <= (w * r) * u
  <2>1. s * FullRate \in Nat /\ w * r \in Nat
    BY <1>1, <1>2, MulMono, RateUnit
  <2> QED
    BY <1>1, <1>2, <2>1, MulOrder
<1>4. (w * u) * r <= e * r
  <2>1. w * u \in Nat
    BY <1>1, MulMono
  <2>2. r * (w * u) <= r * e
    BY <1>1, <2>1, MulMono
  <2> QED
    BY <1>1, <2>1, <2>2
<1>5. (w * r) * u = (w * u) * r
  BY <1>1
<1>6. e * r <= ((w + 1) * u) * r
  <2>1. (w + 1) * u \in Nat
    BY <1>1, MulMono
  <2>2. r * e <= r * ((w + 1) * u)
    BY <1>1, <2>1, MulMono
  <2> QED
    BY <1>1, <2>1, <2>2
<1>7. ((w + 1) * u) * r = (w * r + r) * u
  BY <1>1
<1>8. (w * r + r) * u < ((s + 1) * FullRate + r) * u
  <2>1. w * r \in Nat /\ s + 1 \in Nat /\ (s + 1) * FullRate \in Nat
    BY <1>1, <1>2, MulMono, RateUnit
  <2>2. w * r + r < (s + 1) * FullRate + r
    BY <1>2, <2>1
  <2> DEFINE a == w * r + r
             b == (s + 1) * FullRate + r
  <2>3. a \in Nat /\ b \in Nat
    BY <2>1
  <2> HIDE DEF a, b
  <2>4. (b * u <= a * u <=> b <= a) /\ a * u \in Nat /\ b * u \in Nat
    BY <1>1, <2>3, MulOrder
  <2> QED
    BY <2>2, <2>3, <2>4 DEF a, b
<1>9. s * FullRate * u <= e * r
  <2>1. (s * FullRate) * u \in Nat /\ (w * r) * u \in Nat /\ e * r \in Nat
    <3>1. s * FullRate \in Nat /\ w * r \in Nat
      BY <1>1, <1>2, MulMono, RateUnit
    <3> QED
      BY <1>1, <3>1, MulMono
  <2> QED
    BY <1>3, <1>4, <1>5, <2>1
<1>10. e * r < ((s + 1) * FullRate + r) * u
  <2>1. e * r \in Nat /\ (w * r + r) * u \in Nat /\ ((s + 1) * FullRate + r) * u \in Nat
    <3>1. w * r + r \in Nat /\ (s + 1) * FullRate + r \in Nat
      BY <1>1, <1>2, MulMono, RateUnit
    <3> QED
      BY <1>1, <3>1, MulMono
  <2> QED
    BY <1>6, <1>7, <1>8, <2>1
<1> QED
  BY <1>2, <1>9, <1>10 DEF s, w, e, u

\* A larger amount costs no less in the same segment.
LEMMA FeeIsMonotone ==
  ASSUME NEW a \in Nat, NEW b \in Nat, a <= b, NEW seg \in Segment, NEW dec \in RouteDecimals,
         seg.fixed # BadNumber,
         NEW f \in calculateFee(a, seg, dec), NEW g \in calculateFee(b, seg, dec)
  PROVE  f.total <= g.total
<1>1. seg.fixed \in Limits /\ seg.rate \in Nat
  BY DEF Segment
<1>2. PICK x \in Nat :
        /\ seg.fixed >= 0 => x = seg.fixed
        /\ seg.fixed = NoLimit => x = 0
        /\ f.total = (Wei(x, dec) + Wei(x, dec)) + Share(Wei(a, dec), seg.rate)
  BY FeeFacts, Zenon
<1>3. PICK y \in Nat :
        /\ seg.fixed >= 0 => y = seg.fixed
        /\ seg.fixed = NoLimit => y = 0
        /\ g.total = (Wei(y, dec) + Wei(y, dec)) + Share(Wei(b, dec), seg.rate)
  BY FeeFacts, Zenon
<1>4. x = y
  BY <1>1, <1>2, <1>3 DEF Limits, NoLimit, BadNumber
<1>5. Wei(a, dec) <= Wei(b, dec) /\ Wei(a, dec) \in Nat /\ Wei(b, dec) \in Nat
  <2> DEFINE p == 10^dec
  <2>1. p \in Nat /\ AmountUnit \in Nat \ {0}
    BY WeiFacts, RouteAssumption
  <2>2. Wei(a, dec) = (a * p) \div AmountUnit /\ Wei(b, dec) = (b * p) \div AmountUnit
    BY DEF Wei
  <2> HIDE DEF p
  <2>3. a * p = p * a /\ b * p = p * b
    BY <2>1
  <2>4. p * a <= p * b /\ p * a \in Nat /\ p * b \in Nat
    BY <2>1, MulMono
  <2>5. Wei(a, dec) <= Wei(b, dec)
    BY <2>1, <2>2, <2>3, <2>4, DivMono
  <2> QED
    BY <2>5, WeiFacts
<1>6. Share(Wei(a, dec), seg.rate) <= Share(Wei(b, dec), seg.rate)
  <2> DEFINE v == Wei(a, dec)
             w == Wei(b, dec)
             r == seg.rate
  <2> HIDE DEF v, w, r
  <2>1. v \in Nat /\ w \in Nat /\ r \in Nat /\ v <= w
    BY <1>1, <1>5 DEF v, w, r
  <2>2. r * v <= r * w /\ r * v = v * r /\ r * w = w * r /\ v * r \in Nat /\ w * r \in Nat
    BY <2>1, MulMono
  <2>3. FullRate \in Nat \ {0}
    BY RateUnit
  <2>4. Share(v, r) <= Share(w, r)
    BY <2>2, <2>3, DivMono DEF Share
  <2> QED
    BY <2>4 DEF v, w, r
<1>7. /\ Wei(x, dec) \in Nat
      /\ Share(Wei(a, dec), seg.rate) \in Nat /\ Share(Wei(b, dec), seg.rate) \in Nat
  <2>1. \A n, r \in Nat : Share(n, r) \in Nat
    BY ShareOfWei, Zenon
  <2>2. Wei(x, dec) \in Nat
    BY WeiFacts
  <2> QED
    BY <1>1, <1>5, <2>1, <2>2, Zenon
<1> QED
  BY <1>2, <1>3, <1>4, <1>6, <1>7

\* The fee of a segment against the exact one.
LEMMA FeeBounds ==
  ASSUME NEW amt \in Nat, NEW seg \in Segment, NEW dec \in RouteDecimals,
         NEW f \in calculateFee(amt, seg, dec)
  PROVE  /\ seg.fixed >= 0 =>
              LET exact == (2 * seg.fixed * FullRate * 10^dec) + amt * 10^dec * seg.rate
              IN  /\ f.total * FullRate * AmountUnit <= exact
                  /\ exact < ((f.total + 3) * FullRate + seg.rate) * AmountUnit
         /\ f.protocol * FullRate * AmountUnit <= amt * 10^dec * seg.protocol
<1>1. seg.fixed \in Limits /\ seg.rate \in Nat /\ seg.protocol \in Nat
  BY DEF Segment
<1>2. PICK x \in Nat :
        /\ seg.fixed >= 0 => x = seg.fixed
        /\ f.total = (Wei(x, dec) + Wei(x, dec)) + Share(Wei(amt, dec), seg.rate)
  BY FeeFacts, Zenon
<1>3. f.protocol * FullRate * AmountUnit <= amt * 10^dec * seg.protocol
  <2>1. f.protocol = Share(Wei(amt, dec), seg.protocol)
    BY FeeFacts, Zenon
  <2>2. Share(Wei(amt, dec), seg.protocol) * FullRate * AmountUnit <= amt * 10^dec * seg.protocol
    BY <1>1, ShareIsFair, Zenon
  <2> QED
    BY <2>1, <2>2
<1>4. ASSUME seg.fixed >= 0
      PROVE  LET exact == (2 * seg.fixed * FullRate * 10^dec) + amt * 10^dec * seg.rate
             IN  /\ f.total * FullRate * AmountUnit <= exact
                 /\ exact < ((f.total + 3) * FullRate + seg.rate) * AmountUnit
  <2> DEFINE p == 10^dec
             w == Wei(x, dec)
             s == Share(Wei(amt, dec), seg.rate)
             e == amt * p * seg.rate
             r == seg.rate
             u == AmountUnit
             d == x * p
  <2>1. w \in Nat /\ w * u <= d /\ d < (w + 1) * u /\ p \in Nat /\ u \in Nat \ {0}
    BY WeiFacts, RouteAssumption
  <2>2. s \in Nat /\ s * FullRate * u <= e /\ e < ((s + 1) * FullRate + r) * u /\ r \in Nat
    BY <1>1, ShareIsFair, Zenon
  <2>3. f.total = (w + w) + s
    BY <1>2
  <2>4. 2 * seg.fixed * FullRate * 10^dec = 2 * (FullRate * d)
    <3>1. seg.fixed = x
      BY <1>2, <1>4
    <3> HIDE DEF p
    <3>2. 2 * x * FullRate * p = 2 * (FullRate * (x * p))
      BY <2>1, RateUnit
    <3> QED
      BY <3>1, <3>2 DEF p
  <2>5. d \in Nat /\ e \in Nat
    <3> HIDE DEF p
    <3>1. d \in Nat /\ amt * p \in Nat
      BY <2>1, MulMono
    <3> QED
      BY <1>1, <3>1, MulMono
  <2> HIDE DEF w, s, e, u, d, r
  <2>6. ((w + w) + s) * FullRate * u = 2 * (FullRate * (w * u)) + s * FullRate * u
    BY <2>1, <2>2, RateUnit
  <2>7. (((w + w) + s + 3) * FullRate + r) * u = 2 * (FullRate * ((w + 1) * u)) + ((s + 1) * FullRate + r) * u
    BY <2>1, <2>2, RateUnit
  <2>8. w * u \in Nat /\ (w + 1) * u \in Nat /\ s * FullRate * u \in Nat /\ ((s + 1) * FullRate + r) * u \in Nat
    <3>1. w + 1 \in Nat /\ s * FullRate \in Nat /\ (s + 1) * FullRate \in Nat
      BY <2>1, <2>2, RateUnit, MulMono
    <3>2. (s + 1) * FullRate + r \in Nat
      BY <2>2, <3>1
    <3> QED
      BY <2>1, <3>1, <3>2, MulMono
  <2>10. /\ FullRate * (w * u) <= FullRate * d /\ FullRate * d <= FullRate * ((w + 1) * u)
         /\ FullRate * (w * u) \in Nat /\ FullRate * d \in Nat /\ FullRate * ((w + 1) * u) \in Nat
    BY <2>1, <2>5, <2>8, RateUnit, MulMono
  <2>9. /\ ((w + w) + s) * FullRate * u <= 2 * (FullRate * d) + e
        /\ 2 * (FullRate * d) + e < (((w + w) + s + 3) * FullRate + r) * u
    BY <2>1, <2>2, <2>5, <2>6, <2>7, <2>8, <2>10
  <2> QED
    BY <2>3, <2>4, <2>9 DEF e, u, r
<1> QED
  BY <1>3, <1>4

-----------------------------------------------------------------------------
\* An amount in the range of a tiled route that no segment has is the route's
\* maximum: of two segments that follow one another the second begins where
\* the first ends, so the first that begins above the amount has one before it
\* that has the amount, and if none does it is the last that may have it.
LEMMA TiledRoute ==
  ASSUME NEW segs \in Seq(Segment), NEW r, r.min \in Limits, r.max \in Limits, Tiled(segs, r),
         NEW amt \in Int, amt > 0, isAmountInRouteRange(amt, r),
         \A i \in 1..Len(segs) : ~SegmentHas(segs[i], amt)
  PROVE  amt = r.max /\ segs[Len(segs)].max = r.max
<1> DEFINE lower(i) == IF segs[i].min = NoLimit THEN 0 ELSE segs[i].min
           above == { i \in 1..Len(segs) : amt < lower(i) }
<1>1. /\ Len(segs) \in Nat /\ Len(segs) >= 1 /\ DOMAIN segs = 1..Len(segs)
      /\ \A i \in 1..Len(segs) : segs[i].min \in Nat \cup {NoLimit}
                                 /\ segs[i].max \in Nat \cup {NoLimit}
  <2>1. Len(segs) \in Nat /\ Len(segs) # 0 /\ DOMAIN segs = 1..Len(segs)
    BY DEF Tiled
  <2>2. \A i \in 1..Len(segs) : segs[i] \in Segment
    OBVIOUS
  <2>3. \A i \in 1..Len(segs) : segs[i].min # BadNumber /\ segs[i].max # BadNumber
    BY <2>1 DEF Tiled
  <2>4. \A i \in 1..Len(segs) : segs[i].min \in Limits /\ segs[i].max \in Limits
    BY <2>2 DEF Segment
  <2> QED
    BY <2>1, <2>3, <2>4 DEF Limits
<1>2. \A i \in 1..Len(segs) : lower(i) \in Nat
  BY <1>1
<1>3. lower(1) <= amt
  BY <1>1 DEF Tiled, isAmountInRouteRange, NoLimit, BadNumber, Limits
<1>4. \A i \in 1..Len(segs) :
        amt >= lower(i) => segs[i].max # NoLimit /\ amt >= segs[i].max
  BY <1>1 DEF SegmentHas, NoLimit, BadNumber
<1>5. above = {}
  <2> SUFFICES ASSUME above # {} PROVE FALSE
    OBVIOUS
  <2>1. above \in SUBSET Nat
    BY <1>1
  <2>2. PICK m \in above : \A j \in above : m <= j
    BY <2>1, LeastNat
  <2>3. m \in 1..Len(segs) /\ amt < lower(m)
    BY <2>2
  <2>4. m # 1
    BY <1>2, <1>3, <2>3
  <2>5. m - 1 \in 1..(Len(segs) - 1) /\ m - 1 \in 1..Len(segs) /\ (m - 1) + 1 = m /\ ~(m <= m - 1)
    BY <1>1, <2>3, <2>4
  <2>6. segs[m].min = segs[m - 1].max
    BY <2>5 DEF Tiled
  <2>7. amt >= lower(m - 1)
    BY <1>2, <2>2, <2>5
  <2>8. segs[m - 1].max # NoLimit /\ amt >= segs[m - 1].max
    BY <1>4, <2>5, <2>7
  <2> QED
    BY <1>1, <2>3, <2>6, <2>8
<1>6. Len(segs) \in 1..Len(segs) /\ amt >= lower(Len(segs))
  BY <1>1, <1>2, <1>5
<1>7. segs[Len(segs)].max # NoLimit /\ amt >= segs[Len(segs)].max
  BY <1>4, <1>6
<1>8. segs[Len(segs)].max = r.max
  BY <1>7 DEF Tiled
<1> QED
  BY <1>7, <1>8 DEF isAmountInRouteRange, Limits, NoLimit, BadNumber

\* A symbol of the table with blanks around it equals no symbol that was
\* trimmed; any other equals those that differ from it in case and blanks.
LEMMA SymbolsMatch ==
  ASSUME NEW x \in Text, NEW s \in Text
  PROVE  Upper(x) = Upper(Trim(s)) <=> Norm(s) = Norm(x) /\ Trim(x) = x
<1> DEFINE T(w, f) == [word |-> w, form |-> f]
<1>1. PICK w \in Words, f \in {"lower", "upper", "padded"} : x = T(w, f)
  BY DEF Text
<1>2. PICK v \in Words, g \in {"lower", "upper", "padded"} : s = T(v, g)
  BY DEF Text
<1>3. Upper(x) = T(w, IF f = "lower" THEN "upper" ELSE f)
  BY <1>1 DEF Upper
<1>4. \A u, h : Trim(T(u, h)) = T(u, IF h = "padded" THEN "lower" ELSE h)
  BY DEF Trim
<1>5. \A u, h : Upper(T(u, h)) = T(u, IF h = "lower" THEN "upper" ELSE h)
  BY DEF Upper
<1>6. \A u, h : Lower(T(u, h)) = T(u, IF h = "upper" THEN "lower" ELSE h)
  BY DEF Lower
<1>7. Upper(Trim(s)) = T(v, "upper")
  BY <1>2, <1>4, <1>5
<1>8. Norm(s) = T(v, "lower") /\ Norm(x) = T(w, "lower")
  BY <1>1, <1>2, <1>4, <1>6 DEF Norm
<1>9. \A u1, u2, h1, h2 : T(u1, h1) = T(u2, h2) <=> u1 = u2 /\ h1 = h2
  OBVIOUS
<1> HIDE DEF T
<1>10. Trim(x) = x <=> f # "padded"
  BY <1>1, <1>4, <1>9
<1> QED
  BY <1>3, <1>7, <1>8, <1>9, <1>10

-----------------------------------------------------------------------------
\* FeesIn, of any amount and token.
FeesFor(segs, r, amt, dec) ==
  IF isAmountInRouteRange(amt, r)
  THEN UNION { calculateFee(amt, seg, dec) : seg \in findMatchingSegment(segs, r.id, amt) }
  ELSE {}

SegmentsTyped(segs) == \A id \in DOMAIN segs : segs[id] \in Seq(Segment)

\* What is published has the types of the tables.
PublishedOK ==
  /\ \A i \in DOMAIN routes :
       /\ i \in Nat /\ routes[i].symbol \in Text
       /\ routes[i].min \in Limits /\ routes[i].max \in Limits
  /\ SegmentsTyped(segments)
  /\ \A t \in visible : SegmentsTyped(t)

\* The call: the routes it read, by their positions, those it has still to
\* try, and at most one best so far.
FindOK ==
  /\ DOMAIN find = {"pc", "amount", "decimals", "read", "todo", "best", "err"}
  /\ find.pc \in {"idle", "loop", "done"}
  /\ find.pc = "loop" => segments \in visible /\ find.amount > 0
  /\ find.amount \in Int /\ (find.amount > 0 => find.decimals \in RouteDecimals)
  /\ DOMAIN find.read \subseteq Nat /\ find.todo \subseteq DOMAIN find.read
  /\ \A b, c \in find.best : b = c
  /\ find.best # {} => find.amount > 0
  /\ find.pc = "done" => /\ find.err => find.best = {}
                         /\ find.amount > 0 => find.todo = {}

Tried == DOMAIN find.read \ find.todo

\* The loop goes up, and the best so far was a fee of a route it tried.
BestOK ==
  /\ \A i \in Tried, j \in find.todo : i < j
  /\ \A b \in find.best :
       /\ b.at \in Tried
       /\ b.seg \in Segment /\ SegmentHas(b.seg, find.amount)
       /\ b.fee \in calculateFee(find.amount, b.seg, find.decimals)
       /\ \E t \in visible : b.fee \in FeesFor(t, find.read[b.at], find.amount, find.decimals)

\* A route that was tried had no fee, or none better than the best so far.
Beaten(i) ==
  \E t \in visible :
    \/ FeesFor(t, find.read[i], find.amount, find.decimals) = {}
    \/ \E f \in FeesFor(t, find.read[i], find.amount, find.decimals), b \in find.best :
         b.fee.total < f.total \/ (b.fee.total = f.total /\ b.at <= i)

TriedAreBeaten == find.amount > 0 => \A i \in Tried : Beaten(i)

RoutesInv == PublishedOK /\ FindOK /\ BestOK /\ TriedAreBeaten

\* Fees are compared as integers.
LEMMA FeesForFacts ==
  ASSUME NEW segs, SegmentsTyped(segs), NEW r, NEW amt \in Int, amt > 0, NEW dec \in RouteDecimals
  PROVE  \A f \in FeesFor(segs, r, amt, dec) : f.total \in Nat
<1> SUFFICES ASSUME NEW f \in FeesFor(segs, r, amt, dec) PROVE f.total \in Nat
  OBVIOUS
<1>1. PICK seg \in findMatchingSegment(segs, r.id, amt) : f \in calculateFee(amt, seg, dec)
  BY DEF FeesFor
<1>2. GetFeeSegments(segs, r.id) \in Seq(Segment)
  BY DEF SegmentsTyped, GetFeeSegments
<1>3. seg \in Segment
  BY <1>2, MatchFacts
<1>4. amt \in Nat
  OBVIOUS
<1> QED
  BY <1>1, <1>3, <1>4, FeeFacts

LEMMA TablesTyped ==
  /\ \A t \in SegmentTables : SegmentsTyped(t)
  /\ \A t \in RouteTables : \A i \in DOMAIN t :
       i \in Nat /\ t[i].symbol \in Text /\ t[i].min \in Limits /\ t[i].max \in Limits
BY RouteAssumption, Zenon DEF SegmentsTyped

LEMMA RoutesInit == RouteInit => RoutesInv
<1> SUFFICES ASSUME RouteInit PROVE RoutesInv
  OBVIOUS
<1>1. PublishedOK
  <2>1. PICK t \in SegmentTables : segments = [r \in DOMAIN t |-> <<>>]
    BY DEF RouteInit
  <2>2. SegmentsTyped(segments)
    BY <2>1 DEF SegmentsTyped
  <2>3. DOMAIN routes = {} /\ visible = {}
    BY DEF RouteInit
  <2> QED
    BY <2>2, <2>3 DEF PublishedOK
<1>2. find = [pc |-> "idle", amount |-> 0, decimals |-> 0, read |-> <<>>, todo |-> {},
              best |-> {}, err |-> FALSE]
  BY DEF RouteInit, NoFind
<1>3. DOMAIN find.read = {} /\ find.todo = {} /\ find.best = {} /\ find.amount = 0 /\ find.pc = "idle"
  BY <1>2
<1>4. FindOK
  BY <1>2, <1>3 DEF FindOK
<1>5. BestOK /\ TriedAreBeaten
  BY <1>3 DEF BestOK, TriedAreBeaten, Tried
<1> QED
  BY <1>1, <1>4, <1>5 DEF RoutesInv

\* A call that starts has tried nothing; one that fails at once ends so.
LEMMA FindBegins ==
  ASSUME RoutesInv, NEW pair, NEW symbol, NEW amt \in AskedAmounts, NEW dec \in RouteDecimals,
         FindBegin(pair, symbol, amt, dec)
  PROVE  RoutesInv'
<1> DEFINE found == GetRoutesByChainPairAndSymbol(pair, symbol)
           fails == DOMAIN found = {} \/ amt <= 0
           where == IF fails THEN "done" ELSE "loop"
<1>1. DOMAIN found \subseteq Nat
  BY DEF GetRoutesByChainPairAndSymbol, GetRoutesByChainPair, RoutesInv, PublishedOK
<1>2. /\ find' = [NoFind EXCEPT !.pc = where, !.amount = amt, !.decimals = dec, !.read = found,
                                !.todo = DOMAIN found, !.err = fails]
      /\ visible' = {segments} /\ UNCHANGED <<routes, segments>>
  BY DEF FindBegin
<1>3. /\ where \in {"done", "loop"} /\ (where = "done" <=> fails) /\ fails \in BOOLEAN
      /\ amt > 0 /\ fails => DOMAIN found = {}
      /\ ~fails => amt > 0
      /\ amt \in Int
  BY RouteAssumption
<1> HIDE DEF found, fails, where
<1>4. find' = [pc |-> where, amount |-> amt, decimals |-> dec, read |-> found,
               todo |-> DOMAIN found, best |-> {}, err |-> fails]
  BY <1>2 DEF NoFind
<1>5. /\ find'.pc = where /\ find'.amount = amt /\ find'.decimals = dec /\ find'.read = found
      /\ find'.todo = DOMAIN found /\ find'.best = {} /\ find'.err = fails
      /\ DOMAIN find' = {"pc", "amount", "decimals", "read", "todo", "best", "err"}
  BY <1>4
<1>6. PublishedOK'
  BY <1>2 DEF RoutesInv, PublishedOK, SegmentsTyped
<1>7. FindOK'
  BY <1>1, <1>2, <1>3, <1>5 DEF FindOK
<1>8. Tried' = {}
  BY <1>5 DEF Tried
<1>9. BestOK' /\ TriedAreBeaten'
  BY <1>5, <1>8 DEF BestOK, TriedAreBeaten
<1> QED
  BY <1>6, <1>7, <1>9 DEF RoutesInv

\* One turn of the loop: the route it tries has no fee in the table it meets,
\* or becomes the best, or is beaten by the best; what was beaten by the former
\* best is beaten by the new one, which costs less.
LEMMA FindTries == ASSUME RoutesInv, FindTry PROVE RoutesInv'
<1>1. /\ find.pc = "loop" /\ segments \in visible /\ find.amount > 0 /\ find.amount \in Int
      /\ find.decimals \in RouteDecimals /\ SegmentsTyped(segments)
      /\ UNCHANGED <<routes, segments, visible>>
  BY DEF RoutesInv, FindOK, PublishedOK, FindTry
<1> DEFINE r(i) == find.read[i]
           segsOf(i) == IF isAmountInRouteRange(find.amount, r(i))
                        THEN findMatchingSegment(segments, r(i).id, find.amount) ELSE {}
           new(i, seg, f) == [at |-> i, seg |-> seg, fee |-> f]
           amt == find.amount
           dec == find.decimals
<1>2. PICK i \in find.todo :
        /\ \A j \in find.todo : i <= j
        /\ \/ segsOf(i) = {} /\ find' = [find EXCEPT !.todo = @ \ {i}]
           \/ \E seg \in segsOf(i) : \E f \in calculateFee(find.amount, seg, find.decimals) :
                find' = [[find EXCEPT !.todo = @ \ {i}]
                          EXCEPT !.best = KeepBest(@, new(i, seg, f))]
  BY DEF FindTry
<1>3. i \in DOMAIN find.read /\ DOMAIN find.read \subseteq Nat /\ find.todo \subseteq DOMAIN find.read
  BY DEF RoutesInv, FindOK
<1>4. GetFeeSegments(segments, r(i).id) \in Seq(Segment)
  BY <1>1 DEF SegmentsTyped, GetFeeSegments
<1>5. \A seg \in segsOf(i) : seg \in Segment /\ SegmentHas(seg, amt)
  BY <1>4, MatchFacts
<1>6. FeesFor(segments, r(i), amt, dec) = UNION { calculateFee(amt, seg, dec) : seg \in segsOf(i) }
  BY DEF FeesFor
<1>7. PublishedOK'
  BY <1>1 DEF RoutesInv, PublishedOK, SegmentsTyped
\* What both cases share.
<1>8. ASSUME NEW best, find' = [find EXCEPT !.todo = @ \ {i}, !.best = best]
      PROVE  /\ find'.pc = "loop" /\ find'.amount = amt /\ find'.decimals = dec
             /\ find'.read = find.read /\ find'.todo = find.todo \ {i} /\ find'.best = best
             /\ DOMAIN find' = DOMAIN find
             /\ Tried' = Tried \cup {i}
             /\ \A k \in Tried', j \in find'.todo : k < j
  <2>1. DOMAIN find = {"pc", "amount", "decimals", "read", "todo", "best", "err"}
    BY DEF RoutesInv, FindOK
  <2>2. /\ find'.pc = find.pc /\ find'.amount = amt /\ find'.decimals = dec
        /\ find'.read = find.read /\ find'.todo = find.todo \ {i} /\ find'.best = best
        /\ DOMAIN find' = DOMAIN find
    BY <1>8, <2>1
  <2>3. Tried' = Tried \cup {i}
    BY <1>3, <2>2 DEF Tried
  <2>4. \A j \in find.todo \ {i} : i < j
    <3>1. \A j \in find.todo : i <= j
      BY <1>2, Zenon
    <3> QED
      BY <1>3, <3>1
  <2>5. \A k \in Tried, j \in find.todo : k < j
    BY DEF RoutesInv, BestOK
  <2> QED
    BY <1>1, <2>2, <2>3, <2>4, <2>5
<1> HIDE DEF segsOf, amt, dec, r
<1>9. CASE segsOf(i) = {} /\ find' = [find EXCEPT !.todo = @ \ {i}]
  <2>1. find' = [find EXCEPT !.todo = @ \ {i}, !.best = find.best]
    BY <1>9
  <2>2. /\ find'.pc = "loop" /\ find'.amount = amt /\ find'.decimals = dec
        /\ find'.read = find.read /\ find'.todo = find.todo \ {i} /\ find'.best = find.best
        /\ DOMAIN find' = DOMAIN find /\ Tried' = Tried \cup {i}
        /\ \A k \in Tried', j \in find'.todo : k < j
    BY <1>8, <2>1
  <2>3. FindOK'
    BY <1>1, <1>3, <2>2 DEF RoutesInv, FindOK, amt, dec
  <2>4. BestOK'
    <3>1. \A t \in visible : t \in visible'
      BY <1>1
    <3>2. BestOK
      BY DEF RoutesInv
    <3> QED
      BY <2>2, <3>1, <3>2 DEF BestOK, amt, dec
  <2>5. Beaten(i)'
    <3>1. FeesFor(segments, r(i), amt, dec) = {}
      BY <1>6, <1>9
    <3>2. FeesFor(segments, find'.read[i], find'.amount, find'.decimals) = {}
      BY <2>2, <3>1 DEF r
    <3> QED
      BY <1>1, <3>2 DEF Beaten, FeesFor
  <2>6. \A k \in Tried : Beaten(k)'
    <3>1. \A k \in Tried : Beaten(k)
      BY <1>1 DEF RoutesInv, TriedAreBeaten
    <3> QED
      BY <1>1, <2>2, <3>1 DEF Beaten, FeesFor, amt, dec
  <2> QED
    BY <1>7, <2>2, <2>3, <2>4, <2>5, <2>6 DEF RoutesInv, TriedAreBeaten
<1>10. ASSUME NEW seg \in segsOf(i), NEW f \in calculateFee(find.amount, seg, find.decimals),
              find' = [[find EXCEPT !.todo = @ \ {i}] EXCEPT !.best = KeepBest(@, new(i, seg, f))]
       PROVE  RoutesInv'
  <2> DEFINE best == KeepBest(find.best, new(i, seg, f))
  <2>1. find' = [find EXCEPT !.todo = @ \ {i}, !.best = best]
    <3>1. DOMAIN find = {"pc", "amount", "decimals", "read", "todo", "best", "err"}
      BY DEF RoutesInv, FindOK
    <3>2. [find EXCEPT !.todo = @ \ {i}].best = find.best
      BY <3>1
    <3> QED
      BY <1>10, <3>1, <3>2
  <2>2. /\ find'.pc = "loop" /\ find'.amount = amt /\ find'.decimals = dec
        /\ find'.read = find.read /\ find'.todo = find.todo \ {i} /\ find'.best = best
        /\ DOMAIN find' = DOMAIN find /\ Tried' = Tried \cup {i}
        /\ \A k \in Tried', j \in find'.todo : k < j
    <3> HIDE DEF best
    <3> QED
      BY <1>8, <2>1
  <2>3. seg \in Segment /\ SegmentHas(seg, amt)
    BY <1>5
  <2>4. f \in calculateFee(amt, seg, dec) /\ f \in FeesFor(segments, r(i), amt, dec)
    BY <1>6 DEF amt, dec
  <2>5. /\ \A b, c \in find.best : b = c
        /\ \A b \in find.best : b.at \in Tried /\ b.at < i
        /\ \A b \in find.best : b.fee.total \in Nat
        /\ f.total \in Nat
    <3>1. \A b \in find.best :
            \E t \in visible : SegmentsTyped(t) /\ b.fee \in FeesFor(t, find.read[b.at], amt, dec)
      BY DEF RoutesInv, PublishedOK, BestOK, amt, dec
    <3>2. amt \in Int /\ amt > 0 /\ dec \in RouteDecimals
      BY <1>1 DEF amt, dec
    <3>3. \A b \in find.best : b.fee.total \in Nat
      BY <3>1, <3>2, FeesForFacts
    <3>4. f.total \in Nat
      BY <1>1, <2>4, <3>2, FeesForFacts
    <3>5. \A b \in find.best : b.at \in Tried /\ b.at < i
      BY DEF RoutesInv, BestOK
    <3> QED
      BY <3>3, <3>4, <3>5 DEF RoutesInv, FindOK
  <2>6. \/ best = {new(i, seg, f)} /\ \A b \in find.best : f.total < b.fee.total
        \/ best = find.best /\ \E b \in find.best : ~(f.total < b.fee.total)
    BY DEF KeepBest
  <2>7. new(i, seg, f).at = i /\ new(i, seg, f).seg = seg /\ new(i, seg, f).fee = f
    OBVIOUS
  <2> HIDE DEF best, new
  <2>8. FindOK'
    <3>1. \A b, c \in best : b = c
      BY <2>5, <2>6
    <3> QED
      BY <1>1, <1>3, <2>2, <3>1 DEF RoutesInv, FindOK, amt, dec
  <2>9. BestOK'
    <3>1. ASSUME NEW b \in best
          PROVE  /\ b.at \in Tried \cup {i} /\ b.seg \in Segment /\ SegmentHas(b.seg, amt)
                 /\ b.fee \in calculateFee(amt, b.seg, dec)
                 /\ \E t \in visible : b.fee \in FeesFor(t, find.read[b.at], amt, dec)
      <4>1. CASE b \in find.best
        BY <4>1 DEF RoutesInv, BestOK, amt, dec
      <4>2. CASE b = new(i, seg, f)
        BY <1>1, <2>3, <2>4, <2>7, <4>2 DEF r
      <4> QED
        BY <2>6, <4>1, <4>2
    <3>2. ASSUME NEW b \in find'.best
          PROVE  /\ b.at \in Tried' /\ b.seg \in Segment /\ SegmentHas(b.seg, find'.amount)
                 /\ b.fee \in calculateFee(find'.amount, b.seg, find'.decimals)
                 /\ \E t \in visible' :
                      b.fee \in FeesFor(t, find'.read[b.at], find'.amount, find'.decimals)
      <4>1. b \in best /\ visible' = visible
        BY <1>1, <2>2
      <4> QED
        BY <2>2, <3>1, <4>1, Zenon
    <3> QED
      BY <2>2, <3>2, Zenon DEF BestOK
  <2>10. Beaten(i)'
    <3>1. \E b \in best : b.fee.total < f.total \/ (b.fee.total = f.total /\ b.at <= i)
      <4>1. CASE best = {new(i, seg, f)}
        BY <1>3, <2>5, <2>7, <4>1
      <4>2. CASE best = find.best /\ \E b \in find.best : ~(f.total < b.fee.total)
        <5>1. PICK b \in find.best : ~(f.total < b.fee.total)
          BY <4>2
        <5>2. b.at < i /\ b.at \in Nat /\ i \in Nat
          BY <1>3, <2>5 DEF Tried
        <5> QED
          BY <2>5, <4>2, <5>1, <5>2
      <4> QED
        BY <2>6, <4>1, <4>2
    <3>2. f \in FeesFor(segments, find'.read[i], find'.amount, find'.decimals)
      BY <2>2, <2>4 DEF r
    <3> QED
      BY <1>1, <2>2, <3>1, <3>2 DEF Beaten, FeesFor
  <2>11. ASSUME NEW k \in Tried PROVE Beaten(k)'
    <3>1. PICK t \in visible :
            \/ FeesFor(t, find.read[k], amt, dec) = {}
            \/ \E g \in FeesFor(t, find.read[k], amt, dec), b \in find.best :
                 b.fee.total < g.total \/ (b.fee.total = g.total /\ b.at <= k)
      BY <1>1 DEF RoutesInv, TriedAreBeaten, Beaten, amt, dec
    <3>2. \A g \in FeesFor(t, find.read[k], amt, dec) : g.total \in Nat
      <4>1. SegmentsTyped(t) /\ amt \in Int /\ amt > 0 /\ dec \in RouteDecimals
        BY <1>1 DEF RoutesInv, PublishedOK, amt, dec
      <4> QED
        BY <4>1, FeesForFacts
    <3>3. \/ FeesFor(t, find.read[k], amt, dec) = {}
          \/ \E g \in FeesFor(t, find.read[k], amt, dec), b \in best :
               b.fee.total < g.total \/ (b.fee.total = g.total /\ b.at <= k)
      BY <2>5, <2>6, <2>7, <3>1, <3>2
    <3> QED
      BY <1>1, <2>2, <3>3 DEF Beaten, FeesFor
  <2> QED
    BY <1>7, <2>2, <2>8, <2>9, <2>10, <2>11 DEF RoutesInv, TriedAreBeaten
<1> QED
  BY <1>2, <1>9, <1>10

LEMMA FindEnds == ASSUME RoutesInv, FindEnd PROVE RoutesInv'
<1>1. /\ find.pc = "loop" /\ find.todo = {} /\ UNCHANGED <<routes, segments, visible>>
      /\ find' = [find EXCEPT !.pc = "done", !.err = find.best = {}]
  BY DEF FindEnd
<1>2. DOMAIN find = {"pc", "amount", "decimals", "read", "todo", "best", "err"}
  BY DEF RoutesInv, FindOK
<1>3. /\ find'.pc = "done" /\ find'.amount = find.amount /\ find'.decimals = find.decimals
      /\ find'.read = find.read /\ find'.todo = find.todo /\ find'.best = find.best
      /\ find'.err = (find.best = {}) /\ DOMAIN find' = DOMAIN find
  BY <1>1, <1>2
<1>4. PublishedOK' /\ FindOK' /\ Tried' = Tried
  BY <1>1, <1>3 DEF RoutesInv, PublishedOK, SegmentsTyped, FindOK, Tried
<1>5. BestOK'
  BY <1>1, <1>3, <1>4 DEF RoutesInv, BestOK, FeesFor
<1>6. TriedAreBeaten'
  BY <1>1, <1>3, <1>4 DEF RoutesInv, TriedAreBeaten, Beaten, FeesFor
<1> QED
  BY <1>4, <1>5, <1>6 DEF RoutesInv

\* A reload while the call runs only adds a table in which a fee may be found.
LEMMA FindWaits ==
  ASSUME RoutesInv, find' = find, visible \subseteq visible',
         find.pc = "loop" => segments' \in visible'
  PROVE  FindOK' /\ BestOK' /\ TriedAreBeaten'
<1>1. FindOK' /\ Tried' = Tried
  BY DEF RoutesInv, FindOK, Tried
<1>2. BestOK'
  <2>1. ASSUME NEW b \in find.best
        PROVE  /\ b.at \in Tried /\ b.seg \in Segment /\ SegmentHas(b.seg, find.amount)
               /\ b.fee \in calculateFee(find.amount, b.seg, find.decimals)
               /\ \E t \in visible' :
                    b.fee \in FeesFor(t, find.read[b.at], find.amount, find.decimals)
    BY Zenon DEF RoutesInv, BestOK
  <2>2. \A i \in Tried, j \in find.todo : i < j
    BY DEF RoutesInv, BestOK
  <2> QED
    BY <1>1, <2>1, <2>2, Zenon DEF BestOK
<1>3. TriedAreBeaten'
  BY <1>1 DEF RoutesInv, TriedAreBeaten, Beaten, FeesFor
<1> QED
  BY <1>1, <1>2, <1>3

LEMMA SegmentsChange ==
  ASSUME RoutesInv, NEW t \in SegmentTables, PublishSegments(t) PROVE RoutesInv'
<1>1. /\ segments' = t /\ visible \subseteq visible' /\ UNCHANGED <<routes, find>>
      /\ visible' \subseteq visible \cup {t} /\ (find.pc = "loop" => t \in visible')
  BY DEF PublishSegments
<1>2. SegmentsTyped(t)
  BY TablesTyped
<1>3. PublishedOK'
  BY <1>1, <1>2 DEF RoutesInv, PublishedOK, SegmentsTyped
<1>4. FindOK' /\ BestOK' /\ TriedAreBeaten'
  BY <1>1, FindWaits
<1> QED
  BY <1>3, <1>4 DEF RoutesInv

LEMMA RoutesStep == RoutesInv /\ [RouteNext]_routeVars => RoutesInv'
<1> SUFFICES ASSUME RoutesInv, [RouteNext]_routeVars PROVE RoutesInv'
  OBVIOUS
<1>1. CASE UNCHANGED routeVars
  <2>1. PublishedOK'
    BY <1>1 DEF routeVars, RoutesInv, PublishedOK, SegmentsTyped
  <2>2. FindOK' /\ BestOK' /\ TriedAreBeaten'
    <3>1. find.pc = "loop" => segments \in visible
      BY DEF RoutesInv, FindOK
    <3> QED
      BY <1>1, <3>1, FindWaits DEF routeVars
  <2> QED
    BY <2>1, <2>2 DEF RoutesInv
<1>2. ASSUME NEW t \in RouteTables, PublishRoutes(t) PROVE RoutesInv'
  <2>1. PublishedOK'
    BY <1>2, TablesTyped DEF RoutesInv, PublishedOK, SegmentsTyped, PublishRoutes
  <2>2. FindOK' /\ BestOK' /\ TriedAreBeaten'
    <3>1. find.pc = "loop" => segments \in visible
      BY DEF RoutesInv, FindOK
    <3> QED
      BY <1>2, <3>1, FindWaits DEF PublishRoutes
  <2> QED
    BY <2>1, <2>2 DEF RoutesInv
<1>3. CASE FindReturn
  <2>1. /\ find'.pc = "idle" /\ find'.amount = 0 /\ DOMAIN find'.read = {} /\ find'.todo = {}
        /\ find'.best = {} /\ visible' = {} /\ UNCHANGED <<routes, segments>>
        /\ DOMAIN find' = {"pc", "amount", "decimals", "read", "todo", "best", "err"}
    BY <1>3 DEF FindReturn, NoFind
  <2> QED
    BY <2>1 DEF RoutesInv, PublishedOK, SegmentsTyped, FindOK, BestOK, Tried, TriedAreBeaten
<1> QED
  BY <1>1, <1>2, <1>3, FindBegins, FindTries, FindEnds, SegmentsChange DEF RouteNext

\* What FindBestRoute returns, whatever is reloaded between its lookups, is
\* as good as any route it read that has a fee in every table of segments
\* published meanwhile; and it fails only if no route has.
THEOREM BestIsBest == RouteSpec => []BestRouteUnderReload
<1>1. RoutesInv => BestRouteUnderReload
  <2> SUFFICES ASSUME RoutesInv, find.pc = "done" PROVE BestRouteUnderReload
    BY DEF BestRouteUnderReload
  <2>1. \A s, r : FeesIn(s, r) = FeesFor(s, r, find.amount, find.decimals)
    BY DEF FeesIn, FeesFor
  <2>2. ASSUME NEW b \in find.best
        PROVE  /\ \E t \in visible : b.fee \in FeesIn(t, find.read[b.at])
               /\ b.fee.total \in Nat /\ find.amount > 0 /\ find.todo = {}
    <3>1. PICK t \in visible : b.fee \in FeesFor(t, find.read[b.at], find.amount, find.decimals)
      BY DEF RoutesInv, BestOK
    <3>2. find.amount > 0 /\ find.amount \in Int /\ find.decimals \in RouteDecimals /\ find.todo = {}
      BY DEF RoutesInv, FindOK
    <3>3. SegmentsTyped(t)
      BY DEF RoutesInv, PublishedOK
    <3> QED
      BY <2>1, <3>1, <3>2, <3>3, FeesForFacts
  <2>3. ASSUME NEW b \in find.best, NEW i \in DOMAIN find.read \ {b.at},
               \A t \in visible :
                 /\ FeesIn(t, find.read[i]) # {}
                 /\ \A f \in FeesIn(t, find.read[i]) :
                      f.total < b.fee.total \/ (f.total = b.fee.total /\ i < b.at)
        PROVE  FALSE
    <3>1. i \in Tried /\ b.at \in Tried /\ i \in Nat /\ b.at \in Nat
      BY <2>2 DEF RoutesInv, FindOK, BestOK, Tried
    <3>2. Beaten(i)
      BY <2>2, <3>1 DEF RoutesInv, TriedAreBeaten
    <3>3. PICK t \in visible : \E f \in FeesIn(t, find.read[i]), c \in find.best :
                                 c.fee.total < f.total \/ (c.fee.total = f.total /\ c.at <= i)
      BY <2>1, <2>3, <3>2 DEF Beaten
    <3>4. PICK f \in FeesIn(t, find.read[i]) :
                                 b.fee.total < f.total \/ (b.fee.total = f.total /\ b.at <= i)
      BY <3>3 DEF RoutesInv, FindOK
    <3>5. f.total \in Nat
      <4>1. find.amount > 0 /\ find.amount \in Int /\ find.decimals \in RouteDecimals
        BY <2>2 DEF RoutesInv, FindOK
      <4> QED
        BY <2>1, <4>1, FeesForFacts DEF RoutesInv, PublishedOK
    <3>6. f.total < b.fee.total \/ (f.total = b.fee.total /\ i < b.at)
      BY <2>3
    <3> QED
      BY <2>2, <3>1, <3>4, <3>5, <3>6
  <2>4. ASSUME find.err, find.amount > 0, NEW i \in DOMAIN find.read
        PROVE  \E t \in visible : FeesIn(t, find.read[i]) = {}
    <3>1. find.best = {} /\ find.todo = {}
      BY <2>4 DEF RoutesInv, FindOK
    <3>2. Beaten(i)
      BY <2>4, <3>1 DEF RoutesInv, TriedAreBeaten, Tried
    <3> QED
      BY <2>1, <3>1, <3>2 DEF Beaten
  <2> QED
    BY <2>2, <2>3, <2>4 DEF BestRouteUnderReload
<1> QED
  BY RoutesInit, RoutesStep, <1>1, PTL DEF RouteSpec

\* A route that should be quoted is found, has a fee, and the fee is fair.
THEOREM QuotedRoutesAreFair == RouteSpec => []RoutesAreQuoted
<1>1. RoutesInv => RoutesAreQuoted
  <2> SUFFICES ASSUME RoutesInv PROVE RoutesAreQuoted
    OBVIOUS
  <2>1. RoutesAreFound
    <3> SUFFICES ASSUME NEW i \in DOMAIN routes, NEW p \in Pairs, NEW s \in Text
                 PROVE  i \in DOMAIN GetRoutesByChainPairAndSymbol(p, s) <=>
                          /\ p = routes[i].pair
                          /\ Norm(s) = Norm(routes[i].symbol)
                          /\ Trim(routes[i].symbol) = routes[i].symbol
      BY DEF RoutesAreFound
    <3>1. routes[i].symbol \in Text
      BY DEF RoutesInv, PublishedOK
    <3>2. i \in DOMAIN GetRoutesByChainPairAndSymbol(p, s) <=>
            routes[i].pair = p /\ Upper(routes[i].symbol) = Upper(Trim(s))
      BY DEF GetRoutesByChainPairAndSymbol, GetRoutesByChainPair
    <3> QED
      BY <3>1, <3>2, SymbolsMatch
  <2>2. TiledRouteHasFee
    <3> SUFFICES ASSUME NEW i \in DOMAIN routes, NEW amt \in AskedAmounts,
                        Tiled(GetFeeSegments(segments, routes[i].id), routes[i]), amt > 0,
                        isAmountInRouteRange(amt, routes[i]),
                        findMatchingSegment(segments, routes[i].id, amt) = {}
                 PROVE  LET segs == GetFeeSegments(segments, routes[i].id) IN
                        amt = routes[i].max /\ segs[Len(segs)].max = routes[i].max
      BY DEF TiledRouteHasFee, GetAllRoutes
    <3> DEFINE segs == GetFeeSegments(segments, routes[i].id)
    <3>1. segs \in Seq(Segment)
      BY DEF RoutesInv, PublishedOK, SegmentsTyped, GetFeeSegments
    <3>2. \A k \in 1..Len(segs) : ~SegmentHas(segs[k], amt)
      BY <3>1, MatchFacts
    <3>3. amt \in Int /\ routes[i].min \in Limits /\ routes[i].max \in Limits
      BY RouteAssumption DEF RoutesInv, PublishedOK
    <3> HIDE DEF segs
    <3> QED
      BY <3>1, <3>2, <3>3, TiledRoute DEF segs
  <2>3. FeeIsFair
    <3> SUFFICES ASSUME NEW b \in find.best
                 PROVE  LET dec == find.decimals
                            share(a, rate) == a * 10^dec * rate
                            exact == (2 * b.seg.fixed * FullRate * 10^dec)
                                       + share(find.amount, b.seg.rate)
                        IN  /\ b.seg.fixed >= 0 =>
                                 /\ b.fee.total * FullRate * AmountUnit <= exact
                                 /\ exact < ((b.fee.total + 3) * FullRate + b.seg.rate) * AmountUnit
                            /\ b.fee.protocol * FullRate * AmountUnit
                                 <= share(find.amount, b.seg.protocol)
                            /\ \A a \in AskedAmounts : a >= find.amount /\ SegmentHas(b.seg, a) =>
                                 \A f \in calculateFee(a, b.seg, dec) :
                                   b.seg.fixed # BadNumber => f.total >= b.fee.total
      BY Zenon DEF FeeIsFair
    <3>1. /\ b.seg \in Segment /\ b.fee \in calculateFee(find.amount, b.seg, find.decimals)
          /\ find.amount \in Int /\ find.amount > 0 /\ find.decimals \in RouteDecimals
      BY DEF RoutesInv, FindOK, BestOK
    <3>2. find.amount \in Nat
      BY <3>1
    <3>3. ASSUME NEW a \in AskedAmounts, a >= find.amount, NEW f \in calculateFee(a, b.seg, find.decimals),
                 b.seg.fixed # BadNumber
          PROVE  f.total >= b.fee.total
      <4>1. a \in Nat /\ find.amount <= a
        BY <3>2, <3>3, RouteAssumption
      <4>2. b.fee.total <= f.total /\ b.fee.total \in Nat /\ f.total \in Nat
        BY <3>1, <3>2, <3>3, <4>1, FeeIsMonotone, FeeFacts, Zenon
      <4> QED
        BY <4>2
    <3> QED
      BY <3>1, <3>2, <3>3, FeeBounds, Zenon
  <2> QED
    BY <2>1, <2>2, <2>3 DEF RoutesAreQuoted
<1> QED
  BY RoutesInit, RoutesStep, <1>1, PTL DEF RouteSpec

(***************************************************************************)
(* The lookups of the other managers                                       *)
(***************************************************************************)

\* A primary key is the key of one row.
KeysOK ==
  \A i, j \in DOMAIN rows :
    i < j /\ "id" \in DOMAIN rows[i] /\ "id" \in DOMAIN rows[j] =>
      (rows[i].id = rows[j].id => "kind" \in DOMAIN rows[j] /\ rows[i].kind # rows[j].kind)

LookupInv == LookupTypeOK /\ KeysOK

\* Reload leaves rows of the manager and keeps its keys primary.
LEMMA LookupInvariant == LookupSpec => []LookupInv
<1>1. LookupInit => LookupInv
  <2> SUFFICES ASSUME LookupInit PROVE LookupInv
    OBVIOUS
  <2>1. DOMAIN rows = {} /\ rows \in Seq(RowsOf[table]) /\ Len(rows) = 0
    BY DEF LookupInit
  <2>2. MaxRows[table] \in Nat
    BY LookupAssumption DEF LookupInit
  <2> QED
    BY <2>1, <2>2 DEF LookupInit, LookupInv, LookupTypeOK, KeysOK
<1>2. LookupInv /\ [LookupNext]_lookupVars => LookupInv'
  <2> SUFFICES ASSUME LookupInv, [LookupNext]_lookupVars PROVE LookupInv'
    OBVIOUS
  <2> USE DEF LookupInv
  <2>0. MaxRows[table] \in Nat /\ rows \in Seq(RowsOf[table]) /\ table \in LookupTables
    BY LookupAssumption DEF LookupTypeOK
  <2>1. CASE BeginLoad
    <3>1. DOMAIN rows' = {} /\ rows' \in Seq(RowsOf[table]) /\ Len(rows') = 0 /\ table' = table
      BY <2>1 DEF BeginLoad
    <3> QED
      BY <2>0, <3>1 DEF LookupTypeOK, KeysOK
  <2>2. ASSUME NEW r \in RowsOf[table], ScanRow(r) PROVE LookupInv'
    <3> DEFINE n == Len(rows) + 1
    <3>1. /\ rows' = Append(rows, r) /\ table' = table /\ Len(rows) < MaxRows[table]
          /\ KeyIsNew(r) /\ ("parses" \in DOMAIN r => r.parses)
      BY <2>2 DEF ScanRow
    <3>2. /\ rows' \in Seq(RowsOf[table]) /\ Len(rows') = n /\ n <= MaxRows[table] /\ n \in Nat
          /\ DOMAIN rows' = DOMAIN rows \cup {n} /\ n \notin DOMAIN rows
          /\ rows'[n] = r /\ \A i \in DOMAIN rows : rows'[i] = rows[i]
      BY <2>0, <3>1
    <3> HIDE DEF n
    <3>3. LookupTypeOK'
      BY <2>0, <3>1, <3>2 DEF LookupTypeOK
    <3>4. KeysOK'
      <4> SUFFICES ASSUME NEW i \in DOMAIN rows', NEW j \in DOMAIN rows', i < j,
                          "id" \in DOMAIN rows'[i], "id" \in DOMAIN rows'[j], rows'[i].id = rows'[j].id
                   PROVE  "kind" \in DOMAIN rows'[j] /\ rows'[i].kind # rows'[j].kind
        BY Zenon DEF KeysOK
      <4>1. i \in DOMAIN rows
        <5>1. \A k \in DOMAIN rows : k < n /\ k \in Nat
          BY <2>0 DEF n
        <5> QED
          BY <3>2, <5>1
      <4>2. CASE j \in DOMAIN rows
        BY <3>2, <4>1, <4>2, Zenon DEF KeysOK
      <4>3. CASE j = n
        BY <3>1, <3>2, <4>1, <4>3, Zenon DEF KeyIsNew
      <4> QED
        BY <3>2, <4>2, <4>3
    <3> QED
      BY <3>3, <3>4
  <2>3. CASE UNCHANGED lookupVars
    BY <2>3 DEF lookupVars, LookupTypeOK, KeysOK
  <2> QED
    BY <2>1, <2>2, <2>3 DEF LookupNext
<1> QED
  BY <1>1, <1>2, PTL DEF LookupSpec

\* What the searches return: the row at the greatest position, the least one.
LastOf(S) == { rows[i] : i \in { j \in S : \A k \in S : k <= j } }
FirstOf(S) == { rows[i] : i \in { j \in S : \A k \in S : k >= j } }

\* The rows that a getter can return are the rows of its manager.
LEMMA RowsFacts ==
  ASSUME LookupInv
  PROVE  /\ Len(rows) \in Nat /\ DOMAIN rows = 1..Len(rows)
         /\ \A i \in DOMAIN rows : rows[i] \in RowsOf[table]
         /\ \A r \in AllRows : r \in RowsOf[table] /\ \E i \in DOMAIN rows : rows[i] = r
         /\ \A i \in DOMAIN rows : rows[i] \in AllRows
BY DEF LookupInv, LookupTypeOK, AllRows

\* The first of some rows is one row, of the least position.
LEMMA FirstIs ==
  ASSUME LookupInv, NEW S \in SUBSET DOMAIN rows, S # {}
  PROVE  \E i \in S : (\A k \in S : k >= i) /\ FirstOf(S) = {rows[i]}
<1>1. S \in SUBSET Nat
  BY RowsFacts
<1>2. PICK i \in S : \A k \in S : i <= k
  BY <1>1, LeastNat
<1>3. { j \in S : \A k \in S : k >= j } = {i}
  BY <1>1, <1>2
<1> QED
  BY <1>1, <1>2, <1>3 DEF FirstOf

\* The last of some rows is one row, of the greatest position.
LEMMA LastIs ==
  ASSUME LookupInv, NEW S \in SUBSET DOMAIN rows, S # {}
  PROVE  \E i \in S : (\A k \in S : k <= i) /\ LastOf(S) = {rows[i]}
<1> DEFINE n == Len(rows)
           R == { n - i : i \in S }
<1>1. n \in Nat /\ S \in SUBSET 1..n
  BY RowsFacts
<1>2. R \in SUBSET Nat /\ R # {}
  BY <1>1
<1>3. PICK m \in R : \A k \in R : m <= k
  BY <1>2, LeastNat
<1>4. PICK i \in S : m = n - i
  BY <1>3
<1>5. \A k \in S : k <= i
  <2> SUFFICES ASSUME NEW k \in S PROVE k <= i
    OBVIOUS
  <2>1. n - k \in R /\ m <= n - k
    BY <1>3
  <2> QED
    BY <1>1, <1>4, <2>1
<1>6. { j \in S : \A k \in S : k <= j } = {i}
  BY <1>1, <1>5
<1> QED
  BY <1>5, <1>6 DEF LastOf

\* A search finds at most one row, one of those it looks for, and none only if
\* there is none.
LEMMA LastFacts ==
  ASSUME LookupInv, NEW S \in SUBSET DOMAIN rows
  PROVE  /\ S = {} <=> LastOf(S) = {}
         /\ S # {} => \E i \in S : LastOf(S) = {rows[i]}
<1>1. CASE S = {}
  BY <1>1 DEF LastOf
<1>2. CASE S # {}
  <2>1. PICK i \in S : LastOf(S) = {rows[i]}
    BY <1>2, LastIs
  <2> QED
    BY <1>2, <2>1
<1> QED
  BY <1>1, <1>2

\* What a loop that stops at the first match returns.
LEMMA FirstFacts ==
  ASSUME LookupInv, NEW S \in SUBSET DOMAIN rows
  PROVE  /\ S = {} <=> FirstOf(S) = {}
         /\ S # {} => \E i \in S : FirstOf(S) = {rows[i]}
<1>1. CASE S = {}
  BY <1>1 DEF FirstOf
<1>2. CASE S # {}
  <2>1. PICK i \in S : FirstOf(S) = {rows[i]}
    BY <1>2, FirstIs
  <2> QED
    BY <1>2, <2>1
<1> QED
  BY <1>1, <1>2

\* Where ids are primary keys, an id finds its row.
LEMMA IdFinds ==
  ASSUME LookupInv, \A x \in RowsOf[table] : "id" \in DOMAIN x /\ "kind" \notin DOMAIN x,
         NEW i \in DOMAIN rows
  PROVE  LastOf({ j \in DOMAIN rows : rows[j].id = rows[i].id }) = {rows[i]}
<1>1. \A j \in DOMAIN rows : rows[j].id = rows[i].id => j = i
  <2> SUFFICES ASSUME NEW j \in DOMAIN rows, rows[j].id = rows[i].id PROVE j = i
    OBVIOUS
  <2>1. /\ "id" \in DOMAIN rows[i] /\ "id" \in DOMAIN rows[j]
        /\ "kind" \notin DOMAIN rows[i] /\ "kind" \notin DOMAIN rows[j]
    BY RowsFacts
  <2>2. ~(i < j) /\ ~(j < i)
    BY <2>1, Zenon DEF LookupInv, KeysOK
  <2> QED
    BY <2>2, RowsFacts
<1>2. { j \in DOMAIN rows : rows[j].id = rows[i].id } = {i}
  BY <1>1
<1>3. { j \in {i} : \A k \in {i} : k <= j } = {i}
  BY RowsFacts
<1> QED
  BY <1>2, <1>3 DEF LastOf

\* Accounts by id and by chain and address are the same accounts.
LEMMA Accounts == LookupInv => AccountLookupsAgree
<1> SUFFICES ASSUME LookupInv, table = "AccountManager", NEW a \in Text, NEW cid \in Refs
             PROVE  LET found == GetAccountByAddressCid(a, cid) IN
      /\ \A r \in found : GetAccountById(r.id) = {r} /\ HasAddress(a)
      /\ { x \in GetAddresses(cid) : Lower(x) = Norm(a) } = { Trim(r.address) : r \in found }
  BY DEF AccountLookupsAgree
<1> DEFINE At(b) == { i \in DOMAIN rows : Norm(rows[i].address) = Norm(b) /\ rows[i].cid = cid }
           found == GetAccountByAddressCid(a, cid)
<1>1. RowsOf[table] = Account
  BY DEF RowsOf
<1>2. \A b : GetAccountByAddressCid(b, cid) = LastOf(At(b))
  BY DEF GetAccountByAddressCid, Latest, LastOf
<1>3. \A id : GetAccountById(id) = LastOf({ j \in DOMAIN rows : rows[j].id = id })
  BY DEF GetAccountById, Latest, LastOf
<1>4. ASSUME NEW i \in DOMAIN rows
      PROVE  rows[i].address \in Text /\ GetAccountById(rows[i].id) = {rows[i]}
  <2>1. rows[i] \in Account /\ \A x \in Account : "id" \in DOMAIN x /\ "kind" \notin DOMAIN x
    BY <1>1, RowsFacts DEF Account
  <2> QED
    BY <1>1, <1>3, <2>1, IdFinds DEF Account
<1>5. ASSUME NEW b, NEW r \in LastOf(At(b))
      PROVE  /\ \E i \in At(b) : r = rows[i]
             /\ LastOf(At(b)) = {r}
             /\ Norm(r.address) = Norm(b)
  <2>1. At(b) \in SUBSET DOMAIN rows
    OBVIOUS
  <2>2. PICK i \in At(b) : LastOf(At(b)) = {rows[i]}
    BY <1>5, <2>1, LastFacts, Zenon
  <2> QED
    BY <1>5, <2>2
<1>6. \A t \in Text : Lower(Trim(t)) = Norm(t)
  BY DEF Norm
<1>7. \A r \in found : GetAccountById(r.id) = {r} /\ HasAddress(a)
  <2> SUFFICES ASSUME NEW r \in found PROVE GetAccountById(r.id) = {r} /\ HasAddress(a)
    OBVIOUS
  <2> HIDE DEF At, found
  <2>1. r \in LastOf(At(a))
    BY <1>2, Zenon DEF found
  <2>2. PICK i \in At(a) : r = rows[i]
    BY <1>5, <2>1, Zenon
  <2>3. i \in DOMAIN rows /\ Norm(rows[i].address) = Norm(a)
    BY DEF At
  <2> QED
    BY <2>2, <2>3, <1>4, RowsFacts DEF HasAddress
<1>8. { x \in GetAddresses(cid) : Lower(x) = Norm(a) } = { Trim(r.address) : r \in found }
  <2>1. GetAddresses(cid) = { Trim(r.address) : r \in UNION { LastOf(At(x.address)) : x \in AllRows } }
    BY <1>2 DEF GetAddresses
  <2> HIDE DEF At, found
  <2>2. ASSUME NEW x \in GetAddresses(cid), Lower(x) = Norm(a)
        PROVE  \E r \in found : x = Trim(r.address)
    <3>1. PICK y \in AllRows : \E r \in LastOf(At(y.address)) : x = Trim(r.address)
      BY <2>1, <2>2
    <3> PICK r \in LastOf(At(y.address)) : x = Trim(r.address)
      BY <3>1
    <3>2. PICK i \in At(y.address) : r = rows[i]
      BY <1>5
    <3>3. i \in DOMAIN rows /\ Norm(r.address) = Norm(a) /\ Norm(r.address) = Norm(y.address)
      BY <1>4, <1>5, <1>6, <2>2, <3>1, <3>2 DEF At
    <3>4. At(y.address) = At(a)
      BY <3>3, Zenon DEF At
    <3> QED
      BY <1>2, <3>1, <3>4 DEF found
  <2>3. ASSUME NEW r \in found
        PROVE  Trim(r.address) \in GetAddresses(cid) /\ Lower(Trim(r.address)) = Norm(a)
    <3>1. PICK i \in At(a) : r = rows[i] /\ Norm(r.address) = Norm(a)
      BY <1>2, <1>5 DEF found
    <3>2. i \in DOMAIN rows /\ rows[i] \in AllRows /\ At(rows[i].address) = At(a)
      BY <3>1, RowsFacts DEF At
    <3>3. r \in UNION { LastOf(At(x.address)) : x \in AllRows }
      BY <1>2, <2>3, <3>2 DEF found
    <3> QED
      BY <1>4, <1>6, <2>1, <3>1, <3>2, <3>3
  <2> QED
    BY <2>2, <2>3
<1> QED
  BY <1>7, <1>8

\* The views of the blacklist name the same addresses.
LEMMA Blacklists == LookupInv => BlacklistViewsAgree
<1> SUFFICES ASSUME LookupInv, NEW a \in Text
             PROVE  LET listed == { r \in GetAllBlacklists : Norm(r.address) = Norm(a) } IN
      /\ IsBlacklisted(a) <=> listed # {}
      /\ listed = GetBlacklistByAddress(a)
      /\ Cardinality(listed) <= 1
  BY DEF BlacklistViewsAgree
<1> DEFINE At(b) == { i \in DOMAIN rows : Norm(rows[i].address) = Norm(b) }
           listed == { r \in GetAllBlacklists : Norm(r.address) = Norm(a) }
<1>1. \A b : OfAddress(b) = LastOf(At(b))
  BY DEF OfAddress, Latest, LastOf
<1>2. ASSUME NEW b, NEW r \in LastOf(At(b))
      PROVE  LastOf(At(b)) = {r} /\ Norm(r.address) = Norm(b) /\ r \in AllRows
  <2>1. At(b) \in SUBSET DOMAIN rows
    OBVIOUS
  <2>2. PICK i \in At(b) : LastOf(At(b)) = {rows[i]}
    BY <1>2, <2>1, LastFacts, Zenon
  <2> QED
    BY <1>2, <2>2, RowsFacts
<1>3. \A b, c : Norm(b) = Norm(c) => At(b) = At(c)
  OBVIOUS
<1> HIDE DEF At
<1>4. listed = GetBlacklistByAddress(a)
  <2>1. ASSUME NEW r, r \in listed PROVE r \in GetBlacklistByAddress(a)
    <3>1. PICK x \in AllRows : r \in GetBlacklistByAddress(x.address)
      BY <2>1 DEF GetAllBlacklists
    <3>2. r \in LastOf(At(x.address)) /\ r.status = 1 /\ Norm(r.address) = Norm(a)
      BY <1>1, <2>1, <3>1 DEF GetBlacklistByAddress
    <3>3. At(x.address) = At(a)
      BY <1>2, <1>3, <3>2
    <3> QED
      BY <1>1, <3>2, <3>3 DEF GetBlacklistByAddress
  <2>2. ASSUME NEW r, r \in GetBlacklistByAddress(a) PROVE r \in listed
    <3>1. r \in LastOf(At(a)) /\ r.status = 1
      BY <1>1, <2>2 DEF GetBlacklistByAddress
    <3>2. r \in AllRows /\ Norm(r.address) = Norm(a) /\ At(r.address) = At(a)
      BY <1>2, <1>3, <3>1
    <3> QED
      BY <1>1, <3>1, <3>2 DEF GetBlacklistByAddress, GetAllBlacklists
  <2> QED
    BY <2>1, <2>2
<1>5. listed = {} \/ \E r : listed = {r}
  BY <1>1, <1>2, <1>4 DEF GetBlacklistByAddress
<1>6. IsBlacklisted(a) <=> listed # {}
  BY <1>4 DEF IsBlacklisted, GetBlacklistByAddress
<1> HIDE DEF listed
<1>7. Cardinality(listed) <= 1
  <2>1. Cardinality({}) = 0 /\ \A r : Cardinality({r}) = 1
    BY FS_EmptySet, FS_Singleton, Zenon
  <2>2. Cardinality(listed) = 0 \/ Cardinality(listed) = 1
    BY <1>5, <2>1, Zenon
  <2> QED
    BY <2>2
<1> QED
  BY <1>4, <1>6, <1>7 DEF listed

\* The version that two chains have in common is the same from either.
LEMMA Cctp == LookupInv => CctpVersionIsShared
  BY DEF CctpVersionIsShared, GetCctpVersion, HasMessenger

\* The lookups of liquidity providers agree.
LEMMA Lps == LookupInv => LpLookupsAgree
<1> SUFFICES ASSUME LookupInv, table = "LpInfoManager", NEW tok \in Text, NEW f \in Text, NEW t \in Words
             PROVE  LET infos == GetLpInfos(tok, f, t) IN
      /\ Upper(Norm(tok)) \in GetTokensByLp(f, t) <=> infos # {}
      /\ \A m \in Words : [maker |-> m] \in infos <=> GetLpInfo(tok, f, t, m) # {}
  BY DEF LpLookupsAgree
<1>1. RowsOf[table] = LpInfo
  BY DEF RowsOf
<1>2. \A r \in AllRows : r.token \in Text
  BY <1>1, RowsFacts DEF LpInfo
<1>3. ASSUME NEW p \in Text, NEW q \in Text PROVE Upper(Norm(p)) = Upper(Norm(q)) => Norm(p) = Norm(q)
  <2>1. Norm(p).form = "lower" /\ Norm(q).form = "lower" /\ Norm(p) \in Text /\ Norm(q) \in Text
    BY DEF Norm, Trim, Lower, Text
  <2>2. \A u \in Text : u = [word |-> u.word, form |-> u.form]
    BY DEF Text
  <2>3. \A u \in Text : u.form = "lower" => Upper(u) = [word |-> u.word, form |-> "upper"]
    BY DEF Upper, Text
  <2> HIDE DEF Norm
  <2>4. ASSUME Upper(Norm(p)) = Upper(Norm(q)) PROVE Norm(p).word = Norm(q).word
    BY <2>1, <2>3, <2>4
  <2> QED
    BY <2>1, <2>2, <2>4
<1>4. Upper(Norm(tok)) \in GetTokensByLp(f, t) <=> GetLpInfos(tok, f, t) # {}
  <2>1. GetLpInfos(tok, f, t) # {} <=>
          \E r \in AllRows : Norm(r.token) = Norm(tok) /\ Norm(r.from) = Norm(f) /\ r.to = t
    BY DEF GetLpInfos
  <2>2. Upper(Norm(tok)) \in GetTokensByLp(f, t) <=>
          \E r \in AllRows : Upper(Norm(r.token)) = Upper(Norm(tok)) /\ Norm(r.from) = Norm(f) /\ r.to = t
    BY DEF GetTokensByLp
  <2>3. \A r \in AllRows : Upper(Norm(r.token)) = Upper(Norm(tok)) <=> Norm(r.token) = Norm(tok)
    BY <1>2, <1>3
  <2> QED
    BY <2>1, <2>2, <2>3, Zenon
<1>5. ASSUME NEW m \in Words PROVE [maker |-> m] \in GetLpInfos(tok, f, t) <=> GetLpInfo(tok, f, t, m) # {}
  <2> DEFINE S == { i \in DOMAIN rows : /\ Norm(rows[i].token) = Norm(tok) /\ Norm(rows[i].from) = Norm(f)
                                        /\ rows[i].to = t /\ rows[i].maker = m }
  <2>1. GetLpInfo(tok, f, t, m) = LastOf(S)
    BY DEF GetLpInfo, Latest, LastOf
  <2>2. S \in SUBSET DOMAIN rows
    OBVIOUS
  <2>3. GetLpInfo(tok, f, t, m) # {} <=> S # {}
    BY <2>1, <2>2, LastFacts, Zenon
  <2>4. [maker |-> m] \in GetLpInfos(tok, f, t) <=>
          \E r \in AllRows : /\ Norm(r.token) = Norm(tok) /\ Norm(r.from) = Norm(f)
                             /\ r.to = t /\ r.maker = m
    <3>1. \A u, v : [maker |-> u] = [maker |-> v] => u = v
      BY SMT
    <3> QED
      BY <3>1, Zenon DEF GetLpInfos
  <2> QED
    BY <2>3, <2>4, RowsFacts
<1> QED
  BY <1>4, <1>5

\* A lookup by key returns a row with that key, if there is one.
LEMMA KeyedLookups == LookupInv => KeyedLookupsAgree
<1> SUFFICES ASSUME LookupInv PROVE KeyedLookupsAgree
  OBVIOUS
<1>0. \A r \in AllRows : \E i \in DOMAIN rows : rows[i] = r
  BY RowsFacts
<1>1. ASSUME table = "ExchangeInfoManager", NEW r \in GetAllExchanges
      PROVE  /\ GetExchangeInfoById(r.id) = {r}
             /\ \A n \in Text : Norm(n) = Norm(r.name) =>
                  \E q \in GetExchangeInfoByName(n) : q \in GetAllExchanges /\ Norm(q.name) = Norm(n)
  <2>1. RowsOf[table] = ExchangeInfo
    BY <1>1 DEF RowsOf
  <2>2. PICK i \in DOMAIN rows : rows[i] = r
    BY <1>0, <1>1 DEF GetAllExchanges
  <2>3. GetExchangeInfoById(r.id) = LastOf({ j \in DOMAIN rows : rows[j].id = rows[i].id })
    BY <2>2 DEF GetExchangeInfoById, Latest, LastOf
  <2>4. \A x \in RowsOf[table] : "id" \in DOMAIN x /\ "kind" \notin DOMAIN x
    BY <2>1 DEF ExchangeInfo
  <2>5. GetExchangeInfoById(r.id) = {r}
    BY <2>2, <2>3, <2>4, IdFinds, Zenon
  <2>6. ASSUME NEW n \in Text, Norm(n) = Norm(r.name)
        PROVE  \E q \in GetExchangeInfoByName(n) : q \in GetAllExchanges /\ Norm(q.name) = Norm(n)
    <3> DEFINE S == { j \in DOMAIN rows : Norm(rows[j].name) = Norm(n) }
    <3>1. GetExchangeInfoByName(n) = LastOf(S)
      BY DEF GetExchangeInfoByName, Latest, LastOf
    <3>2. S \in SUBSET DOMAIN rows /\ S # {}
      BY <2>2, <2>6
    <3>3. PICK k \in S : LastOf(S) = {rows[k]}
      BY <3>2, LastFacts, Zenon
    <3> QED
      BY <3>1, <3>3, RowsFacts DEF GetAllExchanges
  <2> QED
    BY <2>5, <2>6
<1>2. ASSUME table = "MultiTransferChainManager", NEW r \in GetAllChains
      PROVE  /\ GetChainById(r.id) = {r}
             /\ GetMultiTransferChainByChainId(r.chainId) \subseteq GetAllChains
  <2>1. RowsOf[table] = MultiTransferChain
    BY <1>2 DEF RowsOf
  <2>2. PICK i \in DOMAIN rows : rows[i] = r
    BY <1>0, <1>2 DEF GetAllChains
  <2>3. GetChainById(r.id) = LastOf({ j \in DOMAIN rows : rows[j].id = rows[i].id })
    BY <2>2 DEF GetChainById, Latest, LastOf
  <2>4. \A x \in RowsOf[table] : "id" \in DOMAIN x /\ "kind" \notin DOMAIN x
    BY <2>1 DEF MultiTransferChain
  <2>5. GetChainById(r.id) = {r}
    BY <2>2, <2>3, <2>4, IdFinds, Zenon
  <2>6. GetMultiTransferChainByChainId(r.chainId) \subseteq GetAllChains
    BY DEF GetMultiTransferChainByChainId, Latest, GetAllChains, AllRows
  <2> QED
    BY <2>5, <2>6
<1>3. ASSUME table = "MultiTransferTokenManager", NEW r \in GetAllTokens
      PROVE  /\ \A q \in GetByChainNameTokenAddr(r.chain, r.address) : GetByChainNameTokenName(q.chain, q.name) # {}
             /\ \A q \in GetByChainNameTokenName(r.chain, r.name) : GetByChainNameTokenAddr(q.chain, q.address) # {}
  <2> DEFINE Named(c, n) == { j \in DOMAIN rows : Norm(rows[j].chain) = Norm(c) /\ rows[j].name = n }
             Placed(c, a) == { j \in DOMAIN rows : Norm(rows[j].chain) = Norm(c) /\ Norm(rows[j].address) = Norm(a) }
  <2>1. /\ \A c, n : GetByChainNameTokenName(c, n) = LastOf(Named(c, n))
        /\ \A c, a : GetByChainNameTokenAddr(c, a) = LastOf(Placed(c, a))
    BY DEF GetByChainNameTokenName, GetByChainNameTokenAddr, Latest, LastOf
  <2>2. /\ \A c, n : Named(c, n) \in SUBSET DOMAIN rows
        /\ \A c, a : Placed(c, a) \in SUBSET DOMAIN rows
    OBVIOUS
  <2>3. \A i \in DOMAIN rows : /\ i \in Named(rows[i].chain, rows[i].name)
                               /\ i \in Placed(rows[i].chain, rows[i].address)
    OBVIOUS
  <2>4. \A c, n : \A q \in LastOf(Named(c, n)) : q \in AllRows
    BY RowsFacts DEF LastOf
  <2>5. \A c, a : \A q \in LastOf(Placed(c, a)) : q \in AllRows
    BY RowsFacts DEF LastOf
  <2> HIDE DEF Named, Placed
  <2>6. \A i \in DOMAIN rows : /\ LastOf(Named(rows[i].chain, rows[i].name)) # {}
                               /\ LastOf(Placed(rows[i].chain, rows[i].address)) # {}
    <3> SUFFICES ASSUME NEW i \in DOMAIN rows
                 PROVE  /\ LastOf(Named(rows[i].chain, rows[i].name)) # {}
                        /\ LastOf(Placed(rows[i].chain, rows[i].address)) # {}
      OBVIOUS
    <3>1. Named(rows[i].chain, rows[i].name) # {} /\ Placed(rows[i].chain, rows[i].address) # {}
      BY <2>3
    <3> QED
      BY <2>2, <3>1, LastFacts, Zenon
  <2>7. \A q \in AllRows : /\ GetByChainNameTokenName(q.chain, q.name) # {}
                           /\ GetByChainNameTokenAddr(q.chain, q.address) # {}
    BY <1>0, <2>1, <2>6
  <2> QED
    BY <2>1, <2>4, <2>5, <2>7
<1>4. ASSUME table = "AggregatorManager", NEW c \in DOMAIN GetAllSupportedChains,
             NEW n \in GetAllSupportedChains[c]
      PROVE  \E agg \in Refs : /\ \E r \in GetAggregateChainConfigByChainID(agg, c) : r.name = n
                               /\ GetAggregateChainConfigByChainName(agg, n) # {}
  <2>1. PICK agg \in Refs : \E r \in GetAggregateChainConfigByChainID(agg, c) : r.name = n
    BY <1>4 DEF GetAllSupportedChains
  <2>2. PICK i \in DOMAIN rows : rows[i].agg = agg /\ rows[i].name = n
    BY <2>1 DEF GetAggregateChainConfigByChainID, Latest
  <2> DEFINE S == { j \in DOMAIN rows : rows[j].agg = agg /\ Norm(rows[j].name) = Norm(n) }
  <2>3. GetAggregateChainConfigByChainName(agg, n) = LastOf(S)
    BY DEF GetAggregateChainConfigByChainName, Latest, LastOf
  <2>4. S \in SUBSET DOMAIN rows /\ S # {}
    BY <2>2
  <2>5. LastOf(S) # {}
    BY <2>4, LastFacts, Zenon
  <2> QED
    BY <2>1, <2>3, <2>5
<1>5. ASSUME table = "UpdatePriceManager", NEW r \in AllRows, NEW s \in Text, Norm(s) = Norm(r.token)
      PROVE  Cardinality(GetUpdatePrice(s)) = 1
  <2> DEFINE S == { j \in DOMAIN rows : Norm(rows[j].token) = Norm(s) }
  <2>1. GetUpdatePrice(s) = LastOf(S)
    BY DEF GetUpdatePrice, Latest, LastOf
  <2>2. S \in SUBSET DOMAIN rows /\ S # {}
    BY <1>0, <1>5
  <2>3. PICK k \in S : LastOf(S) = {rows[k]}
    BY <2>2, LastFacts, Zenon
  <2> QED
    BY <2>1, <2>3, FS_Singleton, Zenon
<1>6. ASSUME table = "PopularListManager", NEW s \in Text, NEW w \in Levels, NEW tag \in Words
      PROVE  LET given == [x \in Words |-> w]
                 said == { r.weight : r \in { q \in AllRows : Norm(q.chain) = Norm(s) /\ q.tag = tag } }
             IN  GetPopularWeight(given, s)[tag] \in IF said = {} THEN {w} ELSE said
  <2> DEFINE given == [x \in Words |-> w]
             said == { r.weight : r \in { q \in AllRows : Norm(q.chain) = Norm(s) /\ q.tag = tag } }
             S == { j \in DOMAIN rows : Norm(rows[j].chain) = Norm(s) /\ rows[j].tag = tag }
  <2>1. GetPopularWeight(given, s)[tag] = IF LastOf(S) = {} THEN w ELSE (CHOOSE r \in LastOf(S) : TRUE).weight
    BY DEF GetPopularWeight, Latest, LastOf
  <2>2. CASE S = {}
    <3>1. said = {} /\ LastOf(S) = {}
      BY <1>0, <2>2 DEF LastOf
    <3> QED
      BY <2>1, <3>1
  <2>3. CASE S # {}
    <3>1. S \in SUBSET DOMAIN rows
      OBVIOUS
    <3>2. PICK k \in S : LastOf(S) = {rows[k]}
      BY <2>3, <3>1, LastFacts, Zenon
    <3>3. rows[k].weight \in said
      BY <3>2, RowsFacts
    <3>4. (CHOOSE r \in {rows[k]} : TRUE) = rows[k]
      OBVIOUS
    <3> QED
      BY <2>1, <3>2, <3>3, <3>4
  <2> QED
    BY <2>2, <2>3
<1> QED
  BY <1>1, <1>2, <1>3, <1>4, <1>5, <1>6 DEF KeyedLookupsAgree

\* The roles that a user has are those of the joined tables.
LEMMA Roles == LookupInv => RolesAreJoined
<1> SUFFICES ASSUME LookupInv, NEW a \in Text, NEW n \in Words
             PROVE  /\ HasRole(a, n) <=>
                         \E u \in Kind(2), l \in Kind(3), r \in Kind(1) :
                           /\ Lower(u.address) = Lower(a) /\ l.user = u.id
                           /\ l.role = r.id /\ r.name = n
                    /\ HasRole(a, n) => GetAddressName(a) # {}
  BY DEF RolesAreJoined
<1>1. HasRole(a, n) <=>
        \E u \in Kind(2), l \in Kind(3), r \in Kind(1) :
          /\ Lower(u.address) = Lower(a) /\ l.user = u.id
          /\ l.role = r.id /\ r.name = n
  BY DEF HasRole, RolesOf
<1>2. ASSUME HasRole(a, n) PROVE GetAddressName(a) # {}
  <2> DEFINE S == { i \in DOMAIN rows : rows[i].kind = 2 /\ Lower(rows[i].address) = Lower(a) }
  <2>1. GetAddressName(a) = { u.id : u \in FirstOf(S) }
    BY DEF GetAddressName, Earliest, FirstOf
  <2>2. S \in SUBSET DOMAIN rows /\ S # {}
    BY <1>2, RowsFacts DEF HasRole, Kind
  <2>3. PICK i \in S : FirstOf(S) = {rows[i]}
    BY <2>2, FirstFacts, Zenon
  <2> QED
    BY <2>1, <2>3
<1> QED
  BY <1>1, <1>2

\* The lookups of maker addresses agree.
LEMMA Makers == LookupInv => MakerLookupsAgree
<1> SUFFICES ASSUME LookupInv, table = "MakerAddressManager"
             PROVE  /\ \A a \in Words : \A m \in GetMakerAddressByGroupId(GetGroupIDByBackendAndAddress(a)) :
                         a \in m.addresses
                    /\ \A g \in Refs, env \in Words : \A m \in GetMakerAddressByGroupId(g) :
                         m \in GetMakerAddressesByEnv(env) <=> m.env = env
  BY DEF MakerLookupsAgree
<1>1. RowsOf[table] = MakerRow
  BY DEF RowsOf
<1>2. ASSUME NEW r \in AllRows
      PROVE  /\ r.kind = 1 => r.id \in Refs
             /\ r.kind = 2 => r.group \in Refs
  BY <1>1, RowsFacts DEF MakerRow
<1>3. 0 \notin Refs
  BY LookupAssumption
<1>4. ASSUME NEW a \in Words, NEW m \in GetMakerAddressByGroupId(GetGroupIDByBackendAndAddress(a))
      PROVE  a \in m.addresses
  <2> DEFINE S == { i \in DOMAIN rows : rows[i].kind = 2 /\ rows[i].address = a }
             g == GetGroupIDByBackendAndAddress(a)
  <2>1. g = IF LastOf(S) = {} THEN 0 ELSE (CHOOSE r \in LastOf(S) : TRUE).group
    BY DEF GetGroupIDByBackendAndAddress, Latest, LastOf
  <2> HIDE DEF g
  <2>2. PICK q \in Kind(1) : q.id = g /\ m.addresses = { x.address : x \in { y \in Kind(2) : y.group = g } }
    BY <1>4 DEF GetMakerAddressByGroupId, g
  <2>3. g # 0
    BY <1>2, <1>3, <2>2 DEF Kind
  <2>4. S \in SUBSET DOMAIN rows /\ S # {}
    BY <2>1, <2>3 DEF LastOf
  <2>5. PICK i \in S : LastOf(S) = {rows[i]}
    BY <2>4, LastFacts, Zenon
  <2>6. g = rows[i].group
    <3>1. (CHOOSE r \in {rows[i]} : TRUE) = rows[i]
      OBVIOUS
    <3> QED
      BY <2>1, <2>5, <3>1
  <2>7. rows[i] \in Kind(2) /\ rows[i].address = a
    BY RowsFacts DEF Kind
  <2> QED
    BY <2>2, <2>6, <2>7
<1>5. ASSUME NEW g \in Refs, NEW env \in Words, NEW m \in GetMakerAddressByGroupId(g)
      PROVE  m \in GetMakerAddressesByEnv(env) <=> m.env = env
  <2> DEFINE Group(r) ==
        [id |-> r.id, env |-> r.env,
         addresses |-> { a.address : a \in { x \in Kind(2) : x.group = r.id } },
         security  |-> { a.address : a \in { x \in Kind(3) : x.group = r.id } }]
  <2>1. \A h : GetMakerAddressByGroupId(h) = { Group(r) : r \in { x \in Kind(1) : x.id = h } }
    BY DEF GetMakerAddressByGroupId
  <2>2. \A r : Group(r).id = r.id /\ Group(r).env = r.env
    OBVIOUS
  <2> HIDE DEF Group
  <2>3. PICK r \in Kind(1) : r.id = g /\ m = Group(r)
    BY <1>5, <2>1
  <2>4. ASSUME m \in GetMakerAddressesByEnv(env) PROVE m.env = env
    <3>1. PICK q \in { x \in Kind(1) : x.env = env } : m \in GetMakerAddressByGroupId(q.id)
      BY <2>4 DEF GetMakerAddressesByEnv
    <3>2. PICK p \in Kind(1) : p.id = q.id /\ m = Group(p)
      BY <2>1, <3>1
    <3>3. p = q
      <4>1. \A x, y \in Kind(1) : x.id = y.id => x = y
        <5> SUFFICES ASSUME NEW x \in Kind(1), NEW y \in Kind(1), x.id = y.id PROVE x = y
          OBVIOUS
        <5>1. PICK i \in DOMAIN rows, j \in DOMAIN rows : x = rows[i] /\ y = rows[j]
          BY RowsFacts DEF Kind
        <5>2. x.kind = 1 /\ y.kind = 1 /\ "id" \in DOMAIN x /\ "id" \in DOMAIN y
          BY <1>1, RowsFacts DEF Kind, MakerRow
        <5>3. ~(i < j) /\ ~(j < i)
          BY <5>1, <5>2, Zenon DEF LookupInv, KeysOK
        <5> QED
          BY <5>1, <5>3, RowsFacts
      <4> QED
        BY <3>2, <4>1
    <3> QED
      BY <2>2, <3>1, <3>2, <3>3
  <2>5. ASSUME m.env = env PROVE m \in GetMakerAddressesByEnv(env)
    <3>1. r \in { x \in Kind(1) : x.env = env }
      BY <2>2, <2>3, <2>5
    <3>2. m \in GetMakerAddressByGroupId(r.id)
      BY <2>3, <1>5
    <3> QED
      BY <3>1, <3>2 DEF GetMakerAddressesByEnv
  <2> QED
    BY <2>4, <2>5
<1> QED
  BY <1>4, <1>5

\* A slice that was sorted has each of its rows once.
LEMMA SortedFacts ==
  ASSUME NEW S, IsFiniteSet(S), NEW before, NEW p \in Sorted(S, before)
  PROVE  /\ Cardinality(S) \in Nat /\ DOMAIN p = 1..Cardinality(S)
         /\ \A i \in DOMAIN p : p[i] \in S
         /\ \A k \in S : \E i \in DOMAIN p : p[i] = k
         /\ \A i, j \in DOMAIN p : i < j => p[i] # p[j] /\ <<p[j], p[i]>> \notin before
<1> DEFINE n == Cardinality(S)
<1>1. n \in Nat
  BY FS_CardinalityType
<1>2. p \in [1..n -> S] /\ \A i, j \in 1..n : i < j => p[i] # p[j] /\ <<p[j], p[i]>> \notin before
  BY DEF Sorted
<1>3. ASSUME NEW i \in 1..n, NEW j \in 1..n, p[i] = p[j] PROVE i = j
  <2>1. ~(i < j) /\ ~(j < i)
    BY <1>2, <1>3
  <2> QED
    BY <1>1, <2>1
<1>4. p \in Injection(1..n, S)
  BY <1>2, <1>3 DEF Injection, IsInjective
<1>5. Cardinality(1..n) = n
  BY <1>1, FS_Interval
<1>6. p \in Surjection(1..n, S)
  BY <1>4, <1>5, FS_Injection
<1> QED
  BY <1>1, <1>2, <1>6 DEF Surjection

\* In a finite set some row may come first: one that fewest come before.
LEMMA FirstExists ==
  ASSUME NEW T, IsFiniteSet(T), T # {}, NEW before,
         \A i \in T : <<i, i>> \notin before,
         \A i, j, k \in T : <<i, j>> \in before /\ <<j, k>> \in before => <<i, k>> \in before
  PROVE  \E m \in T : \A k \in T : <<k, m>> \notin before
<1> DEFINE Under(i) == { k \in T : <<k, i>> \in before }
           Counts == { Cardinality(Under(i)) : i \in T }
<1>1. \A i : IsFiniteSet(Under(i)) /\ Cardinality(Under(i)) \in Nat
  <2> SUFFICES ASSUME NEW i PROVE IsFiniteSet(Under(i)) /\ Cardinality(Under(i)) \in Nat
    OBVIOUS
  <2>1. Under(i) \in SUBSET T
    OBVIOUS
  <2> QED
    BY <2>1, FS_Subset, FS_CardinalityType, Zenon
<1>2. \A i, k \in T : <<k, i>> \in before => Under(k) \subseteq Under(i) /\ k \in Under(i) /\ k \notin Under(k)
  OBVIOUS
<1> HIDE DEF Under
<1>3. PICK c \in Counts : \A d \in Counts : c <= d
  <2>1. Counts \in SUBSET Nat /\ Counts # {}
    BY <1>1
  <2> HIDE DEF Counts
  <2> QED
    BY <2>1, LeastNat
<1>4. PICK m \in T : c = Cardinality(Under(m))
  BY <1>3
<1>5. ASSUME NEW k \in T, <<k, m>> \in before PROVE FALSE
  <2>1. Under(k) \in SUBSET Under(m) /\ Under(k) # Under(m)
    BY <1>2, <1>5
  <2>2. Cardinality(Under(k)) <= Cardinality(Under(m)) /\ Cardinality(Under(k)) # Cardinality(Under(m))
    BY <1>1, <2>1, FS_Subset
  <2>3. c <= Cardinality(Under(k))
    BY <1>3
  <2> QED
    BY <1>1, <1>4, <2>2, <2>3
<1> QED
  BY <1>5

\* There is an order to leave the rows in.
LEMMA SortedExists ==
  ASSUME NEW S, IsFiniteSet(S), NEW before,
         \A i \in S : <<i, i>> \notin before,
         \A i, j, k \in S : <<i, j>> \in before /\ <<j, k>> \in before => <<i, k>> \in before
  PROVE  Sorted(S, before) # {}
<1> DEFINE Bad == { n \in Nat : \E T \in SUBSET S : Cardinality(T) = n /\ Sorted(T, before) = {} }
<1>1. \A T \in SUBSET S : IsFiniteSet(T) /\ Cardinality(T) \in Nat
  BY FS_Subset, FS_CardinalityType
<1>2. SUFFICES Bad = {}
  BY <1>1
<1>3. SUFFICES ASSUME Bad # {} PROVE FALSE
  OBVIOUS
<1>4. PICK n \in Bad : \A k \in Bad : n <= k
  BY <1>3, LeastNat
<1>5. PICK T \in SUBSET S : Cardinality(T) = n /\ Sorted(T, before) = {}
  BY <1>4
<1>6. CASE T = {}
  <2>1. n = 0
    BY <1>5, <1>6, FS_EmptySet
  <2>2. [i \in {} |-> i] \in [1..0 -> T] /\ DOMAIN [i \in {} |-> i] = {}
    OBVIOUS
  <2>3. [i \in {} |-> i] \in Sorted(T, before)
    BY <1>5, <2>1, <2>2 DEF Sorted
  <2> QED
    BY <1>5, <2>3
<1>7. CASE T # {}
  <2>1. PICK x \in T : \A k \in T : <<k, x>> \notin before
    <3>1. IsFiniteSet(T) /\ T \subseteq S
      BY <1>1
    <3>2. /\ \A i \in T : <<i, i>> \notin before
          /\ \A i, j, k \in T : <<i, j>> \in before /\ <<j, k>> \in before => <<i, k>> \in before
      BY <3>1
    <3> QED
      BY <1>7, <3>1, <3>2, FirstExists
  <2>2. n \in Nat \ {0} /\ Cardinality(T \ {x}) = n - 1 /\ T \ {x} \in SUBSET S
    BY <1>1, <1>4, <1>5, <1>7, <2>1, FS_EmptySet, FS_RemoveElement
  <2>3. PICK q \in Sorted(T \ {x}, before) : TRUE
    <3>1. n - 1 \notin Bad /\ n - 1 \in Nat
      BY <1>4, <2>2
    <3> QED
      BY <2>2, <3>1
  <2> DEFINE p == [i \in 1..n |-> IF i = 1 THEN x ELSE q[i - 1]]
  <2>4. /\ q \in [1..(n - 1) -> T \ {x}]
        /\ \A i, j \in 1..(n - 1) : i < j => q[i] # q[j] /\ <<q[j], q[i]>> \notin before
    BY <2>2, <2>3 DEF Sorted
  <2>5. p \in [1..n -> T]
    BY <2>1, <2>2, <2>4
  <2>6. ASSUME NEW i \in 1..n, NEW j \in 1..n, i < j
        PROVE  p[i] # p[j] /\ <<p[j], p[i]>> \notin before
    <3>1. j - 1 \in 1..(n - 1) /\ p[j] = q[j - 1] /\ p[j] \in T \ {x}
      BY <2>2, <2>4, <2>6
    <3>2. CASE i = 1
      BY <2>1, <3>1, <3>2
    <3>3. CASE i # 1
      <4>1. i - 1 \in 1..(n - 1) /\ p[i] = q[i - 1] /\ i - 1 < j - 1
        BY <2>2, <2>6, <3>3
      <4> QED
        BY <2>4, <3>1, <4>1
    <3> QED
      BY <3>2, <3>3
  <2> HIDE DEF p
  <2>7. p \in Sorted(T, before)
    <3>1. DOMAIN p = 1..n
      BY <2>5
    <3> QED
      BY <1>5, <2>5, <2>6, <3>1, Zenon DEF Sorted
  <2> QED
    BY <1>5, <2>7
<1> QED
  BY <1>6, <1>7

\* Positions are finitely many.
LEMMA RowSets == ASSUME LookupInv, NEW S \in SUBSET DOMAIN rows PROVE IsFiniteSet(S)
<1>1. IsFiniteSet(1..Len(rows))
  BY RowsFacts, FS_Interval
<1> QED
  BY <1>1, RowsFacts, FS_Subset

\* Which row's threshold is the less.
Fewer == { ij \in (DOMAIN rows) \X (DOMAIN rows) : rows[ij[1]].txCount < rows[ij[2]].txCount }
OfChannel(c) == { i \in DOMAIN rows : rows[i].channel = c }

\* Thresholds of a channel can be sorted, and rise.
LEMMA Thresholds ==
  ASSUME LookupInv, table = "ChannelCommissionRatioManager"
  PROVE  /\ \A i \in DOMAIN rows : rows[i].txCount \in Nat
         /\ \A i, j \in DOMAIN rows : <<i, j>> \in Fewer <=> rows[i].txCount < rows[j].txCount
<1>1. RowsOf[table] = ChannelCommissionRatio
  BY DEF RowsOf
<1>2. \A i \in DOMAIN rows : rows[i].txCount \in Nat
  <2>1. \A i \in DOMAIN rows : rows[i] \in ChannelCommissionRatio
    BY <1>1, RowsFacts
  <2>2. \A x \in ChannelCommissionRatio : x.txCount \in Levels
    BY DEF ChannelCommissionRatio
  <2> QED
    BY <2>1, <2>2, LookupAssumption
<1> QED
  BY <1>2 DEF Fewer

\* The entry the loop stops at has the threshold that was asked for.
LEMMA CommissionEntry ==
  ASSUME LookupInv, table = "ChannelCommissionRatioManager", NEW c \in Refs, NEW n \in Levels,
         NEW arr \in RatioArr(c), NEW k \in EntryFor(arr, n)
  PROVE  LET r     == rows[arr[k]]
             all   == { x \in AllRows : x.channel = c }
             above == { x \in all : x.txCount > n }
         IN  /\ r \in all
             /\ above # {} => r \in above /\ \A q \in above : r.txCount <= q.txCount
             /\ above = {} => \A q \in all : r.txCount >= q.txCount
<1> DEFINE r     == rows[arr[k]]
           all   == { x \in AllRows : x.channel = c }
           above == { x \in all : x.txCount > n }
           m     == Cardinality(OfChannel(c))
<1>1. /\ m \in Nat /\ DOMAIN arr = 1..m
      /\ \A i \in DOMAIN arr : arr[i] \in OfChannel(c)
      /\ \A x \in OfChannel(c) : \E i \in DOMAIN arr : arr[i] = x
      /\ \A i, j \in DOMAIN arr : i < j => arr[i] # arr[j] /\ <<arr[j], arr[i]>> \notin Fewer
  <2>1. IsFiniteSet(OfChannel(c)) /\ arr \in Sorted(OfChannel(c), Fewer)
    BY RowSets DEF RatioArr, OfChannel, Fewer
  <2> QED
    BY <2>1, SortedFacts
<1> HIDE DEF m
<1>2. /\ \A i \in DOMAIN arr : rows[arr[i]] \in all /\ rows[arr[i]].txCount \in Nat
      /\ \A x \in all : x.txCount \in Nat /\ \E i \in DOMAIN arr : rows[arr[i]] = x
      /\ n \in Nat
  BY <1>1, Thresholds, RowsFacts, LookupAssumption DEF OfChannel
<1>3. \A i, j \in DOMAIN arr : i <= j => rows[arr[i]].txCount <= rows[arr[j]].txCount
  <2> SUFFICES ASSUME NEW i \in DOMAIN arr, NEW j \in DOMAIN arr, i <= j
               PROVE  rows[arr[i]].txCount <= rows[arr[j]].txCount
    OBVIOUS
  <2>1. arr[i] \in DOMAIN rows /\ arr[j] \in DOMAIN rows
    BY <1>1 DEF OfChannel
  <2>2. CASE i = j
    BY <1>2, <2>2
  <2>3. CASE i < j
    <3>1. ~(rows[arr[j]].txCount < rows[arr[i]].txCount)
      BY <1>1, <2>1, <2>3, Thresholds
    <3> QED
      BY <1>2, <3>1
  <2> QED
    BY <1>1, <2>2, <2>3
<1>4. \A i \in DOMAIN arr : i \in Nat
  BY <1>1
<1>5. CASE FirstAbove(arr, n) # {}
  <2>1. k \in FirstAbove(arr, n)
    BY <1>5 DEF EntryFor
  <2>2. k \in DOMAIN arr /\ n < r.txCount /\ \A j \in 1..(k - 1) : n >= rows[arr[j]].txCount
    BY <2>1 DEF FirstAbove
  <2>3. r \in above
    BY <1>2, <2>2
  <2>4. ASSUME NEW q \in above PROVE r.txCount <= q.txCount
    <3>1. PICK j \in DOMAIN arr : rows[arr[j]] = q
      BY <1>2
    <3>2. ~(j < k)
      <4>1. j < k => j \in 1..(k - 1)
        BY <1>1, <2>2, <3>1
      <4> QED
        BY <1>2, <2>2, <3>1, <4>1
    <3> QED
      BY <1>3, <1>4, <2>2, <3>1, <3>2
  <2> QED
    BY <1>2, <2>2, <2>3, <2>4
<1>6. CASE FirstAbove(arr, n) = {}
  <2>1. \A i \in DOMAIN arr : ~(n < rows[arr[i]].txCount)
    <3> DEFINE Passed == { i \in DOMAIN arr : n < rows[arr[i]].txCount }
    <3> SUFFICES ASSUME Passed # {} PROVE FALSE
      OBVIOUS
    <3>1. Passed \in SUBSET Nat
      BY <1>4
    <3>2. PICK i \in Passed : \A j \in Passed : i <= j
      BY <3>1, LeastNat
    <3>3. \A j \in 1..(i - 1) : n >= rows[arr[j]].txCount
      <4> SUFFICES ASSUME NEW j \in 1..(i - 1) PROVE n >= rows[arr[j]].txCount
        OBVIOUS
      <4>1. j \in DOMAIN arr /\ ~(i <= j)
        BY <1>1, <3>2
      <4> QED
        BY <1>2, <3>2, <4>1
    <3> QED
      BY <1>6, <3>2, <3>3 DEF FirstAbove
  <2>2. above = {}
    BY <1>2, <2>1
  <2>3. k \in DOMAIN arr /\ k = Len(arr)
    BY <1>6 DEF EntryFor
  <2>4. k = m
    <3>1. arr \in [1..m -> OfChannel(c)]
      BY <1>1, <2>3 DEF RatioArr, Sorted, OfChannel, Fewer, m
    <3>2. Len(arr) = m
      BY <1>1, <3>1, SeqDef
    <3> QED
      BY <2>3, <3>2
  <2>5. ASSUME NEW q \in all PROVE r.txCount >= q.txCount
    <3>1. PICK j \in DOMAIN arr : rows[arr[j]] = q
      BY <1>2
    <3>2. j <= k
      BY <1>1, <2>3, <2>4, <3>1
    <3> QED
      BY <1>2, <1>3, <2>3, <3>1, <3>2
  <2> QED
    BY <1>2, <2>2, <2>3, <2>5
<1> QED
  BY <1>5, <1>6

\* A channel with an entry has a ratio for every count.
LEMMA CommissionIsFound ==
  ASSUME LookupInv, table = "ChannelCommissionRatioManager", NEW c \in Refs, NEW n \in Levels,
         { x \in AllRows : x.channel = c } # {}
  PROVE  \E arr \in RatioArr(c) : EntryFor(arr, n) # {}
<1>1. OfChannel(c) # {} /\ OfChannel(c) \in SUBSET DOMAIN rows
  BY RowsFacts DEF OfChannel
<1>2. IsFiniteSet(OfChannel(c)) /\ Cardinality(OfChannel(c)) \in Nat \ {0}
  BY <1>1, RowSets, FS_CardinalityType, FS_EmptySet
<1>3. PICK arr \in Sorted(OfChannel(c), Fewer) : TRUE
  <2>1. /\ \A i \in OfChannel(c) : <<i, i>> \notin Fewer
        /\ \A i, j, k \in OfChannel(c) : <<i, j>> \in Fewer /\ <<j, k>> \in Fewer => <<i, k>> \in Fewer
    BY <1>1, Thresholds
  <2> QED
    BY <1>2, <2>1, SortedExists
<1>4. arr \in [1..Cardinality(OfChannel(c)) -> OfChannel(c)]
  BY <1>3 DEF Sorted
<1>5. Len(arr) = Cardinality(OfChannel(c)) /\ Len(arr) \in DOMAIN arr
  BY <1>2, <1>4, SeqDef
<1>6. EntryFor(arr, n) # {}
  BY <1>5 DEF EntryFor
<1> QED
  BY <1>3, <1>6 DEF RatioArr, OfChannel, Fewer

\* The ratio of a count is that of the tier it is in.
LEMMA Commissions == LookupInv => CommissionTier
<1> SUFFICES ASSUME LookupInv, table = "ChannelCommissionRatioManager", NEW c \in Refs, NEW n \in Levels
             PROVE  LET all   == { r \in AllRows : r.channel = c }
                        above == { r \in all : r.txCount > n }
                        lowest == { r \in above : \A q \in above : r.txCount <= q.txCount }
                        most  == { r \in all : \A q \in all : r.txCount >= q.txCount }
                        got   == GetRatioByChannelidAndCount(c, n)
                    IN  /\ got \subseteq { r.ratio : r \in IF above # {} THEN lowest ELSE most }
                        /\ all # {} => got # {}
                        /\ (\A q, r \in all : q.txCount = r.txCount => q.ratio = r.ratio) => Cardinality(got) <= 1
  BY DEF CommissionTier
<1> DEFINE all   == { r \in AllRows : r.channel = c }
           above == { r \in all : r.txCount > n }
           lowest == { r \in above : \A q \in above : r.txCount <= q.txCount }
           most  == { r \in all : \A q \in all : r.txCount >= q.txCount }
           best  == IF above # {} THEN lowest ELSE most
           got   == GetRatioByChannelidAndCount(c, n)
<1>1. ASSUME NEW v \in got PROVE \E r \in best : v = r.ratio
  <2>1. PICK arr \in RatioArr(c) : \E k \in EntryFor(arr, n) : v = rows[arr[k]].ratio
    BY DEF GetRatioByChannelidAndCount
  <2>2. PICK k \in EntryFor(arr, n) : v = rows[arr[k]].ratio
    BY <2>1
  <2>3. rows[arr[k]] \in best
    BY CommissionEntry
  <2> QED
    BY <2>2, <2>3
<1>2. all # {} => got # {}
  <2> SUFFICES ASSUME all # {} PROVE got # {}
    OBVIOUS
  <2>1. PICK arr \in RatioArr(c) : EntryFor(arr, n) # {}
    BY CommissionIsFound
  <2>2. PICK k \in EntryFor(arr, n) : TRUE
    BY <2>1
  <2>3. rows[arr[k]].ratio \in got
    BY <2>2 DEF GetRatioByChannelidAndCount
  <2> QED
    BY <2>3
<1>3. \A q, r \in best : q \in all /\ r \in all /\ q.txCount = r.txCount
  <2>1. \A r \in all : r.txCount \in Nat
    BY Thresholds, RowsFacts
  <2> QED
    BY <2>1
<1> HIDE DEF got
<1>4. ASSUME \A q, r \in all : q.txCount = r.txCount => q.ratio = r.ratio PROVE Cardinality(got) <= 1
  <2>1. \A v, w \in got : v = w
    BY <1>1, <1>3, <1>4
  <2>2. got = {} \/ \E v : got = {v}
    BY <2>1
  <2>3. Cardinality({}) = 0 /\ \A v : Cardinality({v}) = 1
    BY FS_EmptySet, FS_Singleton, Zenon
  <2>4. Cardinality(got) = 0 \/ Cardinality(got) = 1
    BY <2>2, <2>3, Zenon
  <2> QED
    BY <2>4
<1> QED
  BY <1>1, <1>2, <1>4 DEF got

\* Which node is preferred, and where it stands in a set.
Better(m, n) == m.usability > n.usability \/ (m.usability = n.usability /\ m.id < n.id)
Rank == { ij \in (DOMAIN rows) \X (DOMAIN rows) :
            LET m == rows[ij[1]]  n == rows[ij[2]]
            IN  m.usability > n.usability \/ (m.usability = n.usability /\ m.id < n.id) }
Best(T) == { n \in T : \A m \in T \ {n} : Better(n, m) }

\* Nodes are told apart by their ids, and so the preference is strict.
LEMMA NodeFacts ==
  ASSUME LookupInv, table = "NodeInfoManager"
  PROVE  /\ \A i \in DOMAIN rows : rows[i].usability \in Nat /\ rows[i].id \in Nat
         /\ \A i, j \in DOMAIN rows : <<i, j>> \in Rank <=> Better(rows[i], rows[j])
         /\ \A i, j \in DOMAIN rows : i # j => rows[i].id # rows[j].id
<1>1. RowsOf[table] = NodeInfo
  BY DEF RowsOf
<1>2. \A x \in NodeInfo : x.usability \in Levels /\ x.id \in Ids /\ "id" \in DOMAIN x /\ "kind" \notin DOMAIN x
  BY DEF NodeInfo
<1>3. \A i \in DOMAIN rows : rows[i] \in NodeInfo /\ i \in Nat
  BY <1>1, RowsFacts
<1>4. ASSUME NEW i \in DOMAIN rows, NEW j \in DOMAIN rows, rows[i].id = rows[j].id PROVE i = j
  <2>1. ~(i < j) /\ ~(j < i)
    BY <1>2, <1>3, <1>4, Zenon DEF LookupInv, KeysOK
  <2> QED
    BY <1>3, <2>1
<1>5. \A i, j \in DOMAIN rows : <<i, j>> \in Rank <=> Better(rows[i], rows[j])
  BY DEF Rank, Better
<1> QED
  BY <1>2, <1>3, <1>4, <1>5, LookupAssumption

\* A sorted slice of nodes goes from better to worse.
LEMMA NodesDescend ==
  ASSUME LookupInv, table = "NodeInfoManager", NEW S \in SUBSET DOMAIN rows,
         NEW arr \in sortNodesByUsability(S)
  PROVE  /\ \A i \in DOMAIN arr : i \in Nat \ {0} /\ arr[i] \in S
         /\ \A k \in S : \E i \in DOMAIN arr : arr[i] = k
         /\ \A i, j \in DOMAIN arr : i < j => Better(rows[arr[i]], rows[arr[j]])
         /\ S # {} => 1 \in DOMAIN arr
<1>0. IsFiniteSet(S) /\ arr \in Sorted(S, Rank)
  BY RowSets DEF sortNodesByUsability, Rank
<1>1. /\ Cardinality(S) \in Nat /\ DOMAIN arr = 1..Cardinality(S)
      /\ \A i \in DOMAIN arr : arr[i] \in S
      /\ \A k \in S : \E i \in DOMAIN arr : arr[i] = k
      /\ \A i, j \in DOMAIN arr : i < j => arr[i] # arr[j] /\ <<arr[j], arr[i]>> \notin Rank
  BY <1>0, SortedFacts
<1>2. ASSUME NEW i \in DOMAIN arr, NEW j \in DOMAIN arr, i < j
      PROVE  Better(rows[arr[i]], rows[arr[j]])
  <2> DEFINE x == arr[i]
             y == arr[j]
  <2>1. x \in DOMAIN rows /\ y \in DOMAIN rows /\ x # y /\ <<y, x>> \notin Rank
    BY <1>1, <1>2
  <2> HIDE DEF x, y
  <2>2. /\ ~Better(rows[y], rows[x]) /\ rows[x].id # rows[y].id
        /\ rows[x].usability \in Nat /\ rows[y].usability \in Nat
        /\ rows[x].id \in Nat /\ rows[y].id \in Nat
    BY <2>1, NodeFacts
  <2>3. Better(rows[x], rows[y])
    BY <2>2 DEF Better
  <2> QED
    BY <2>3 DEF x, y
<1> QED
  BY <1>1, <1>2

\* Nodes can be sorted.
LEMMA NodesSort ==
  ASSUME LookupInv, table = "NodeInfoManager", NEW S \in SUBSET DOMAIN rows
  PROVE  sortNodesByUsability(S) # {}
<1>1. \A i \in S : <<i, i>> \notin Rank
  BY NodeFacts DEF Better
<1>2. ASSUME NEW i \in S, NEW j \in S, NEW k \in S, <<i, j>> \in Rank, <<j, k>> \in Rank
      PROVE  <<i, k>> \in Rank
  <2>1. Better(rows[i], rows[j]) /\ Better(rows[j], rows[k])
    BY <1>2, NodeFacts
  <2>2. Better(rows[i], rows[k])
    BY <2>1, NodeFacts DEF Better
  <2> QED
    BY <2>2, NodeFacts
<1>3. Sorted(S, Rank) # {}
  BY <1>1, <1>2, RowSets, SortedExists
<1> QED
  BY <1>3 DEF sortNodesByUsability, Rank

\* What a loop over a sorted slice meets first is what is preferred.
LEMMA FirstNode ==
  ASSUME LookupInv, table = "NodeInfoManager", NEW S \in SUBSET DOMAIN rows,
         NEW arr \in sortNodesByUsability(S), NEW Q \in SUBSET DOMAIN arr
  PROVE  { rows[arr[i]] : i \in { j \in Q : \A k \in Q : j <= k } } = Best({ rows[arr[i]] : i \in Q })
<1> DEFINE F == { j \in Q : \A k \in Q : j <= k }
           T == { rows[arr[i]] : i \in Q }
<1>1. CASE Q = {}
  BY <1>1 DEF Best
<1>2. CASE Q # {}
  <2>1. Q \in SUBSET Nat /\ \A i \in Q : arr[i] \in S
    BY NodesDescend
  <2>2. PICK f \in Q : \A k \in Q : f <= k
    BY <1>2, <2>1, LeastNat
  <2>3. F = {f}
    BY <2>1, <2>2
  <2> DEFINE x == rows[arr[f]]
  <2>4. \A k \in Q : k # f => Better(x, rows[arr[k]])
    BY <2>1, <2>2, NodesDescend
  <2>5. \A m, n \in T : Better(m, n) => ~Better(n, m) /\ m # n
    <3>1. \A m \in T : m.usability \in Nat /\ m.id \in Nat
      BY <2>1, NodeFacts
    <3> QED
      BY <3>1 DEF Better
  <2>6. x \in T
    OBVIOUS
  <2> HIDE DEF x
  <2>7. \A n \in T : n = x \/ Better(x, n)
    BY <2>4 DEF x
  <2> HIDE DEF T
  <2>8. Best(T) = {x}
    BY <2>5, <2>6, <2>7, Zenon DEF Best
  <2> QED
    BY <2>3, <2>8 DEF T, x
<1> QED
  BY <1>1, <1>2

\* The best node and the sorted nodes agree.
LEMMA Nodes == LookupInv => NodePreference
<1> SUFFICES ASSUME LookupInv, table = "NodeInfoManager", NEW c \in {1, 2}, NEW t \in {1, 2}
             PROVE  LET ofChain == { r \in AllRows : r.realChainId = c } IN
                    /\ GetBestNodeByRealChainIdAndType(c, t) = Best({ r \in ofChain : r.type = t })
                    /\ GetAvailableNodeByRealChainId(c) = Best({ r \in ofChain : r.usability > 0 })
                    /\ \A nodes \in GetEnabledNodes :
                         /\ \A r \in AllRows : r.usability > 0 <=> \E i \in DOMAIN nodes : nodes[i] = r
                         /\ \A i, j \in DOMAIN nodes : i < j => nodes[j] \notin Best({nodes[i], nodes[j]})
  BY DEF NodePreference, Best, Better
<1> DEFINE ofChain == { r \in AllRows : r.realChainId = c }
<1>1. GetBestNodeByRealChainIdAndType(c, t) = Best({ r \in ofChain : r.type = t })
  <2> DEFINE S == { i \in DOMAIN rows : rows[i].realChainId = c /\ rows[i].type = t }
  <2>1. S \in SUBSET DOMAIN rows
    OBVIOUS
  <2>2. GetNodeInfosByRealChainIdAndType(c, t) = sortNodesByUsability(S) /\ sortNodesByUsability(S) # {}
    BY <2>1, NodesSort DEF GetNodeInfosByRealChainIdAndType
  <2>3. { r \in ofChain : r.type = t } = { rows[i] : i \in S }
    BY RowsFacts
  <2> HIDE DEF S
  <2>4. ASSUME NEW arr \in sortNodesByUsability(S)
        PROVE  { rows[arr[i]] : i \in { j \in DOMAIN arr : j = 1 } } = Best({ rows[i] : i \in S })
    <3>1. { j \in DOMAIN arr : j = 1 } = { j \in DOMAIN arr : \A k \in DOMAIN arr : j <= k }
      <4>1. \A j \in DOMAIN arr : j \in Nat \ {0} /\ 1 \in DOMAIN arr
        BY <2>1, NodesDescend
      <4> QED
        BY <4>1
    <3>2. { rows[arr[i]] : i \in DOMAIN arr } = { rows[i] : i \in S }
      BY <2>1, NodesDescend
    <3>3. DOMAIN arr \in SUBSET DOMAIN arr
      OBVIOUS
    <3>4. { rows[arr[i]] : i \in { j \in DOMAIN arr : \A k \in DOMAIN arr : j <= k } }
            = Best({ rows[arr[i]] : i \in DOMAIN arr })
      BY <2>1, <3>3, FirstNode, Zenon
    <3> QED
      BY <3>1, <3>2, <3>4
  <2> QED
    BY <2>2, <2>3, <2>4 DEF GetBestNodeByRealChainIdAndType
<1>2. GetAvailableNodeByRealChainId(c) = Best({ r \in ofChain : r.usability > 0 })
  <2> DEFINE S == { i \in DOMAIN rows : rows[i].realChainId = c }
             up == { r \in ofChain : r.usability > 0 }
  <2>1. S \in SUBSET DOMAIN rows
    OBVIOUS
  <2>2. GetNodeInfosByRealChainId(c) = sortNodesByUsability(S) /\ sortNodesByUsability(S) # {}
    BY <2>1, NodesSort DEF GetNodeInfosByRealChainId
  <2>3. \A r : r \in up <=> \E i \in S : r = rows[i] /\ rows[i].usability > 0
    BY RowsFacts
  <2> HIDE DEF S, up
  <2>4. ASSUME NEW arr \in sortNodesByUsability(S)
        PROVE  { rows[arr[i]] : i \in { j \in Up(arr) : \A k \in Up(arr) : j <= k } } = Best(up)
    <3>1. { rows[arr[i]] : i \in Up(arr) } = up
      BY <2>1, <2>3, NodesDescend DEF Up
    <3>2. Up(arr) \in SUBSET DOMAIN arr
      BY DEF Up
    <3>3. { rows[arr[i]] : i \in { j \in Up(arr) : \A k \in Up(arr) : j <= k } }
            = Best({ rows[arr[i]] : i \in Up(arr) })
      BY <2>1, <3>2, FirstNode, Zenon
    <3> QED
      BY <3>1, <3>3
  <2>5. GetAvailableNodeByRealChainId(c) = Best(up)
    BY <2>2, <2>4 DEF GetAvailableNodeByRealChainId
  <2> QED
    BY <2>5 DEF up
<1>3. ASSUME NEW nodes \in GetEnabledNodes
      PROVE  /\ \A r \in AllRows : r.usability > 0 <=> \E i \in DOMAIN nodes : nodes[i] = r
             /\ \A i, j \in DOMAIN nodes : i < j => nodes[j] \notin Best({nodes[i], nodes[j]})
  <2>1. PICK arr \in sortNodesByUsability(DOMAIN rows) : nodes = [i \in Up(arr) |-> rows[arr[i]]]
    BY DEF GetEnabledNodes, GetAllNodes
  <2>2. DOMAIN rows \in SUBSET DOMAIN rows
    OBVIOUS
  <2>3. /\ \A i \in DOMAIN arr : i \in Nat \ {0} /\ arr[i] \in DOMAIN rows
        /\ \A k \in DOMAIN rows : \E i \in DOMAIN arr : arr[i] = k
        /\ \A i, j \in DOMAIN arr : i < j => Better(rows[arr[i]], rows[arr[j]])
    BY <2>2, NodesDescend, Zenon
  <2>4. /\ DOMAIN nodes = { i \in DOMAIN arr : rows[arr[i]].usability > 0 }
        /\ \A i \in DOMAIN nodes : nodes[i] = rows[arr[i]]
    BY <2>1 DEF Up
  <2>5. \A r \in AllRows : r.usability > 0 <=> \E i \in DOMAIN nodes : nodes[i] = r
    BY <2>3, <2>4, RowsFacts
  <2>6. ASSUME NEW i \in DOMAIN nodes, NEW j \in DOMAIN nodes, i < j
        PROVE  nodes[j] \notin Best({nodes[i], nodes[j]})
    <3> DEFINE x == nodes[i]
               y == nodes[j]
    <3>1. Better(x, y) /\ x.usability \in Nat /\ y.usability \in Nat /\ x.id \in Nat /\ y.id \in Nat
      BY <2>3, <2>4, <2>6, NodeFacts
    <3> HIDE DEF x, y
    <3>2. ~Better(y, x) /\ x # y
      BY <3>1 DEF Better
    <3>3. y \notin Best({x, y})
      BY <3>2 DEF Best
    <3> QED
      BY <3>3 DEF x, y
  <2> QED
    BY <2>5, <2>6
<1> QED
  BY <1>1, <1>2, <1>3

\* The getters of every manager agree with each other and with its rows: what is
\* found by one key is found by the other, a list has what the lookups have, and
\* the tier of a count and the preferred node are those of the sorted rows.
THEOREM GettersAreConsistent == LookupSpec => []GettersAgree
<1>1. LookupInv => GettersAgree
  BY Accounts, Blacklists, Commissions, Cctp, Lps, Nodes, KeyedLookups, Roles, Makers
     DEF GettersAgree, LookupInv
<1> QED
  BY <1>1, LookupInvariant, PTL

=============================================================================
