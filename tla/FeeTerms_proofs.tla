---- MODULE FeeTerms_proofs ----
EXTENDS FeeTerms, SumTheorems

\* Of n things ranked one by one, R have a rank below R.
LEMMA RankedBelow ==
  ASSUME NEW S, IsFiniteSet(S), NEW rank \in [S -> 0..(Cardinality(S) - 1)],
         \A l, m \in S : l # m => rank[l] # rank[m],
         NEW R \in 0..Cardinality(S)
  PROVE  Cardinality({l \in S : rank[l] < R}) = R
<1>1. PICK n \in Nat : n = Cardinality(S)
  BY FS_CardinalityType
<1>2. IsFiniteSet(0..(n - 1)) /\ Cardinality(0..(n - 1)) = n
  <2>1. n - 1 \in Int /\ (0 > n - 1 <=> n = 0)
    OBVIOUS
  <2> QED BY <2>1, FS_Interval
<1>3. rank \in Injection(S, 0..(n - 1))
  BY <1>1 DEF Injection, IsInjective
<1>4. rank \in Surjection(S, 0..(n - 1))
  BY <1>1, <1>2, <1>3, FS_Injection
<1>5. PICK W : W = {l \in S : rank[l] < R}
  OBVIOUS
<1>6. PICK f : f = [l \in W |-> rank[l]]
  OBVIOUS
<1>7. f \in Injection(W, 0..(R - 1))
  <2>1. \A l \in W : l \in S /\ rank[l] \in 0..(n - 1) /\ rank[l] < R
    BY <1>1, <1>5
  <2>2. \A l \in W : rank[l] \in 0..(R - 1)
    BY <1>1, <2>1
  <2> QED BY <1>6, <2>1, <2>2 DEF Injection, IsInjective
<1>8. \A i \in 0..(R - 1) : \E l \in W : f[l] = i
  <2>1. ASSUME NEW i \in 0..(R - 1) PROVE \E l \in W : f[l] = i
    <3>1. i \in 0..(n - 1)
      BY <1>1
    <3>2. PICK l \in S : rank[l] = i
      BY <1>4, <3>1 DEF Surjection
    <3>3. l \in W
      BY <1>5, <3>2
    <3> QED BY <1>6, <3>2, <3>3
  <2> QED BY <2>1
<1>9. f \in Surjection(W, 0..(R - 1))
  <2>1. f \in [W -> 0..(R - 1)]
    BY <1>7 DEF Injection
  <2> QED BY <1>8, <2>1 DEF Surjection
<1>10. IsFiniteSet(0..(R - 1)) /\ Cardinality(0..(R - 1)) = R
  <2>1. R \in Nat /\ R - 1 \in Int /\ (0 > R - 1 <=> R = 0)
    BY <1>1
  <2> QED BY <2>1, FS_Interval
<1>11. Cardinality(W) = Cardinality(0..(R - 1))
  <2>1. PICK T : T = 0..(R - 1)
    OBVIOUS
  <2>2. f \in Injection(W, T) /\ f \in Surjection(W, T) /\ IsFiniteSet(T)
    BY <1>7, <1>9, <1>10, <2>1
  <2> QED BY <2>1, <2>2, FS_Injection
<1> QED BY <1>5, <1>10, <1>11

\* Those that come before l: a larger remainder, or the same and a smaller number.
Before(S, rem, l) == {m \in S : rem[m] > rem[l] \/ (rem[m] = rem[l] /\ m < l)}

\* Rem and number order the lines of S one by one.
LEMMA LargestFirst ==
  ASSUME NEW S, IsFiniteSet(S), S \subseteq Int, NEW rem, \A l \in S : rem[l] \in Nat,
         NEW R \in 0..Cardinality(S), NEW up \in SUBSET S,
         \A l \in S : l \in up <=> Cardinality(Before(S, rem, l)) < R
  PROVE  Cardinality(up) = R
<1>1. PICK n \in Nat : n = Cardinality(S)
  BY FS_CardinalityType
<1>2. ASSUME NEW l \in S
      PROVE  /\ IsFiniteSet(Before(S, rem, l))
             /\ Cardinality(Before(S, rem, l)) \in 0..(n - 1)
  <2>1. Before(S, rem, l) \in SUBSET S /\ l \notin Before(S, rem, l)
    BY DEF Before
  <2>2. IsFiniteSet(Before(S, rem, l)) /\ Cardinality(Before(S, rem, l)) <= n /\ Cardinality(Before(S, rem, l)) # n
    BY <1>1, <2>1, FS_Subset
  <2>3. Cardinality(Before(S, rem, l)) \in Nat
    BY <2>2, FS_CardinalityType
  <2> QED BY <2>2, <2>3
<1>3. ASSUME NEW l \in S, NEW m \in S, l \in Before(S, rem, m)
      PROVE  Cardinality(Before(S, rem, l)) # Cardinality(Before(S, rem, m))
  <2>1. Before(S, rem, l) \in SUBSET Before(S, rem, m)
    <3>1. ASSUME NEW k \in Before(S, rem, l) PROVE k \in Before(S, rem, m)
      <4>1. k \in S /\ k \in Int /\ l \in Int /\ m \in Int
        BY <3>1 DEF Before
      <4>2. rem[k] \in Nat /\ rem[l] \in Nat /\ rem[m] \in Nat
        BY <4>1
      <4>3. rem[k] > rem[l] \/ (rem[k] = rem[l] /\ k < l)
        BY <3>1 DEF Before
      <4>4. rem[l] > rem[m] \/ (rem[l] = rem[m] /\ l < m)
        BY <1>3 DEF Before
      <4>5. rem[k] > rem[m] \/ (rem[k] = rem[m] /\ k < m)
        BY <4>1, <4>2, <4>3, <4>4
      <4> QED BY <4>1, <4>5 DEF Before
    <3> QED BY <3>1
  <2>2. l \notin Before(S, rem, l)
    BY DEF Before
  <2> QED BY <1>2, <1>3, <2>1, <2>2, FS_Subset
<1>4. \A l, m \in S : l # m => l \in Before(S, rem, m) \/ m \in Before(S, rem, l)
  BY DEF Before
<1>5. PICK rank : rank = [l \in S |-> Cardinality(Before(S, rem, l))]
  OBVIOUS
<1>6. rank \in [S -> 0..(Cardinality(S) - 1)]
  BY <1>1, <1>2, <1>5
<1>7. \A l, m \in S : l # m => rank[l] # rank[m]
  BY <1>3, <1>4, <1>5
<1>8. Cardinality({l \in S : rank[l] < R}) = R
  BY <1>6, <1>7, RankedBelow
<1>9. {l \in S : rank[l] < R} = up
  BY <1>5
<1> QED BY <1>8, <1>9
----------------------------------------------------------------------------
(* Roundings. *)

LEMMA Division ==
  ASSUME NEW a \in Nat, NEW b \in Nat \ {0}
  PROVE  /\ a \div b \in Nat /\ a % b \in 0..(b - 1)
         /\ a = b * (a \div b) + (a % b)
OBVIOUS

LEMMA RoundsUp ==
  ASSUME NEW n \in Nat, NEW d \in Nat \ {0}
  PROVE  /\ Up(n, d) \in Nat
         /\ d * Up(n, d) >= n /\ d * Up(n, d) < n + d
<1>1. PICK a \in Nat : a = n + d - 1
  OBVIOUS
<1>2. Up(n, d) = a \div d
  BY <1>1 DEF Up
<1>3. a \div d \in Nat /\ a % d \in 0..(d - 1) /\ a = d * (a \div d) + (a % d)
  BY Division
<1>4. PICK q, x \in Nat : q = a \div d /\ x = d * q
  BY <1>3
<1>5. x + (a % d) = n + d - 1 /\ a % d \in 0..(d - 1)
  BY <1>1, <1>3, <1>4
<1>6. Up(n, d) = q /\ d * Up(n, d) = x
  BY <1>2, <1>4
<1> QED BY <1>4, <1>5, <1>6

LEMMA ScaledOrder ==
  ASSUME NEW t \in Nat \ {0}, NEW a \in Int, NEW b \in Int, t * a <= t * b
  PROVE  a <= b
<1>1. SUFFICES ASSUME b < a PROVE FALSE
  OBVIOUS
<1>2. PICK d \in Nat \ {0} : a = b + d
  BY <1>1
<1>3. t * a = t * b + t * d /\ t * d > 0
  BY <1>2
<1> QED BY <1>3

\* Charged a of the lines of S that come to fee T's are divided by T: part has the quotients and rem
\* the remainders, R is what is left of the fee, K the lines with a remainder; a line of sh has its
\* quotient, and the first R lines one more.
Rounding(S, a, T, fee, part, rem, R, K, sh) ==
  /\ IsFiniteSet(S) /\ S \subseteq Int /\ T \in Nat \ {0} /\ fee \in Nat
  /\ \A l \in S : a[l] \in Nat
  /\ SumFunctionOnSet(a, S) = fee * T
  /\ \A l \in S : part[l] = a[l] \div T /\ rem[l] = a[l] % T
  /\ R = fee - SumFunctionOnSet(part, S)
  /\ K = {l \in S : rem[l] > 0}
  /\ \A l \in S : sh[l] = part[l] + IF Cardinality(Before(S, rem, l)) < R THEN 1 ELSE 0

LEMMA RoundingTypes ==
  ASSUME NEW S, NEW a, NEW T, NEW fee, NEW part, NEW rem, NEW R, NEW K, NEW sh,
         Rounding(S, a, T, fee, part, rem, R, K, sh)
  PROVE  /\ IsFiniteSet(S) /\ S \subseteq Int /\ T \in Nat \ {0} /\ fee \in Nat /\ K \in SUBSET S
         /\ \A l \in S : /\ part[l] \in Nat /\ rem[l] \in Nat /\ rem[l] < T
                         /\ a[l] = T * part[l] + rem[l] /\ (l \in K <=> rem[l] > 0)
         /\ SumFunctionOnSet(part, S) \in Nat /\ SumFunctionOnSet(rem, S) \in Nat
         /\ R \in Int /\ R + SumFunctionOnSet(part, S) = fee
<1>1. IsFiniteSet(S) /\ S \subseteq Int /\ T \in Nat \ {0} /\ fee \in Nat /\ K = {l \in S : rem[l] > 0}
  BY DEF Rounding
<1>2. ASSUME NEW l \in S
      PROVE  part[l] \in Nat /\ rem[l] \in Nat /\ rem[l] < T /\ a[l] = T * part[l] + rem[l]
  <2>1. PICK n \in Nat : n = a[l] /\ part[l] = n \div T /\ rem[l] = n % T
    BY DEF Rounding
  <2>2. n \div T \in Nat /\ n % T \in 0..(T - 1) /\ n = T * (n \div T) + (n % T)
    BY <1>1, Division
  <2> QED BY <1>1, <2>1, <2>2
<1>3. (\A l \in S : part[l] \in Nat) /\ (\A l \in S : rem[l] \in Nat)
  BY <1>2
<1>4. SumFunctionOnSet(part, S) \in Nat /\ SumFunctionOnSet(rem, S) \in Nat
  BY <1>1, <1>3, SumNat
<1>5. R = fee - SumFunctionOnSet(part, S)
  BY DEF Rounding
<1> QED BY <1>1, <1>2, <1>4, <1>5

\* The remainders come to T times what is left of the fee.
LEMMA LeftOver ==
  ASSUME NEW S, NEW a, NEW T, NEW fee, NEW part, NEW rem, NEW R, NEW K, NEW sh,
         Rounding(S, a, T, fee, part, rem, R, K, sh)
  PROVE  T * R = SumFunctionOnSet(rem, S)
<1>1. PICK sp \in Nat, sr \in Nat : sp = SumFunctionOnSet(part, S) /\ sr = SumFunctionOnSet(rem, S)
  BY RoundingTypes
<1>2. IsFiniteSet(S) /\ T \in Nat \ {0} /\ fee \in Nat /\ R \in Int /\ R + sp = fee
  BY <1>1, RoundingTypes
<1>3. \A l \in S : part[l] \in Nat /\ rem[l] \in Nat /\ a[l] = T * part[l] + rem[l]
  BY RoundingTypes
<1>4. PICK tp : tp = [l \in S |-> T * part[l]]
  OBVIOUS
<1>5. SumFunctionOnSet(tp, S) = T * SumFunctionOnSet(part, S)
  <2>1. Multiplies(T, part, tp, S)
    BY <1>3, <1>4 DEF Multiplies
  <2> QED BY <1>2, <2>1, SumScale
<1>6. SumFunctionOnSet(a, S) = SumFunctionOnSet(tp, S) + SumFunctionOnSet(rem, S)
  <2>1. \A l \in S : tp[l] \in Int /\ rem[l] \in Int /\ a[l] = tp[l] + rem[l]
    BY <1>2, <1>3, <1>4
  <2> QED BY <1>2, <2>1, SumPlus
<1>7. fee * T = T * sp + sr
  BY <1>1, <1>5, <1>6 DEF Rounding
<1>8. T * R = sr
  BY <1>2, <1>7
<1> QED BY <1>1, <1>8

\* Less than a centavo is left over for each line with a remainder.
LEMMA LeftOverIsSmall ==
  ASSUME NEW S, NEW a, NEW T, NEW fee, NEW part, NEW rem, NEW R, NEW K, NEW sh,
         Rounding(S, a, T, fee, part, rem, R, K, sh)
  PROVE  R \in 0..Cardinality(K) /\ Cardinality(K) \in Nat
<1>1. /\ IsFiniteSet(S) /\ T \in Nat \ {0} /\ R \in Int /\ K \in SUBSET S
      /\ \A l \in S : rem[l] \in Nat /\ rem[l] < T /\ (l \in K <=> rem[l] > 0)
  BY RoundingTypes
<1>2. PICK sr \in Nat : sr = SumFunctionOnSet(rem, S) /\ T * R = sr
  BY LeftOver, RoundingTypes
<1>3. PICK k \in Nat : k = Cardinality(K)
  BY <1>1, FS_Subset, FS_CardinalityType
<1>4. PICK one, tk : one = [l \in S |-> IF l \in K THEN 1 ELSE 0] /\ tk = [l \in S |-> T * one[l]]
  OBVIOUS
<1>5. \A l \in S : one[l] = IF l \in K THEN 1 ELSE 0
  BY <1>4
<1>6. SumFunctionOnSet(one, S) = k
  BY <1>1, <1>3, <1>5, SumCounts
<1>7. Multiplies(T, one, tk, S)
  BY <1>4, <1>5 DEF Multiplies
<1>8. SumFunctionOnSet(tk, S) = T * SumFunctionOnSet(one, S)
  BY <1>1, <1>7, SumScale
<1>9. ASSUME NEW l \in S PROVE rem[l] \in Int /\ tk[l] \in Int /\ rem[l] <= tk[l]
  <2>1. CASE l \in K
    <3>1. tk[l] = T
      BY <1>1, <1>5, <1>7, <2>1 DEF Multiplies
    <3> QED BY <1>1, <3>1
  <2>2. CASE l \notin K
    <3>1. tk[l] = 0 /\ rem[l] = 0
      BY <1>1, <1>5, <1>7, <2>2 DEF Multiplies
    <3> QED BY <3>1
  <2> QED BY <2>1, <2>2
<1>10. SumFunctionOnSet(rem, S) <= SumFunctionOnSet(tk, S)
  BY <1>1, <1>9, SumOrder
<1>11. T * 0 <= T * R /\ T * R <= T * k
  BY <1>1, <1>2, <1>6, <1>8, <1>10
<1>12. 0 <= R /\ R <= k
  BY <1>1, <1>11, ScaledOrder
<1> QED BY <1>1, <1>3, <1>12

\* As many lines get a centavo more as are left over, and each of them has a remainder.
LEMMA LargestRemainder ==
  ASSUME NEW S, NEW a, NEW T, NEW fee, NEW part, NEW rem, NEW R, NEW K, NEW sh,
         Rounding(S, a, T, fee, part, rem, R, K, sh)
  PROVE  /\ SumFunctionOnSet(sh, S) = fee
         /\ \A l \in S : sh[l] = part[l] \/ (sh[l] = part[l] + 1 /\ rem[l] > 0)
<1>1. PICK sp \in Nat : sp = SumFunctionOnSet(part, S) /\ R + sp = fee
  BY RoundingTypes
<1>2. /\ IsFiniteSet(S) /\ S \subseteq Int /\ R \in Int /\ K \in SUBSET S /\ fee \in Nat
      /\ \A l \in S : part[l] \in Nat /\ rem[l] \in Nat /\ (l \in K <=> rem[l] > 0)
  BY RoundingTypes
<1>3. PICK k \in Nat : k = Cardinality(K) /\ R \in 0..k
  BY LeftOverIsSmall
<1>4. R \in Nat /\ R <= k /\ R \in 0..Cardinality(S)
  <2>1. k <= Cardinality(S) /\ Cardinality(S) \in Nat
    BY <1>2, <1>3, FS_Subset, FS_CardinalityType
  <2> QED BY <1>3, <2>1
<1>5. PICK up : up = {l \in S : Cardinality(Before(S, rem, l)) < R}
  OBVIOUS
<1>6. Cardinality(up) = R
  <2>1. \A l \in S : rem[l] \in Nat
    BY <1>2
  <2>2. up \in SUBSET S /\ \A l \in S : l \in up <=> Cardinality(Before(S, rem, l)) < R
    BY <1>5
  <2> QED BY <1>2, <1>4, <2>1, <2>2, LargestFirst
<1>7. PICK one : one = [l \in S |-> IF l \in up THEN 1 ELSE 0]
  OBVIOUS
<1>8. \A l \in S : one[l] = IF l \in up THEN 1 ELSE 0
  BY <1>7
<1>9. ASSUME NEW l \in S PROVE sh[l] = part[l] + one[l]
  BY <1>5, <1>8 DEF Rounding
<1>10. SumFunctionOnSet(sh, S) = fee
  <2>1. SumFunctionOnSet(one, S) = R
    BY <1>2, <1>5, <1>6, <1>8, SumCounts
  <2>2. \A l \in S : part[l] \in Int /\ one[l] \in Int /\ sh[l] = part[l] + one[l]
    BY <1>2, <1>8, <1>9
  <2>3. SumFunctionOnSet(sh, S) = SumFunctionOnSet(part, S) + SumFunctionOnSet(one, S)
    BY <1>2, <2>2, SumPlus
  <2> QED BY <1>1, <1>2, <2>1, <2>3
<1>11. ASSUME NEW l \in up PROVE rem[l] > 0
  <2>1. l \in S /\ Cardinality(Before(S, rem, l)) < R /\ rem[l] \in Nat
    BY <1>2, <1>5
  <2>2. SUFFICES ASSUME rem[l] = 0 PROVE FALSE
    BY <2>1
  <2>3. K \in SUBSET Before(S, rem, l)
    BY <1>2, <2>2 DEF Before
  <2>4. IsFiniteSet(Before(S, rem, l))
    BY <1>2, FS_Subset DEF Before
  <2>5. k <= Cardinality(Before(S, rem, l)) /\ Cardinality(Before(S, rem, l)) \in Nat
    BY <1>3, <2>3, <2>4, FS_Subset, FS_CardinalityType
  <2> QED BY <1>4, <2>1, <2>5
<1> QED BY <1>2, <1>8, <1>9, <1>10, <1>11

\* So the fee is given out, each line within one of its quota.
LEMMA SharedOut ==
  ASSUME NEW S, NEW a, NEW T, NEW fee, NEW part, NEW rem, NEW R, NEW K, NEW sh,
         Rounding(S, a, T, fee, part, rem, R, K, sh)
  PROVE  /\ SumFunctionOnSet(sh, S) = fee
         /\ \A l \in S : sh[l] \in Nat /\ -T < a[l] - T * sh[l] /\ a[l] - T * sh[l] < T
<1>1. SumFunctionOnSet(sh, S) = fee
  BY LargestRemainder
<1>2. ASSUME NEW l \in S PROVE sh[l] \in Nat /\ -T < a[l] - T * sh[l] /\ a[l] - T * sh[l] < T
  <2>1. PICK q, x, t \in Nat : t = T /\ q = part[l] /\ x = rem[l] /\ x < T /\ a[l] = t * q + x
    BY RoundingTypes
  <2>2. PICK b \in Nat : b = t * q
    BY <2>1
  <2>3. PICK n \in Nat : n = sh[l] /\ (n = q \/ (n = q + 1 /\ x > 0))
    <3>1. sh[l] = q \/ (sh[l] = q + 1 /\ x > 0)
      BY <2>1, LargestRemainder
    <3> QED BY <3>1
  <2>4. PICK d \in Nat : d = t * n /\ (d = b \/ (d = b + t /\ x > 0))
    BY <2>1, <2>2, <2>3
  <2>5. -t < (b + x) - d /\ (b + x) - d < t
    BY <2>1, <2>4
  <2> QED BY <2>1, <2>2, <2>3, <2>4, <2>5
<1> QED BY <1>1, <1>2
----------------------------------------------------------------------------
\* What is assumed of the terms: prices in centavos, rates below a hundred percent.
FeeSetting ==
  /\ IsFiniteSet(Lines) /\ Lines \subseteq Int /\ Bases \subseteq Nat /\ Charged \subseteq Nat
  /\ \A terms \in Commissions : terms \in [type : {"fixed", "percent"}, value : Nat]
  /\ \A rate \in Rates : rate \in [percent_bps : Nat, fixed_cents : Nat] /\ rate.percent_bps < 10000

\* An order, and what its charge is reported as.
Ordered == order \in Orders /\ (order.mode = "unmanaged" => Single)
Reported == capture \in [amount : Nat, fee : Nat] /\ Target > 0

\* The inductive invariant.
FeeInv ==
  /\ Ordered
  /\ state \in {"open", "refused", "review", "settled"}
  /\ capture # None => Reported
  /\ IF state = "settled" THEN Reported /\ Acceptable /\ ledger = Allocation ELSE ledger = None
  /\ state = "review" => Reported /\ ~Acceptable

\* The lines of an order and what they are quoted at.
LEMMA Quoted ==
  ASSUME FeeSetting, Ordered
  PROVE  /\ IsFiniteSet(order.lines) /\ order.lines \in SUBSET Lines
         /\ order.lines \subseteq Int /\ order.lines # {}
         /\ \A l \in Lines : /\ order.base[l] \in Nat /\ Platform[l] \in Nat
                             /\ Platform[l] <= order.base[l] /\ Payable[l] \in Nat
                             /\ Payable[l] = order.base[l] + IF PassOn THEN Platform[l] ELSE 0
         /\ order.mode \in Modes
         /\ order.rate.percent_bps \in Nat /\ order.rate.percent_bps < 10000
         /\ order.rate.fixed_cents \in Nat
         /\ Target \in Nat
<1>0. IsFiniteSet(Lines) /\ Lines \subseteq Int /\ \A b \in Bases : b \in Nat
  BY DEF FeeSetting
<1>1. /\ order.lines \in SUBSET Lines /\ order.lines # {} /\ order.base \in [Lines -> Bases]
      /\ order.mode \in Modes /\ order.commission \in Commissions /\ order.rate \in Rates
  BY DEF Ordered, Orders
<1>2. IsFiniteSet(order.lines) /\ order.lines \subseteq Int
  <2>1. PICK L : L = order.lines
    OBVIOUS
  <2>2. L \in SUBSET Lines
    BY <1>1, <2>1
  <2>3. IsFiniteSet(L)
    BY <1>0, <2>2, FS_Subset
  <2> QED BY <1>0, <2>1, <2>2, <2>3
<1>3. order.rate.percent_bps \in Nat /\ order.rate.percent_bps < 10000 /\ order.rate.fixed_cents \in Nat
  BY <1>1 DEF FeeSetting
<1>4. ASSUME NEW l \in Lines
      PROVE  /\ order.base[l] \in Nat /\ Platform[l] \in Nat
             /\ Platform[l] <= order.base[l] /\ Payable[l] \in Nat
             /\ Payable[l] = order.base[l] + IF PassOn THEN Platform[l] ELSE 0
  <2>1. PICK base \in Nat : base = order.base[l]
    <3>1. order.base[l] \in Bases
      BY <1>1
    <3> QED BY <1>0, <3>1
  <2>2. PICK v \in Nat : v = order.commission.value
    BY <1>1 DEF FeeSetting
  <2>3. Half(base * v) \in Nat
    <3>1. PICK n \in Nat : n = base * v
      OBVIOUS
    <3> QED BY <3>1 DEF Half
  <2>4. PICK c \in Nat : c = IF order.commission.type = "fixed" THEN v ELSE Half(base * v)
    BY <2>3
  <2>5. Commission(base) = IF c < base THEN c ELSE base
    BY <2>2, <2>4 DEF Commission, AtMost
  <2>6. Platform[l] = IF c < base THEN c ELSE base
    BY <2>1, <2>5 DEF Platform
  <2>7. Payable[l] = base + IF PassOn THEN Platform[l] ELSE 0
    BY <2>1 DEF Payable
  <2> QED BY <2>1, <2>6, <2>7
<1>5. Target \in Nat
  <2>1. PICK P : P = Payable
    OBVIOUS
  <2>2. \A l \in order.lines : P[l] \in Nat
    BY <1>1, <1>4, <2>1
  <2>3. SumFunctionOnSet(P, order.lines) \in Nat
    BY <1>2, <2>2, SumNat
  <2> QED BY <2>1, <2>3 DEF Target, Total
<1> QED BY <1>1, <1>2, <1>3, <1>4, <1>5

\* A grossed-up charge is not below its target.
LEMMA GrossedUp ==
  ASSUME NEW target \in Nat, NEW rate, NEW p \in Nat, p < 10000, NEW c \in Nat,
         p = rate.percent_bps, c = rate.fixed_cents, NEW G, G = GrossUp(target, rate)
  PROVE  G \in Nat /\ G >= target
<1>1. CASE target = 0
  <2>1. G = 0
    BY <1>1 DEF GrossUp
  <2> QED BY <1>1, <2>1
<1>2. CASE target > 0
  <2>1. PICK n \in Nat, d \in Nat \ {0} : n = (target + c) * 10000 /\ d = 10000 - p
    OBVIOUS
  <2>2. G = Up(n, d)
    BY <1>2, <2>1 DEF GrossUp
  <2>3. G \in Nat /\ d * G >= n
    BY <2>2, RoundsUp
  <2> HIDE <2>2
  <2>4. d * G = 10000 * G - p * G /\ p * G >= 0
    <3>1. d = 10000 - p
      BY <2>1
    <3> QED BY <2>3, <3>1
  <2>5. 10000 * G >= 10000 * target
    BY <2>1, <2>3, <2>4
  <2> QED BY <2>3, <2>5
<1> QED BY <1>1, <1>2

\* The fee of a charge is a number of centavos, however it is rounded.
LEMMA RoundedFee ==
  ASSUME NEW amount \in Nat, NEW rate, NEW p \in Nat, NEW c \in Nat,
         p = rate.percent_bps, c = rate.fixed_cents, NEW fee \in FeesAt(amount, rate)
  PROVE  fee \in Nat
<1>1. PICK x \in Nat : x = amount * p
  OBVIOUS
<1>2. PICK part \in {x \div 10000, Up(x, 10000)} : fee = part + c
  BY <1>1 DEF FeesAt
<1>3. x \div 10000 \in Nat
  BY Division
<1>4. Up(x, 10000) \in Nat
  BY RoundsUp
<1> QED BY <1>2, <1>3, <1>4

\* The lines of an order share the whole fee, each within a centavo of its quota.
LEMMA Shared ==
  ASSUME FeeSetting, Ordered, Target > 0, NEW fee \in Nat,
         NEW sh, sh = [l \in order.lines |-> Share(fee, l)]
  PROVE  /\ SumFunctionOnSet(sh, order.lines) = fee
         /\ \A l \in order.lines :
              /\ sh[l] \in Nat
              /\ -Target < fee * Payable[l] - sh[l] * Target /\ fee * Payable[l] - sh[l] * Target < Target
<1>1. PICK S, P : S = order.lines /\ P = Payable
  OBVIOUS
<1>2. IsFiniteSet(S) /\ S \in SUBSET Lines /\ S \subseteq Int /\ \A l \in S : P[l] \in Nat
  BY <1>1, Quoted
<1>3. PICK T \in Nat \ {0} : T = Target
  BY Quoted
<1>4. T = SumFunctionOnSet(P, S)
  BY <1>1, <1>3 DEF Target, Total
<1>5. PICK a, part, rem : /\ a = [l \in Lines |-> fee * Payable[l]]
                          /\ part = [l \in Lines |-> (fee * Payable[l]) \div Target]
                          /\ rem = [l \in Lines |-> (fee * Payable[l]) % Target]
  OBVIOUS
<1>6. \A l \in S : a[l] \in Nat /\ a[l] = fee * P[l]
  BY <1>1, <1>2, <1>5
<1>7. SumFunctionOnSet(a, S) = fee * T
  <2>1. Multiplies(fee, P, a, S)
    <3>1. \A l \in S : P[l] \in Int
      BY <1>2
    <3>2. \A l \in S : a[l] = fee * P[l]
      BY <1>6
    <3> QED BY <3>1, <3>2, Zenon DEF Multiplies
  <2>2. SumFunctionOnSet(a, S) = fee * SumFunctionOnSet(P, S)
    BY <1>2, <2>1, SumScale
  <2> QED BY <1>4, <2>2
<1>8. \A l \in S : part[l] = a[l] \div T /\ rem[l] = a[l] % T
  <2>1. ASSUME NEW l \in S PROVE part[l] = a[l] \div T /\ rem[l] = a[l] % T
    <3>1. l \in Lines
      BY <1>2
    <3>2. a[l] = fee * Payable[l]
      BY <1>5, <3>1, Zenon
    <3>3. part[l] = (fee * Payable[l]) \div Target /\ rem[l] = (fee * Payable[l]) % Target
      BY <1>5, <3>1, Zenon
    <3> QED BY <1>3, <3>2, <3>3, Zenon
  <2> QED BY <2>1, Zenon
<1>9. PICK R, K : R = fee - SumFunctionOnSet(part, S) /\ K = {l \in S : rem[l] > 0}
  OBVIOUS
<1>10. ASSUME NEW l \in S
       PROVE  sh[l] = part[l] + IF Cardinality(Before(S, rem, l)) < R THEN 1 ELSE 0
  BY <1>1, <1>5, <1>9 DEF Share, Total, Before
<1>11. Rounding(S, a, T, fee, part, rem, R, K, sh)
  BY <1>2, <1>6, <1>7, <1>8, <1>9, <1>10 DEF Rounding
<1>12. /\ SumFunctionOnSet(sh, S) = fee
       /\ \A l \in S : sh[l] \in Nat /\ -T < a[l] - T * sh[l] /\ a[l] - T * sh[l] < T
  BY <1>11, SharedOut
<1>13. ASSUME NEW l \in S
       PROVE  sh[l] \in Nat /\ -T < fee * P[l] - sh[l] * T /\ fee * P[l] - sh[l] * T < T
  <2>1. PICK n \in Nat : n = sh[l]
    BY <1>12
  <2>2. T * n = n * T
    OBVIOUS
  <2> QED BY <1>6, <1>12, <2>1, <2>2
<1> QED BY <1>1, <1>3, <1>12, <1>13

LEMMA Smallest ==
  ASSUME NEW S, IsFiniteSet(S), S \subseteq Int, S # {}
  PROVE  \E m \in S : \A k \in S : m <= k
<1> DEFINE F == {T \in SUBSET S : T = {} \/ \E m \in T : \A k \in T : m <= k}
<1>1. {} \in F
  OBVIOUS
<1>2. ASSUME NEW T \in SUBSET S, NEW x \in S \ T, T \in F
      PROVE  T \cup {x} \in F
  <2>1. CASE T = {}
    BY <2>1
  <2>2. CASE T # {}
    <3>1. PICK m \in T : \A k \in T : m <= k
      BY <1>2, <2>2
    <3>2. \E n \in T \cup {x} : \A k \in T \cup {x} : n <= k
      <4>1. CASE m <= x
        BY <3>1, <4>1
      <4>2. CASE x < m
        BY <3>1, <4>2
      <4> QED BY <4>1, <4>2
    <3> QED BY <3>2
  <2> QED BY <2>1, <2>2
<1>3. S \in F
  <2> HIDE DEF F
  <2> QED BY <1>1, <1>2, SetInduction
<1> QED BY <1>3

\* What a fulfilled capture credits line l with, before commission and fee.
Credited(l) ==
  IF Single THEN capture.amount
  ELSE Payable[l] + (IF PassOn THEN Share(capture.fee, l) ELSE 0)
                  + IF TakesExcess(l) THEN capture.amount - capture.fee - Target ELSE 0

\* The functions the ledger rows are made of.
Booked(S, sh, g) ==
  /\ S = order.lines /\ sh = [l \in S |-> Share(capture.fee, l)] /\ g = [l \in S |-> Credited(l)]

LEMMA BookedTypes ==
  ASSUME FeeSetting, Ordered, Reported, NEW S, NEW sh, NEW g, Booked(S, sh, g)
  PROVE  /\ IsFiniteSet(S) /\ S \in SUBSET Lines /\ S \subseteq Int /\ S # {}
         /\ capture.amount \in Nat /\ capture.fee \in Nat /\ Target \in Nat \ {0}
         /\ SumFunctionOnSet(sh, S) = capture.fee
         /\ SumFunctionOnSet(Payable, S) = Target
         /\ \A l \in S : /\ sh[l] \in Nat /\ Payable[l] \in Nat
                         /\ -Target < capture.fee * Payable[l] - sh[l] * Target
                         /\ capture.fee * Payable[l] - sh[l] * Target < Target
<1>1. S = order.lines /\ sh = [l \in order.lines |-> Share(capture.fee, l)]
  BY DEF Booked
<1>2. capture.amount \in Nat /\ capture.fee \in Nat /\ Target > 0
  BY DEF Reported
<1>3. Target \in Nat /\ \A l \in Lines : Payable[l] \in Nat
  BY Quoted
<1>4. IsFiniteSet(S) /\ S \in SUBSET Lines /\ S \subseteq Int /\ S # {}
  BY <1>1, Quoted
<1>5. Target > 0
  BY <1>2
<1>6. /\ SumFunctionOnSet(sh, S) = capture.fee
      /\ \A l \in S : /\ sh[l] \in Nat
                      /\ -Target < capture.fee * Payable[l] - sh[l] * Target
                      /\ capture.fee * Payable[l] - sh[l] * Target < Target
  BY <1>1, <1>2, <1>5, Shared
<1>7. SumFunctionOnSet(Payable, S) = Target
  BY <1>1 DEF Target, Total
<1> QED BY <1>2, <1>3, <1>4, <1>5, <1>6, <1>7

\* A single entry: its row is the capture.
LEMMA SingleBooked ==
  ASSUME FeeSetting, Ordered, Reported, Single, NEW S, NEW sh, NEW g, Booked(S, sh, g)
  PROVE  SumFunctionOnSet(g, S) = capture.amount /\ \A l \in S : g[l] \in Nat
<1>1. IsFiniteSet(S) /\ S = order.lines /\ S \in SUBSET Lines
  BY BookedTypes DEF Booked
<1>2. PICK y : S = {y}
  <2>1. Cardinality(S) = 1
    BY <1>1 DEF Single
  <2> QED BY <1>1, <2>1, FS_Singleton
<1>3. PICK a \in Nat : a = capture.amount
  BY BookedTypes
<1>4. g = [l \in S |-> a]
  BY <1>3 DEF Booked, Credited
<1>5. g[y] = a /\ SumFunctionOnSet(g, S) = a
  <2>1. g[y] = a
    BY <1>2, <1>4
  <2>2. g[y] \in Int
    BY <2>1
  <2> QED BY <1>2, <2>1, <2>2, SumSingle
<1> QED BY <1>2, <1>3, <1>5

\* A single entry in a managed session: what is left after the fee covers price and commission.
LEMMA ManagedSingle ==
  ASSUME FeeSetting, Ordered, Reported, Single, order.mode = "managed",
         PromiseKept(capture.amount - capture.fee), NEW S, NEW sh, NEW g, Booked(S, sh, g)
  PROVE  \A l \in S : g[l] - Platform[l] - sh[l] >= order.base[l]
<1>1. IsFiniteSet(S) /\ S = order.lines /\ S \in SUBSET Lines
  BY BookedTypes DEF Booked
<1>2. PICK y : S = {y}
  <2>1. Cardinality(S) = 1
    BY <1>1 DEF Single
  <2> QED BY <1>1, <2>1, FS_Singleton
<1>3. PICK a, f, T \in Nat : a = capture.amount /\ f = capture.fee /\ T = Target
  BY BookedTypes
<1>4. PICK Q : Q = Payable
  OBVIOUS
<1>5. PICK b, p \in Nat : b = order.base[y] /\ p = Platform[y] /\ Q[y] = b + p
  <2>1. y \in Lines /\ PassOn
    BY <1>1, <1>2 DEF PassOn
  <2> QED BY <1>4, <2>1, Quoted
<1>6. g[y] = a
  BY <1>2, <1>3 DEF Booked, Credited
<1>7. sh[y] = f
  <2>1. sh[y] \in Int /\ SumFunctionOnSet(sh, S) = f
    BY <1>2, <1>3, BookedTypes
  <2> QED BY <1>2, <2>1, SumSingle
<1>8. T = b + p
  <2>1. SumFunctionOnSet(Q, S) = T /\ Q[y] \in Int
    BY <1>3, <1>4, <1>5, BookedTypes
  <2> QED BY <1>2, <1>5, <2>1, SumSingle
<1>9. a - f \in {T, T + 1}
  BY <1>3 DEF PromiseKept
<1> QED BY <1>2, <1>3, <1>5, <1>6, <1>7, <1>8, <1>9

\* A group whose organizer absorbs the fee: every line is credited with its price.
LEMMA AbsorbedBooked ==
  ASSUME FeeSetting, Ordered, Reported, Acceptable, ~Single, ~PassOn, NEW S, NEW sh, NEW g, Booked(S, sh, g)
  PROVE  SumFunctionOnSet(g, S) = capture.amount /\ \A l \in S : g[l] \in Nat
<1>1. order.mode = "absorb"
  BY DEF PassOn
<1>2. PICK Q : Q = Payable
  OBVIOUS
<1>3. IsFiniteSet(S) /\ SumFunctionOnSet(Q, S) = Target /\ \A l \in S : Q[l] \in Nat
  BY <1>2, BookedTypes
<1>4. capture.amount = Target
  BY <1>1 DEF Acceptable
<1>5. ASSUME NEW l \in S PROVE g[l] = Q[l]
  <2>1. g[l] = Credited(l) /\ ~TakesExcess(l)
    BY <1>1 DEF Booked, TakesExcess
  <2>2. Credited(l) = Q[l] + 0 + 0
    BY <1>2, <2>1 DEF Credited
  <2> QED BY <1>3, <2>1, <2>2
<1>6. \A l \in S : Q[l] \in Int /\ g[l] = Q[l]
  BY <1>3, <1>5
<1>7. SumFunctionOnSet(g, S) = SumFunctionOnSet(Q, S)
  BY <1>3, <1>6, SumSame
<1> QED BY <1>3, <1>4, <1>6, <1>7

\* A provider-managed group: one line takes the centavo the rounding may leave over.
LEMMA ManagedBooked ==
  ASSUME FeeSetting, Ordered, Reported, ~Single, order.mode = "managed",
         PromiseKept(capture.amount - capture.fee), NEW S, NEW sh, NEW g, Booked(S, sh, g)
  PROVE  /\ SumFunctionOnSet(g, S) = capture.amount
         /\ \A l \in S : g[l] \in Nat /\ g[l] - Platform[l] - sh[l] >= order.base[l]
<1>1. order.mode = "managed" /\ PassOn
  BY DEF PassOn
<1>2. PICK Q : Q = Payable
  OBVIOUS
<1>3. PICK a, f, T \in Nat : a = capture.amount /\ f = capture.fee /\ T = Target /\ T > 0
  BY BookedTypes
<1>4. /\ IsFiniteSet(S) /\ S \subseteq Int /\ S \in SUBSET Lines /\ S = order.lines
      /\ SumFunctionOnSet(Q, S) = T /\ SumFunctionOnSet(sh, S) = f
      /\ \A l \in S : Q[l] \in Nat /\ sh[l] \in Nat
  BY <1>2, <1>3, BookedTypes DEF Booked
<1>5. PICK x \in {0, 1} : x = a - f - T
  <2>1. a - f \in {T, T + 1}
    BY <1>1, <1>3 DEF PromiseKept
  <2> QED BY <2>1
<1>6. Target = T
  BY <1>3
<1>7. PICK y \in S : TakesExcess(y) /\ \A l \in S : TakesExcess(l) => l = y
  <2>1. PICK U : U = {l \in S : Q[l] > 0}
    OBVIOUS
  <2>2. U # {}
    <3>1. SUFFICES ASSUME U = {} PROVE FALSE
      OBVIOUS
    <3>2. \A l \in S : Q[l] = 0
      BY <1>4, <2>1, <3>1
    <3>3. SumFunctionOnSet(Q, S) = 0
      BY <1>4, <3>2, SumZero
    <3> QED BY <1>3, <1>4, <3>3
  <2>3. IsFiniteSet(U) /\ U \subseteq Int
    BY <1>4, <2>1, FS_Subset
  <2>4. PICK y \in U : \A l \in U : y <= l
    BY <2>2, <2>3, Smallest
  <2>5. TakesExcess(y)
    BY <1>1, <1>2, <1>4, <2>1, <2>4 DEF TakesExcess
  <2>6. \A l \in S : TakesExcess(l) => l \in U /\ l <= y
    BY <1>2, <1>4, <2>1, <2>4 DEF TakesExcess
  <2>7. \A l \in S : TakesExcess(l) => l = y
    <3>1. \A l \in U : l \in Int
      BY <2>3
    <3> QED BY <2>4, <2>6, <3>1
  <2> QED BY <2>1, <2>4, <2>5, <2>7
<1>8. PICK e, qs : e = [l \in S |-> IF l = y THEN x ELSE 0] /\ qs = [l \in S |-> Q[l] + sh[l]]
  OBVIOUS
<1>9. ASSUME NEW l \in S PROVE g[l] = qs[l] + e[l] /\ qs[l] \in Nat /\ e[l] \in {0, 1}
  <2>1. g[l] = Q[l] + sh[l] + IF TakesExcess(l) THEN x ELSE 0
    BY <1>1, <1>2, <1>3, <1>5, <1>6 DEF Booked, Credited
  <2>2. TakesExcess(l) <=> l = y
    BY <1>7
  <2> QED BY <1>4, <1>5, <1>8, <2>1, <2>2
<1>10. SumFunctionOnSet(e, S) = x
  <2>1. PICK z : z = [l \in S |-> 0]
    OBVIOUS
  <2>2. \A l \in S : z[l] = 0
    BY <2>1
  <2>3. SumFunctionOnSet(z, S) = 0
    BY <1>4, <2>2, SumZero
  <2>4. \A l \in S : z[l] \in Int /\ e[l] \in Int /\ (l # y => e[l] = z[l])
    BY <1>5, <1>8, <2>1
  <2>5. SumFunctionOnSet(e, S) = SumFunctionOnSet(z, S) - z[y] + e[y]
    BY <1>4, <2>4, SumDiffer
  <2> QED BY <1>5, <1>8, <2>2, <2>3, <2>5
<1>11. SumFunctionOnSet(qs, S) = T + f
  <2>1. \A l \in S : Q[l] \in Int /\ sh[l] \in Int /\ qs[l] = Q[l] + sh[l]
    BY <1>4, <1>8
  <2> QED BY <1>4, <2>1, SumPlus
<1>12. SumFunctionOnSet(g, S) = a
  <2>1. \A l \in S : qs[l] \in Int /\ e[l] \in Int /\ g[l] = qs[l] + e[l]
    BY <1>9
  <2>2. SumFunctionOnSet(g, S) = SumFunctionOnSet(qs, S) + SumFunctionOnSet(e, S)
    BY <1>4, <2>1, SumPlus
  <2> QED BY <1>5, <1>10, <1>11, <2>2
<1>13. ASSUME NEW l \in S PROVE g[l] \in Nat /\ g[l] - Platform[l] - sh[l] >= order.base[l]
  <2>1. PICK b, p \in Nat : b = order.base[l] /\ p = Platform[l] /\ Q[l] = b + p
    BY <1>1, <1>2, <1>4, Quoted
  <2>2. PICK n \in Nat : n = sh[l]
    BY <1>4
  <2>3. qs[l] = b + p + n
    BY <1>8, <2>1, <2>2
  <2>4. PICK d \in {0, 1} : g[l] = qs[l] + d
    BY <1>9
  <2> QED BY <2>1, <2>2, <2>3, <2>4
<1> QED BY <1>3, <1>12, <1>13

\* However the order was sold, the rows' gross amounts come to the capture.
LEMMA AllBooked ==
  ASSUME FeeSetting, Ordered, Reported, Acceptable, NEW S, NEW sh, NEW g, Booked(S, sh, g)
  PROVE  SumFunctionOnSet(g, S) = capture.amount /\ \A l \in S : g[l] \in Nat
<1>1. CASE Single
  BY <1>1, SingleBooked
<1>2. CASE ~Single /\ ~PassOn
  BY <1>2, AbsorbedBooked
<1>3. CASE ~Single /\ PassOn
  <2>1. order.mode = "managed"
    BY <1>3, Quoted DEF Ordered, PassOn, Modes
  <2> QED BY <1>3, <2>1, ManagedBooked DEF Acceptable
<1> QED BY <1>1, <1>2, <1>3

\* The rows of a fulfilled capture.
LEMMA RowsOfAllocation ==
  ASSUME NEW S, NEW sh, NEW g, Booked(S, sh, g), NEW l \in S
  PROVE  Allocation[l] = [gross |-> g[l], platform |-> Platform[l], processor |-> sh[l],
                          net |-> g[l] - Platform[l] - sh[l]]
<1>1. S = order.lines /\ sh[l] = Share(capture.fee, l) /\ g[l] = Credited(l)
  BY DEF Booked
<1>2. PICK f, x : f = Share(capture.fee, l) /\ x = Credited(l)
  OBVIOUS
<1>3. Allocation[l] = [gross |-> x, platform |-> Platform[l], processor |-> f, net |-> x - Platform[l] - f]
  BY <1>1, <1>2 DEF Allocation, Credited
<1> QED BY <1>1, <1>2, <1>3

\* What Settle writes keeps its types and adds up.
LEMMA LedgerOfCapture ==
  ASSUME FeeSetting, Ordered, Reported, Acceptable, ledger = Allocation
  PROVE  ledger \in [order.lines -> Shares] /\ LedgerAddsUp
<1>1. PICK S, sh, g : Booked(S, sh, g)
  BY DEF Booked
<1>2. PICK a, f, T \in Nat : a = capture.amount /\ f = capture.fee /\ T = Target
  BY BookedTypes, <1>1
<1>3. PICK P : P = Platform
  OBVIOUS
<1>4. PICK n : n = [l \in S |-> g[l] - P[l] - sh[l]]
  OBVIOUS
<1>5. IsFiniteSet(S) /\ S = order.lines /\ S \in SUBSET Lines
  BY <1>1, BookedTypes DEF Booked
<1>6. ASSUME NEW l \in S
      PROVE  /\ g[l] \in Nat /\ P[l] \in Nat /\ sh[l] \in Nat
             /\ n[l] = g[l] - P[l] - sh[l] /\ n[l] \in Nat
  <2>1. g[l] \in Nat /\ P[l] \in Nat /\ sh[l] \in Nat
    BY <1>1, <1>3, <1>5, AllBooked, BookedTypes, Quoted
  <2>2. n[l] = g[l] - P[l] - sh[l]
    BY <1>4
  <2>3. n[l] >= 0
    <3>1. PICK row : row = Allocation[l]
      OBVIOUS
    <3>2. row = [gross |-> g[l], platform |-> P[l], processor |-> sh[l], net |-> n[l]]
      BY <1>1, <1>3, <2>2, <3>1, RowsOfAllocation
    <3>3. row.net >= 0
      BY <1>5, <3>1 DEF Acceptable
    <3> QED BY <3>2, <3>3
  <2>4. n[l] \in Int
    BY <2>1, <2>2
  <2> QED BY <2>1, <2>2, <2>3, <2>4
<1>7. ASSUME NEW l \in S
      PROVE  /\ ledger[l] = [gross |-> g[l], platform |-> P[l], processor |-> sh[l], net |-> n[l]]
             /\ ledger[l].gross = g[l] /\ ledger[l].processor = sh[l] /\ ledger[l].net = n[l]
  <2>1. PICK row : row = ledger[l]
    OBVIOUS
  <2>2. row = [gross |-> g[l], platform |-> P[l], processor |-> sh[l], net |-> n[l]]
    BY <1>1, <1>3, <1>4, <2>1, RowsOfAllocation
  <2>3. row.gross = g[l] /\ row.processor = sh[l] /\ row.net = n[l]
    BY <2>2
  <2> QED BY <2>1, <2>2, <2>3
<1>8. ledger \in [order.lines -> Shares]
  <2>1. ASSUME NEW l \in S PROVE ledger[l] \in Shares
    <3>1. PICK x, y, z, w \in Nat : x = g[l] /\ y = P[l] /\ z = sh[l] /\ w = n[l]
      BY <1>6
    <3>2. [gross |-> x, platform |-> y, processor |-> z, net |-> w] \in Shares
      BY DEF Shares
    <3> QED BY <1>7, <3>1, <3>2
  <2>2. ledger = [l \in order.lines |-> ledger[l]]
    BY DEF Allocation
  <2> QED BY <1>5, <2>1, <2>2
<1>9. SumFunctionOnSet(g, S) = a /\ SumFunctionOnSet(sh, S) = f
  BY <1>1, <1>2, AllBooked, BookedTypes
<1>10. PICK pl \in Nat : pl = SumFunctionOnSet(P, S)
  <2>1. \A l \in S : P[l] \in Nat
    BY <1>6
  <2> QED BY <1>5, <2>1, SumNat
<1>11. SumFunctionOnSet(n, S) = a - pl - f
  <2>1. PICK q : q = [l \in S |-> P[l] + sh[l]]
    OBVIOUS
  <2>2. \A l \in S : P[l] \in Int /\ sh[l] \in Int /\ q[l] = P[l] + sh[l]
    BY <1>6, <2>1
  <2>3. SumFunctionOnSet(q, S) = pl + f
    BY <1>5, <1>9, <1>10, <2>2, SumPlus
  <2>4. \A l \in S : n[l] \in Int /\ q[l] \in Int /\ g[l] = n[l] + q[l]
    <3>1. ASSUME NEW l \in S PROVE n[l] \in Int /\ q[l] \in Int /\ g[l] = n[l] + q[l]
      <4>1. PICK u, v, w \in Nat : u = g[l] /\ v = P[l] /\ w = sh[l]
        BY <1>6
      <4>2. n[l] = u - v - w /\ q[l] = v + w
        BY <1>6, <2>2, <4>1
      <4> QED BY <4>1, <4>2
    <3> QED BY <3>1
  <2>5. SumFunctionOnSet(g, S) = SumFunctionOnSet(n, S) + SumFunctionOnSet(q, S)
    BY <1>5, <2>4, SumPlus
  <2>6. SumFunctionOnSet(n, S) \in Int
    <3>1. \A l \in S : n[l] \in Int
      BY <1>6
    <3> QED BY <1>5, <3>1, SumType
  <2> QED BY <1>9, <2>3, <2>5, <2>6
<1>12. Column("gross") = a /\ Column("processor") = f /\ Column("net") = a - pl - f
  <2>1. PICK c1, c2, c3 : /\ c1 = [l \in S |-> ledger[l].gross] /\ c2 = [l \in S |-> ledger[l].processor]
                          /\ c3 = [l \in S |-> ledger[l].net]
    OBVIOUS
  <2>2. ASSUME NEW l \in S
        PROVE  /\ g[l] \in Int /\ c1[l] = g[l] /\ sh[l] \in Int /\ c2[l] = sh[l]
               /\ n[l] \in Int /\ c3[l] = n[l]
    <3>1. c1[l] = ledger[l].gross /\ c2[l] = ledger[l].processor /\ c3[l] = ledger[l].net
      BY <2>1
    <3>2. ledger[l].gross = g[l] /\ ledger[l].processor = sh[l] /\ ledger[l].net = n[l]
      BY <1>7
    <3> QED BY <1>6, <3>1, <3>2
  <2>3. /\ \A l \in S : g[l] \in Int /\ c1[l] = g[l]
        /\ \A l \in S : sh[l] \in Int /\ c2[l] = sh[l]
        /\ \A l \in S : n[l] \in Int /\ c3[l] = n[l]
    BY <2>2
  <2>4. /\ SumFunctionOnSet(c1, S) = a /\ SumFunctionOnSet(c2, S) = f
        /\ SumFunctionOnSet(c3, S) = a - pl - f
    BY <1>5, <1>9, <1>11, <2>3, SumSame
  <2> QED BY <1>5, <2>1, <2>4 DEF Column, Total
<1>13. LedgerAddsUp
  <2>1. ASSUME NEW l \in S
        PROVE  /\ -Target < capture.fee * Payable[l] - ledger[l].processor * Target
               /\ capture.fee * Payable[l] - ledger[l].processor * Target < Target
    <3>1. ledger[l].processor = sh[l]
      BY <1>7
    <3>2. /\ -Target < capture.fee * Payable[l] - sh[l] * Target
          /\ capture.fee * Payable[l] - sh[l] * Target < Target
      BY <1>1, BookedTypes
    <3> QED BY <3>1, <3>2
  <2>2. pl = Total(Platform, order.lines)
    BY <1>3, <1>5, <1>10 DEF Total
  <2> QED BY <1>2, <1>5, <1>12, <2>1, <2>2 DEF LedgerAddsUp
<1> QED BY <1>8, <1>13
\* A managed charge that leaves what it promised leaves every line its price.
LEMMA ManagedRows ==
  ASSUME FeeSetting, Ordered, Reported, order.mode = "managed",
         PromiseKept(capture.amount - capture.fee)
  PROVE  Acceptable /\ \A l \in order.lines : Allocation[l].net >= order.base[l]
<1>1. PICK S, sh, g : Booked(S, sh, g)
  BY DEF Booked
<1>2. PICK a, f, T \in Nat : a = capture.amount /\ f = capture.fee /\ T = Target
  BY <1>1, BookedTypes
<1>3. S = order.lines /\ S \in SUBSET Lines
  BY <1>1, BookedTypes DEF Booked
<1>4. f <= a
  <2>1. a - f \in {T, T + 1}
    BY <1>2 DEF PromiseKept
  <2> QED BY <1>2, <2>1
<1>5. ASSUME NEW l \in S PROVE Allocation[l].net >= order.base[l] /\ Allocation[l].net >= 0
  <2>1. PICK n : n = g[l] - Platform[l] - sh[l]
    OBVIOUS
  <2>2. n >= order.base[l]
    BY <1>1, <2>1, ManagedSingle, ManagedBooked
  <2>3. PICK row : row = Allocation[l]
    OBVIOUS
  <2>4. row = [gross |-> g[l], platform |-> Platform[l], processor |-> sh[l], net |-> n]
    BY <1>1, <2>1, <2>3, RowsOfAllocation
  <2>5. row.net = n
    BY <2>4
  <2>6. PICK x, y, z \in Int : x = g[l] /\ y = Platform[l] /\ z = sh[l]
    <3>1. g[l] \in Int
      BY <1>1, SingleBooked, ManagedBooked
    <3> QED BY <1>1, <1>3, <3>1, BookedTypes, Quoted
  <2>7. PICK b \in Nat : b = order.base[l]
    BY <1>3, Quoted
  <2>8. n \in Int
    BY <2>1, <2>6
  <2> QED BY <2>2, <2>3, <2>5, <2>7, <2>8
<1> QED BY <1>2, <1>3, <1>4, <1>5 DEF Acceptable

----------------------------------------------------------------------------
\* What an order is quoted at depends on the order alone.
LEMMA SameQuote ==
  ASSUME UNCHANGED order
  PROVE  /\ Platform' = Platform /\ Payable' = Payable /\ Target' = Target
         /\ (PassOn <=> PassOn') /\ (Single <=> Single') /\ (Ordered <=> Ordered')
<1>1. (PassOn <=> PassOn') /\ (Single <=> Single') /\ (Ordered <=> Ordered')
  BY DEF PassOn, Single, Ordered, Orders
<1>2. Platform' = Platform
  BY DEF Platform, Commission
<1>3. Payable' = Payable
  BY <1>1, <1>2 DEF Payable
<1>4. Target' = Target
  BY <1>3 DEF Target, Total
<1> QED BY <1>1, <1>2, <1>3, <1>4

\* What a capture is taken for depends on the order and the report.
LEMMA SameCapture ==
  ASSUME UNCHANGED <<order, capture>>
  PROVE  Allocation' = Allocation /\ (Acceptable <=> Acceptable') /\ (Reported <=> Reported')
<1>1. /\ Platform' = Platform /\ Payable' = Payable /\ Target' = Target
      /\ (PassOn <=> PassOn') /\ (Single <=> Single')
  BY SameQuote
<1>2. Reported <=> Reported'
  BY <1>1 DEF Reported
<1>3. \A l : (TakesExcess(l) <=> TakesExcess(l)') /\ Share(capture.fee, l)' = Share(capture.fee, l)
  BY <1>1 DEF TakesExcess, Share, Total
<1>4. Allocation' = Allocation
  BY <1>1, <1>3 DEF Allocation
<1>5. Acceptable <=> Acceptable'
  BY <1>1, <1>4 DEF Acceptable, PromiseKept
<1> QED BY <1>2, <1>4, <1>5

\* A charge is reported with what it may be reported with.
LEMMA ChargeReports ==
  ASSUME FeeSetting, Ordered, Charge
  PROVE  Reported'
<1>1. PICK T \in Nat : T = Target /\ T > 0
  BY Quoted DEF Charge
<1>2. Target' = T
  BY <1>1, SameQuote DEF Charge
<1>3. PICK rate \in Rates : capture' \in Reports(rate)
  BY DEF Charge
<1>4. PICK p, c \in Nat : p = rate.percent_bps /\ p < 10000 /\ c = rate.fixed_cents
  BY <1>3 DEF FeeSetting
<1>5. CASE order.mode # "managed"
  <2>1. PICK amount \in {Target} \cup Charged :
          \E fee \in FeesAt(amount, rate) : capture' = [amount |-> amount, fee |-> fee]
    BY <1>3, <1>5 DEF Reports
  <2>2. amount \in Nat
    BY <1>1, <2>1 DEF FeeSetting
  <2>3. PICK fee \in FeesAt(amount, rate) : capture' = [amount |-> amount, fee |-> fee]
    BY <2>1
  <2>4. fee \in Nat
    BY <1>4, <2>2, <2>3, RoundedFee
  <2> QED BY <1>1, <1>2, <2>2, <2>3, <2>4 DEF Reported
<1>6. CASE order.mode = "managed"
  <2>1. PICK H : H = GrossUp(T, rate)
    OBVIOUS
  <2>2. H \in Nat /\ H >= T
    BY <1>4, <2>1, GrossedUp
  <2>3. PICK off \in 0..3 : capture' = [amount |-> H + 2, fee |-> H - T + off]
    BY <1>1, <1>3, <1>6, <2>1 DEF Reports
  <2>4. capture' \in [amount : Nat, fee : Nat]
    BY <2>2, <2>3
  <2> QED BY <1>1, <1>2, <2>4 DEF Reported
<1> QED BY <1>5, <1>6

LEMMA FeeInitially ==
  ASSUME FeeSetting, Init
  PROVE  FeeInv
BY DEF Init, FeeInv, Ordered, Single

LEMMA FeeInductive ==
  ASSUME FeeSetting, FeeInv, [Next]_vars
  PROVE  FeeInv'
<1>1. CASE UNCHANGED vars
  BY <1>1, SameQuote, SameCapture DEF vars, FeeInv
<1>2. CASE Quote
  <2>1. UNCHANGED <<order, capture, ledger>> /\ state = "open" /\ state' = "refused"
    BY <1>2 DEF Quote
  <2> QED BY <2>1, SameQuote, SameCapture DEF FeeInv
<1>3. CASE Charge
  <2>1. UNCHANGED <<order, state, ledger>> /\ state = "open"
    BY <1>3 DEF Charge
  <2>2. Reported'
    BY <1>3, ChargeReports DEF FeeInv
  <2> QED BY <2>1, <2>2, SameQuote DEF FeeInv
<1>4. CASE Settle
  <2>1. UNCHANGED <<order, capture>> /\ capture # None
    BY <1>4 DEF Settle
  <2>2. Reported' /\ Ordered' /\ Allocation' = Allocation /\ (Acceptable <=> Acceptable')
    BY <2>1, SameQuote, SameCapture DEF FeeInv
  <2>3. CASE Acceptable
    <3>1. state' = "settled" /\ ledger' = Allocation
      BY <1>4, <2>3 DEF Settle
    <3> QED BY <2>2, <2>3, <3>1 DEF FeeInv
  <2>4. CASE ~Acceptable
    <3>1. state' = "review" /\ ledger' = None
      BY <1>4, <2>4 DEF Settle
    <3> QED BY <2>2, <2>4, <3>1 DEF FeeInv
  <2> QED BY <2>3, <2>4
<1> QED BY <1>1, <1>2, <1>3, <1>4 DEF Next

LEMMA FeeConsequences ==
  ASSUME FeeSetting, FeeInv
  PROVE  TypeOK /\ LedgerAddsUp /\ ManagedIsFulfilled
<1>1. ASSUME state = "settled"
      PROVE  ledger \in [order.lines -> Shares] /\ LedgerAddsUp
  BY <1>1, LedgerOfCapture DEF FeeInv
<1>2. LedgerAddsUp
  BY <1>1 DEF LedgerAddsUp
<1>3. TypeOK
  <2>1. capture = None \/ capture \in [amount : Nat, fee : Nat]
    BY DEF FeeInv, Reported
  <2>2. ledger = None \/ (state = "settled" /\ ledger \in [order.lines -> Shares])
    BY <1>1 DEF FeeInv
  <2> QED BY <2>1, <2>2 DEF TypeOK, FeeInv, Ordered
<1>4. ManagedIsFulfilled
  BY ManagedRows DEF ManagedIsFulfilled, FeeInv, Acceptable
<1> QED BY <1>2, <1>3, <1>4

\* Whatever the lines, prices, commission and mode of an order, and whatever amount the provider
\* reports of its charge at whatever rate, the ledger rows add up to the capture, each line bears
\* its share of the fee to the centavo, and a managed charge that keeps its promise is fulfilled
\* (quoteGroup, allocateCents, confirmPayment with its reconciliation of the amount,
\* booking_payment_confirm).
THEOREM FeesInvariant ==
  ASSUME FeeSetting
  PROVE  Spec => [](TypeOK /\ LedgerAddsUp /\ ManagedIsFulfilled)
<1>1. Init => FeeInv
  BY FeeInitially
<1>2. FeeInv /\ [Next]_vars => FeeInv'
  BY FeeInductive
<1>3. FeeInv => TypeOK /\ LedgerAddsUp /\ ManagedIsFulfilled
  BY FeeConsequences
<1> QED BY <1>1, <1>2, <1>3, PTL DEF Spec
====
