--------------------------- MODULE CheckoutProofs ---------------------------
(***************************************************************************)
(* Proofs about Checkout, for any catalogue, any request and any changes   *)
(* made meanwhile.                                                         *)
(***************************************************************************)
EXTENDS Checkout, WellFoundedInduction, FiniteSetTheorems, SequenceTheorems, TLAPS

----------------------------------------------------------------------------
(* Sums over finite sets.  Induction is on the size of a set: what fails   *)
(* fails for a smallest set.                                               *)

Before == {ss \in Nat \X Nat : ss[1] < ss[2]}

LEMMA BeforeWellFounded == IsWellFoundedOn(Before, Nat)
BY NatLessThanWellFounded DEF OpToRel, Before

LEMMA LeastNumber ==
  ASSUME NEW T \in SUBSET Nat, T # {}
  PROVE  \E m \in T : \A k \in T : m <= k
<1>1. PICK m \in T : \A k \in T : ~ (<<k, m>> \in Before)
  BY BeforeWellFounded, WFMin
<1>2. \A k \in T : ~ (k < m)
  BY <1>1 DEF Before
<1>. QED
  BY <1>1, <1>2

LEMMA SmallestSet ==
  ASSUME NEW S, IsFiniteSet(S), NEW Bad, Bad \subseteq SUBSET S, Bad # {}
  PROVE  \E s \in Bad : \A t \in SUBSET S : Cardinality(t) < Cardinality(s) => t \notin Bad
<1> DEFINE Sizes == {Cardinality(s) : s \in Bad}
<1>1. \A s \in SUBSET S : IsFiniteSet(s) /\ Cardinality(s) \in Nat
  BY FS_Subset, FS_CardinalityType
<1>2. Sizes \in SUBSET Nat /\ Sizes # {}
  BY <1>1
<1>3. PICK m \in Sizes : \A k \in Sizes : m <= k
  <2> HIDE DEF Sizes
  <2>. QED
    BY <1>2, LeastNumber
<1>4. PICK s \in Bad : Cardinality(s) = m
  OBVIOUS
<1>5. \A t \in Bad : ~ (Cardinality(t) < Cardinality(s))
  BY <1>1, <1>3, <1>4
<1>. QED
  BY <1>4, <1>5

Some(s) == CHOOSE x \in s : TRUE

\* What MapThenSumSet makes of a set: f sums v over every subset of S.
Sums(f, v, S) ==
  f = [s \in SUBSET S |-> IF s = {} THEN 0 ELSE v[Some(s)] + f[s \ {Some(s)}]]

SumOf(v, S) == MapThenSumSet(LAMBDA x : v[x], S)

LEMMA SumUnfolded ==
  ASSUME NEW v, NEW S
  PROVE  SumOf(v, S) = (CHOOSE f : Sums(f, v, S))[S]
BY DEF SumOf, MapThenSumSet, MapThenFoldSet, Sums, Some

LEMMA SomeIn == \A s : s # {} => Some(s) \in s
BY DEF Some

LEMMA SmallerWithout ==
  ASSUME NEW S, IsFiniteSet(S), NEW s \in SUBSET S, NEW x \in s
  PROVE  /\ s \ {x} \in SUBSET S
         /\ Cardinality(s \ {x}) < Cardinality(s)
<1>1. IsFiniteSet(s) /\ Cardinality(s) \in Nat
  BY FS_Subset, FS_CardinalityType
<1>2. Cardinality(s \ {x}) = Cardinality(s) - 1
  BY <1>1, FS_RemoveElement
<1>. QED
  BY <1>1, <1>2

\* Two sums of the same values are the same.
LEMMA SumsAgree ==
  ASSUME NEW R, IsFiniteSet(R), NEW S, NEW T, R \subseteq S, R \subseteq T,
         NEW v, NEW w, \A x \in R : v[x] = w[x],
         NEW f, Sums(f, v, S), NEW g, Sums(g, w, T)
  PROVE  f[R] = g[R]
<1> DEFINE Bad == {s \in SUBSET R : f[s] # g[s]}
<1> SUFFICES ASSUME Bad # {}
             PROVE  FALSE
  OBVIOUS
<1>1. PICK s \in Bad : \A t \in SUBSET R : Cardinality(t) < Cardinality(s) => t \notin Bad
  <2>1. Bad \subseteq SUBSET R
    OBVIOUS
  <2> HIDE DEF Bad
  <2>. QED
    BY <2>1, SmallestSet
<1>2. /\ f[s] = IF s = {} THEN 0 ELSE v[Some(s)] + f[s \ {Some(s)}]
      /\ g[s] = IF s = {} THEN 0 ELSE w[Some(s)] + g[s \ {Some(s)}]
  <2>1. s \in SUBSET S /\ s \in SUBSET T
    OBVIOUS
  <2>. QED
    BY <2>1 DEF Sums
<1>3. s # {}
  BY <1>2
<1>4. Some(s) \in s
  BY <1>3, SomeIn
<1>5. s \ {Some(s)} \notin Bad /\ s \ {Some(s)} \in SUBSET R
  <2>1. s \in SUBSET R
    OBVIOUS
  <2> HIDE DEF Bad
  <2>. QED
    BY <1>1, <1>4, <2>1, SmallerWithout
<1>. QED
  BY <1>2, <1>3, <1>4, <1>5

\* A finite set has a sum.
LEMMA SumsExist ==
  ASSUME NEW S, IsFiniteSet(S), NEW v
  PROVE  \E f : Sums(f, v, S)
<1> DEFINE Bad == {s \in SUBSET S : ~ \E f : Sums(f, v, s)}
<1> SUFFICES ASSUME Bad # {}
             PROVE  FALSE
  OBVIOUS
<1>1. PICK s \in Bad : \A t \in SUBSET S : Cardinality(t) < Cardinality(s) => t \notin Bad
  <2>1. Bad \subseteq SUBSET S
    OBVIOUS
  <2> HIDE DEF Bad
  <2>. QED
    BY <2>1, SmallestSet
<1>2. s \in SUBSET S
  OBVIOUS
<1> DEFINE F(t) == CHOOSE f : Sums(f, v, t)
           Rest(t) == t \ {Some(t)}
           g == [t \in SUBSET s |-> IF t = {} THEN 0 ELSE v[Some(t)] + F(Rest(t))[Rest(t)]]
<1>3. ASSUME NEW t \in SUBSET s, t # {}
      PROVE  Rest(t) \in SUBSET s /\ Rest(t) \in SUBSET t /\ Sums(F(Rest(t)), v, Rest(t))
  <2>1. Some(t) \in t
    BY <1>3, SomeIn
  <2>2. Rest(t) \in SUBSET S /\ Cardinality(Rest(t)) < Cardinality(s)
    <3>1. Cardinality(Rest(t)) < Cardinality(t)
      BY <1>2, <2>1, SmallerWithout
    <3>2. Cardinality(t) <= Cardinality(s) /\ IsFiniteSet(t) /\ IsFiniteSet(s)
      BY <1>2, FS_Subset
    <3>3. Cardinality(t) \in Nat /\ Cardinality(s) \in Nat /\ Cardinality(Rest(t)) \in Nat
      BY <3>2, FS_Subset, FS_CardinalityType
    <3>. QED
      BY <1>2, <3>1, <3>2, <3>3
  <2>3. Rest(t) \notin Bad
    <3> HIDE DEF Bad
    <3>. QED
      BY <1>1, <2>2
  <2>4. \E f : Sums(f, v, Rest(t))
    BY <2>2, <2>3
  <2>. QED
    BY <2>4
<1>4. ASSUME NEW t \in SUBSET s, t # {}
      PROVE  g[Rest(t)] = F(Rest(t))[Rest(t)]
  <2> DEFINE r == Rest(t)
  <2>1. r \in SUBSET s /\ Sums(F(r), v, r)
    BY <1>3, <1>4
  <2>2. CASE r = {}
    BY <2>1, <2>2 DEF Sums
  <2>3. CASE r # {}
    <3>1. F(r)[r] = v[Some(r)] + F(r)[Rest(r)]
      <4> HIDE DEF F
      <4>. QED
        BY <2>1, <2>3 DEF Sums
    <3>2. g[r] = v[Some(r)] + F(Rest(r))[Rest(r)]
      BY <2>1, <2>3
    <3>3. F(r)[Rest(r)] = F(Rest(r))[Rest(r)]
      <4>1. Rest(r) \in SUBSET r /\ Sums(F(Rest(r)), v, Rest(r))
        BY <1>3, <2>1, <2>3
      <4>2. IsFiniteSet(Rest(r))
        BY <1>2, <2>1, <4>1, FS_Subset
      <4> HIDE DEF F, Rest
      <4>. QED
        BY <2>1, <4>1, <4>2, SumsAgree
    <3>. QED
      BY <3>1, <3>2, <3>3
  <2>. QED
    BY <2>2, <2>3
<1>5. Sums(g, v, s)
  <2>1. ASSUME NEW t \in SUBSET s
        PROVE  g[t] = IF t = {} THEN 0 ELSE v[Some(t)] + g[Rest(t)]
    <3>1. g[t] = IF t = {} THEN 0 ELSE v[Some(t)] + F(Rest(t))[Rest(t)]
      OBVIOUS
    <3> HIDE DEF g, F, Rest
    <3>. QED
      BY <1>4, <3>1
  <2>2. g = [t \in SUBSET s |-> g[t]]
    OBVIOUS
  <2> HIDE DEF g
  <2>. QED
    BY <2>1, <2>2 DEF Sums
<1>. QED
  BY <1>5

LEMMA SumSolved ==
  ASSUME NEW S, IsFiniteSet(S), NEW v
  PROVE  \E f : Sums(f, v, S) /\ SumOf(v, S) = f[S]
BY SumsExist, SumUnfolded

\* Sums over the subsets of a set are the values of its sum.
LEMMA SumOfSubset ==
  ASSUME NEW S, IsFiniteSet(S), NEW v, NEW f, Sums(f, v, S), NEW R \in SUBSET S
  PROVE  SumOf(v, R) = f[R]
<1>1. IsFiniteSet(R)
  BY FS_Subset
<1>2. PICK g : Sums(g, v, R) /\ SumOf(v, R) = g[R]
  BY <1>1, SumSolved
<1>. QED
  BY <1>1, <1>2, SumsAgree

LEMMA SumStep ==
  ASSUME NEW S, IsFiniteSet(S), NEW v, S # {}
  PROVE  SumOf(v, S) = v[Some(S)] + SumOf(v, S \ {Some(S)})
<1>1. PICK f : Sums(f, v, S)
  BY SumsExist
<1>2. SumOf(v, S) = f[S] /\ SumOf(v, S \ {Some(S)}) = f[S \ {Some(S)}]
  BY <1>1, SumOfSubset
<1>3. f[S] = v[Some(S)] + f[S \ {Some(S)}]
  BY <1>1 DEF Sums
<1>. QED
  BY <1>2, <1>3

LEMMA SumOfNone == ASSUME NEW v PROVE SumOf(v, {}) = 0
<1>1. PICK f : Sums(f, v, {}) /\ SumOf(v, {}) = f[{}]
  BY FS_EmptySet, SumSolved
<1>. QED
  BY <1>1 DEF Sums

LEMMA SumCongruent ==
  ASSUME NEW S, IsFiniteSet(S), NEW v, NEW w, \A x \in S : v[x] = w[x]
  PROVE  SumOf(v, S) = SumOf(w, S)
<1>1. PICK f : Sums(f, v, S) /\ SumOf(v, S) = f[S]
  BY SumSolved
<1>2. PICK g : Sums(g, w, S) /\ SumOf(w, S) = g[S]
  BY SumSolved
<1>. QED
  BY <1>1, <1>2, SumsAgree

LEMMA SumIsInt ==
  ASSUME NEW S, IsFiniteSet(S), NEW v, \A x \in S : v[x] \in Int
  PROVE  SumOf(v, S) \in Int
<1> DEFINE Bad == {s \in SUBSET S : SumOf(v, s) \notin Int}
<1> SUFFICES ASSUME Bad # {}
             PROVE  FALSE
  OBVIOUS
<1>1. PICK s \in Bad : \A t \in SUBSET S : Cardinality(t) < Cardinality(s) => t \notin Bad
  <2>1. Bad \subseteq SUBSET S
    OBVIOUS
  <2> HIDE DEF Bad
  <2>. QED
    BY <2>1, SmallestSet
<1>2. s \in SUBSET S /\ IsFiniteSet(s) /\ SumOf(v, s) \notin Int
  BY FS_Subset
<1>3. s # {}
  BY <1>2, SumOfNone
<1>4. Some(s) \in s
  BY <1>3, SomeIn
<1>5. s \ {Some(s)} \in SUBSET S /\ s \ {Some(s)} \notin Bad
  <2> HIDE DEF Bad
  <2>. QED
    BY <1>1, <1>2, <1>4, SmallerWithout
<1>6. SumOf(v, s) = v[Some(s)] + SumOf(v, s \ {Some(s)})
  BY <1>2, <1>3, SumStep
<1>. QED
  BY <1>2, <1>4, <1>5, <1>6

\* The order in which a sum takes its elements makes no difference.
LEMMA SumWithout ==
  ASSUME NEW S, IsFiniteSet(S), NEW v, \A x \in S : v[x] \in Int, NEW e \in S
  PROVE  SumOf(v, S) = v[e] + SumOf(v, S \ {e})
<1> DEFINE Fails(s) == \E x \in s : SumOf(v, s) # v[x] + SumOf(v, s \ {x})
           Bad == {s \in SUBSET S : Fails(s)}
<1> SUFFICES ASSUME Bad # {}
             PROVE  FALSE
  OBVIOUS
<1>1. PICK s \in Bad : \A t \in SUBSET S : Cardinality(t) < Cardinality(s) => t \notin Bad
  <2>1. Bad \subseteq SUBSET S
    OBVIOUS
  <2> HIDE DEF Bad
  <2>. QED
    BY <2>1, SmallestSet
<1>2. s \in SUBSET S /\ IsFiniteSet(s)
  BY FS_Subset
<1>3. PICK x \in s : SumOf(v, s) # v[x] + SumOf(v, s \ {x})
  OBVIOUS
<1> DEFINE y == Some(s)
<1>4. y \in s /\ SumOf(v, s) = v[y] + SumOf(v, s \ {y})
  BY <1>2, <1>3, SomeIn, SumStep
<1>5. x # y
  BY <1>3, <1>4
<1> HIDE DEF y
<1>6. ASSUME NEW z \in s
      PROVE  /\ s \ {z} \in SUBSET S /\ IsFiniteSet(s \ {z})
             /\ \A u \in s \ {z} : SumOf(v, s \ {z}) = v[u] + SumOf(v, (s \ {z}) \ {u})
  <2>1. s \ {z} \in SUBSET S /\ s \ {z} \notin Bad
    <3> HIDE DEF Bad
    <3>. QED
      BY <1>1, <1>2, SmallerWithout
  <2>. QED
    BY <2>1, FS_Subset
<1>7. SumOf(v, s \ {y}) = v[x] + SumOf(v, (s \ {y}) \ {x})
  BY <1>4, <1>5, <1>6
<1>8. SumOf(v, s \ {x}) = v[y] + SumOf(v, (s \ {x}) \ {y})
  BY <1>4, <1>5, <1>6
<1>9. (s \ {y}) \ {x} = (s \ {x}) \ {y}
  OBVIOUS
<1>10. SumOf(v, (s \ {x}) \ {y}) \in Int
  <2>1. (s \ {x}) \ {y} \in SUBSET S /\ IsFiniteSet((s \ {x}) \ {y})
    BY <1>2, FS_Subset
  <2>. QED
    BY <2>1, SumIsInt
<1>11. v[x] \in Int /\ v[y] \in Int
  BY <1>2, <1>4
<1>. QED
  BY <1>3, <1>4, <1>7, <1>8, <1>9, <1>10, <1>11

LEMMA SumWith ==
  ASSUME NEW S, IsFiniteSet(S), NEW e, e \notin S,
         NEW v, \A x \in S \union {e} : v[x] \in Int
  PROVE  SumOf(v, S \union {e}) = SumOf(v, S) + v[e]
<1>1. IsFiniteSet(S \union {e})
  BY FS_AddElement
<1>2. (S \union {e}) \ {e} = S
  OBVIOUS
<1>3. SumOf(v, S \union {e}) = v[e] + SumOf(v, S)
  BY <1>1, <1>2, SumWithout
<1>. QED
  BY <1>3, SumIsInt

----------------------------------------------------------------------------
(* Numbers *)

LEMMA Quotient ==
  ASSUME NEW n \in Int, NEW d \in Nat \ {0}
  PROVE  /\ n \div d \in Int
         /\ (n \div d) * d <= n /\ n < (n \div d) * d + d
OBVIOUS

LEMMA NearestIs ==
  ASSUME NEW n \in Int, NEW d \in Nat \ {0}, NEW k \in Nearest(n, d)
  PROVE  /\ k \in Int
         /\ 2 * Abs(k * d - n) <= d
         /\ 2 * (k * d - n) <= d /\ 2 * (n - k * d) <= d
<1>1. k \in Int /\ 2 * Abs(k * d - n) <= d
  BY Quotient DEF Nearest
<1>2. k * d - n \in Int
  BY <1>1
<1>3. Abs(k * d - n) >= k * d - n /\ Abs(k * d - n) >= n - k * d /\ Abs(k * d - n) \in Int
  BY <1>1, <1>2 DEF Abs
<1>. QED
  BY <1>1, <1>2, <1>3

\* Rounding does not make a negative amount of one that is not.
LEMMA NearestNotNegative ==
  ASSUME NEW n \in Nat, NEW d \in Nat \ {0}, NEW k \in Nearest(n, d)
  PROVE  k \in Nat
<1>1. k \in Int /\ 2 * (n - k * d) <= d
  BY NearestIs
<1>2. ASSUME k <= -1
      PROVE  FALSE
  <2>1. k * d <= (-1) * d
    BY <1>1, <1>2
  <2>. QED
    BY <1>1, <2>1
<1>. QED
  BY <1>1, <1>2

\* Nor is a share of at most the whole rounded to more than the whole.
LEMMA NearestWithin ==
  ASSUME NEW n \in Nat, NEW d \in Nat \ {0}, NEW m \in Nat, n <= m * d, NEW k \in Nearest(n, d)
  PROVE  k \in 0 .. m
<1>1. k \in Nat /\ 2 * (k * d - n) <= d
  BY NearestIs, NearestNotNegative
<1>2. ASSUME k >= m + 1
      PROVE  FALSE
  <2>1. k * d >= (m + 1) * d
    BY <1>1, <1>2
  <2>2. (m + 1) * d = m * d + d
    OBVIOUS
  <2>. QED
    BY <1>1, <2>1, <2>2
<1>. QED
  BY <1>1, <1>2

LEMMA AbsOfSum ==
  ASSUME NEW a \in Int, NEW b \in Int
  PROVE  Abs(a + b) <= Abs(a) + Abs(b) /\ Abs(a) \in Nat /\ Abs(b) \in Nat /\ Abs(a + b) \in Nat
BY DEF Abs

LEMMA Distributed ==
  ASSUME NEW a \in Int, NEW b \in Int, NEW c \in Int, NEW d \in Int, NEW r \in Int, NEW s \in Int
  PROVE  /\ (a + b) * r - (c + d) * s = (a * r - c * s) + (b * r - d * s)
         /\ a * r - c * s \in Int
OBVIOUS

LEMMA RateIsNat ==
  ASSUME NEW default \in Nat, NEW override \in Int \union {NoRate},
         NEW adminRate \in Int \union {NoRate}
  PROVE  ResolveCommissionRate(default, override, adminRate) \in Nat
BY DEF ResolveCommissionRate, Clamped

----------------------------------------------------------------------------
(* The invariant *)

\* The lines of a vendor, and what the lines add up to.
OfVendor(lines, v) == {i \in DOMAIN lines : VendorOf[lines[i].product] = v}

TotalsOf(lines) == [i \in DOMAIN lines |-> lines[i].lineTotal]

NetsOf(lines) == [i \in DOMAIN lines |-> lines[i].lineTotal - lines[i].commission]

\* The running totals of the call are those of the lines it has built.
Adds(lines, summary, sum) ==
  /\ sum = SumOf(TotalsOf(lines), DOMAIN lines)
  /\ DOMAIN summary = {VendorOf[lines[i].product] : i \in DOMAIN lines}
  /\ \A v \in DOMAIN summary :
       /\ summary[v].subtotal = SumOf(TotalsOf(lines), OfVendor(lines, v))
       /\ summary[v].net = SumOf(NetsOf(lines), OfVendor(lines, v))
       /\ summary[v].subtotal - summary[v].commission = summary[v].net

\* The rate explains the running commission to half a unit for each line.
Explained(lines, summary, rate) ==
  \A v \in DOMAIN summary :
    (\A i \in OfVendor(lines, v) : lines[i].rate = rate) =>
      2 * Abs(summary[v].commission * RateScale - summary[v].subtotal * rate)
        <= Cardinality(OfVendor(lines, v)) * RateScale

Fair(line) == line.unitPrice >= 0 /\ line.rate <= RateScale

SharesKept(lines, summary) ==
  \A v \in DOMAIN summary :
    (\A i \in OfVendor(lines, v) : Fair(lines[i])) =>
      summary[v].net \in 0 .. summary[v].subtotal

\* The tables are empty until the order is placed, and then hold what was
\* computed.
RowsWritten ==
  /\ pc = "begin" => built = <<>>
  /\ pc # "placed" =>
       orders = <<>> /\ vendorOrders = <<>> /\ commissions = <<>> /\ vendorPayouts = <<>>
         /\ orderItems = <<>>
  /\ pc = "placed" =>
       /\ orders = <<total>>
       /\ vendorOrders = vendorSummary
       /\ commissions = [v \in DOMAIN vendorSummary |-> CommissionRow(vendorSummary[v])]
       /\ vendorPayouts = [v \in DOMAIN vendorSummary |-> VendorPayoutRow(vendorSummary[v])]
       /\ orderItems = built

\* A line's product was there when the line was read, and is still there once
\* the order is placed.
IInv ==
  /\ TypeOK
  /\ RowsWritten
  /\ Adds(built, vendorSummary, total)
  /\ Explained(built, vendorSummary, defaultRate)
  /\ SharesKept(built, vendorSummary)
  /\ FreshLinesHold
  /\ OrderedProductsStay

----------------------------------------------------------------------------
(* A line is added *)

LEMMA Appended ==
  ASSUME NEW lines \in Seq(Line), NEW line \in Line
  PROVE  /\ Append(lines, line) \in Seq(Line)
         /\ DOMAIN lines = 1 .. Len(lines) /\ Len(lines) \in Nat
         /\ IsFiniteSet(DOMAIN lines)
         /\ Len(lines) + 1 \notin DOMAIN lines
         /\ DOMAIN Append(lines, line) = DOMAIN lines \union {Len(lines) + 1}
         /\ \A i \in DOMAIN lines : lines[i] \in Line /\ Append(lines, line)[i] = lines[i]
         /\ Append(lines, line)[Len(lines) + 1] = line
<1>1. Len(lines) \in Nat /\ DOMAIN lines = 1 .. Len(lines)
  BY LenProperties
<1>2. IsFiniteSet(1 .. Len(lines))
  BY <1>1, FS_Interval
<1>. QED
  BY <1>1, <1>2, AppendProperties

LEMMA AppendedOfVendor ==
  ASSUME NEW lines \in Seq(Line), NEW line \in Line, NEW v
  PROVE  /\ OfVendor(lines, v) \subseteq DOMAIN lines
         /\ IsFiniteSet(OfVendor(lines, v))
         /\ Len(lines) + 1 \notin OfVendor(lines, v)
         /\ OfVendor(Append(lines, line), v) =
              IF VendorOf[line.product] = v THEN OfVendor(lines, v) \union {Len(lines) + 1}
              ELSE OfVendor(lines, v)
<1>1. OfVendor(lines, v) \subseteq DOMAIN lines
  BY DEF OfVendor
<1>2. IsFiniteSet(OfVendor(lines, v))
  BY <1>1, Appended, FS_Subset
<1>3. OfVendor(Append(lines, line), v) =
        IF VendorOf[line.product] = v THEN OfVendor(lines, v) \union {Len(lines) + 1}
        ELSE OfVendor(lines, v)
  BY Appended DEF OfVendor
<1>. QED
  BY <1>1, <1>2, <1>3, Appended

\* The sums over a set of old lines stay, and the new line adds its own amount.
LEMMA SumsAppended ==
  ASSUME NEW lines \in Seq(Line), NEW line \in Line, NEW S \in SUBSET DOMAIN lines
  PROVE  LET new == Append(lines, line)
             n == Len(lines) + 1
         IN
         /\ SumOf(TotalsOf(new), S) = SumOf(TotalsOf(lines), S)
         /\ SumOf(NetsOf(new), S) = SumOf(NetsOf(lines), S)
         /\ SumOf(TotalsOf(new), S \union {n}) = SumOf(TotalsOf(lines), S) + line.lineTotal
         /\ SumOf(NetsOf(new), S \union {n}) =
              SumOf(NetsOf(lines), S) + (line.lineTotal - line.commission)
         /\ SumOf(TotalsOf(lines), S) \in Int /\ SumOf(NetsOf(lines), S) \in Int
<1> DEFINE new == Append(lines, line)
           n == Len(lines) + 1
<1>1. IsFiniteSet(S) /\ n \notin S
  BY Appended, FS_Subset
<1>2. \A x \in Line : x.lineTotal \in Int /\ x.lineTotal - x.commission \in Int
  BY DEF Line
<1>3. \A i \in S : /\ TotalsOf(new)[i] = TotalsOf(lines)[i] /\ TotalsOf(lines)[i] \in Int
                   /\ NetsOf(new)[i] = NetsOf(lines)[i] /\ NetsOf(lines)[i] \in Int
  BY <1>2, Appended DEF TotalsOf, NetsOf
<1>4. /\ TotalsOf(new)[n] = line.lineTotal /\ TotalsOf(new)[n] \in Int
      /\ NetsOf(new)[n] = line.lineTotal - line.commission /\ NetsOf(new)[n] \in Int
  BY <1>2, Appended DEF TotalsOf, NetsOf
<1> HIDE DEF new, n
<1>5. /\ SumOf(TotalsOf(new), S) = SumOf(TotalsOf(lines), S)
      /\ SumOf(NetsOf(new), S) = SumOf(NetsOf(lines), S)
  BY <1>1, <1>3, SumCongruent
<1>6. /\ SumOf(TotalsOf(lines), S) \in Int /\ SumOf(NetsOf(lines), S) \in Int
  BY <1>1, <1>3, SumIsInt
<1>7. SumOf(TotalsOf(new), S \union {n}) = SumOf(TotalsOf(new), S) + TotalsOf(new)[n]
  <2>1. \A i \in S \union {n} : TotalsOf(new)[i] \in Int
    BY <1>3, <1>4
  <2>. QED
    BY <1>1, <2>1, SumWith
<1>8. SumOf(NetsOf(new), S \union {n}) = SumOf(NetsOf(new), S) + NetsOf(new)[n]
  <2>1. \A i \in S \union {n} : NetsOf(new)[i] \in Int
    BY <1>3, <1>4
  <2>. QED
    BY <1>1, <2>1, SumWith
<1>. QED
  BY <1>4, <1>5, <1>6, <1>7, <1>8 DEF new, n

\* What a line does to the summary.
LEMMA Accumulated ==
  ASSUME NEW summary, IsTable(summary, Vendors, SummaryRow), NEW line \in Line
  PROVE  LET v == VendorOf[line.product]
             new == AccumulateVendorSummary(summary, v, line.lineTotal, line.commission)
             old == SubtotalOf(summary, v)
         IN
         /\ v \in Vendors
         /\ DOMAIN new = DOMAIN summary \union {v}
         /\ \A u \in DOMAIN summary \ {v} : new[u] = summary[u]
         /\ old \in SummaryRow
         /\ new[v].subtotal = old.subtotal + line.lineTotal
         /\ new[v].commission = old.commission + line.commission
         /\ new[v].net = old.net + (line.lineTotal - line.commission)
         /\ IsTable(new, Vendors, SummaryRow)
<1> DEFINE v == VendorOf[line.product]
           new == AccumulateVendorSummary(summary, v, line.lineTotal, line.commission)
           old == SubtotalOf(summary, v)
<1>1. v \in Vendors /\ line.lineTotal \in Int /\ line.commission \in Int
  BY VendorOfAssumption DEF Line
<1>2. old \in SummaryRow
  BY DEF SubtotalOf, IsTable, SummaryRow
<1>3. /\ DOMAIN new = DOMAIN summary \union {v}
      /\ \A u \in DOMAIN summary \ {v} : new[u] = summary[u]
      /\ new[v] = [subtotal |-> old.subtotal + line.lineTotal,
                   commission |-> old.commission + line.commission,
                   net |-> old.net + (line.lineTotal - line.commission)]
  BY DEF AccumulateVendorSummary
<1>4. new[v] \in SummaryRow
  BY <1>1, <1>2, <1>3 DEF SummaryRow
<1>5. new \in [DOMAIN new -> SummaryRow]
  <2>1. new = [u \in DOMAIN new |-> new[u]]
    BY DEF AccumulateVendorSummary
  <2>2. \A u \in DOMAIN new : new[u] \in SummaryRow
    BY <1>3, <1>4 DEF IsTable
  <2> HIDE DEF new
  <2>. QED
    BY <2>1, <2>2
<1>. QED
  BY <1>1, <1>2, <1>3, <1>5 DEF IsTable

\* The totals stay those of the lines.
LEMMA AddsKept ==
  ASSUME NEW lines \in Seq(Line), NEW line \in Line,
         NEW summary, IsTable(summary, Vendors, SummaryRow), NEW sum \in Int,
         Adds(lines, summary, sum)
  PROVE  Adds(Append(lines, line),
              AccumulateVendorSummary(summary, VendorOf[line.product], line.lineTotal, line.commission),
              sum + line.lineTotal)
<1> DEFINE v == VendorOf[line.product]
           n == Len(lines) + 1
           new == Append(lines, line)
           after == AccumulateVendorSummary(summary, v, line.lineTotal, line.commission)
           old == SubtotalOf(summary, v)
<1>1. sum + line.lineTotal = SumOf(TotalsOf(new), DOMAIN new)
  BY Appended, SumsAppended DEF Adds
<1>2. DOMAIN after = DOMAIN summary \union {v}
  BY Accumulated
<1>3. DOMAIN after = {VendorOf[new[i].product] : i \in DOMAIN new}
  BY <1>2, Appended DEF Adds
<1>4. /\ old.subtotal = SumOf(TotalsOf(lines), OfVendor(lines, v))
      /\ old.net = SumOf(NetsOf(lines), OfVendor(lines, v))
      /\ old.subtotal - old.commission = old.net
  <2>1. CASE v \in DOMAIN summary
    BY <2>1 DEF Adds, SubtotalOf
  <2>2. CASE v \notin DOMAIN summary
    <3>1. OfVendor(lines, v) = {}
      BY <2>2 DEF Adds, OfVendor
    <3>. QED
      BY <2>2, <3>1, SumOfNone DEF SubtotalOf
  <2>. QED
    BY <2>1, <2>2
<1>5. /\ after[v].subtotal = SumOf(TotalsOf(new), OfVendor(new, v))
      /\ after[v].net = SumOf(NetsOf(new), OfVendor(new, v))
      /\ after[v].subtotal - after[v].commission = after[v].net
  <2>1. OfVendor(new, v) = OfVendor(lines, v) \union {n} /\ OfVendor(lines, v) \in SUBSET DOMAIN lines
    BY AppendedOfVendor
  <2>2. /\ SumOf(TotalsOf(new), OfVendor(new, v)) =
             SumOf(TotalsOf(lines), OfVendor(lines, v)) + line.lineTotal
        /\ SumOf(NetsOf(new), OfVendor(new, v)) =
             SumOf(NetsOf(lines), OfVendor(lines, v)) + (line.lineTotal - line.commission)
    BY <2>1, SumsAppended
  <2>3. /\ after[v].subtotal = old.subtotal + line.lineTotal
        /\ after[v].commission = old.commission + line.commission
        /\ after[v].net = old.net + (line.lineTotal - line.commission)
        /\ old \in SummaryRow
    BY Accumulated
  <2>4. /\ old.subtotal \in Int /\ old.commission \in Int /\ old.net \in Int
        /\ line.lineTotal \in Int /\ line.commission \in Int
    BY <2>3 DEF SummaryRow, Line
  <2> HIDE DEF old, after, new
  <2>. QED
    BY <1>4, <2>2, <2>3, <2>4
<1>6. ASSUME NEW u \in DOMAIN after \ {v}
      PROVE  /\ after[u].subtotal = SumOf(TotalsOf(new), OfVendor(new, u))
             /\ after[u].net = SumOf(NetsOf(new), OfVendor(new, u))
             /\ after[u].subtotal - after[u].commission = after[u].net
  <2>1. OfVendor(new, u) = OfVendor(lines, u) /\ OfVendor(lines, u) \in SUBSET DOMAIN lines
    BY AppendedOfVendor
  <2>2. /\ SumOf(TotalsOf(new), OfVendor(new, u)) = SumOf(TotalsOf(lines), OfVendor(lines, u))
        /\ SumOf(NetsOf(new), OfVendor(new, u)) = SumOf(NetsOf(lines), OfVendor(lines, u))
    <3>1. /\ SumOf(TotalsOf(new), OfVendor(lines, u)) = SumOf(TotalsOf(lines), OfVendor(lines, u))
          /\ SumOf(NetsOf(new), OfVendor(lines, u)) = SumOf(NetsOf(lines), OfVendor(lines, u))
      BY <2>1, SumsAppended
    <3>. QED
      BY <2>1, <3>1
  <2>3. u \in DOMAIN summary /\ after[u] = summary[u]
    BY <1>2, Accumulated
  <2> HIDE DEF after, new
  <2>. QED
    BY <2>2, <2>3 DEF Adds
<1> HIDE DEF new, after, v
<1>. QED
  BY <1>1, <1>3, <1>5, <1>6 DEF Adds, new, after, v

\* So does the bound on the rounding: each line adds at most half a unit.
LEMMA ExplainedKept ==
  ASSUME NEW lines \in Seq(Line), NEW line \in Line,
         NEW summary, IsTable(summary, Vendors, SummaryRow), NEW sum, Adds(lines, summary, sum),
         NEW rate \in Nat, Explained(lines, summary, rate),
         line.commission \in Commissions(line.lineTotal, line.rate)
  PROVE  Explained(Append(lines, line),
                   AccumulateVendorSummary(summary, VendorOf[line.product],
                                           line.lineTotal, line.commission),
                   rate)
<1> DEFINE v == VendorOf[line.product]
           n == Len(lines) + 1
           new == Append(lines, line)
           after == AccumulateVendorSummary(summary, v, line.lineTotal, line.commission)
           old == SubtotalOf(summary, v)
           Off(row) == row.commission * RateScale - row.subtotal * rate
<1>0. DOMAIN after = DOMAIN summary \union {v}
  BY Accumulated
<1>1. ASSUME NEW u \in DOMAIN after \ {v}, \A i \in OfVendor(new, u) : new[i].rate = rate
      PROVE  2 * Abs(Off(after[u])) <= Cardinality(OfVendor(new, u)) * RateScale
  <2>1. u \in DOMAIN summary /\ after[u] = summary[u]
    BY <1>0, Accumulated
  <2>2. OfVendor(new, u) = OfVendor(lines, u) /\ OfVendor(lines, u) \subseteq DOMAIN lines
    BY AppendedOfVendor
  <2>3. \A i \in OfVendor(lines, u) : lines[i].rate = rate
    BY <1>1, <2>2, Appended
  <2>4. 2 * Abs(Off(summary[u])) <= Cardinality(OfVendor(lines, u)) * RateScale
    BY <2>1, <2>3 DEF Explained
  <2>. QED
    BY <2>1, <2>2, <2>4
<1>2. ASSUME \A i \in OfVendor(new, v) : new[i].rate = rate
      PROVE  2 * Abs(Off(after[v])) <= Cardinality(OfVendor(new, v)) * RateScale
  <2>1. /\ OfVendor(new, v) = OfVendor(lines, v) \union {n} /\ n \notin OfVendor(lines, v)
        /\ OfVendor(lines, v) \subseteq DOMAIN lines /\ IsFiniteSet(OfVendor(lines, v))
    BY AppendedOfVendor
  <2>2. line.rate = rate /\ \A i \in OfVendor(lines, v) : lines[i].rate = rate
    BY <1>2, <2>1, Appended
  <2>3. /\ Cardinality(OfVendor(lines, v)) \in Nat
        /\ Cardinality(OfVendor(new, v)) = Cardinality(OfVendor(lines, v)) + 1
    BY <2>1, FS_AddElement, FS_CardinalityType
  <2>4. 2 * Abs(Off(old)) <= Cardinality(OfVendor(lines, v)) * RateScale
    <3>1. CASE v \in DOMAIN summary
      BY <2>2, <3>1 DEF Explained, SubtotalOf
    <3>2. CASE v \notin DOMAIN summary
      <4>1. OfVendor(lines, v) = {}
        BY <3>2 DEF Adds, OfVendor
      <4>2. Off(old) = 0
        BY <3>2, ScalesAssumption DEF SubtotalOf
      <4>. QED
        BY <4>1, <4>2, FS_EmptySet, ScalesAssumption DEF Abs
    <3>. QED
      BY <3>1, <3>2
  <2>5. /\ old.subtotal \in Int /\ old.commission \in Int
        /\ after[v].subtotal = old.subtotal + line.lineTotal
        /\ after[v].commission = old.commission + line.commission
    BY Accumulated DEF SummaryRow
  <2>6. line.lineTotal \in Int /\ line.commission \in Int /\ RateScale \in Nat \ {0}
    BY ScalesAssumption DEF Line
  <2> DEFINE part == line.commission * RateScale - line.lineTotal * rate
             off == Off(old)
  <2>7. 2 * Abs(part) <= RateScale /\ part \in Int
    <3>1. line.lineTotal * rate \in Int
      BY <2>6
    <3>2. line.commission \in Nearest(line.lineTotal * rate, RateScale)
      BY <2>2 DEF Commissions
    <3>3. 2 * Abs(part) <= RateScale
      BY <2>6, <3>1, <3>2, NearestIs
    <3>4. line.commission * RateScale \in Int
      BY <2>6
    <3>. QED
      BY <3>1, <3>3, <3>4
  <2>8. Off(after[v]) = off + part /\ off \in Int
    <3>1. Off(after[v]) = (old.commission + line.commission) * RateScale
                            - (old.subtotal + line.lineTotal) * rate
      BY <2>5
    <3>2. RateScale \in Int /\ rate \in Int
      BY <2>6
    <3> HIDE DEF old, after
    <3> DEFINE a == old.commission
               b == line.commission
               c == old.subtotal
               d == line.lineTotal
    <3>3. a \in Int /\ b \in Int /\ c \in Int /\ d \in Int
      BY <2>5, <2>6
    <3>4. Off(after[v]) = (a + b) * RateScale - (c + d) * rate
      BY <3>1
    <3>5. off = a * RateScale - c * rate /\ part = b * RateScale - d * rate
      OBVIOUS
    <3> HIDE DEF a, b, c, d, off, part, Off
    <3>. QED
      BY <3>2, <3>3, <3>4, <3>5, Distributed
  <2>9. (Cardinality(OfVendor(lines, v)) + 1) * RateScale =
          Cardinality(OfVendor(lines, v)) * RateScale + RateScale
    BY <2>3, <2>6
  <2>10. Cardinality(OfVendor(lines, v)) * RateScale \in Int
    BY <2>3, <2>6
  <2> HIDE DEF off, part, after, old, Off
  <2>11. 2 * Abs(off) <= Cardinality(OfVendor(lines, v)) * RateScale
    BY <2>4 DEF off
  <2>12. 2 * Abs(off + part) <= Cardinality(OfVendor(lines, v)) * RateScale + RateScale
    <3>1. Abs(off + part) <= Abs(off) + Abs(part)
          /\ Abs(off) \in Nat /\ Abs(part) \in Nat /\ Abs(off + part) \in Nat
      BY <2>7, <2>8, AbsOfSum
    <3>. QED
      BY <2>6, <2>7, <2>10, <2>11, <3>1
  <2>. QED
    BY <2>3, <2>8, <2>9, <2>12
<1> HIDE DEF v, new, after, Off
<1>3. \A u \in DOMAIN after :
        (\A i \in OfVendor(new, u) : new[i].rate = rate) =>
          2 * Abs(Off(after[u])) <= Cardinality(OfVendor(new, u)) * RateScale
  BY <1>1, <1>2
<1>. QED
  BY <1>3 DEF Explained, v, new, after, Off

\* And a fair line takes no more from its vendor than it was sold for.
LEMMA SharesKeptToo ==
  ASSUME NEW lines \in Seq(Line), NEW line \in Line,
         NEW summary, IsTable(summary, Vendors, SummaryRow), NEW sum, Adds(lines, summary, sum),
         SharesKept(lines, summary),
         line.lineTotal \in LineTotals(line.unitPrice, line.qty),
         line.commission \in Commissions(line.lineTotal, line.rate)
  PROVE  SharesKept(Append(lines, line),
                    AccumulateVendorSummary(summary, VendorOf[line.product],
                                            line.lineTotal, line.commission))
<1> DEFINE v == VendorOf[line.product]
           n == Len(lines) + 1
           new == Append(lines, line)
           after == AccumulateVendorSummary(summary, v, line.lineTotal, line.commission)
           old == SubtotalOf(summary, v)
<1>0. DOMAIN after = DOMAIN summary \union {v}
  BY Accumulated
<1>1. ASSUME NEW u \in DOMAIN after \ {v}, \A i \in OfVendor(new, u) : Fair(new[i])
      PROVE  after[u].net \in 0 .. after[u].subtotal
  <2>1. u \in DOMAIN summary /\ after[u] = summary[u]
    BY <1>0, Accumulated
  <2>2. OfVendor(new, u) = OfVendor(lines, u) /\ OfVendor(lines, u) \subseteq DOMAIN lines
    BY AppendedOfVendor
  <2>3. \A i \in OfVendor(lines, u) : Fair(lines[i])
    BY <1>1, <2>2, Appended
  <2>. QED
    BY <2>1, <2>3 DEF SharesKept
<1>2. ASSUME \A i \in OfVendor(new, v) : Fair(new[i])
      PROVE  after[v].net \in 0 .. after[v].subtotal
  <2>1. /\ OfVendor(new, v) = OfVendor(lines, v) \union {n}
        /\ OfVendor(lines, v) \subseteq DOMAIN lines
    BY AppendedOfVendor
  <2>2. Fair(line) /\ \A i \in OfVendor(lines, v) : Fair(lines[i])
    BY <1>2, <2>1, Appended
  <2>3. old.net \in 0 .. old.subtotal
    <3>1. CASE v \in DOMAIN summary
      BY <2>2, <3>1 DEF SharesKept, SubtotalOf
    <3>2. CASE v \notin DOMAIN summary
      BY <3>2 DEF SubtotalOf
    <3>. QED
      BY <3>1, <3>2
  <2>4. /\ old.subtotal \in Int
        /\ after[v].subtotal = old.subtotal + line.lineTotal
        /\ after[v].net = old.net + (line.lineTotal - line.commission)
    BY Accumulated DEF SummaryRow
  <2>5. line.lineTotal \in Nat /\ line.commission \in 0 .. line.lineTotal
    <3>0. line.qty \in Quantities /\ line.rate \in Nat /\ line.unitPrice \in Int
      BY DEF Line
    <3>1. /\ line.qty \in Nat /\ line.rate \in Nat /\ line.rate <= RateScale
          /\ line.unitPrice \in Nat
          /\ QtyScale \in Nat \ {0} /\ RateScale \in Nat \ {0}
      <4>1. line.unitPrice >= 0 /\ line.rate <= RateScale
        BY <2>2 DEF Fair
      <4>2. line.qty \in Nat
        BY <3>0, QuantitiesAssumption
      <4>. QED
        BY <3>0, <4>1, <4>2, ScalesAssumption
    <3>2. line.unitPrice * line.qty \in Nat
      BY <3>1
    <3>3. line.lineTotal \in Nat
      BY <3>1, <3>2, NearestNotNegative DEF LineTotals
    <3>4. line.lineTotal * line.rate \in Nat /\ line.lineTotal * line.rate <= line.lineTotal * RateScale
      BY <3>1, <3>3
    <3>5. line.commission \in 0 .. line.lineTotal
      BY <3>1, <3>3, <3>4, NearestWithin DEF Commissions
    <3>. QED
      BY <3>3, <3>5
  <2> HIDE DEF old, after
  <2>. QED
    BY <2>3, <2>4, <2>5
<1> HIDE DEF v, new, after
<1>3. \A u \in DOMAIN after :
        (\A i \in OfVendor(new, u) : Fair(new[i])) => after[u].net \in 0 .. after[u].subtotal
  BY <1>1, <1>2
<1>. QED
  BY <1>3 DEF SharesKept, v, new, after

----------------------------------------------------------------------------
(* The steps *)

\* What FreshLinesHold says of a line.
Holds(line) ==
  LET row == catalogue[line.product]
      override == Overrides[VendorOf[line.product]]
  IN
  /\ row.status = "published" /\ vendorStatus[VendorOf[line.product]] = "approved"
  /\ line.qty <= row.stock
  /\ line.unitPrice = row.price
  /\ row.adminRate # NoRate => line.rate = Max({row.adminRate, 0})
  /\ row.adminRate = NoRate /\ override # NoRate => line.rate = Max({override, 0})
  /\ row.adminRate = NoRate /\ override = NoRate => line.rate = defaultRate

LEMMA FreshLines == FreshLinesHold <=> \A i \in fresh : Holds(built[i])
BY DEF FreshLinesHold, Holds

LEMMA NoRows == \A Row : IsTable(<<>>, Vendors, Row)
BY DEF IsTable

LEMMA InitIInv == Init => IInv
<1> SUFFICES ASSUME Init
             PROVE  IInv
  OBVIOUS
<1>1. TypeOK
  <2>1. catalogue \in [Products -> ProductRow]
    BY CataloguesAssumption DEF Init
  <2>2. setting \in Int \union {NoRate}
    BY EntriesAssumption DEF Init
  <2>3. vendorStatus \in [Vendors -> {"approved", "pending", "rejected"}]
    BY DEF Init
  <2>. QED
    BY <2>1, <2>2, <2>3, NoRows, DefaultRateAssumption DEF Init, TypeOK
<1>2. RowsWritten
  BY DEF Init, RowsWritten
<1>3. DOMAIN built = {} /\ DOMAIN vendorSummary = {} /\ DOMAIN orderItems = {}
  BY DEF Init
<1>4. Adds(built, vendorSummary, total)
  BY <1>3, SumOfNone DEF Init, Adds
<1>5. Explained(built, vendorSummary, defaultRate) /\ SharesKept(built, vendorSummary)
  BY <1>3 DEF Explained, SharesKept
<1>6. FreshLinesHold /\ OrderedProductsStay
  BY <1>3 DEF Init, FreshLinesHold, OrderedProductsStay
<1>. QED
  BY <1>1, <1>2, <1>4, <1>5, <1>6 DEF IInv

LEMMA BeginKeeps == ASSUME IInv, Begin PROVE IInv'
<1>1. /\ UNCHANGED <<catalogue, vendorStatus, setting, editing, changes>>
      /\ UNCHANGED <<built, vendorSummary, total>>
      /\ UNCHANGED <<orders, vendorOrders, commissions, vendorPayouts, orderItems, fresh>>
      /\ pc = "begin" /\ pc' = "items"
  BY DEF Begin, environment, tables
<1>2. defaultRate' \in Nat
  BY DefaultRateAssumption DEF IInv, TypeOK, Begin
<1>3. built = <<>>
  BY <1>1 DEF IInv, RowsWritten
<1>4. vendorSummary = <<>> \/ DOMAIN vendorSummary = {}
  BY <1>3 DEF IInv, Adds
<1>5. TypeOK'
  BY <1>1, <1>2 DEF IInv, TypeOK, IsTable
<1>6. RowsWritten'
  BY <1>1 DEF IInv, RowsWritten
<1>7. Adds(built, vendorSummary, total)' /\ SharesKept(built, vendorSummary)'
  BY <1>1 DEF IInv, Adds, SharesKept
<1>8. Explained(built, vendorSummary, defaultRate)'
  BY <1>1, <1>4 DEF Explained
<1>9. fresh = {}
  BY <1>3 DEF IInv, TypeOK
<1>10. FreshLinesHold' /\ OrderedProductsStay'
  BY <1>1, <1>9 DEF IInv, FreshLinesHold, OrderedProductsStay
<1>. QED
  BY <1>5, <1>6, <1>7, <1>8, <1>10 DEF IInv

\* The line a turn of the loop adds.
LEMMA ItemLine ==
  ASSUME IInv, NEW p \in Products, NEW q \in Quantities, CheckoutItem(p, q)
  PROVE  \E line \in Line :
           /\ line.product = p /\ line.qty = q
           /\ line.unitPrice = catalogue[p].price
           /\ line.rate = ResolveCommissionRate(defaultRate, Overrides[VendorOf[p]],
                                                catalogue[p].adminRate)
           /\ line.lineTotal \in LineTotals(line.unitPrice, line.qty)
           /\ line.commission \in Commissions(line.lineTotal, line.rate)
           /\ built' = Append(built, line)
           /\ vendorSummary' = AccumulateVendorSummary(vendorSummary, VendorOf[line.product],
                                                       line.lineTotal, line.commission)
           /\ total' = total + line.lineTotal
<1> DEFINE row == catalogue[p]
           rate == ResolveCommissionRate(defaultRate, Overrides[VendorOf[p]], row.adminRate)
<1>1. /\ row \in ProductRow /\ row.price \in Int /\ row.adminRate \in Int \union {NoRate}
      /\ Overrides[VendorOf[p]] \in Int \union {NoRate}
      /\ defaultRate \in Nat
  BY VendorOfAssumption, OverridesAssumption DEF IInv, TypeOK, ProductRow
<1>2. rate \in Nat
  BY <1>1, RateIsNat
<1>3. PICK lineTotal \in LineTotals(row.price, q) :
        \E commission \in Commissions(lineTotal, rate) :
          /\ built' = Append(built,
               [product |-> p, qty |-> q, unitPrice |-> row.price, rate |-> rate,
                lineTotal |-> lineTotal, commission |-> commission])
          /\ vendorSummary' =
               AccumulateVendorSummary(vendorSummary, VendorOf[p], lineTotal, commission)
          /\ total' = total + lineTotal
  BY DEF CheckoutItem
<1>4. PICK commission \in Commissions(lineTotal, rate) :
          /\ built' = Append(built,
               [product |-> p, qty |-> q, unitPrice |-> row.price, rate |-> rate,
                lineTotal |-> lineTotal, commission |-> commission])
          /\ vendorSummary' =
               AccumulateVendorSummary(vendorSummary, VendorOf[p], lineTotal, commission)
          /\ total' = total + lineTotal
  BY <1>3
<1>5. lineTotal \in Int /\ commission \in Int
  <2>1. /\ row.price * q \in Int /\ QtyScale \in Nat \ {0} /\ RateScale \in Nat \ {0}
    BY <1>1, QuantitiesAssumption, ScalesAssumption
  <2>2. lineTotal \in Int
    BY <2>1, NearestIs DEF LineTotals
  <2>3. lineTotal * rate \in Int
    BY <1>2, <2>2
  <2>. QED
    BY <2>1, <2>2, <2>3, NearestIs DEF Commissions
<1> DEFINE line == [product |-> p, qty |-> q, unitPrice |-> row.price, rate |-> rate,
                    lineTotal |-> lineTotal, commission |-> commission]
<1>6. line \in Line
  BY <1>1, <1>2, <1>5 DEF Line
<1>. QED
  BY <1>3, <1>4, <1>6

LEMMA ClampedIsMax == ASSUME NEW rate \in Int PROVE Clamped(rate) = Max({rate, 0})
<1> DEFINE S == {rate, 0}
<1>1. Clamped(rate) \in S /\ \A y \in S : Clamped(rate) >= y
  BY DEF Clamped
<1>2. \A x \in S : (\A y \in S : x >= y) => x = Clamped(rate)
  BY DEF Clamped
<1>. HIDE DEF S
<1>3. Max(S) = Clamped(rate)
  BY <1>1, <1>2 DEF Max
<1>. QED
  BY <1>3 DEF S

\* The rate of a line, as the test of the split states it.
LEMMA RateOwed ==
  ASSUME NEW default \in Nat, NEW override \in Int \union {NoRate},
         NEW adminRate \in Int \union {NoRate}
  PROVE  LET rate == ResolveCommissionRate(default, override, adminRate)
         IN /\ adminRate # NoRate => rate = Max({adminRate, 0})
            /\ adminRate = NoRate /\ override # NoRate => rate = Max({override, 0})
            /\ adminRate = NoRate /\ override = NoRate => rate = default
<1>1. CASE adminRate # NoRate
  BY <1>1, ClampedIsMax DEF ResolveCommissionRate
<1>2. CASE adminRate = NoRate /\ override # NoRate
  BY <1>2, ClampedIsMax DEF ResolveCommissionRate
<1>3. CASE adminRate = NoRate /\ override = NoRate
  BY <1>3, NoRateAssumption DEF ResolveCommissionRate, Clamped
<1>. QED
  BY <1>1, <1>2, <1>3

LEMMA ItemKeeps == ASSUME IInv, NEW p \in Products, NEW q \in Quantities, CheckoutItem(p, q) PROVE IInv'
<1>1. /\ UNCHANGED <<catalogue, vendorStatus, setting, editing, changes, pc, defaultRate>>
      /\ UNCHANGED <<orders, vendorOrders, commissions, vendorPayouts, orderItems>>
      /\ pc = "items" /\ OnSale(p) /\ catalogue[p].stock >= q
      /\ fresh' = fresh \union {Len(built) + 1}
  BY DEF CheckoutItem, environment, tables
<1>2. PICK line \in Line :
           /\ line.product = p /\ line.qty = q
           /\ line.unitPrice = catalogue[p].price
           /\ line.rate = ResolveCommissionRate(defaultRate, Overrides[VendorOf[p]],
                                                catalogue[p].adminRate)
           /\ line.lineTotal \in LineTotals(line.unitPrice, line.qty)
           /\ line.commission \in Commissions(line.lineTotal, line.rate)
           /\ built' = Append(built, line)
           /\ vendorSummary' = AccumulateVendorSummary(vendorSummary, VendorOf[line.product],
                                                       line.lineTotal, line.commission)
           /\ total' = total + line.lineTotal
  BY ItemLine
<1>3. /\ built \in Seq(Line) /\ IsTable(vendorSummary, Vendors, SummaryRow) /\ total \in Int
      /\ defaultRate \in Nat /\ line.lineTotal \in Int /\ fresh \subseteq DOMAIN built
  BY DEF IInv, TypeOK, Line
<1>4. TypeOK'
  <2>1. built' \in Seq(Line) /\ fresh' \subseteq DOMAIN built'
    BY <1>1, <1>2, <1>3, Appended
  <2>2. IsTable(vendorSummary, Vendors, SummaryRow)'
    <3>1. IsTable(vendorSummary', Vendors, SummaryRow)
      BY <1>2, <1>3, Accumulated
    <3>. QED
      BY <3>1 DEF IsTable, SummaryRow
  <2>3. total' \in Int
    BY <1>2, <1>3
  <2>. QED
    BY <1>1, <2>1, <2>2, <2>3 DEF IInv, TypeOK, IsTable
<1>5. RowsWritten'
  BY <1>1 DEF IInv, RowsWritten
<1>6. Adds(built, vendorSummary, total)'
  <2>1. Adds(built', vendorSummary', total')
    BY <1>2, <1>3, AddsKept DEF IInv
  <2>. QED
    BY <2>1
<1>7. Explained(built, vendorSummary, defaultRate)'
  <2>1. Explained(built', vendorSummary', defaultRate)
    BY <1>2, <1>3, ExplainedKept DEF IInv
  <2>. QED
    BY <1>1, <2>1
<1>8. SharesKept(built, vendorSummary)'
  <2>1. SharesKept(built', vendorSummary')
    BY <1>2, <1>3, SharesKeptToo DEF IInv
  <2>. QED
    BY <2>1
<1>9. FreshLinesHold'
  <2>1. \A i \in fresh : built'[i] = built[i]
    BY <1>2, <1>3, Appended
  <2>2. built'[Len(built) + 1] = line
    BY <1>2, <1>3, Appended
  <2>3. /\ Overrides[VendorOf[p]] \in Int \union {NoRate}
        /\ catalogue[p].adminRate \in Int \union {NoRate}
    BY VendorOfAssumption, OverridesAssumption DEF IInv, TypeOK, ProductRow
  <2>4. Holds(line)
    <3>1. catalogue[p].stock \in Int /\ q \in Int
      BY QuantitiesAssumption DEF IInv, TypeOK, ProductRow
    <3>. QED
      BY <1>1, <1>2, <1>3, <2>3, <3>1, RateOwed DEF OnSale, Holds
  <2>5. \A i \in fresh' : Holds(built'[i])
    BY <1>1, <2>1, <2>2, <2>4, FreshLines DEF IInv
  <2>6. \A i \in fresh' : Holds(built'[i]) => Holds(built[i])'
    BY <1>1 DEF Holds
  <2>. QED
    BY <2>5, <2>6 DEF FreshLinesHold, Holds
<1>10. OrderedProductsStay'
  BY <1>1 DEF IInv, OrderedProductsStay
<1>. QED
  BY <1>4, <1>5, <1>6, <1>7, <1>8, <1>9, <1>10 DEF IInv

LEMMA RefuseKeeps == ASSUME IInv, Refuse PROVE IInv'
<1>1. /\ UNCHANGED <<catalogue, vendorStatus, setting, editing, changes>>
      /\ UNCHANGED <<defaultRate, built, vendorSummary, total, fresh>>
      /\ UNCHANGED <<orders, vendorOrders, commissions, vendorPayouts, orderItems>>
      /\ pc = "items" /\ pc' = "failed"
  BY DEF Refuse, environment, locals, tables
<1>2. TypeOK'
  BY <1>1 DEF IInv, TypeOK, IsTable
<1>3. RowsWritten'
  BY <1>1 DEF IInv, RowsWritten
<1>4. Adds(built, vendorSummary, total)' /\ Explained(built, vendorSummary, defaultRate)'
      /\ SharesKept(built, vendorSummary)'
  BY <1>1 DEF IInv
<1>5. FreshLinesHold' /\ OrderedProductsStay'
  BY <1>1 DEF IInv, FreshLinesHold, OrderedProductsStay
<1>. QED
  BY <1>2, <1>3, <1>4, <1>5 DEF IInv

\* The rows written have the types of their columns.
LEMMA RowsTyped ==
  ASSUME TypeOK
  PROVE  /\ IsTable([v \in DOMAIN vendorSummary |-> CommissionRow(vendorSummary[v])],
                    Vendors, CommissionRecord)
         /\ IsTable([v \in DOMAIN vendorSummary |-> VendorPayoutRow(vendorSummary[v])],
                    Vendors, PayoutRow)
<1>1. /\ DOMAIN vendorSummary \subseteq Vendors
      /\ \A v \in DOMAIN vendorSummary : vendorSummary[v] \in SummaryRow
      /\ defaultRate \in Nat
  BY DEF TypeOK, IsTable
<1>2. \A s \in SummaryRow : CommissionRow(s) \in CommissionRecord /\ VendorPayoutRow(s) \in PayoutRow
  BY <1>1 DEF SummaryRow, CommissionRow, CommissionRecord, VendorPayoutRow, PayoutRow
<1>. QED
  BY <1>1, <1>2 DEF IsTable

LEMMA PlaceOrderKeeps == ASSUME IInv, PlaceOrder PROVE IInv'
<1>1. /\ UNCHANGED <<catalogue, vendorStatus, setting, editing, changes>>
      /\ UNCHANGED <<defaultRate, built, vendorSummary, total, fresh>>
      /\ pc = "items" /\ pc' = "placed" /\ ItemsExist
      /\ orders' = <<total>> /\ vendorOrders' = vendorSummary /\ orderItems' = built
      /\ commissions' = [v \in DOMAIN vendorSummary |-> CommissionRow(vendorSummary[v])]
      /\ vendorPayouts' = [v \in DOMAIN vendorSummary |-> VendorPayoutRow(vendorSummary[v])]
  BY DEF PlaceOrder, environment, locals
<1>2. TypeOK'
  <2>1. orders' \in Seq(Int) /\ orderItems' \in Seq(Line)
    BY <1>1 DEF IInv, TypeOK
  <2>2. /\ IsTable(commissions', Vendors, CommissionRecord)
        /\ IsTable(vendorPayouts', Vendors, PayoutRow)
        /\ IsTable(vendorOrders', Vendors, SummaryRow)
        /\ IsTable(vendorSummary', Vendors, SummaryRow)
    BY <1>1, RowsTyped DEF IInv, TypeOK
  <2>3. /\ IsTable(commissions, Vendors, CommissionRecord)'
        /\ IsTable(vendorPayouts, Vendors, PayoutRow)'
        /\ IsTable(vendorOrders, Vendors, SummaryRow)'
        /\ IsTable(vendorSummary, Vendors, SummaryRow)'
    BY <2>2 DEF IsTable, CommissionRecord, PayoutRow, SummaryRow
  <2>. QED
    BY <1>1, <2>1, <2>3 DEF IInv, TypeOK
<1>3. RowsWritten'
  BY <1>1 DEF RowsWritten, CommissionRow, VendorPayoutRow
<1>4. Adds(built, vendorSummary, total)' /\ Explained(built, vendorSummary, defaultRate)'
      /\ SharesKept(built, vendorSummary)'
  BY <1>1 DEF IInv
<1>5. FreshLinesHold'
  BY <1>1 DEF IInv, FreshLinesHold
<1>6. OrderedProductsStay'
  BY <1>1 DEF ItemsExist, OrderedProductsStay
<1>. QED
  BY <1>2, <1>3, <1>4, <1>5, <1>6 DEF IInv

\* A change of the catalogue that spoils nothing but the lines of the products it
\* touches, and deletes none that has been ordered.
LEMMA ChangeKeeps ==
  ASSUME IInv, NEW ps, Change(ps),
         catalogue' \in [Products -> ProductRow],
         vendorStatus' \in [Vendors -> {"approved", "pending", "rejected"}],
         setting' \in Int \union {NoRate}, editing' \subseteq Vendors,
         \A p \in Products \ ps : /\ catalogue'[p] = catalogue[p]
                                  /\ vendorStatus'[VendorOf[p]] = vendorStatus[VendorOf[p]],
         \A i \in DOMAIN orderItems : catalogue'[orderItems[i].product].status # "deleted"
  PROVE  IInv'
<1>1. /\ changes' = changes + 1 /\ fresh' = {i \in fresh : built[i].product \notin ps}
      /\ UNCHANGED <<pc, defaultRate, built, vendorSummary, total>>
      /\ UNCHANGED <<orders, vendorOrders, commissions, vendorPayouts, orderItems>>
  BY DEF Change, Untouched, locals, tables
<1>2. TypeOK'
  BY <1>1 DEF IInv, TypeOK, IsTable
<1>3. RowsWritten'
  BY <1>1 DEF IInv, RowsWritten, CommissionRow
<1>4. Adds(built, vendorSummary, total)' /\ Explained(built, vendorSummary, defaultRate)'
      /\ SharesKept(built, vendorSummary)'
  BY <1>1 DEF IInv
<1>5. FreshLinesHold'
  <2>1. ASSUME NEW i \in fresh'
        PROVE  Holds(built[i])'
    <3>1. i \in fresh /\ built[i].product \notin ps /\ built[i] \in Line
      BY <1>1 DEF IInv, TypeOK
    <3>0. built[i].product \in Products \ ps
      BY <3>1 DEF Line
    <3>2. Holds(built[i])
      BY <3>1, FreshLines DEF IInv
    <3>. QED
      BY <1>1, <3>0, <3>2 DEF Holds
  <2>. QED
    BY <2>1 DEF FreshLinesHold, Holds
<1>6. OrderedProductsStay'
  BY <1>1 DEF OrderedProductsStay
<1>. QED
  BY <1>2, <1>3, <1>4, <1>5, <1>6 DEF IInv

LEMMA CheckKeeps == ASSUME IInv, NEW v \in Vendors, UpdateProductCheck(v) PROVE IInv'
<1>1. /\ UNCHANGED <<catalogue, vendorStatus, setting, changes, pc, fresh>>
      /\ UNCHANGED <<defaultRate, built, vendorSummary, total>>
      /\ UNCHANGED <<orders, vendorOrders, commissions, vendorPayouts, orderItems>>
      /\ editing' = editing \union {v}
  BY DEF UpdateProductCheck, locals, tables
<1>2. TypeOK'
  BY <1>1 DEF IInv, TypeOK, IsTable
<1>3. RowsWritten'
  BY <1>1 DEF IInv, RowsWritten, CommissionRow
<1>4. Adds(built, vendorSummary, total)' /\ Explained(built, vendorSummary, defaultRate)'
      /\ SharesKept(built, vendorSummary)'
  BY <1>1 DEF IInv
<1>5. FreshLinesHold' /\ OrderedProductsStay'
  BY <1>1 DEF IInv, FreshLinesHold, OrderedProductsStay
<1>. QED
  BY <1>2, <1>3, <1>4, <1>5 DEF IInv

\* Ordered products are products, and none is deleted.
LEMMA Ordered ==
  ASSUME IInv, NEW i \in DOMAIN orderItems
  PROVE  orderItems[i].product \in Products /\ catalogue[orderItems[i].product].status # "deleted"
<1>1. orderItems[i] \in Line
  BY DEF IInv, TypeOK
<1>. QED
  BY <1>1 DEF IInv, OrderedProductsStay, Line

\* Rows of the catalogue that are changed in one product.
LEMMA OneProduct ==
  ASSUME IInv, NEW p \in Products, NEW row \in ProductRow,
         catalogue' = [catalogue EXCEPT ![p] = row],
         row.status = "deleted" => \A i \in DOMAIN orderItems : orderItems[i].product # p
  PROVE  /\ catalogue' \in [Products -> ProductRow]
         /\ \A q \in Products \ {p} : catalogue'[q] = catalogue[q]
         /\ \A i \in DOMAIN orderItems : catalogue'[orderItems[i].product].status # "deleted"
<1>1. catalogue \in [Products -> ProductRow]
  BY DEF IInv, TypeOK
<1>2. \A q \in Products : catalogue'[q] = IF q = p THEN row ELSE catalogue[q]
  BY <1>1
<1>. QED
  BY <1>1, <1>2, Ordered

LEMMA UpdateProductKeeps ==
  ASSUME IInv, NEW p \in Products, NEW price \in Prices, NEW status \in Statuses \ {"deleted"},
         NEW stock \in Stocks, UpdateProduct(p, price, status, stock)
  PROVE  IInv'
<1> DEFINE row == [catalogue[p] EXCEPT !.price = price, !.status = status, !.stock = stock]
<1>1. catalogue[p] \in ProductRow /\ price \in Int /\ stock \in Int
  BY EntriesAssumption DEF IInv, TypeOK
<1>2. row \in ProductRow /\ row.status # "deleted"
  BY <1>1 DEF ProductRow
<1>3. catalogue' = [catalogue EXCEPT ![p] = row]
  BY DEF UpdateProduct, IInv, TypeOK
<1> HIDE DEF row
<1>4. /\ catalogue' \in [Products -> ProductRow]
      /\ \A q \in Products \ {p} : catalogue'[q] = catalogue[q]
      /\ \A i \in DOMAIN orderItems : catalogue'[orderItems[i].product].status # "deleted"
  BY <1>2, <1>3, OneProduct
<1>5. /\ Change({p}) /\ UNCHANGED vendorStatus /\ UNCHANGED setting
      /\ editing' = editing \ {VendorOf[p]}
  BY DEF UpdateProduct
<1>. QED
  BY <1>4, <1>5, ChangeKeeps DEF IInv, TypeOK

LEMMA DeductStockKeeps ==
  ASSUME IInv, NEW p \in Products, NEW q \in Quantities, DeductStock(p, q)
  PROVE  IInv'
<1> DEFINE row == [catalogue[p] EXCEPT !.stock = @ - q]
<1>1. catalogue[p] \in ProductRow /\ q \in Int
  BY QuantitiesAssumption DEF IInv, TypeOK
<1>2. row \in ProductRow /\ row.status # "deleted"
  BY <1>1 DEF DeductStock, ProductRow
<1>3. catalogue' = [catalogue EXCEPT ![p] = row]
  BY DEF DeductStock, IInv, TypeOK
<1> HIDE DEF row
<1>4. /\ catalogue' \in [Products -> ProductRow]
      /\ \A x \in Products \ {p} : catalogue'[x] = catalogue[x]
      /\ \A i \in DOMAIN orderItems : catalogue'[orderItems[i].product].status # "deleted"
  BY <1>2, <1>3, OneProduct
<1>5. Change({p}) /\ UNCHANGED vendorStatus /\ UNCHANGED setting /\ UNCHANGED editing
  BY DEF DeductStock
<1>. QED
  BY <1>4, <1>5, ChangeKeeps DEF IInv, TypeOK

LEMMA UpdateCommissionKeeps ==
  ASSUME IInv, NEW p \in Products, NEW rate \in Rates \union {NoRate},
         UpdateProductCommission(p, rate)
  PROVE  IInv'
<1> DEFINE row == [catalogue[p] EXCEPT !.adminRate = rate]
<1>1. catalogue[p] \in ProductRow /\ rate \in Int \union {NoRate}
  BY EntriesAssumption DEF IInv, TypeOK
<1>2. row \in ProductRow /\ row.status # "deleted"
  BY <1>1 DEF UpdateProductCommission, ProductRow
<1>3. catalogue' = [catalogue EXCEPT ![p] = row]
  BY DEF UpdateProductCommission, IInv, TypeOK
<1> HIDE DEF row
<1>4. /\ catalogue' \in [Products -> ProductRow]
      /\ \A x \in Products \ {p} : catalogue'[x] = catalogue[x]
      /\ \A i \in DOMAIN orderItems : catalogue'[orderItems[i].product].status # "deleted"
  BY <1>2, <1>3, OneProduct
<1>5. Change({p}) /\ UNCHANGED vendorStatus /\ UNCHANGED setting /\ UNCHANGED editing
  BY DEF UpdateProductCommission
<1>. QED
  BY <1>4, <1>5, ChangeKeeps DEF IInv, TypeOK

LEMMA DeleteKeeps == ASSUME IInv, NEW p \in Products, DeleteProduct(p) PROVE IInv'
<1> DEFINE row == [catalogue[p] EXCEPT !.status = "deleted"]
<1>1. catalogue[p] \in ProductRow
  BY DEF IInv, TypeOK
<1>2. row \in ProductRow
  BY <1>1 DEF ProductRow, Statuses
<1>3. catalogue' = [catalogue EXCEPT ![p] = row]
  BY DEF DeleteProduct, IInv, TypeOK
<1> HIDE DEF row
<1>4. /\ catalogue' \in [Products -> ProductRow]
      /\ \A x \in Products \ {p} : catalogue'[x] = catalogue[x]
      /\ \A i \in DOMAIN orderItems : catalogue'[orderItems[i].product].status # "deleted"
  BY <1>2, <1>3, OneProduct DEF DeleteProduct
<1>5. Change({p}) /\ UNCHANGED vendorStatus /\ UNCHANGED setting /\ UNCHANGED editing
  BY DEF DeleteProduct
<1>. QED
  BY <1>4, <1>5, ChangeKeeps DEF IInv, TypeOK

LEMMA SetVendorStatusKeeps ==
  ASSUME IInv, NEW v \in Vendors, NEW status \in {"approved", "rejected"},
         SetVendorStatus(v, status)
  PROVE  IInv'
<1> DEFINE ps == {p \in Products : VendorOf[p] = v}
<1>1. /\ Change(ps) /\ UNCHANGED catalogue /\ UNCHANGED setting /\ UNCHANGED editing
      /\ vendorStatus' = [vendorStatus EXCEPT ![v] = status]
  BY DEF SetVendorStatus
<1>2. vendorStatus \in [Vendors -> {"approved", "pending", "rejected"}]
  BY DEF IInv, TypeOK
<1>3. \A p \in Products \ ps : vendorStatus'[VendorOf[p]] = vendorStatus[VendorOf[p]]
  BY <1>1, <1>2, VendorOfAssumption
<1>4. \A i \in DOMAIN orderItems : catalogue'[orderItems[i].product].status # "deleted"
  BY <1>1, Ordered
<1> HIDE DEF ps
<1>. QED
  BY <1>1, <1>2, <1>3, <1>4, ChangeKeeps DEF IInv, TypeOK

LEMMA SetDefaultKeeps == ASSUME IInv, NEW rate \in Rates, SetDefaultCommission(rate) PROVE IInv'
<1>1. /\ Change({}) /\ UNCHANGED catalogue /\ UNCHANGED vendorStatus /\ UNCHANGED editing
      /\ setting' = rate /\ rate \in Int
  BY EntriesAssumption DEF SetDefaultCommission
<1>2. \A i \in DOMAIN orderItems : catalogue'[orderItems[i].product].status # "deleted"
  BY <1>1, Ordered
<1>. QED
  BY <1>1, <1>2, ChangeKeeps DEF IInv, TypeOK

LEMMA NextIInv == IInv /\ [Next]_vars => IInv'
<1> SUFFICES ASSUME IInv, [Next]_vars
             PROVE  IInv'
  OBVIOUS
<1>1. CASE UNCHANGED vars
  <2>1. /\ UNCHANGED <<catalogue, vendorStatus, setting, editing, changes, pc, fresh>>
        /\ UNCHANGED <<defaultRate, built, vendorSummary, total>>
        /\ UNCHANGED <<orders, vendorOrders, commissions, vendorPayouts, orderItems>>
    BY <1>1 DEF vars, environment, locals, tables
  <2>2. TypeOK' /\ RowsWritten'
    BY <2>1 DEF IInv, TypeOK, IsTable, RowsWritten, CommissionRow
  <2>3. Adds(built, vendorSummary, total)' /\ Explained(built, vendorSummary, defaultRate)'
        /\ SharesKept(built, vendorSummary)'
    BY <2>1 DEF IInv
  <2>4. FreshLinesHold' /\ OrderedProductsStay'
    BY <2>1 DEF IInv, FreshLinesHold, OrderedProductsStay
  <2>. QED
    BY <2>2, <2>3, <2>4 DEF IInv
<1>2. CASE Call
  BY <1>2, BeginKeeps, ItemKeeps, RefuseKeeps, PlaceOrderKeeps DEF Call
<1>3. CASE VendorActs
  BY <1>3, CheckKeeps, UpdateProductKeeps DEF VendorActs
<1>4. CASE AdminActs
  BY <1>4, DeductStockKeeps, UpdateCommissionKeeps, DeleteKeeps, SetVendorStatusKeeps,
     SetDefaultKeeps DEF AdminActs
<1>. QED
  BY <1>1, <1>2, <1>3, <1>4 DEF Next

LEMMA Invariance == Spec => []IInv
BY InitIInv, NextIInv, PTL DEF Spec

----------------------------------------------------------------------------
(* What the order says, by the sums the properties are stated with *)

\* MapThenSumSet of an amount of the lines is their sum.
LEMMA SumOfLineTotals ==
  ASSUME NEW S, IsFiniteSet(S), S \subseteq DOMAIN orderItems
  PROVE  MapThenSumSet(LineTotal, S) = SumOf(TotalsOf(orderItems), S)
<1> DEFINE w == [i \in S |-> orderItems[i].lineTotal]
           Step(f) == [s \in SUBSET S |-> IF s = {} THEN 0
                         ELSE orderItems[Some(s)].lineTotal + f[s \ {Some(s)}]]
<1>1. MapThenSumSet(LineTotal, S) = (CHOOSE f : f = Step(f))[S]
  BY DEF MapThenSumSet, MapThenFoldSet, LineTotal, Some
<1>2. ASSUME NEW f
      PROVE  Sums(f, w, S) <=> f = Step(f)
  <2>1. \A s \in SUBSET S : s # {} => Some(s) \in S /\ w[Some(s)] = orderItems[Some(s)].lineTotal
    BY SomeIn
  <2>2. Step(f) = [s \in SUBSET S |-> IF s = {} THEN 0 ELSE w[Some(s)] + f[s \ {Some(s)}]]
    BY <2>1
  <2> HIDE DEF Step, w
  <2>. QED
    BY <2>2 DEF Sums
<1> DEFINE g == CHOOSE f : f = Step(f)
<1>3. Sums(g, w, S)
  <2>1. \E f : f = Step(f)
    BY <1>2, SumsExist
  <2>2. g = Step(g)
    <3> HIDE DEF Step
    <3>. QED
      BY <2>1
  <2> HIDE DEF g
  <2>. QED
    BY <1>2, <2>2
<1>4. \A i \in S : w[i] = TotalsOf(orderItems)[i]
  BY DEF TotalsOf
<1> HIDE DEF g, w
<1>5. PICK h : Sums(h, TotalsOf(orderItems), S) /\ SumOf(TotalsOf(orderItems), S) = h[S]
  BY SumSolved
<1>6. g[S] = h[S]
  BY <1>3, <1>4, <1>5, SumsAgree
<1>. QED
  BY <1>1, <1>5, <1>6 DEF g

LEMMA SumOfLineNets ==
  ASSUME NEW S, IsFiniteSet(S), S \subseteq DOMAIN orderItems
  PROVE  MapThenSumSet(LineNet, S) = SumOf(NetsOf(orderItems), S)
<1> DEFINE w == [i \in S |-> orderItems[i].lineTotal - orderItems[i].commission]
           Step(f) == [s \in SUBSET S |-> IF s = {} THEN 0
                         ELSE (orderItems[Some(s)].lineTotal - orderItems[Some(s)].commission)
                                + f[s \ {Some(s)}]]
<1>1. MapThenSumSet(LineNet, S) = (CHOOSE f : f = Step(f))[S]
  BY DEF MapThenSumSet, MapThenFoldSet, LineNet, Some
<1>2. ASSUME NEW f
      PROVE  Sums(f, w, S) <=> f = Step(f)
  <2>1. \A s \in SUBSET S : s # {} =>
          Some(s) \in S
          /\ w[Some(s)] = orderItems[Some(s)].lineTotal - orderItems[Some(s)].commission
    BY SomeIn
  <2>2. Step(f) = [s \in SUBSET S |-> IF s = {} THEN 0 ELSE w[Some(s)] + f[s \ {Some(s)}]]
    BY <2>1
  <2> HIDE DEF Step, w
  <2>. QED
    BY <2>2 DEF Sums
<1> DEFINE g == CHOOSE f : f = Step(f)
<1>3. Sums(g, w, S)
  <2>1. \E f : f = Step(f)
    BY <1>2, SumsExist
  <2>2. g = Step(g)
    <3> HIDE DEF Step
    <3>. QED
      BY <2>1
  <2> HIDE DEF g
  <2>. QED
    BY <1>2, <2>2
<1>4. \A i \in S : w[i] = NetsOf(orderItems)[i]
  BY DEF NetsOf
<1> HIDE DEF g, w
<1>5. PICK h : Sums(h, NetsOf(orderItems), S) /\ SumOf(NetsOf(orderItems), S) = h[S]
  BY SumSolved
<1>6. g[S] = h[S]
  BY <1>3, <1>4, <1>5, SumsAgree
<1>. QED
  BY <1>1, <1>5, <1>6 DEF g

LEMMA PlacedRows ==
  ASSUME IInv
  PROVE  /\ pc # "placed" => orders = <<>> /\ DOMAIN commissions = {} /\ DOMAIN vendorPayouts = {}
         /\ pc = "placed" =>
              /\ orders[1] = total /\ orderItems = built
              /\ vendorOrders = vendorSummary
              /\ DOMAIN commissions = DOMAIN vendorSummary
              /\ DOMAIN vendorPayouts = DOMAIN vendorSummary
              /\ \A v \in DOMAIN vendorSummary :
                   /\ commissions[v].rate = defaultRate
                   /\ commissions[v].gross = vendorSummary[v].subtotal
                   /\ commissions[v].commission = vendorSummary[v].commission
                   /\ vendorPayouts[v].gross = vendorSummary[v].subtotal
                   /\ vendorPayouts[v].commission = vendorSummary[v].commission
                   /\ vendorPayouts[v].net = vendorSummary[v].net
         /\ IsFiniteSet(DOMAIN orderItems)
         /\ \A v : LinesOf(v) = OfVendor(orderItems, v)
<1>1. pc # "placed" => orders = <<>> /\ DOMAIN commissions = {} /\ DOMAIN vendorPayouts = {}
  BY DEF IInv, RowsWritten
<1>2. ASSUME pc = "placed"
      PROVE  /\ orders[1] = total /\ orderItems = built
             /\ vendorOrders = vendorSummary
             /\ commissions = [v \in DOMAIN vendorSummary |-> CommissionRow(vendorSummary[v])]
             /\ vendorPayouts = [v \in DOMAIN vendorSummary |-> VendorPayoutRow(vendorSummary[v])]
  BY <1>2 DEF IInv, RowsWritten
<1>3. IsFiniteSet(DOMAIN orderItems)
  <2>1. orderItems \in Seq(Line)
    BY DEF IInv, TypeOK
  <2>2. Len(orderItems) \in Nat /\ DOMAIN orderItems = 1 .. Len(orderItems)
    BY <2>1, LenProperties
  <2>. QED
    BY <2>2, FS_Interval
<1>4. \A v : LinesOf(v) = OfVendor(orderItems, v)
  BY DEF LinesOf, OfVendor
<1>. QED
  BY <1>1, <1>2, <1>3, <1>4 DEF CommissionRow, VendorPayoutRow

LEMMA InvMoney == IInv => MoneyAddsUp
<1> SUFFICES ASSUME IInv, orders # <<>>
             PROVE  /\ orders[1] = MapThenSumSet(LineTotal, DOMAIN orderItems)
                    /\ DOMAIN vendorOrders = {VendorOf[orderItems[i].product] : i \in DOMAIN orderItems}
                    /\ DOMAIN vendorPayouts = DOMAIN vendorOrders
                    /\ \A v \in DOMAIN vendorOrders :
                         /\ vendorPayouts[v].gross = MapThenSumSet(LineTotal, LinesOf(v))
                         /\ vendorPayouts[v].net = MapThenSumSet(LineNet, LinesOf(v))
                         /\ vendorPayouts[v].gross - vendorPayouts[v].commission = vendorPayouts[v].net
                         /\ vendorOrders[v].subtotal = vendorPayouts[v].gross
                         /\ vendorOrders[v].net = vendorPayouts[v].net
  BY DEF MoneyAddsUp
<1>1. pc = "placed"
  BY PlacedRows
<1>2. Adds(orderItems, vendorOrders, orders[1])
  BY <1>1, PlacedRows DEF IInv
<1>3. orders[1] = MapThenSumSet(LineTotal, DOMAIN orderItems)
  BY <1>2, PlacedRows, SumOfLineTotals DEF Adds
<1>4. \A v : LinesOf(v) \subseteq DOMAIN orderItems /\ IsFiniteSet(LinesOf(v))
  BY PlacedRows, FS_Subset DEF LinesOf
<1>5. ASSUME NEW v \in DOMAIN vendorOrders
      PROVE  /\ vendorOrders[v].subtotal = MapThenSumSet(LineTotal, LinesOf(v))
             /\ vendorOrders[v].net = MapThenSumSet(LineNet, LinesOf(v))
             /\ vendorOrders[v].subtotal - vendorOrders[v].commission = vendorOrders[v].net
  <2>1. LinesOf(v) = OfVendor(orderItems, v)
    BY PlacedRows
  <2>2. /\ MapThenSumSet(LineTotal, LinesOf(v)) = SumOf(TotalsOf(orderItems), LinesOf(v))
        /\ MapThenSumSet(LineNet, LinesOf(v)) = SumOf(NetsOf(orderItems), LinesOf(v))
    BY <1>4, SumOfLineTotals, SumOfLineNets
  <2>. QED
    BY <1>2, <2>1, <2>2 DEF Adds
<1>. QED
  BY <1>1, <1>2, <1>3, <1>5, PlacedRows DEF Adds

LEMMA InvRate == IInv => RecordedRateExplains
<1> SUFFICES ASSUME IInv, NEW v \in DOMAIN commissions,
                    \A i \in LinesOf(v) : orderItems[i].rate = commissions[v].rate
             PROVE  2 * Abs(commissions[v].commission * RateScale
                              - commissions[v].gross * commissions[v].rate)
                      <= Cardinality(LinesOf(v)) * RateScale
  BY DEF RecordedRateExplains
<1>1. /\ pc = "placed" /\ v \in DOMAIN vendorSummary /\ orderItems = built
      /\ commissions[v].rate = defaultRate
      /\ commissions[v].gross = vendorSummary[v].subtotal
      /\ commissions[v].commission = vendorSummary[v].commission
  BY PlacedRows
<1>2. LinesOf(v) = OfVendor(built, v)
  BY <1>1, PlacedRows
<1>. QED
  BY <1>1, <1>2 DEF IInv, Explained

LEMMA InvShare == IInv => VendorKeepsItsShare
<1> SUFFICES ASSUME IInv, NEW v \in DOMAIN vendorPayouts,
                    \A i \in LinesOf(v) : /\ orderItems[i].unitPrice >= 0
                                          /\ orderItems[i].rate <= RateScale
             PROVE  vendorPayouts[v].net \in 0 .. vendorPayouts[v].gross
  BY DEF VendorKeepsItsShare
<1>1. /\ pc = "placed" /\ v \in DOMAIN vendorSummary /\ orderItems = built
      /\ vendorPayouts[v].gross = vendorSummary[v].subtotal
      /\ vendorPayouts[v].net = vendorSummary[v].net
  BY PlacedRows
<1>2. LinesOf(v) = OfVendor(built, v)
  BY <1>1, PlacedRows
<1>. QED
  BY <1>1, <1>2 DEF IInv, SharesKept, Fair

----------------------------------------------------------------------------
(* Theorems *)

\* Every reachable state has the types TypeOK gives, whatever is entered and changed.
THEOREM CheckoutTypeCorrect == Spec => []TypeOK
<1>1. IInv => TypeOK
  BY DEF IInv
<1>. QED
  BY <1>1, Invariance, PTL

\* However many lines and vendors a request has, the order's total and each vendor's
\* order and payout are the sums of its items, to the kobo.
THEOREM NoMoneyLost == Spec => []MoneyAddsUp
BY InvMoney, Invariance, PTL

\* A commission is the recorded rate's to half a unit for each line, if the lines were
\* charged that rate.
THEOREM CommissionsExplained == Spec => []RecordedRateExplains
BY InvRate, Invariance, PTL

\* With prices that are not negative and rates of at most one, rounding never takes
\* more from a vendor than was sold, and never pays it more.
THEOREM SharesStayWithin == Spec => []VendorKeepsItsShare
BY InvShare, Invariance, PTL

\* Whatever is changed during the call, a line of an untouched product is still the
\* line the catalogue and the rates call for.
THEOREM UntouchedLinesHold == Spec => []FreshLinesHold
<1>1. IInv => FreshLinesHold
  BY DEF IInv
<1>. QED
  BY <1>1, Invariance, PTL

\* No product is deleted that an order has.
THEOREM OrderedStays == Spec => []OrderedProductsStay
<1>1. IInv => OrderedProductsStay
  BY DEF IInv
<1>. QED
  BY <1>1, Invariance, PTL
=============================================================================
