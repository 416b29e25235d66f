--------------------------- MODULE SizeArithProofs ---------------------------
(***************************************************************************)
(* The arithmetic of lwan-array.c, for every width of size_t and every     *)
(* INCREMENT: its overflow checks are exact.                               *)
(***************************************************************************)
EXTENDS MCSizeArith, TLAPS

\* A product is monotonic in each factor.
LEMMA ProductMonotonic ==
    ASSUME NEW a \in Nat, NEW b \in Nat, NEW c \in Nat, NEW d \in Nat,
           a <= c, b <= d
    PROVE  a * b <= c * d
<1>1. a * b <= a * d
  <2>1. PICK k \in Nat : d = b + k
    <3> WITNESS d - b \in Nat
    <3> QED OBVIOUS
  <2>2. a * d = a * b + a * k
    BY <2>1
  <2>3. a * k \in Nat /\ a * b \in Nat
    BY <2>1
  <2> QED BY <2>2, <2>3
<1>2. a * d <= c * d
  <2>1. PICK k \in Nat : c = a + k
    <3> WITNESS c - a \in Nat
    <3> QED OBVIOUS
  <2>2. c * d = a * d + k * d
    BY <2>1
  <2>3. k * d \in Nat /\ a * d \in Nat
    BY <2>1
  <2> QED BY <2>2, <2>3
<1>3. a * b \in Nat /\ a * d \in Nat /\ c * d \in Nat
  OBVIOUS
<1> QED BY <1>1, <1>2, <1>3

\* What an integer division tells: the quotient is the largest factor that
\* does not exceed the dividend.
LEMMA Quotient ==
    ASSUME NEW m \in Nat, NEW a \in Nat, a > 0, NEW b \in Nat
    PROVE  m \div a < b <=> a * b > m
<1> DEFINE q == m \div a
<1>1. q \in Nat /\ a * q <= m /\ m < a * q + a
  <2>1. m = a * q + (m % a) /\ m % a \in 0 .. a - 1 /\ q \in Int
    OBVIOUS
  <2>2. q >= 0
    BY <2>1
  <2> QED BY <2>1, <2>2
<1> HIDE DEF q
<1>2. ASSUME q < b PROVE a * b > m
  <2>1. a * (q + 1) <= a * b
    BY <1>1, <1>2, ProductMonotonic
  <2>2. a * (q + 1) = a * q + a
    BY <1>1
  <2> QED BY <1>1, <2>1, <2>2
<1>3. ASSUME ~(q < b) PROVE ~(a * b > m)
  <2>1. a * b <= a * q
    BY <1>1, <1>3, ProductMonotonic
  <2>2. a * b \in Nat /\ a * q \in Nat
    BY <1>1
  <2> QED BY <1>1, <2>1, <2>2
<1> QED BY <1>2, <1>3 DEF q

\* MUL_NO_OVERFLOW: factors below it need no division.
LEMMA SmallFactors ==
    ASSUME NEW a \in Nat, NEW b \in Nat, a < Half, b < Half
    PROVE  a * b <= SizeMax
<1>1. a * b <= (Half - 1) * (Half - 1)
  BY ProductMonotonic, SizeAssumption
<1>2. (Half - 1) * (Half - 1) = Half * Half - 2 * Half + 1
  BY SizeAssumption
<1>3. Half * Half \in Nat /\ a * b \in Nat
  BY SizeAssumption
<1> QED BY <1>1, <1>2, <1>3, SizeAssumption DEF SizeMax

LEMMA SizeMaxNat == SizeMax \in Nat /\ SizeMax > 0 /\ Increment <= SizeMax
<1>1. 2 * 2 <= Half * Half /\ Half * Half \in Nat
  BY ProductMonotonic, SizeAssumption
<1> QED BY <1>1, SizeAssumption DEF SizeMax

\* umull_overflow() reports every product that does not fit, and no other.
LEMMA UmullExact ==
    ASSUME NEW a \in Size, NEW b \in Size
    PROVE  UmullOverflowIsExact(a, b)
<1>1. a \in Nat /\ b \in Nat /\ SizeMax \in Nat
  BY SizeMaxNat DEF Size
<1>2. CASE a < Half /\ b < Half
  <2>1. a * b <= SizeMax /\ a * b \in Nat
    BY <1>1, <1>2, SmallFactors
  <2>2. ~(a >= Half \/ b >= Half)
    BY <1>1, <1>2, SizeAssumption
  <2> QED BY <1>1, <2>1, <2>2 DEF UmullOverflow, UmullOverflowIsExact
<1>3. CASE ~(a < Half /\ b < Half)
  <2>1. CASE a = 0
    BY <1>1, <2>1 DEF UmullOverflow, UmullOverflowIsExact
  <2>2. CASE a > 0
    <3>1. SizeMax \div a < b <=> a * b > SizeMax
      BY <1>1, <2>2, Quotient
    <3> QED BY <1>1, <1>3, <2>2, <3>1, SizeAssumption DEF UmullOverflow, UmullOverflowIsExact
  <2> QED BY <1>1, <2>1, <2>2
<1> QED BY <1>2, <1>3

\* lwan_array_append() and reallocarray() refuse exactly the growth whose
\* bytes do not fit, and otherwise ask for the true number of bytes.
LEMMA GrowthExact ==
    ASSUME NEW n \in Size, NEW b \in Size \ {0}
    PROVE  GrowthOverflowIsExact(n, b)
<1>1. n \in Nat /\ b \in Nat /\ b >= 1 /\ SizeMax \in Nat /\ Increment \in Nat
  BY SizeMaxNat, SizeAssumption DEF Size
<1> DEFINE m == n + Increment
<1>2. m \in Nat /\ m * b \in Nat
  BY <1>1
<1>3. CASE AddOverflow(n, Increment)
  <2>1. m > SizeMax
    BY <1>1, <1>3 DEF AddOverflow
  <2>2. m * 1 <= m * b
    BY <1>1, <1>2, ProductMonotonic
  <2>3. m * b > SizeMax
    BY <1>1, <1>2, <2>1, <2>2
  <2> QED BY <1>3, <2>3 DEF GrowthOverflowIsExact, GrowthOverflows
<1>4. CASE ~AddOverflow(n, Increment)
  <2>1. m \in Size
    BY <1>1, <1>4, SizeMaxNat DEF AddOverflow, Size
  <2>2. AddOut(n) = m
    BY <1>1, <2>1 DEF AddOut, Size
  <2>3. UmullOverflow(m, b) <=> m * b > SizeMax
    BY <2>1, UmullExact DEF UmullOverflowIsExact
  <2>4. ASSUME ~(m * b > SizeMax) PROVE MulOut(m, b) = m * b
    <3> DEFINE p == m * b
    <3>1. p \in Nat /\ p < SizeMax + 1
      BY <1>1, <1>2, <2>4
    <3> HIDE DEF p
    <3>2. p % (SizeMax + 1) = p
      BY <1>1, <3>1
    <3> QED BY <3>2 DEF MulOut, p
  <2> QED BY <1>4, <2>2, <2>3, <2>4
          DEF GrowthOverflowIsExact, GrowthOverflows, GrownBytes
<1> QED BY <1>3, <1>4

-----------------------------------------------------------------------------

\* What an integer division leaves.
LEMMA Division ==
    ASSUME NEW n \in Nat, NEW d \in Nat, d > 0
    PROVE  /\ n \div d \in Nat /\ n % d \in 0 .. d - 1
           /\ n = d * (n \div d) + (n % d)
<1>1. n = d * (n \div d) + (n % d) /\ n % d \in 0 .. d - 1 /\ n \div d \in Int
  OBVIOUS
<1>2. n \div d >= 0
  BY <1>1
<1> QED BY <1>1, <1>2

\* The remainder is the only number that fits.
LEMMA RemainderIs ==
    ASSUME NEW n \in Nat, NEW d \in Nat, d > 0,
           NEW q \in Nat, NEW r \in 0 .. d - 1, n = d * q + r
    PROVE  n % d = r
<1> DEFINE p == n \div d
           s == n % d
<1>1. p \in Nat /\ s \in 0 .. d - 1 /\ n = d * p + s
  BY Division
<1> HIDE DEF p, s
<1>2. ASSUME p < q PROVE FALSE
  <2>1. d * (p + 1) <= d * q
    BY <1>1, <1>2, ProductMonotonic
  <2>2. d * (p + 1) = d * p + d
    BY <1>1
  <2>3. d * p \in Nat /\ d * q \in Nat
    BY <1>1
  <2> QED BY <1>1, <2>1, <2>2, <2>3
<1>3. ASSUME q < p PROVE FALSE
  <2>1. d * (q + 1) <= d * p
    BY <1>1, <1>3, ProductMonotonic
  <2>2. d * (q + 1) = d * q + d
    OBVIOUS
  <2>3. d * p \in Nat /\ d * q \in Nat
    BY <1>1
  <2> QED BY <1>1, <2>1, <2>2, <2>3
<1>4. p = q
  BY <1>1, <1>2, <1>3
<1>5. s = r
  BY <1>1, <1>4
<1> QED BY <1>5 DEF s

\* A remainder goes up by one or starts again.
LEMMA RemainderOfNext ==
    ASSUME NEW n \in Nat, NEW d \in Nat, d > 0
    PROVE  (n + 1) % d = IF n % d = d - 1 THEN 0 ELSE (n % d) + 1
<1> DEFINE p == n \div d
           s == n % d
<1>1. p \in Nat /\ s \in 0 .. d - 1 /\ n = d * p + s
  BY Division
<1> HIDE DEF p, s
<1>2. CASE s = d - 1
  <2>1. n + 1 = d * (p + 1) + 0
    BY <1>1, <1>2
  <2>2. (n + 1) % d = 0
    BY <1>1, <2>1, RemainderIs
  <2> QED BY <1>2, <2>2 DEF s
<1>3. CASE s # d - 1
  <2>1. n + 1 = d * p + (s + 1) /\ s + 1 \in 0 .. d - 1
    BY <1>1, <1>3
  <2>2. (n + 1) % d = s + 1
    BY <1>1, <2>1, RemainderIs
  <2> QED BY <1>3, <2>2 DEF s
<1> QED BY <1>2, <1>3

-----------------------------------------------------------------------------
(* Every pair that MCSizeArith goes through                                *)

\* Both numbers stay sizes.
LEMMA PairsAreSizes == EveryPair => [](nmemb \in Size /\ size \in Size)
<1> DEFINE Inv == nmemb \in Size /\ size \in Size
<1>1. FirstPair => Inv
  BY SizeMaxNat DEF FirstPair, Size
<1>2. Inv /\ [NextSize \/ NextRow]_<<nmemb, size>> => Inv'
  <2> SUFFICES ASSUME Inv, [NextSize \/ NextRow]_<<nmemb, size>> PROVE Inv'
    OBVIOUS
  <2>1. CASE NextSize
    BY <2>1, SizeMaxNat DEF NextSize, Size
  <2>2. CASE NextRow
    BY <2>2, SizeMaxNat DEF NextRow, Size
  <2>3. CASE UNCHANGED <<nmemb, size>>
    BY <2>3
  <2> QED BY <2>1, <2>2, <2>3
<1> QED BY <1>1, <1>2, PTL DEF EveryPair

\* The overflow check of reallocarray() is exact for every width of size_t.
THEOREM MultiplicationIsExact == EveryPair => []UmullIsExact
<1>1. nmemb \in Size /\ size \in Size => UmullIsExact
  BY UmullExact DEF UmullIsExact
<1> QED BY <1>1, PairsAreSizes, PTL

\* The growth of an array is refused exactly when its bytes do not fit, for
\* every width of size_t, INCREMENT, number of elements and element size.
THEOREM GrowthIsRefusedExactly == EveryPair => []GrowthIsExact
<1>1. nmemb \in Size /\ size \in Size => GrowthIsExact
  BY GrowthExact DEF GrowthIsExact, Size
<1> QED BY <1>1, PairsAreSizes, PTL

=============================================================================
