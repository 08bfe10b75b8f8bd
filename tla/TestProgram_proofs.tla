--------------------------- MODULE TestProgram_proofs ---------------------------
(***************************************************************************)
(* Proofs about TestProgram, for registers of any width: the multipliers   *)
(* and the divider answer every instruction once, in time, and with its    *)
(* own result.  Then, instruction by instruction, its interrupt handler    *)
(* gives the program back what it found.                                   *)
(***************************************************************************)
EXTENDS TestProgram, WellFoundedInduction, SequenceTheorems, TLAPS

-------------------------------------------------------------------------------
(* Induction over the naturals, for a set in place of a predicate *)

LEMMA Smallest ==
  ASSUME NEW T, T \subseteq Nat, T # {}
  PROVE  \E n \in T : \A m \in T : n <= m
<1> DEFINE R == OpToRel(<, Nat)
<1>1. IsWellFoundedOn(R, Nat)
  BY NatLessThanWellFounded
<1>2. \A m, n \in Nat : <<m, n>> \in R <=> m < n
  BY DEF OpToRel
<1> HIDE DEF R
<1>3. PICK n \in T : \A m \in T : ~(<<m, n>> \in R)
  BY <1>1, WFMin
<1>4. \A m \in T : m \in Nat /\ n \in Nat /\ ~(m < n)
  BY <1>2, <1>3
<1> QED BY <1>4

LEMMA Induction ==
  ASSUME NEW T, 0 \in T, \A n \in Nat : n \in T => n + 1 \in T
  PROVE  Nat \subseteq T
<1> DEFINE B == Nat \ T
<1>1. ASSUME B # {} PROVE FALSE
  <2>1. B \subseteq Nat
    OBVIOUS
  <2>2. PICK n \in B : \A m \in B : n <= m
    <3> HIDE DEF B
    <3> QED BY <1>1, <2>1, Smallest
  <2>3. n # 0 /\ n - 1 \in Nat /\ n - 1 \notin B
    BY <2>2
  <2> QED BY <2>3
<1> QED BY <1>1

-------------------------------------------------------------------------------
(* Powers of two *)

\* The recursion defines a function: there is one on every initial piece of the
\* naturals, and two of them agree where both are defined.
IsPow2(g, n) ==
  g \in [0 .. n -> Nat] /\ g[0] = 1 /\ \A i \in 1 .. n : g[i] = 2 * g[i-1]

LEMMA Pow2Exists == \A n \in Nat : \E g : IsPow2(g, n)
<1> DEFINE T == {n \in Nat : \E g : IsPow2(g, n)}
<1>1. 0 \in T
  <2>1. IsPow2([i \in 0 .. 0 |-> 1], 0)
    BY DEF IsPow2
  <2> QED BY <2>1
<1>2. ASSUME NEW n \in Nat, n \in T PROVE n + 1 \in T
  <2>1. PICK g : IsPow2(g, n)
    BY <1>2
  <2> DEFINE h == [i \in 0 .. n + 1 |-> IF i = n + 1 THEN 2 * g[n] ELSE g[i]]
  <2>2. g[n] \in Nat /\ \A i \in 0 .. n : g[i] \in Nat
    BY <2>1 DEF IsPow2
  <2>3. h \in [0 .. n + 1 -> Nat] /\ h[0] = 1
    BY <2>1, <2>2 DEF IsPow2
  <2>4. ASSUME NEW i \in 1 .. n + 1 PROVE h[i] = 2 * h[i-1]
    <3>1. CASE i = n + 1
      BY <3>1
    <3>2. CASE i \in 1 .. n
      <4>1. h[i] = g[i] /\ h[i-1] = g[i-1]
        BY <3>2
      <4> QED BY <2>1, <3>2, <4>1 DEF IsPow2
    <3> QED BY <3>1, <3>2
  <2>5. IsPow2(h, n + 1)
    BY <2>3, <2>4 DEF IsPow2
  <2> QED BY <2>5
<1> HIDE DEF T
<1>3. Nat \subseteq T
  BY <1>1, <1>2, Induction
<1> QED BY <1>3 DEF T

LEMMA Pow2Unique ==
  ASSUME NEW m \in Nat, NEW n \in Nat, m <= n, NEW g, NEW h, IsPow2(g, m), IsPow2(h, n)
  PROVE  g[m] = h[m]
<1> DEFINE T == {i \in Nat : i <= m => g[i] = h[i]}
<1>1. 0 \in T
  BY DEF IsPow2
<1>2. ASSUME NEW i \in Nat, i \in T PROVE i + 1 \in T
  <2>1. ASSUME i + 1 <= m PROVE g[i+1] = h[i+1]
    <3>1. i + 1 \in 1 .. m /\ i + 1 \in 1 .. n /\ (i + 1) - 1 = i
      BY <2>1
    <3>2. g[i+1] = 2 * g[i] /\ h[i+1] = 2 * h[i]
      BY <3>1 DEF IsPow2
    <3> QED BY <1>2, <2>1, <3>2
  <2> QED BY <2>1
<1> HIDE DEF T
<1>3. Nat \subseteq T
  BY <1>1, <1>2, Induction
<1> QED BY <1>3 DEF T

LEMMA Pow2Steps ==
  /\ Pow2 \in [Nat -> Nat]
  /\ Pow2[0] = 1
  /\ \A n \in Nat : Pow2[n+1] = 2 * Pow2[n]
<1> DEFINE At(n) == CHOOSE g : IsPow2(g, n)
           P == [n \in Nat |-> At(n)[n]]
           Rec(p) == [n \in Nat |-> IF n = 0 THEN 1 ELSE 2 * p[n-1]]
<1>1. \A n \in Nat : IsPow2(At(n), n)
  BY Pow2Exists
<1> HIDE DEF At
<1>2. ASSUME NEW n \in Nat PROVE P[n] \in Nat /\ P[0] = 1 /\ P[n+1] = 2 * P[n]
  <2>1. IsPow2(At(n), n) /\ IsPow2(At(n+1), n + 1) /\ IsPow2(At(0), 0)
    BY <1>1
  <2>2. At(n)[n] = At(n+1)[n]
    BY <2>1, Pow2Unique
  <2>3. At(n+1)[n+1] = 2 * At(n+1)[n]
    <3>1. n + 1 \in 1 .. n + 1 /\ (n + 1) - 1 = n
      OBVIOUS
    <3> QED BY <2>1, <3>1 DEF IsPow2
  <2> QED BY <2>1, <2>2, <2>3 DEF IsPow2
<1> HIDE DEF P
<1>3. P = Rec(P)
  <2>1. P = [n \in Nat |-> P[n]]
    BY DEF P
  <2>2. \A n \in Nat : P[n] = IF n = 0 THEN 1 ELSE 2 * P[n-1]
    <3> SUFFICES ASSUME NEW n \in Nat PROVE P[n] = IF n = 0 THEN 1 ELSE 2 * P[n-1]
      OBVIOUS
    <3>1. CASE n = 0
      BY <1>2, <3>1
    <3>2. CASE n # 0
      <4>1. n - 1 \in Nat /\ (n - 1) + 1 = n
        BY <3>2
      <4>2. P[(n - 1) + 1] = 2 * P[n-1]
        BY <1>2, <4>1
      <4> QED BY <3>2, <4>1, <4>2
    <3> QED BY <3>1, <3>2
  <2> QED BY <2>1, <2>2
<1>4. Pow2 = CHOOSE p : p = Rec(p)
  BY DEF Pow2
<1>5. Pow2 = Rec(Pow2)
  BY <1>3, <1>4
<1>6. \A n \in Nat : Pow2[n] = IF n = 0 THEN 1 ELSE 2 * Pow2[n-1]
  BY <1>5
<1>7. Pow2[0] = 1 /\ \A n \in Nat : Pow2[n+1] = 2 * Pow2[n]
  <2>1. \A n \in Nat : n + 1 # 0 /\ (n + 1) - 1 = n /\ n + 1 \in Nat
    OBVIOUS
  <2> QED BY <1>6, <2>1
<1>8. \A n \in Nat : Pow2[n] \in Nat
  <2> DEFINE T == {n \in Nat : Pow2[n] \in Nat}
  <2>1. 0 \in T
    BY <1>7
  <2>2. ASSUME NEW n \in Nat, n \in T PROVE n + 1 \in T
    BY <1>7, <2>2
  <2> HIDE DEF T
  <2>3. Nat \subseteq T
    BY <2>1, <2>2, Induction
  <2> QED BY <2>3 DEF T
<1>9. Pow2 = [n \in Nat |-> Pow2[n]]
  BY <1>5
<1> QED BY <1>7, <1>8, <1>9

LEMMA Pow2Sum ==
  /\ \A n \in Nat : Pow2[n] \in Nat \ {0}
  /\ \A m, n \in Nat : Pow2[m+n] = Pow2[m] * Pow2[n]
<1>1. ASSUME NEW n \in Nat PROVE Pow2[n] \in Nat \ {0}
  <2> DEFINE T == {i \in Nat : Pow2[i] \in Nat \ {0}}
  <2>1. 0 \in T
    BY Pow2Steps
  <2>2. ASSUME NEW i \in Nat, i \in T PROVE i + 1 \in T
    BY Pow2Steps, <2>2
  <2> HIDE DEF T
  <2>3. Nat \subseteq T
    BY <2>1, <2>2, Induction
  <2> QED BY <2>3 DEF T
<1>2. ASSUME NEW m \in Nat, NEW n \in Nat PROVE Pow2[m+n] = Pow2[m] * Pow2[n]
  <2> DEFINE T == {i \in Nat : Pow2[m+i] = Pow2[m] * Pow2[i]}
  <2>1. 0 \in T
    BY Pow2Steps
  <2>2. ASSUME NEW i \in Nat, i \in T PROVE i + 1 \in T
    <3>1. Pow2[(m+i)+1] = 2 * Pow2[m+i] /\ Pow2[i+1] = 2 * Pow2[i]
      BY Pow2Steps
    <3>2. (m+i)+1 = m+(i+1)
      OBVIOUS
    <3>3. Pow2[m] \in Nat /\ Pow2[i] \in Nat
      BY Pow2Steps
    <3>4. 2 * (Pow2[m] * Pow2[i]) = Pow2[m] * (2 * Pow2[i])
      BY <3>3
    <3> QED BY <2>2, <3>1, <3>2, <3>4
  <2> HIDE DEF T
  <2>3. Nat \subseteq T
    BY <2>1, <2>2, Induction
  <2> QED BY <2>3 DEF T
<1> QED BY <1>1, <1>2

\* Values and Top, without the recursion.
LEMMA Sizes ==
  /\ Values \in Nat /\ Top \in Nat /\ Top > 0 /\ Values = 2 * Top /\ Wide = Values * Values
  /\ Wide \in Nat /\ Wide > 0 /\ Wide = Pow2[2*W] /\ Values = Pow2[W]
<1>1. W - 1 \in Nat /\ W = (W - 1) + 1 /\ W \in Nat /\ W + W = 2 * W
  BY WidthAssumption
<1>2. Top \in Nat /\ Top > 0 /\ Values \in Nat /\ Values = 2 * Top
  <2>1. Pow2[W-1] \in Nat \ {0} /\ Pow2[(W-1)+1] = 2 * Pow2[W-1]
    BY <1>1, Pow2Steps, Pow2Sum
  <2> QED BY <1>1, <2>1 DEF Top, Values
<1>3. Wide = Pow2[2*W]
  BY <1>1, Pow2Sum DEF Wide, Values
<1>4. Wide \in Nat /\ Wide > 0
  BY <1>1, <1>3, Pow2Sum
<1> QED BY <1>2, <1>3, <1>4 DEF Wide, Values

-------------------------------------------------------------------------------
(* Quotients and remainders *)

LEMMA DivMod ==
  ASSUME NEW a \in Int, NEW b \in Nat, b > 0
  PROVE  /\ a \div b \in Int /\ a % b \in Int /\ 0 <= a % b /\ a % b < b
         /\ a = (a \div b) * b + (a % b)
OBVIOUS

LEMMA DivModUnique ==
  ASSUME NEW a \in Int, NEW b \in Nat, NEW q \in Int, NEW r \in Int,
         0 <= r, r < b, a = q * b + r
  PROVE  a \div b = q /\ a % b = r
<1> DEFINE p == a \div b
           s == a % b
<1>1. p \in Int /\ s \in Int /\ 0 <= s /\ s < b /\ a = p * b + s
  BY DivMod
<1> HIDE DEF p, s
<1>2. (p - q) * b = r - s
  BY <1>1
<1>3. p - q = 0
  <2> DEFINE d == p - q
  <2>1. d \in Int /\ d * b = r - s /\ r - s < b /\ -b < r - s
    BY <1>1, <1>2
  <2> HIDE DEF d
  <2>2. CASE d >= 1
    <3>1. d * b >= b
      BY <2>1, <2>2
    <3> QED BY <1>1, <2>1, <3>1
  <2>3. CASE d <= -1
    <3>1. d * b <= -b
      BY <2>1, <2>3
    <3> QED BY <1>1, <2>1, <3>1
  <2>4. d = 0
    BY <2>1, <2>2, <2>3
  <2> QED BY <2>4 DEF d
<1>4. p = q /\ r = s
  BY <1>1, <1>2, <1>3
<1> QED BY <1>4 DEF p, s

\* Numbers that differ by a multiple have the same remainder.
LEMMA SameRemainder ==
  ASSUME NEW a \in Int, NEW b \in Nat, b > 0, NEW z \in Int
  PROVE  (a + z * b) % b = a % b /\ (a + z * b) \div b = a \div b + z
<1> DEFINE q == a \div b
           r == a % b
<1>1. q \in Int /\ r \in Int /\ 0 <= r /\ r < b /\ a = q * b + r
  BY DivMod
<1> HIDE DEF q, r
<1>2. a + z * b \in Int /\ q + z \in Int /\ a + z * b = (q + z) * b + r
  BY <1>1
<1>3. (a + z * b) \div b = q + z /\ (a + z * b) % b = r
  BY <1>1, <1>2, DivModUnique
<1> QED BY <1>3 DEF q, r

-------------------------------------------------------------------------------
(* The serial multiplication, of any two numbers: after j steps the sum and the
   product of what is left are the product wanted, up to a multiple of Wide. *)

Summing(L, R, j, sum, rs1, rs2) ==
  /\ sum \in Int /\ 0 <= sum /\ sum < Wide /\ rs1 \in Nat /\ rs2 \in Nat
  /\ \E z \in Int : sum + rs1 * rs2 = L * R + z * Wide
  /\ rs1 * Pow2[j] < Wide
  /\ \E u \in Int : rs2 = u * Pow2[j]

LEMMA SumStarts ==
  ASSUME NEW L \in Int, NEW R \in Int
  PROVE  Summing(L, R, 0, 0, L % Wide, R % Wide)
<1> DEFINE p == L \div Wide
           x == L % Wide
           q == R \div Wide
           y == R % Wide
<1>1. /\ p \in Int /\ x \in Nat /\ x < Wide /\ L = p * Wide + x
      /\ q \in Int /\ y \in Nat /\ y < Wide /\ R = q * Wide + y
  BY DivMod, Sizes
<1>2. Wide \in Nat /\ Wide > 0 /\ Pow2[0] = 1
  BY Sizes, Pow2Steps
<1> HIDE DEF p, x, q, y
<1> DEFINE z == -(p * q * Wide + p * y + q * x)
<1>3. z \in Int
  BY <1>1, <1>2
<1>4. 0 + x * y = L * R + z * Wide
  <2>1. (p * Wide + x) * (q * Wide + y) = (p * q * Wide + p * y + q * x) * Wide + x * y
    BY <1>1, <1>2
  <2>2. L * R = (p * q * Wide + p * y + q * x) * Wide + x * y
    BY <1>1, <2>1
  <2> QED BY <1>1, <1>2, <2>2
<1> HIDE DEF z
<1>5. x * Pow2[0] < Wide /\ y = y * Pow2[0]
  BY <1>1, <1>2
<1>6. Summing(L, R, 0, 0, x, y)
  <2>1. \E n \in Int : 0 + x * y = L * R + n * Wide
    BY <1>3, <1>4
  <2>2. \E u \in Int : y = u * Pow2[0]
    <3>1. y \in Int
      BY <1>1
    <3> QED BY <1>5, <3>1
  <2> QED BY <1>1, <1>2, <1>5, <2>1, <2>2 DEF Summing
<1> QED BY <1>6 DEF x, y

LEMMA SumSteps ==
  ASSUME NEW L \in Int, NEW R \in Int, NEW j \in 0 .. 2 * W - 1, NEW sum, NEW rs1, NEW rs2,
         Summing(L, R, j, sum, rs1, rs2)
  PROVE  Summing(L, R, j + 1, (sum + (rs1 % 2) * rs2) % Wide, rs1 \div 2, (rs2 * 2) % Wide)
<1>1. Wide \in Nat /\ Wide > 0 /\ W \in Nat /\ j \in Nat
  BY Sizes, WidthAssumption
<1>2. PICK z \in Int : sum + rs1 * rs2 = L * R + z * Wide
  BY DEF Summing
<1>3. PICK u \in Int : rs2 = u * Pow2[j]
  BY DEF Summing
<1>4. sum \in Int /\ 0 <= sum /\ rs1 \in Nat /\ rs2 \in Nat /\ rs1 * Pow2[j] < Wide
  BY DEF Summing
<1> DEFINE h == rs1 \div 2
           b == rs1 % 2
           s == sum + b * rs2
           p == s \div Wide
           x == s % Wide
           q == (rs2 * 2) \div Wide
           y == (rs2 * 2) % Wide
<1>5. h \in Nat /\ b \in {0, 1} /\ rs1 = 2 * h + b
  BY <1>4
<1> HIDE DEF h, b
<1>6. s \in Int
  <2>1. b = 0 \/ b = 1
    BY <1>5
  <2> QED BY <1>4, <2>1
<1>7. /\ p \in Int /\ x \in Int /\ 0 <= x /\ x < Wide /\ s = p * Wide + x
      /\ q \in Int /\ y \in Nat /\ y < Wide /\ rs2 * 2 = q * Wide + y
  <2> DEFINE t == rs2 * 2
  <2>1. t \in Int
    BY <1>4
  <2> HIDE DEF s, t
  <2>2. p \in Int /\ x \in Int /\ 0 <= x /\ x < Wide /\ s = p * Wide + x
    BY <1>1, <1>6, DivMod
  <2>3. /\ t \div Wide \in Int /\ t % Wide \in Int /\ 0 <= t % Wide /\ t % Wide < Wide
        /\ t = (t \div Wide) * Wide + (t % Wide)
    BY <1>1, <2>1, DivMod
  <2> QED BY <2>2, <2>3 DEF t
<1> HIDE DEF p, x, q, y
<1>8. x + h * y = L * R + (z - p - h * q) * Wide
  <2>1. x = sum + b * rs2 - p * Wide
    BY <1>1, <1>4, <1>5, <1>7
  <2>2. h * y = 2 * h * rs2 - h * q * Wide
    <3>1. y = rs2 * 2 - q * Wide
      BY <1>1, <1>4, <1>7
    <3>2. h * (rs2 * 2 - q * Wide) = 2 * h * rs2 - h * q * Wide
      BY <1>1, <1>4, <1>5, <1>7
    <3> QED BY <3>1, <3>2
  <2>3. (2 * h + b) * rs2 = 2 * h * rs2 + b * rs2
    BY <1>4, <1>5
  <2>4. sum + (2 * h * rs2 + b * rs2) = L * R + z * Wide
    BY <1>2, <1>5, <2>3
  <2>5. (z - p - h * q) * Wide = z * Wide - p * Wide - h * q * Wide
    BY <1>1, <1>5, <1>7
  <2> DEFINE bb == b * rs2
             hh == 2 * h * rs2
             kk == z * Wide
             pp == p * Wide
             qq == h * q * Wide
             ll == L * R
  <2>6. bb \in Int /\ hh \in Int /\ kk \in Int /\ pp \in Int /\ qq \in Int /\ ll \in Int
    BY <1>1, <1>4, <1>5, <1>7
  <2>7. /\ x = sum + bb - pp /\ h * y = hh - qq /\ sum + (hh + bb) = ll + kk
        /\ (z - p - h * q) * Wide = kk - pp - qq
    BY <2>1, <2>2, <2>4, <2>5
  <2>8. h * y \in Int
    BY <1>5, <1>7
  <2> HIDE DEF bb, hh, kk, pp, qq, ll
  <2>9. x + h * y = ll + (kk - pp - qq)
    BY <1>4, <1>7, <2>6, <2>7, <2>8
  <2> QED BY <2>7, <2>9 DEF ll
<1>9. Pow2[j+1] = 2 * Pow2[j] /\ Pow2[j] \in Nat /\ Pow2[j] > 0 /\ Pow2[j+1] \in Nat
  BY <1>1, Pow2Steps, Pow2Sum
<1>10. h * Pow2[j+1] < Wide
  <2>1. h * Pow2[j+1] = (2 * h) * Pow2[j]
    BY <1>5, <1>9
  <2>2. (2 * h) * Pow2[j] <= rs1 * Pow2[j]
    BY <1>5, <1>9
  <2>3. h * Pow2[j+1] \in Int /\ rs1 * Pow2[j] \in Int
    BY <1>4, <1>5, <1>9
  <2> QED BY <1>1, <1>4, <2>1, <2>2, <2>3
<1>11. \E v \in Int : y = v * Pow2[j+1]
  <2> DEFINE r == Pow2[2 * W - (j+1)]
  <2>1. 2 * W - (j+1) \in Nat /\ (2 * W - (j+1)) + (j+1) = 2 * W /\ j + 1 \in Nat
    BY <1>1
  <2>2. Wide = r * Pow2[j+1] /\ r \in Nat
    <3> DEFINE d == 2 * W - (j+1)
    <3>1. Wide = Pow2[d + (j+1)] /\ d \in Nat
      BY <2>1, Sizes
    <3> HIDE DEF d
    <3>2. Pow2[d + (j+1)] = Pow2[d] * Pow2[j+1] /\ Pow2[d] \in Nat
      BY <2>1, <3>1, Pow2Sum, Pow2Steps
    <3> QED BY <3>1, <3>2 DEF d
  <2> HIDE DEF r
  <2>3. y = 2 * (u * Pow2[j]) - q * (r * Pow2[j+1])
    BY <1>1, <1>3, <1>4, <1>7, <2>2
  <2>4. 2 * (u * Pow2[j]) - q * (r * Pow2[j+1]) = (u - q * r) * Pow2[j+1]
    <3> DEFINE t == Pow2[j]
               v == q * r
    <3>1. t \in Int /\ v \in Int /\ Pow2[j+1] = 2 * t
      BY <1>7, <1>9, <2>2
    <3>2. q * (r * Pow2[j+1]) = v * (2 * t)
      BY <1>7, <2>2, <3>1
    <3> HIDE DEF t, v
    <3>3. 2 * (u * t) - v * (2 * t) = (u - v) * (2 * t)
      BY <3>1
    <3> QED BY <3>1, <3>2, <3>3 DEF t, v
  <2>5. u - q * r \in Int
    BY <1>7, <2>2
  <2> QED BY <2>3, <2>4, <2>5
<1>12. Summing(L, R, j + 1, x, h, y)
  <2>1. z - p - h * q \in Int
    BY <1>5, <1>7
  <2> QED BY <1>5, <1>7, <1>8, <1>10, <1>11, <2>1 DEF Summing
<1> QED BY <1>12 DEF x, h, y, s, b

\* After 2W steps nothing is left; after W what is left does not reach the lower half.
LEMMA SumEnds ==
  ASSUME NEW L \in Int, NEW R \in Int, NEW j \in Nat, NEW sum, NEW rs1, NEW rs2,
         Summing(L, R, j, sum, rs1, rs2)
  PROVE  /\ sum \in Int
         /\ j = 2 * W => Upper(sum) = Upper(L * R)
         /\ j = W => Lower(sum) = Lower(L * R)
<1>1. /\ Wide \in Nat /\ Wide > 0 /\ Values \in Nat /\ Values > 0 /\ Wide = Values * Values
      /\ Pow2[2*W] = Wide /\ Pow2[W] = Values
  BY Sizes
<1>2. PICK z \in Int : sum + rs1 * rs2 = L * R + z * Wide
  BY DEF Summing
<1>3. PICK u \in Int : rs2 = u * Pow2[j]
  BY DEF Summing
<1>4. sum \in Int /\ rs1 \in Nat /\ rs2 \in Nat /\ rs1 * Pow2[j] < Wide /\ L * R \in Int
  BY DEF Summing
<1>5. ASSUME j = 2 * W PROVE Upper(sum) = Upper(L * R)
  <2>1. rs1 * Wide < Wide
    BY <1>1, <1>4, <1>5
  <2>2. rs1 = 0
    <3>1. CASE rs1 >= 1
      <4>1. rs1 * Wide >= Wide
        BY <1>1, <1>4, <3>1
      <4>2. rs1 * Wide \in Int
        BY <1>1, <1>4
      <4> QED BY <1>1, <2>1, <4>1, <4>2
    <3> QED BY <1>4, <3>1
  <2>3. sum = L * R + z * Wide
    BY <1>2, <1>4, <2>2
  <2> DEFINE a == L * R
             c == z * Values
  <2>4. a \in Int /\ c \in Int /\ sum = a + c * Values
    <3>1. z * (Values * Values) = c * Values
      BY <1>1
    <3> QED BY <1>1, <1>4, <2>3, <3>1
  <2> HIDE DEF a
  <2>5. sum \div Values = a \div Values + c
    <3> HIDE DEF c
    <3> QED BY <1>1, <2>4, SameRemainder
  <2>6. (a \div Values + z * Values) % Values = (a \div Values) % Values
    <3>1. a \div Values \in Int
      BY <1>1, <2>4
    <3> QED BY <1>1, <3>1, SameRemainder
  <2>7. Upper(sum) = Upper(a)
    BY <2>5, <2>6 DEF Upper
  <2> QED BY <2>7 DEF a
<1>6. ASSUME j = W PROVE Lower(sum) = Lower(L * R)
  <2> DEFINE a == L * R
             c == z * Values - rs1 * u
  <2>1. rs2 = u * Values
    BY <1>1, <1>3, <1>6
  <2>2. sum = a + z * (Values * Values) - rs1 * (u * Values)
    BY <1>1, <1>2, <1>4, <2>1
  <2>3. z * (Values * Values) - rs1 * (u * Values) = c * Values
    BY <1>1, <1>4
  <2>4. a \in Int /\ c \in Int /\ sum = a + c * Values
    BY <1>1, <1>4, <2>2, <2>3
  <2> HIDE DEF a, c
  <2>5. sum % Values = a % Values
    BY <1>1, <2>4, SameRemainder
  <2> QED BY <2>5 DEF Lower, a
<1> QED BY <1>4, <1>5, <1>6

-------------------------------------------------------------------------------
(* The division of a by b: i bits of the quotient are still to be found.  A divisor of 0
   fits every time and leaves all bits set. *)

Dividing(a, b, i, n) ==
  /\ n.dividend \in Nat /\ n.quotient \in Nat /\ n.divisor \in Nat
  /\ i = 0 => n.mask = 0
  /\ i > 0 => n.mask = Pow2[i-1] /\ n.divisor = b * Pow2[i-1]
  /\ a = n.quotient * b + n.dividend
  /\ b > 0 => n.dividend < b * Pow2[i]
  /\ b = 0 => n.quotient = Values - Pow2[i]

LEMMA DivisionStarts ==
  ASSUME NEW a \in Nat, a < Values, NEW b \in Nat, NEW n,
         n.dividend = a, n.divisor = b * Top, n.quotient = 0, n.mask = Top
  PROVE  Dividing(a, b, W, n)
<1>1. /\ W \in Nat /\ W > 0 /\ Pow2[W-1] = Top /\ Pow2[W] = Values
      /\ Top \in Nat /\ Values \in Nat
  BY Sizes, WidthAssumption DEF Top, Values
<1>2. b * Top \in Nat /\ 0 * b = 0
  BY <1>1
<1>3. ASSUME b > 0 PROVE a < b * Values
  <2>1. b * Values >= Values
    BY <1>1, <1>3
  <2>2. b * Values \in Int
    BY <1>1
  <2> QED BY <1>1, <2>1, <2>2
<1> QED BY <1>1, <1>2, <1>3 DEF Dividing

LEMMA DivisionSteps ==
  ASSUME NEW a \in Nat, NEW b \in Nat, NEW i \in Nat, i > 0, NEW n, NEW m, Dividing(a, b, i, n),
         m.dividend = (IF n.divisor <= n.dividend THEN n.dividend - n.divisor ELSE n.dividend),
         m.quotient = (IF n.divisor <= n.dividend THEN n.quotient + n.mask ELSE n.quotient),
         m.divisor = n.divisor \div 2, m.mask = n.mask \div 2
  PROVE  Dividing(a, b, i - 1, m) /\ n.mask # 0
<1> DEFINE t == Pow2[i-1]
           q == n.quotient
           d == n.dividend
<1>1. i - 1 \in Nat /\ t \in Nat /\ t > 0 /\ Pow2[i] = 2 * t
  <2>1. i - 1 \in Nat /\ (i - 1) + 1 = i
    OBVIOUS
  <2>2. Pow2[(i-1)+1] = 2 * Pow2[i-1] /\ Pow2[i-1] \in Nat \ {0}
    BY <2>1, Pow2Steps, Pow2Sum
  <2> QED BY <2>1, <2>2
<1>2. /\ d \in Nat /\ q \in Nat /\ n.divisor \in Nat /\ n.mask = t /\ n.divisor = b * t
      /\ a = q * b + d
  BY <1>1 DEF Dividing
<1>3. (b > 0 => d < b * (2 * t)) /\ (b = 0 => q = Values - 2 * t)
  BY <1>1 DEF Dividing
<1>4. n.mask \div 2 \in Nat /\ n.divisor \div 2 \in Nat
  <2>1. \A x \in Nat : x \div 2 \in Nat
    OBVIOUS
  <2> QED BY <1>1, <1>2, <2>1
<1>5. i - 1 = 0 => m.mask = 0
  <2>1. ASSUME i - 1 = 0 PROVE t = 1
    BY <2>1, Pow2Steps
  <2> QED BY <1>2, <2>1
<1>6. i - 1 > 0 => m.mask = Pow2[(i-1)-1] /\ m.divisor = b * Pow2[(i-1)-1]
  <2> SUFFICES ASSUME i - 1 > 0
               PROVE  m.mask = Pow2[(i-1)-1] /\ m.divisor = b * Pow2[(i-1)-1]
    OBVIOUS
  <2> DEFINE h == Pow2[(i-1)-1]
  <2>1. t = 2 * h /\ h \in Nat
    <3>1. (i-1)-1 \in Nat /\ ((i-1)-1)+1 = i-1
      BY <1>1
    <3> QED BY <3>1, Pow2Steps
  <2>2. n.divisor = 2 * (b * h) /\ b * h \in Nat
    BY <1>2, <2>1
  <2>3. \A x \in Nat : (2 * x) \div 2 = x
    OBVIOUS
  <2> HIDE DEF h
  <2> QED BY <1>2, <2>1, <2>2, <2>3 DEF h
<1> HIDE DEF t, q, d
<1>7. b * (2 * t) = 2 * (b * t) /\ b * t \in Nat
  BY <1>1
<1>8. CASE n.divisor <= n.dividend
  <2>1. m.dividend = d - b * t /\ m.quotient = q + t /\ b * t <= d
    BY <1>2, <1>8 DEF d, q
  <2>2. m.dividend \in Nat /\ m.quotient \in Nat
    BY <1>1, <1>2, <1>7, <2>1
  <2>3. (q + t) * b = q * b + b * t
    BY <1>1, <1>2
  <2>4. a = (q + t) * b + (d - b * t)
    <3> DEFINE x == q * b
               y == b * t
    <3>1. x \in Int /\ y \in Int /\ d \in Int /\ a = x + d /\ (q + t) * b = x + y
      BY <1>2, <1>7, <2>3
    <3> HIDE DEF x, y
    <3>2. a = (x + y) + (d - y)
      BY <3>1
    <3> QED BY <3>1, <3>2 DEF y
  <2>5. b > 0 => d - b * t < b * t
    BY <1>2, <1>3, <1>7, <2>1
  <2>6. b = 0 => q + t = Values - t
    BY <1>1, <1>2, <1>3, Sizes
  <2> QED BY <1>1, <1>2, <1>4, <1>5, <1>6, <2>1, <2>2, <2>4, <2>5, <2>6 DEF Dividing, t
<1>9. CASE ~(n.divisor <= n.dividend)
  <2>1. m.dividend = d /\ m.quotient = q /\ d < b * t
    BY <1>2, <1>7, <1>9 DEF d, q
  <2>2. b # 0
    <3>1. CASE b = 0
      <4>1. b * t = 0
        BY <1>1, <3>1
      <4> QED BY <1>2, <2>1, <4>1
    <3> QED BY <3>1
  <2>3. m.dividend \in Nat /\ m.quotient \in Nat /\ m.divisor \in Nat
    BY <1>2, <1>4, <2>1
  <2>4. a = m.quotient * b + m.dividend /\ (b > 0 => m.dividend < b * Pow2[i-1])
    BY <1>2, <2>1 DEF t
  <2> QED BY <1>5, <1>6, <2>2, <2>3, <2>4 DEF Dividing
<1> QED BY <1>1, <1>2, <1>8, <1>9 DEF t

Divided(a, b, q, r) ==
  /\ b > 0 => q = a \div b /\ r = a % b
  /\ b = 0 => q = Values - 1 /\ r = a

LEMMA DivisionEnds ==
  ASSUME NEW a \in Nat, NEW b \in Nat, NEW n, Dividing(a, b, 0, n)
  PROVE  n.mask = 0 /\ Divided(a, b, n.quotient, n.dividend)
<1>1. Pow2[0] = 1
  BY Pow2Steps
<1>2. /\ n.mask = 0 /\ n.dividend \in Nat /\ n.quotient \in Nat
      /\ a = n.quotient * b + n.dividend
  BY DEF Dividing
<1>3. (b > 0 => n.dividend < b * 1) /\ (b = 0 => n.quotient = Values - 1)
  BY <1>1 DEF Dividing
<1>4. ASSUME b > 0 PROVE n.quotient = a \div b /\ n.dividend = a % b
  <2> DEFINE q == n.quotient
             r == n.dividend
  <2>1. q \in Int /\ r \in Int /\ 0 <= r /\ r < b /\ a = q * b + r
    BY <1>2, <1>3, <1>4
  <2> HIDE DEF q, r
  <2>2. a \div b = q /\ a % b = r
    BY <1>4, <2>1, DivModUnique
  <2> QED BY <2>2 DEF q, r
<1>5. ASSUME b = 0 PROVE n.dividend = a
  <2>1. n.quotient * 0 = 0
    BY <1>2
  <2> QED BY <1>2, <1>5, <2>1
<1> QED BY <1>2, <1>3, <1>4, <1>5 DEF Divided

-------------------------------------------------------------------------------
(* Signs *)

Neg(op, x) == op \in {"div", "rem"} /\ Signed(x) < 0
Mag(op, x) == IF Neg(op, x) THEN Negated(x) ELSE x
Out(op, x, y) ==
  \/ op = "div" /\ Neg(op, x) # Neg(op, y) /\ y # 0
  \/ op = "rem" /\ Neg(op, x)

LEMMA Remainders ==
  /\ \A x \in Word : x % Values = x
  /\ \A x \in Word : x > 0 => Negated(x) = Values - x
<1>1. Values \in Nat /\ Values > 0
  BY Sizes
<1>2. ASSUME NEW x \in Word PROVE x % Values = x
  <2>1. x \in Int /\ 0 <= x /\ x < Values /\ x = 0 * Values + x
    BY <1>1 DEF Word
  <2> QED BY <1>1, <2>1, DivModUnique
<1>3. ASSUME NEW x \in Word, x > 0 PROVE Negated(x) = Values - x
  <2>1. /\ -x \in Int /\ Values - x \in Int /\ 0 <= Values - x /\ Values - x < Values
        /\ -x = (-1) * Values + (Values - x)
    BY <1>1, <1>3 DEF Word
  <2> DEFINE m == -x
             v == Values - x
  <2>2. m \in Int /\ v \in Int /\ 0 <= v /\ v < Values /\ m = (-1) * Values + v
    BY <2>1
  <2> HIDE DEF m, v
  <2>3. m % Values = v
    BY <1>1, <2>2, DivModUnique
  <2> QED BY <2>3 DEF Negated, m, v
<1> QED BY <1>2, <1>3

LEMMA Magnitudes ==
  ASSUME NEW op, NEW x \in Word
  PROVE  /\ Signed(x) \in Int /\ x \in Int /\ 0 <= x /\ x < Values
         /\ Mag(op, x) \in Word /\ Mag(op, x) \in Nat /\ Mag(op, x) < Values
         /\ Mag(op, x) = 0 <=> x = 0
         /\ Neg(op, x) => Negated(Mag(op, x)) = x /\ x # 0
         /\ op \in {"div", "rem"} => Mag(op, x) = Magn(Signed(x))
         /\ op \notin {"div", "rem"} => Mag(op, x) = x /\ ~Neg(op, x)
<1>1. Values \in Nat /\ Top \in Nat /\ Top > 0 /\ Values = 2 * Top
  BY Sizes
<1>2. x \in Int /\ 0 <= x /\ x < Values
  BY <1>1 DEF Word
<1>3. Signed(x) = IF x >= Top THEN x - Values ELSE x
  BY DEF Signed
<1>4. Signed(x) \in Int /\ (Signed(x) < 0 <=> x >= Top)
  BY <1>1, <1>2, <1>3
<1>5. CASE Neg(op, x)
  <2>1. x >= Top /\ op \in {"div", "rem"} /\ x > 0
    BY <1>1, <1>2, <1>4, <1>5 DEF Neg
  <2>2. Mag(op, x) = Values - x
    BY <1>5, <2>1, Remainders DEF Mag
  <2>3. Mag(op, x) \in Word /\ Mag(op, x) > 0
    BY <1>1, <1>2, <2>1, <2>2 DEF Word
  <2>4. Negated(Mag(op, x)) = x
    BY <1>1, <1>2, <2>2, <2>3, Remainders
  <2>5. Magn(Signed(x)) = Values - x
    BY <1>1, <1>2, <1>3, <2>1 DEF Magn
  <2> QED BY <1>1, <1>2, <1>4, <1>5, <2>1, <2>2, <2>3, <2>4, <2>5
<1>6. CASE ~Neg(op, x)
  <2>1. Mag(op, x) = x
    BY <1>6 DEF Mag
  <2>2. ASSUME op \in {"div", "rem"} PROVE Magn(Signed(x)) = x
    BY <1>1, <1>2, <1>3, <1>6, <2>2 DEF Neg, Magn
  <2> QED BY <1>1, <1>2, <1>4, <1>6, <2>1, <2>2
<1> QED BY <1>5, <1>6

\* The quotient and the remainder of the magnitudes, with their signs, are the answer.
LEMMA DivisionAnswers ==
  ASSUME NEW op \in DivOps, NEW x \in Word, NEW y \in Word, NEW q, NEW r,
         Divided(Mag(op, x), Mag(op, y), q, r)
  PROVE  LET result == IF op \in {"div", "divu"} THEN q ELSE r
         IN  (IF Out(op, x, y) THEN Negated(result) ELSE result) = Soft(op, x, y)
<1> DEFINE a == Mag(op, x)
           b == Mag(op, y)
           n == Signed(x)
           d == Signed(y)
           result == IF op \in {"div", "divu"} THEN q ELSE r
<1>1. Values \in Nat /\ Values > 0
  BY Sizes
<1>2. /\ n \in Int /\ x \in Int /\ 0 <= x /\ x < Values /\ a \in Word /\ a \in Nat
      /\ (Neg(op, x) => Negated(a) = x)
      /\ (op \in {"div", "rem"} => a = Magn(n))
      /\ (op \notin {"div", "rem"} => a = x /\ ~Neg(op, x))
  BY Magnitudes
<1>3. /\ d \in Int /\ y \in Int /\ 0 <= y /\ b \in Nat /\ (b = 0 <=> y = 0)
      /\ (op \in {"div", "rem"} => b = Magn(d))
      /\ (op \notin {"div", "rem"} => b = y /\ ~Neg(op, y))
  BY Magnitudes
<1>0. Divided(a, b, q, r)
  OBVIOUS
<1>4. CASE y = 0
  <2>1. b = 0 /\ q = Values - 1 /\ r = a
    BY <1>0, <1>3, <1>4 DEF Divided
  <2>2. CASE op \in {"div", "divu"}
    <3>1. ~Out(op, x, y)
      BY <1>4, <2>2 DEF Out
    <3>2. Soft(op, x, y) = Values - 1
      BY <1>4, <2>2 DEF Soft
    <3> QED BY <2>1, <2>2, <3>1, <3>2
  <2>3. CASE op \in {"rem", "remu"}
    <3>1. Soft(op, x, y) = x
      BY <1>4, <2>3 DEF Soft
    <3>2. op \notin {"div", "divu"}
      BY <2>3
    <3>3. CASE Neg(op, x)
      <4>1. Out(op, x, y)
        BY <2>3, <3>3 DEF Out, Neg
      <4> QED BY <1>2, <2>1, <3>1, <3>2, <3>3, <4>1
    <3>4. CASE ~Neg(op, x)
      <4>1. ~Out(op, x, y) /\ a = x
        BY <2>3, <3>4 DEF Out, Mag
      <4> QED BY <2>1, <3>1, <3>2, <4>1
    <3> QED BY <3>3, <3>4
  <2> QED BY <2>2, <2>3 DEF DivOps
<1>5. CASE y # 0
  <2>1. b \in Nat /\ b > 0 /\ q = a \div b /\ r = a % b
    BY <1>0, <1>3, <1>5 DEF Divided
  <2> HIDE DEF a, b
  <2>2. q \in Int /\ r \in Int /\ 0 <= r /\ r < b /\ a = q * b + r
    BY <1>2, <2>1, DivMod
  <2>3. 0 <= q /\ q <= a
    <3>1. CASE q <= -1
      <4>1. q * b <= -b
        BY <2>1, <2>2, <3>1
      <4>2. q * b \in Int
        BY <2>1, <2>2
      <4> QED BY <1>2, <2>1, <2>2, <4>1, <4>2
    <3>2. CASE q >= 0
      <4>1. q * b >= q /\ q * b \in Int
        BY <2>1, <2>2, <3>2
      <4> QED BY <1>2, <2>2, <3>2, <4>1
    <3> QED BY <2>2, <3>1, <3>2
  <2>4. r <= a
    <3>1. q * b >= 0 /\ q * b \in Int
      BY <2>1, <2>2, <2>3
    <3> QED BY <1>2, <2>2, <3>1
  <2>5. q \in Word /\ r \in Word
    BY <1>1, <1>2, <2>2, <2>3, <2>4 DEF Word
  <2>6. q % Values = q /\ r % Values = r
    BY <2>5, Remainders
  <2>7. CASE op = "divu"
    <3>1. ~Out(op, x, y) /\ Soft(op, x, y) = x \div y
      BY <1>5, <2>7 DEF Out, Soft
    <3> QED BY <1>2, <1>3, <2>1, <2>7, <3>1
  <2>8. CASE op = "remu"
    <3>1. ~Out(op, x, y) /\ Soft(op, x, y) = x % y
      BY <1>5, <2>8 DEF Out, Soft
    <3> QED BY <1>2, <1>3, <2>1, <2>8, <3>1
  <2>9. ASSUME op \in {"div", "rem"}
        PROVE  /\ a = Magn(n) /\ b = Magn(d)
               /\ (Neg(op, x) <=> n < 0) /\ (Neg(op, y) <=> d < 0)
               /\ Quotient(n, d) = IF (n < 0) # (d < 0) THEN -q ELSE q
    BY <1>2, <1>3, <2>1, <2>9 DEF Neg, Quotient
  <2>10. CASE op = "div"
    <3>1. Soft(op, x, y) = Quotient(n, d) % Values
      BY <1>5, <2>10 DEF Soft
    <3>2. Out(op, x, y) <=> (n < 0) # (d < 0)
      BY <1>5, <2>10 DEF Out, Neg
    <3> QED BY <2>6, <2>9, <2>10, <3>1, <3>2 DEF Negated
  <2>11. CASE op = "rem"
    <3>1. Soft(op, x, y) = (n - d * Quotient(n, d)) % Values
      BY <1>5, <2>11 DEF Soft
    <3>2. Out(op, x, y) <=> n < 0
      BY <2>9, <2>11 DEF Out
    <3> HIDE DEF n, d
    <3>3. n - d * Quotient(n, d) = IF n < 0 THEN -r ELSE r
      <4>1. n = (IF n < 0 THEN -a ELSE a) /\ d = (IF d < 0 THEN -b ELSE b)
        BY <1>2, <1>3, <2>9, <2>11 DEF Magn
      <4>2. a - b * q = r /\ -a + b * q = -r
        <5>1. b * q = q * b /\ q * b \in Int
          BY <2>1, <2>2
        <5> QED BY <1>2, <2>2, <5>1
      <4>3. CASE n < 0 /\ d < 0
        <5>1. n = -a /\ d = -b /\ Quotient(n, d) = q
          BY <2>9, <2>11, <4>1, <4>3
        <5>2. -a - (-b) * q = -a + b * q
          BY <1>2, <2>1, <2>2
        <5> QED BY <4>2, <4>3, <5>1, <5>2
      <4>4. CASE n < 0 /\ ~(d < 0)
        <5>1. n = -a /\ d = b /\ Quotient(n, d) = -q
          BY <2>9, <2>11, <4>1, <4>4
        <5>2. -a - b * (-q) = -a + b * q
          BY <1>2, <2>1, <2>2
        <5> QED BY <4>2, <4>4, <5>1, <5>2
      <4>5. CASE ~(n < 0) /\ d < 0
        <5>1. n = a /\ d = -b /\ Quotient(n, d) = -q
          BY <2>9, <2>11, <4>1, <4>5
        <5>2. a - (-b) * (-q) = a - b * q
          BY <1>2, <2>1, <2>2
        <5> QED BY <4>2, <4>5, <5>1, <5>2
      <4>6. CASE ~(n < 0) /\ ~(d < 0)
        <5>1. n = a /\ d = b /\ Quotient(n, d) = q
          BY <2>9, <2>11, <4>1, <4>6
        <5> QED BY <4>2, <4>6, <5>1
      <4> QED BY <4>3, <4>4, <4>5, <4>6
    <3> QED BY <2>6, <2>11, <3>1, <3>2, <3>3 DEF Negated
  <2> QED BY <2>7, <2>8, <2>10, <2>11 DEF DivOps
<1> QED BY <1>4, <1>5

-------------------------------------------------------------------------------
(* The inductive invariant of the units *)

Asked(ops) == pcpi.valid /\ pcpi.insn \in ops

\* The decode registers of a serial unit: at rest it cannot start on what was decoded
\* before; then the instruction is decoded, waited for, and started.
AtRest(u) ==
  IF at = "reset" THEN u.instr = "none"
  ELSE (u.instr # "none" => u.wait) /\ (u.wait => u.wait_q)
Decoding(u) ==
  /\ u.instr = "none" => (u.wait => u.wait_q)
  /\ u.instr # "none" => ~(u.wait /\ u.wait_q)
Started(u) == u.instr # "none" /\ u.wait /\ u.wait_q

LeftOp == Left(pcpi.insn)
RightOp == Right(pcpi.insn)
MulType ==
  mul \in [instr : MulOps \cup {"none"}, wait : BOOLEAN, wait_q : BOOLEAN, waiting : BOOLEAN,
           finish : BOOLEAN, rs1 : Int, rs2 : Int, sum : Int, counter : Int,
           ready : BOOLEAN, rd : Int]
MulRuns ==
  /\ Started(mul) /\ ~mul.waiting /\ ~mul.finish /\ ~mul.ready
  /\ \E j \in 0 .. MulSteps + 1 :
       /\ mul.counter = MulSteps - j
       /\ Summing(LeftOp, RightOp, j, mul.sum, mul.rs1, mul.rs2)
MulEnds ==
  /\ Started(mul) /\ mul.waiting /\ mul.finish /\ ~mul.ready
  /\ Summing(LeftOp, RightOp, MulSteps + 2, mul.sum, mul.rs1, mul.rs2)
MulAnswers ==
  /\ Started(mul) /\ mul.waiting /\ ~mul.finish /\ mul.ready
  /\ mul.rd = Soft(pcpi.insn, pcpi.rs1, pcpi.rs2)
MulRests == mul.waiting /\ ~mul.finish /\ ~mul.ready
SerialInv ==
  /\ MulType
  /\ Asked(MulOps) => /\ mul.instr \in {"none", pcpi.insn}
                      /\ (MulRests /\ Decoding(mul)) \/ MulRuns \/ MulEnds \/ MulAnswers
  /\ ~Asked(MulOps) => MulRests /\ AtRest(mul)

\* The fast multiplier is empty, has the operands, or has their product.
FastType ==
  mul \in [active : BOOLEAN \X BOOLEAN, rs1 : Int, rs2 : Int, product : Int, shift_out : BOOLEAN]
FastInv ==
  /\ FastType
  /\ ~(mul.active[1] /\ mul.active[2])
  /\ ~Asked(MulOps) => ~mul.active[1] /\ ~mul.active[2]
  /\ mul.active[1] => mul.rs1 = LeftOp /\ mul.rs2 = RightOp
  /\ mul.active[2] => /\ mul.product = LeftOp * RightOp
                      /\ mul.shift_out = High(pcpi.insn)

DivType ==
  div \in [instr : DivOps \cup {"none"}, wait : BOOLEAN, wait_q : BOOLEAN, running : BOOLEAN,
           dividend : Int, divisor : Int, quotient : Int, mask : Int, outsign : BOOLEAN,
           ready : BOOLEAN, rd : Int]
DivRuns ==
  /\ Started(div) /\ div.running /\ ~div.ready
  /\ \E i \in 0 .. W : Dividing(Mag(pcpi.insn, pcpi.rs1), Mag(pcpi.insn, pcpi.rs2), i, div)
  /\ div.outsign = Out(pcpi.insn, pcpi.rs1, pcpi.rs2)
DivAnswers ==
  /\ Started(div) /\ ~div.running /\ div.ready
  /\ div.rd = Soft(pcpi.insn, pcpi.rs1, pcpi.rs2)
DivRests == ~div.running /\ ~div.ready
DivInv ==
  /\ DivType
  /\ Asked(DivOps) => /\ div.instr \in {"none", pcpi.insn}
                      /\ (DivRests /\ Decoding(div)) \/ DivRuns \/ DivAnswers
  /\ ~Asked(DivOps) => DivRests /\ AtRest(div)

\* The time-out is never near: it takes an instruction at most two clocks to be waited
\* for or answered.
Age(u) == IF u.instr = "none" THEN 0 ELSE IF ~u.wait THEN 1 ELSE 2
FastAge == IF mul.active[2] THEN 2 ELSE IF mul.active[1] THEN 1 ELSE 0
TimeInv ==
  /\ countdown \in Int /\ ~timeout
  /\ countdown >= MaxTimeout - IF ~pcpi.valid THEN 3
                               ELSE IF pcpi.insn \in DivOps THEN Age(div)
                               ELSE IF fast_mul THEN FastAge ELSE Age(mul)

PortInv ==
  /\ pcpi \in [valid : BOOLEAN, insn : MulOps \cup DivOps, rs1 : Word, rs2 : Word]
  /\ fast_mul \in BOOLEAN
  /\ pcpi.valid => at # "reset"
UnitsInv == PortInv /\ (IF fast_mul THEN FastInv ELSE SerialInv) /\ DivInv /\ TimeInv
MultestInv == (operands # <<>> => operands \in Word \X Word) /\ hard \in Seq(Int)

-------------------------------------------------------------------------------
(* What a clock does to the units *)

LEMMA FieldsOf ==
  ASSUME NEW f, NEW rest
  PROVE  /\ DOMAIN Fields(f, rest) = DOMAIN rest
         /\ \A x \in DOMAIN rest :
              Fields(f, rest)[x] = IF x \in DOMAIN f THEN f[x] ELSE rest[x]
BY DEF Fields

LEMMA SerialClock ==
  ASSUME ~fast_mul, NEW resetn \in BOOLEAN, UnitsClock(resetn)
  PROVE  /\ mul'.instr = IF resetn THEN Offered(MulOps) ELSE "none"
         /\ mul'.wait = (mul.instr # "none")
         /\ mul'.wait_q = mul.wait
         /\ mul'.waiting = MulIterate(resetn).waiting
         /\ mul'.finish = MulIterate(resetn).finish
         /\ mul'.rs1 = MulIterate(resetn).rs1
         /\ mul'.rs2 = MulIterate(resetn).rs2
         /\ mul'.sum = MulIterate(resetn).sum
         /\ mul'.counter = MulIterate(resetn).counter
         /\ mul'.ready = (mul.finish /\ resetn)
         /\ mul'.rd = MulAnswer(resetn).rd
         /\ DOMAIN mul' = DOMAIN MulRest
         /\ mul' = [x \in DOMAIN MulRest |-> mul'[x]]
<1> DEFINE dec == MulDecode(resetn)
           iter == MulIterate(resetn)
           ans == MulAnswer(resetn)
<1>1. mul' = Fields(dec, Fields(iter, Fields(ans, MulRest)))
  BY DEF UnitsClock
<1>2. DOMAIN dec = {"instr", "wait", "wait_q"}
  BY DEF MulDecode
<1>3. DOMAIN iter = {"waiting", "finish", "rs1", "rs2", "sum", "counter"}
  BY DEF MulIterate
<1>4. DOMAIN ans = {"ready", "rd"}
  BY DEF MulAnswer
<1>5. DOMAIN MulRest = {"instr", "wait", "wait_q", "waiting", "finish", "rs1", "rs2", "sum",
                        "counter", "ready", "rd"}
  BY DEF MulRest
<1> HIDE DEF dec, iter, ans
<1>6. DOMAIN mul' = DOMAIN MulRest /\ mul' = [x \in DOMAIN MulRest |-> mul'[x]]
  BY <1>1, FieldsOf DEF Fields
<1>7. /\ mul'.instr = dec.instr /\ mul'.wait = dec.wait /\ mul'.wait_q = dec.wait_q
  BY <1>1, <1>2, <1>5, FieldsOf
<1>8. /\ mul'.waiting = iter.waiting /\ mul'.finish = iter.finish /\ mul'.rs1 = iter.rs1
      /\ mul'.rs2 = iter.rs2 /\ mul'.sum = iter.sum /\ mul'.counter = iter.counter
  BY <1>1, <1>2, <1>3, <1>5, FieldsOf
<1>9. /\ mul'.ready = ans.ready /\ mul'.rd = ans.rd
  BY <1>1, <1>2, <1>3, <1>4, <1>5, FieldsOf
<1>10. /\ dec.instr = IF resetn THEN Offered(MulOps) ELSE "none"
       /\ dec.wait = (mul.instr # "none") /\ dec.wait_q = mul.wait
  BY DEF dec, MulDecode
<1>11. ans.ready = (mul.finish /\ resetn)
  BY DEF ans, MulAnswer
<1> QED BY <1>6, <1>7, <1>8, <1>9, <1>10, <1>11 DEF iter, ans

LEMMA ProductIsSoft ==
  ASSUME pcpi.rs1 \in Word, pcpi.rs2 \in Word, NEW op \in MulOps
  PROVE  /\ Left(op) \in Int /\ Right(op) \in Int
         /\ (IF High(op) THEN Upper(Left(op) * Right(op)) ELSE Lower(Left(op) * Right(op)))
              = Soft(op, pcpi.rs1, pcpi.rs2)
<1>1. /\ pcpi.rs1 \in Int /\ pcpi.rs2 \in Int
      /\ Signed(pcpi.rs1) \in Int /\ Signed(pcpi.rs2) \in Int
  BY Magnitudes
<1>2. op \in {"mul", "mulh", "mulhsu", "mulhu"}
  BY DEF MulOps
<1>3. Left(op) \in Int /\ Right(op) \in Int
  BY <1>1 DEF Left, Right
<1>4. CASE op = "mul"
  <2>1. ~High(op) /\ Left(op) = pcpi.rs1 /\ Right(op) = pcpi.rs2
    BY <1>4 DEF High, Left, Right
  <2>2. Soft(op, pcpi.rs1, pcpi.rs2) = (pcpi.rs1 * pcpi.rs2) % Values
    BY <1>4 DEF Soft
  <2> QED BY <1>3, <2>1, <2>2 DEF Lower
<1>5. CASE op = "mulh"
  <2>1. High(op) /\ Left(op) = Signed(pcpi.rs1) /\ Right(op) = Signed(pcpi.rs2)
    BY <1>2, <1>5 DEF High, Left, Right, MulOps
  <2>2. Soft(op, pcpi.rs1, pcpi.rs2) = Upper(Signed(pcpi.rs1) * Signed(pcpi.rs2))
    BY <1>5 DEF Soft
  <2> QED BY <1>3, <2>1, <2>2
<1>6. CASE op = "mulhsu"
  <2>1. High(op) /\ Left(op) = Signed(pcpi.rs1) /\ Right(op) = pcpi.rs2
    BY <1>2, <1>6 DEF High, Left, Right, MulOps
  <2>2. Soft(op, pcpi.rs1, pcpi.rs2) = Upper(Signed(pcpi.rs1) * pcpi.rs2)
    BY <1>6 DEF Soft
  <2> QED BY <1>3, <2>1, <2>2
<1>7. CASE op = "mulhu"
  <2>1. High(op) /\ Left(op) = pcpi.rs1 /\ Right(op) = pcpi.rs2
    BY <1>2, <1>7 DEF High, Left, Right, MulOps
  <2>2. Soft(op, pcpi.rs1, pcpi.rs2) = Upper(pcpi.rs1 * pcpi.rs2)
    BY <1>7 DEF Soft
  <2> QED BY <1>3, <2>1, <2>2
<1> QED BY <1>2, <1>4, <1>5, <1>6, <1>7

\* While it rests and is not started, the serial multiplier goes on resting.
LEMMA IterateRest ==
  ASSUME NEW resetn \in BOOLEAN, mul.waiting \in BOOLEAN, mul.wait \in BOOLEAN, mul.wait_q \in BOOLEAN,
         ~resetn \/ (mul.waiting /\ ~MulStart), NEW it, it = MulIterate(resetn)
  PROVE  /\ it.waiting = TRUE /\ it.finish = FALSE
         /\ it.waiting \in BOOLEAN /\ it.finish \in BOOLEAN
         /\ it.rs1 = 0 /\ it.rs2 = 0 /\ it.sum = 0 /\ it.counter = 0
<1>1. it = [waiting |-> TRUE, finish |-> FALSE, rs1 |-> 0, rs2 |-> 0, sum |-> 0, counter |-> 0]
  BY DEF MulIterate
<1> QED BY <1>1

LEMMA IterateStart ==
  ASSUME NEW resetn, resetn = TRUE, mul.waiting, MulStart, NEW it, it = MulIterate(resetn)
  PROVE  /\ it.waiting = FALSE /\ it.finish = FALSE
         /\ it.waiting \in BOOLEAN /\ it.finish \in BOOLEAN
         /\ it.rs1 = Left(mul.instr) % Wide /\ it.rs2 = Right(mul.instr) % Wide
         /\ it.sum = 0 /\ it.counter = MulSteps
<1>1. it = [waiting |-> FALSE, finish |-> FALSE, rs1 |-> Left(mul.instr) % Wide,
            rs2 |-> Right(mul.instr) % Wide, sum |-> 0, counter |-> MulSteps]
  BY DEF MulIterate
<1> QED BY <1>1

LEMMA IterateRun ==
  ASSUME NEW resetn, resetn = TRUE, mul.waiting = FALSE, NEW it, it = MulIterate(resetn)
  PROVE  /\ it.waiting = (mul.counter < 0) /\ it.finish = (mul.counter < 0)
         /\ it.rs1 = mul.rs1 \div 2 /\ it.rs2 = (mul.rs2 * 2) % Wide
         /\ it.sum = (mul.sum + (mul.rs1 % 2) * mul.rs2) % Wide /\ it.counter = mul.counter - 1
<1>1. it = [waiting |-> mul.counter < 0, finish |-> mul.counter < 0,
            rs1 |-> mul.rs1 \div 2, rs2 |-> (mul.rs2 * 2) % Wide,
            sum |-> (mul.sum + (mul.rs1 % 2) * mul.rs2) % Wide, counter |-> mul.counter - 1]
  BY DEF MulIterate
<1> QED BY <1>1

LEMMA SerialTypes ==
  ASSUME ~fast_mul, PortInv, MulType, NEW resetn \in BOOLEAN, UnitsClock(resetn)
  PROVE  MulType'
<1>1. /\ mul.instr \in MulOps \cup {"none"} /\ mul.wait \in BOOLEAN /\ mul.wait_q \in BOOLEAN
      /\ mul.waiting \in BOOLEAN /\ mul.finish \in BOOLEAN
      /\ mul.rs1 \in Int /\ mul.rs2 \in Int /\ mul.sum \in Int /\ mul.counter \in Int
  BY DEF MulType
<1>2. Wide \in Nat /\ Wide > 0 /\ Values \in Nat /\ Values > 0 /\ W \in Nat
  BY Sizes, WidthAssumption
<1> DEFINE iter == MulIterate(resetn)
<1> HIDE DEF iter
<1>3. /\ iter.waiting \in BOOLEAN /\ iter.finish \in BOOLEAN
      /\ iter.rs1 \in Int /\ iter.rs2 \in Int /\ iter.sum \in Int /\ iter.counter \in Int
  <2>0. iter = MulIterate(resetn)
    BY DEF iter
  <2>1. CASE ~resetn \/ (mul.waiting /\ ~MulStart)
    <3>1. /\ iter.waiting \in BOOLEAN /\ iter.finish \in BOOLEAN
          /\ iter.rs1 = 0 /\ iter.rs2 = 0 /\ iter.sum = 0 /\ iter.counter = 0
      BY <1>1, <2>0, <2>1, IterateRest
    <3> QED BY <3>1
  <2>2. CASE resetn /\ mul.waiting /\ MulStart
    <3>1. Left(mul.instr) \in Int /\ Right(mul.instr) \in Int
      <4>1. /\ pcpi.rs1 \in Int /\ pcpi.rs2 \in Int
            /\ Signed(pcpi.rs1) \in Int /\ Signed(pcpi.rs2) \in Int
        BY Magnitudes DEF PortInv
      <4> QED BY <4>1 DEF Left, Right
    <3>2. MulSteps \in Int
      BY <1>2 DEF MulSteps
    <3>3. Left(mul.instr) % Wide \in Int /\ Right(mul.instr) % Wide \in Int
      BY <1>2, <3>1
    <3>4. resetn = TRUE
      BY <2>2
    <3>5. /\ iter.waiting \in BOOLEAN /\ iter.finish \in BOOLEAN
          /\ iter.rs1 = Left(mul.instr) % Wide /\ iter.rs2 = Right(mul.instr) % Wide
          /\ iter.sum = 0 /\ iter.counter = MulSteps
      BY <2>0, <2>2, <3>4, IterateStart
    <3> QED BY <3>2, <3>3, <3>5
  <2>3. CASE resetn /\ ~mul.waiting
    <3>1. mul.rs1 \div 2 \in Int /\ mul.rs1 % 2 \in Int
      BY <1>1
    <3>2. (mul.rs2 * 2) \in Int /\ mul.sum + (mul.rs1 % 2) * mul.rs2 \in Int
      BY <1>1, <3>1
    <3>3. (mul.rs2 * 2) % Wide \in Int /\ (mul.sum + (mul.rs1 % 2) * mul.rs2) % Wide \in Int
      BY <1>2, <3>2, DivMod
    <3>4. resetn = TRUE /\ mul.waiting = FALSE
      BY <1>1, <2>3
    <3>5. /\ iter.waiting = (mul.counter < 0) /\ iter.finish = (mul.counter < 0)
          /\ iter.rs1 = mul.rs1 \div 2 /\ iter.rs2 = (mul.rs2 * 2) % Wide
          /\ iter.sum = (mul.sum + (mul.rs1 % 2) * mul.rs2) % Wide
          /\ iter.counter = mul.counter - 1
      BY <2>0, <3>4, IterateRun
    <3> QED BY <1>1, <3>1, <3>3, <3>5
  <2> QED BY <1>1, <2>1, <2>2, <2>3
<1>4. MulAnswer(resetn).rd \in Int
  <2>1. Upper(mul.sum) \in Int /\ Lower(mul.sum) \in Int
    <3>1. mul.sum \div Values \in Int
      BY <1>1, <1>2
    <3> QED BY <1>1, <1>2, <3>1 DEF Upper, Lower
  <2> QED BY <1>1, <2>1 DEF MulAnswer
<1>5. Offered(MulOps) \in MulOps \cup {"none"}
  BY DEF Offered
<1> HIDE DEF MulType
<1>6. mul' = [x \in DOMAIN MulRest |-> mul'[x]]
  BY SerialClock
<1>7. DOMAIN MulRest = {"instr", "wait", "wait_q", "waiting", "finish", "rs1", "rs2", "sum",
                        "counter", "ready", "rd"}
  BY DEF MulRest
<1>8. /\ mul'.instr \in MulOps \cup {"none"} /\ mul'.wait \in BOOLEAN /\ mul'.wait_q \in BOOLEAN
      /\ mul'.waiting \in BOOLEAN /\ mul'.finish \in BOOLEAN
      /\ mul'.rs1 \in Int /\ mul'.rs2 \in Int /\ mul'.sum \in Int /\ mul'.counter \in Int
      /\ mul'.ready \in BOOLEAN /\ mul'.rd \in Int
  BY <1>1, <1>3, <1>4, <1>5, SerialClock DEF iter
<1> QED BY <1>6, <1>7, <1>8 DEF MulType

\* The serial multiplier from one clock to the next: the instruction stays until it is
\* answered, and none follows in the clock of the answer.
LEMMA SerialSteps ==
  ASSUME ~fast_mul, PortInv, SerialInv, UnitsClock(TRUE), at # "reset",
         at' # "reset" \/ pcpi.valid = FALSE,
         \/ pcpi' = pcpi /\ ~(Asked(MulOps) /\ mul.ready)
         \/ pcpi.valid = FALSE
         \/ pcpi'.valid = FALSE /\ (Asked(MulOps) => mul.ready)
  PROVE  SerialInv'
<1> DEFINE iter == MulIterate(TRUE)
<1>0. iter = MulIterate(TRUE)
  OBVIOUS
<1> HIDE DEF iter
<1>1. MulType'
  BY SerialTypes DEF SerialInv
<1>2. /\ mul'.instr = Offered(MulOps) /\ mul'.wait = (mul.instr # "none") /\ mul'.wait_q = mul.wait
      /\ mul'.waiting = iter.waiting /\ mul'.finish = iter.finish
      /\ mul'.rs1 = iter.rs1 /\ mul'.rs2 = iter.rs2
      /\ mul'.sum = iter.sum /\ mul'.counter = iter.counter
      /\ mul'.ready = mul.finish /\ mul'.rd = MulAnswer(TRUE).rd
  <2>1. mul.finish \in BOOLEAN
    BY DEF SerialInv, MulType
  <2> QED BY <2>1, SerialClock DEF iter
<1>3. /\ mul.wait \in BOOLEAN /\ mul.wait_q \in BOOLEAN /\ mul.waiting \in BOOLEAN
      /\ mul.finish \in BOOLEAN /\ mul.ready \in BOOLEAN
  BY DEF SerialInv, MulType
<1>4. ASSUME mul.waiting, ~MulStart PROVE mul'.waiting /\ ~mul'.finish
  <2>1. iter.waiting = TRUE /\ iter.finish = FALSE
    BY <1>0, <1>3, <1>4, IterateRest
  <2> QED BY <1>2, <2>1
<1>5. CASE ~Asked(MulOps)
  <2>1. MulRests /\ AtRest(mul)
    BY <1>5 DEF SerialInv
  <2>2. (mul.instr # "none" => mul.wait) /\ (mul.wait => mul.wait_q)
    BY <2>1 DEF AtRest
  <2>3. ~MulStart /\ mul.waiting /\ ~mul.finish
    BY <1>3, <2>1, <2>2 DEF MulStart, MulRests
  <2>4. MulRests'
    BY <1>2, <1>4, <2>3 DEF MulRests
  <2>5. mul'.instr = "none"
    BY <1>2, <1>5 DEF Offered, Asked
  <2>6. AtRest(mul)' /\ Decoding(mul)'
    BY <1>2, <2>2, <2>5 DEF AtRest, Decoding
  <2> QED BY <1>1, <2>4, <2>5, <2>6 DEF SerialInv
<1>6. CASE Asked(MulOps)
  <2>1. pcpi.valid /\ pcpi.insn \in MulOps /\ mul'.instr = pcpi.insn /\ pcpi.insn # "none"
    BY <1>2, <1>6 DEF Offered, Asked, MulOps
  <2>2. mul.instr \in {"none", pcpi.insn}
    BY <1>6 DEF SerialInv
  <2>3. CASE MulAnswers
    <3>1. ~Asked(MulOps)'
      BY <1>6, <2>3 DEF Asked, MulAnswers
    <3>2. ~MulStart /\ mul.waiting /\ ~mul.finish /\ mul.instr # "none" /\ mul.wait
      BY <2>3 DEF MulAnswers, Started, MulStart
    <3>3. MulRests' /\ AtRest(mul)'
      BY <1>2, <1>4, <2>1, <3>2 DEF MulRests, AtRest
    <3> QED BY <1>1, <3>1, <3>3 DEF SerialInv
  <2>4. ASSUME ~MulAnswers PROVE ~mul.ready
    <3>1. (MulRests /\ Decoding(mul)) \/ MulRuns \/ MulEnds
      BY <1>6, <2>4 DEF SerialInv
    <3> QED BY <3>1 DEF MulRests, MulRuns, MulEnds
  <2>5. ASSUME ~MulAnswers
        PROVE  /\ pcpi' = pcpi /\ Asked(MulOps)'
               /\ LeftOp' = LeftOp /\ RightOp' = RightOp
    <3>1. pcpi' = pcpi
      BY <1>6, <2>1, <2>4, <2>5
    <3> QED BY <1>6, <3>1 DEF Asked, LeftOp, RightOp, Left, Right
  <2>6. LeftOp \in Int /\ RightOp \in Int
    BY <2>1, ProductIsSoft DEF PortInv, LeftOp, RightOp
  <2>7. MulSteps \in Nat /\ (mul.instr = pcpi.insn => MulSteps' = MulSteps /\ MulSteps <= 2 * W - 2)
    <3>1. MulSteps \in Nat /\ MulSteps <= 2 * W - 2
      BY WidthAssumption DEF MulSteps
    <3>2. mul.instr = pcpi.insn => MulSteps' = MulSteps
      BY <2>1 DEF MulSteps, High
    <3> QED BY <3>1, <3>2
  <2>8. CASE MulRests /\ Decoding(mul) /\ ~MulStart /\ ~MulAnswers
    <3>1. MulRests'
      BY <1>2, <1>4, <2>8 DEF MulRests
    <3>2. Decoding(mul)'
      BY <1>2, <1>3, <2>1, <2>8 DEF Decoding, MulStart
    <3> QED BY <1>1, <2>1, <2>5, <2>8, <3>1, <3>2 DEF SerialInv
  <2>9. CASE MulRests /\ Decoding(mul) /\ MulStart /\ ~MulAnswers
    <3>1. mul.instr = pcpi.insn /\ mul.waiting /\ mul.wait
      BY <1>3, <2>2, <2>9 DEF Decoding, MulStart, MulRests
    <3>2. /\ iter.waiting = FALSE /\ iter.finish = FALSE
          /\ iter.rs1 = LeftOp % Wide /\ iter.rs2 = RightOp % Wide
          /\ iter.sum = 0 /\ iter.counter = MulSteps
      BY <1>0, <2>9, <3>1, IterateStart DEF LeftOp, RightOp
    <3>3. /\ ~mul'.waiting /\ ~mul'.finish /\ ~mul'.ready /\ Started(mul)'
          /\ mul'.rs1 = LeftOp % Wide /\ mul'.rs2 = RightOp % Wide /\ mul'.sum = 0
          /\ mul'.counter = MulSteps
      BY <1>2, <2>1, <2>9, <3>1, <3>2 DEF Started, MulRests
    <3>4. Summing(LeftOp, RightOp, 0, mul'.sum, mul'.rs1, mul'.rs2)
      BY <2>6, <3>3, SumStarts
    <3>5. MulRuns'
      <4>1. 0 \in 0 .. MulSteps' + 1 /\ mul'.counter = MulSteps' - 0
        BY <2>7, <3>1, <3>3
      <4>2. Summing(LeftOp', RightOp', 0, mul'.sum, mul'.rs1, mul'.rs2)
        BY <2>5, <2>9, <3>4
      <4> QED BY <3>3, <4>1, <4>2 DEF MulRuns
    <3> QED BY <1>1, <2>1, <2>5, <2>9, <3>5 DEF SerialInv
  <2>10. CASE MulRuns /\ ~MulAnswers
    <3>1. mul.instr = pcpi.insn /\ mul.wait /\ mul.waiting = FALSE /\ ~mul.finish
      BY <1>3, <2>2, <2>10 DEF MulRuns, Started
    <3>2. PICK j \in 0 .. MulSteps + 1 :
            /\ mul.counter = MulSteps - j
            /\ Summing(LeftOp, RightOp, j, mul.sum, mul.rs1, mul.rs2)
      BY <2>10 DEF MulRuns
    <3>3. /\ iter.waiting = (mul.counter < 0) /\ iter.finish = (mul.counter < 0)
          /\ iter.rs1 = mul.rs1 \div 2 /\ iter.rs2 = (mul.rs2 * 2) % Wide
          /\ iter.sum = (mul.sum + (mul.rs1 % 2) * mul.rs2) % Wide
          /\ iter.counter = mul.counter - 1
      BY <1>0, <3>1, IterateRun
    <3>4. /\ mul'.waiting = (mul.counter < 0) /\ mul'.finish = (mul.counter < 0)
          /\ ~mul'.ready /\ Started(mul)'
          /\ mul'.rs1 = mul.rs1 \div 2 /\ mul'.rs2 = (mul.rs2 * 2) % Wide
          /\ mul'.sum = (mul.sum + (mul.rs1 % 2) * mul.rs2) % Wide
          /\ mul'.counter = mul.counter - 1
      BY <1>2, <2>1, <3>1, <3>3 DEF Started
    <3>5. Summing(LeftOp, RightOp, j + 1, mul'.sum, mul'.rs1, mul'.rs2)
      <4>1. j \in 0 .. 2 * W - 1
        BY <2>7, <3>1, WidthAssumption
      <4> QED BY <2>6, <3>2, <3>4, <4>1, SumSteps
    <3>6. Summing(LeftOp', RightOp', j + 1, mul'.sum, mul'.rs1, mul'.rs2)
      BY <2>5, <2>10, <3>5
    <3>7. CASE j = MulSteps + 1
      <4>1. mul.counter < 0 /\ j + 1 = MulSteps' + 2
        BY <2>7, <3>1, <3>2, <3>7
      <4>2. MulEnds'
        BY <3>4, <3>6, <4>1 DEF MulEnds
      <4> QED BY <1>1, <2>1, <2>5, <2>10, <4>2 DEF SerialInv
    <3>8. CASE j # MulSteps + 1
      <4>1. ~(mul.counter < 0) /\ j + 1 \in 0 .. MulSteps' + 1 /\ mul'.counter = MulSteps' - (j + 1)
        BY <2>7, <3>1, <3>2, <3>4, <3>8
      <4>2. MulRuns'
        BY <3>4, <3>6, <4>1 DEF MulRuns
      <4> QED BY <1>1, <2>1, <2>5, <2>10, <4>2 DEF SerialInv
    <3> QED BY <3>7, <3>8
  <2>11. CASE MulEnds /\ ~MulAnswers
    <3>1. mul.instr = pcpi.insn /\ mul.wait /\ mul.wait_q /\ mul.waiting /\ mul.finish
      BY <2>2, <2>11 DEF MulEnds, Started
    <3>2. mul'.waiting /\ ~mul'.finish /\ mul'.ready /\ Started(mul)'
      BY <1>2, <1>4, <2>1, <3>1 DEF MulStart, Started
    <3>3. MulAnswer(TRUE).rd = IF High(mul.instr) THEN Upper(mul.sum) ELSE Lower(mul.sum)
      BY <3>1 DEF MulAnswer
    <3>4. Summing(LeftOp, RightOp, MulSteps + 2, mul.sum, mul.rs1, mul.rs2)
      BY <2>11 DEF MulEnds
    <3>5. /\ MulSteps + 2 \in Nat
          /\ High(pcpi.insn) => MulSteps + 2 = 2 * W
          /\ ~High(pcpi.insn) => MulSteps + 2 = W
      BY <2>7, <3>1, WidthAssumption DEF MulSteps
    <3>6. /\ High(pcpi.insn) => Upper(mul.sum) = Upper(LeftOp * RightOp)
          /\ ~High(pcpi.insn) => Lower(mul.sum) = Lower(LeftOp * RightOp)
      BY <2>6, <3>4, <3>5, SumEnds
    <3>7. mul'.rd = Soft(pcpi.insn, pcpi.rs1, pcpi.rs2)
      <4>1. (IF High(pcpi.insn) THEN Upper(LeftOp * RightOp)
             ELSE Lower(LeftOp * RightOp)) = Soft(pcpi.insn, pcpi.rs1, pcpi.rs2)
        BY <2>1, ProductIsSoft DEF PortInv, LeftOp, RightOp
      <4> QED BY <1>2, <3>1, <3>3, <3>6, <4>1
    <3>8. MulAnswers'
      BY <2>5, <2>11, <3>2, <3>7 DEF MulAnswers
    <3> QED BY <1>1, <2>1, <2>5, <2>11, <3>8 DEF SerialInv
  <2>12. (MulRests /\ Decoding(mul)) \/ MulRuns \/ MulEnds \/ MulAnswers
    BY <1>6 DEF SerialInv
  <2> QED BY <2>3, <2>8, <2>9, <2>10, <2>11, <2>12
<1> QED BY <1>5, <1>6

\* A reset of two clocks leaves nothing behind.
LEMMA SerialReset ==
  ASSUME ~fast_mul, PortInv, SerialInv, UnitsClock(FALSE), pcpi'.valid = FALSE,
         at' = "reset" \/ at = "reset"
  PROVE  SerialInv'
<1>1. MulType'
  BY SerialTypes DEF SerialInv
<1> DEFINE iter == MulIterate(FALSE)
<1>2. iter = MulIterate(FALSE)
  OBVIOUS
<1> HIDE DEF iter
<1>3. /\ mul'.instr = "none" /\ mul'.wait = (mul.instr # "none") /\ mul'.wait_q = mul.wait
      /\ mul'.waiting = iter.waiting /\ mul'.finish = iter.finish /\ ~mul'.ready
  BY SerialClock DEF iter
<1>4. iter.waiting = TRUE /\ iter.finish = FALSE
  BY <1>2, IterateRest DEF SerialInv, MulType
<1>5. ~Asked(MulOps)' /\ MulRests'
  BY <1>3, <1>4 DEF Asked, MulRests
<1>6. ASSUME at = "reset" PROVE ~mul'.wait
  <2>1. ~Asked(MulOps)
    BY <1>6 DEF PortInv, Asked
  <2>2. AtRest(mul)
    BY <2>1 DEF SerialInv
  <2> QED BY <1>3, <1>6, <2>2 DEF AtRest
<1>7. AtRest(mul)'
  <2>1. CASE at' = "reset"
    BY <1>3, <2>1 DEF AtRest
  <2>2. CASE at = "reset"
    BY <1>3, <1>6, <2>2 DEF AtRest
  <2> QED BY <2>1, <2>2
<1> QED BY <1>1, <1>5, <1>7 DEF SerialInv

\* The fast multiplier from one clock to the next.
LEMMA FastClock ==
  ASSUME fast_mul, PortInv, FastType, NEW resetn \in BOOLEAN, UnitsClock(resetn)
  PROVE  /\ FastType'
         /\ mul'.active[1] = (resetn /\ FastLoads(IF resetn THEN Offered(MulOps) ELSE "none"))
         /\ mul'.active[2] = (resetn /\ mul.active[1])
         /\ resetn /\ FastLoads(Offered(MulOps)) =>
              mul'.rs1 = Left(Offered(MulOps)) /\ mul'.rs2 = Right(Offered(MulOps))
         /\ mul'.product = mul.rs1 * mul.rs2
         /\ resetn => mul'.shift_out = High(Offered(MulOps))
<1> DEFINE op == IF resetn THEN Offered(MulOps) ELSE "none"
           x == IF FastLoads(op) THEN Left(op) ELSE 0
           y == IF FastLoads(op) THEN Right(op) ELSE 0
           a == IF resetn THEN <<FastLoads(op), mul.active[1]>> ELSE <<FALSE, FALSE>>
           p == mul.rs1 * mul.rs2
           h == High(op)
<1>1. mul' = [active |-> a, rs1 |-> x, rs2 |-> y, product |-> p, shift_out |-> h]
  BY DEF UnitsClock, FastStep
<1>2. FastLoads(op) => Left(op) \in Int /\ Right(op) \in Int
  <2>1. FastLoads(op) => op \in MulOps
    BY DEF FastLoads, Offered
  <2> QED BY <2>1, ProductIsSoft DEF PortInv
<1>3. x \in Int /\ y \in Int /\ p \in Int /\ h \in BOOLEAN
  <2>1. x \in Int /\ y \in Int
    BY <1>2
  <2>2. p \in Int /\ h \in BOOLEAN
    BY DEF FastType, High
  <2> QED BY <2>1, <2>2
<1>4. /\ a \in BOOLEAN \X BOOLEAN
      /\ a[1] = (resetn /\ FastLoads(op)) /\ a[2] = (resetn /\ mul.active[1])
  <2>1. mul.active[1] \in BOOLEAN /\ FastLoads(op) \in BOOLEAN
    BY DEF FastType, FastLoads
  <2> QED BY <2>1
<1>5. /\ resetn /\ FastLoads(Offered(MulOps)) =>
            x = Left(Offered(MulOps)) /\ y = Right(Offered(MulOps))
      /\ resetn => h = High(Offered(MulOps))
  OBVIOUS
<1>6. /\ a[1] = (resetn /\ FastLoads(IF resetn THEN Offered(MulOps) ELSE "none"))
      /\ p = mul.rs1 * mul.rs2
  BY <1>4
<1> HIDE DEF x, y, a, p, h
<1>7. /\ mul'.active = a /\ mul'.rs1 = x /\ mul'.rs2 = y /\ mul'.product = p /\ mul'.shift_out = h
      /\ FastType'
  BY <1>1, <1>3, <1>4 DEF FastType
<1> QED BY <1>4, <1>5, <1>6, <1>7

\* A clock without reset: the operands, then their product.
LEMMA FastLoad ==
  ASSUME fast_mul, PortInv, FastInv, UnitsClock(TRUE)
  PROVE  /\ FastType'
         /\ mul'.active[1] <=> Asked(MulOps) /\ ~mul.active[1] /\ ~mul.active[2]
         /\ mul'.active[2] = mul.active[1]
         /\ mul'.active[1] =>
              mul'.rs1 = Left(Offered(MulOps)) /\ mul'.rs2 = Right(Offered(MulOps))
         /\ mul'.product = mul.rs1 * mul.rs2 /\ mul'.shift_out = High(Offered(MulOps))
         /\ mul.active[1] \in BOOLEAN /\ mul.active[2] \in BOOLEAN
<1>1. /\ FastType'
      /\ mul'.active[1] = FastLoads(Offered(MulOps)) /\ mul'.active[2] = mul.active[1]
      /\ FastLoads(Offered(MulOps)) =>
           mul'.rs1 = Left(Offered(MulOps)) /\ mul'.rs2 = Right(Offered(MulOps))
      /\ mul'.product = mul.rs1 * mul.rs2 /\ mul'.shift_out = High(Offered(MulOps))
  <2>1. FastLoads(Offered(MulOps)) \in BOOLEAN /\ mul.active[1] \in BOOLEAN
    BY DEF FastLoads, FastInv, FastType
  <2>2. \A r \in BOOLEAN : r = TRUE /\ UnitsClock(r) =>
          /\ FastType'
          /\ mul'.active[1] = FastLoads(Offered(MulOps)) /\ mul'.active[2] = mul.active[1]
          /\ FastLoads(Offered(MulOps)) =>
               mul'.rs1 = Left(Offered(MulOps)) /\ mul'.rs2 = Right(Offered(MulOps))
          /\ mul'.product = mul.rs1 * mul.rs2 /\ mul'.shift_out = High(Offered(MulOps))
    <3> TAKE r \in BOOLEAN
    <3> HAVE r = TRUE /\ UnitsClock(r)
    <3>1. UnitsClock(r) /\ FastType
      BY DEF FastInv
    <3>2. /\ FastType'
          /\ mul'.active[1] = (r /\ FastLoads(IF r THEN Offered(MulOps) ELSE "none"))
          /\ mul'.active[2] = (r /\ mul.active[1])
          /\ r /\ FastLoads(Offered(MulOps)) =>
               mul'.rs1 = Left(Offered(MulOps)) /\ mul'.rs2 = Right(Offered(MulOps))
          /\ mul'.product = mul.rs1 * mul.rs2
          /\ r => mul'.shift_out = High(Offered(MulOps))
      BY <3>1, FastClock
    <3> QED BY <2>1, <3>2
  <2> QED BY <2>2
<1>2. mul.active[1] \in BOOLEAN /\ mul.active[2] \in BOOLEAN /\ mul.active \in BOOLEAN \X BOOLEAN
  BY DEF FastInv, FastType
<1>3. FastLoads(Offered(MulOps)) <=> Asked(MulOps) /\ ~mul.active[1] /\ ~mul.active[2]
  <2>1. mul.active = <<FALSE, FALSE>> <=> ~mul.active[1] /\ ~mul.active[2]
    <3>1. mul.active = <<mul.active[1], mul.active[2]>>
      BY <1>2
    <3>2. ASSUME ~mul.active[1], ~mul.active[2] PROVE mul.active = <<FALSE, FALSE>>
      <4>1. mul.active[1] = FALSE /\ mul.active[2] = FALSE
        BY <1>2, <3>2
      <4> QED BY <3>1, <4>1, Zenon
    <3>3. ASSUME mul.active = <<FALSE, FALSE>> PROVE ~mul.active[1] /\ ~mul.active[2]
      BY <3>3
    <3> QED BY <3>2, <3>3
  <2>2. Offered(MulOps) # "none" <=> Asked(MulOps)
    BY DEF Offered, Asked, MulOps
  <2> QED BY <2>1, <2>2 DEF FastLoads
<1> QED BY <1>1, <1>2, <1>3

LEMMA FastSteps ==
  ASSUME fast_mul, PortInv, FastInv, UnitsClock(TRUE),
         \/ pcpi' = pcpi /\ ~(Asked(MulOps) /\ mul.active[2])
         \/ pcpi.valid = FALSE
         \/ pcpi'.valid = FALSE /\ (Asked(MulOps) => mul.active[2])
  PROVE  FastInv'
<1>1. /\ FastType'
      /\ mul'.active[1] <=> Asked(MulOps) /\ ~mul.active[1] /\ ~mul.active[2]
      /\ mul'.active[2] = mul.active[1]
      /\ mul'.active[1] =>
           mul'.rs1 = Left(Offered(MulOps)) /\ mul'.rs2 = Right(Offered(MulOps))
      /\ mul'.product = mul.rs1 * mul.rs2 /\ mul'.shift_out = High(Offered(MulOps))
      /\ mul.active[1] \in BOOLEAN /\ mul.active[2] \in BOOLEAN
  BY FastLoad
<1>4. CASE ~Asked(MulOps)
  BY <1>1, <1>4 DEF FastInv
<1>5. CASE Asked(MulOps) /\ mul.active[2]
  <2>1. ~Asked(MulOps)' /\ ~mul.active[1]
    BY <1>1, <1>5 DEF Asked, FastInv
  <2> QED BY <1>1, <1>5, <2>1 DEF FastInv
<1>6. CASE Asked(MulOps) /\ ~mul.active[2]
  <2>1. pcpi' = pcpi /\ Offered(MulOps) = pcpi.insn
    BY <1>6 DEF Asked, Offered
  <2>2. LeftOp' = LeftOp /\ RightOp' = RightOp /\ pcpi'.insn = pcpi.insn /\ Asked(MulOps)'
    BY <1>6, <2>1 DEF LeftOp, RightOp, Left, Right, Asked
  <2>3. mul'.active[1] => mul'.rs1 = LeftOp' /\ mul'.rs2 = RightOp'
    BY <1>1, <2>1, <2>2 DEF LeftOp, RightOp
  <2>4. mul'.active[2] => mul'.product = LeftOp' * RightOp' /\ mul'.shift_out = High(pcpi.insn)'
    <3>1. mul.active[1] => mul.rs1 = LeftOp /\ mul.rs2 = RightOp
      BY DEF FastInv
    <3>2. High(pcpi.insn)' = High(pcpi.insn)
      BY <2>2 DEF High
    <3> QED BY <1>1, <2>1, <2>2, <3>1, <3>2
  <2>5. ~(mul'.active[1] /\ mul'.active[2])
    BY <1>1
  <2> QED BY <1>1, <2>2, <2>3, <2>4, <2>5 DEF FastInv
<1> QED BY <1>1, <1>4, <1>5, <1>6

LEMMA FastReset ==
  ASSUME fast_mul, PortInv, FastInv, UnitsClock(FALSE), pcpi'.valid = FALSE
  PROVE  FastInv'
<1>1. FastType' /\ ~mul'.active[1] /\ ~mul'.active[2]
  <2>1. \A r \in BOOLEAN : r = FALSE /\ UnitsClock(r) =>
          FastType' /\ ~mul'.active[1] /\ ~mul'.active[2]
    BY FastClock DEF FastInv
  <2> QED BY <2>1
<1>2. ~Asked(MulOps)'
  BY DEF Asked
<1> QED BY <1>1, <1>2 DEF FastInv

-------------------------------------------------------------------------------
(* The divider from one clock to the next *)

LEMMA DivClock ==
  ASSUME NEW resetn \in BOOLEAN, UnitsClock(resetn), NEW iter, iter = DivIterate(resetn),
         {"instr", "wait", "wait_q"} \cap DOMAIN iter = {}
  PROVE  /\ div'.instr = IF resetn /\ ~div.ready THEN Offered(DivOps) ELSE "none"
         /\ div'.wait = (resetn /\ div.instr # "none")
         /\ div'.wait_q = (resetn /\ div.wait)
         /\ \A x \in {"running", "dividend", "divisor", "quotient", "mask", "outsign", "ready",
                      "rd"} : div'[x] = IF x \in DOMAIN iter THEN iter[x] ELSE DivRest[x]
         /\ DOMAIN div' = DOMAIN DivRest
         /\ div' = [x \in DOMAIN DivRest |-> div'[x]]
<1> DEFINE dec == DivDecode(resetn)
<1>1. div' = Fields(dec, Fields(iter, DivRest))
  BY DEF UnitsClock
<1>2. DOMAIN dec = {"instr", "wait", "wait_q"}
  BY DEF DivDecode
<1>3. DOMAIN DivRest = {"instr", "wait", "wait_q", "running", "dividend", "divisor", "quotient",
                        "mask", "outsign", "ready", "rd"}
  BY DEF DivRest
<1>4. /\ dec.instr = IF resetn /\ ~div.ready THEN Offered(DivOps) ELSE "none"
      /\ dec.wait = (resetn /\ div.instr # "none") /\ dec.wait_q = (resetn /\ div.wait)
  BY DEF DivDecode
<1> HIDE DEF dec
<1>5. DOMAIN div' = DOMAIN DivRest /\ div' = [x \in DOMAIN DivRest |-> div'[x]]
  BY <1>1, FieldsOf DEF Fields
<1>6. /\ div'.instr = dec.instr /\ div'.wait = dec.wait /\ div'.wait_q = dec.wait_q
  BY <1>1, <1>2, <1>3, FieldsOf
<1>7. \A x \in {"running", "dividend", "divisor", "quotient", "mask", "outsign", "ready", "rd"} :
        div'[x] = IF x \in DOMAIN iter THEN iter[x] ELSE DivRest[x]
  <2> TAKE x \in {"running", "dividend", "divisor", "quotient", "mask", "outsign", "ready", "rd"}
  <2>1. x \in DOMAIN DivRest /\ x \notin DOMAIN dec
    BY <1>2, <1>3
  <2> QED BY <1>1, <2>1, FieldsOf
<1> QED BY <1>4, <1>5, <1>6, <1>7

LEMMA DivIterates ==
  ASSUME NEW resetn \in BOOLEAN, UnitsClock(resetn), DivType
  PROVE  /\ div'.instr = IF resetn /\ ~div.ready THEN Offered(DivOps) ELSE "none"
         /\ div'.wait = (resetn /\ div.instr # "none")
         /\ div'.wait_q = (resetn /\ div.wait)
         /\ ~resetn \/ (~DivStart /\ ~div.running) =>
              /\ div'.running = FALSE /\ div'.ready = FALSE /\ div'.rd = 0 /\ div'.dividend = 0
              /\ div'.divisor = 0 /\ div'.quotient = 0 /\ div'.mask = 0 /\ div'.outsign = FALSE
         /\ resetn /\ DivStart =>
              /\ div'.running = TRUE /\ div'.ready = FALSE /\ div'.rd = 0
              /\ div'.dividend = DivLoad.dividend /\ div'.divisor = DivLoad.divisor
              /\ div'.quotient = 0 /\ div'.mask = Top /\ div'.outsign = DivLoad.outsign
         /\ resetn /\ ~DivStart /\ div.running /\ div.mask = 0 =>
              /\ div'.running = FALSE /\ div'.ready = TRUE /\ div'.rd = DivStop.rd
              /\ div'.dividend = 0 /\ div'.divisor = 0 /\ div'.quotient = 0 /\ div'.mask = 0
              /\ div'.outsign = FALSE
         /\ resetn /\ ~DivStart /\ div.running /\ div.mask # 0 =>
              /\ div'.running = TRUE /\ div'.ready = FALSE /\ div'.rd = 0
              /\ div'.dividend = DivShift.dividend /\ div'.divisor = div.divisor \div 2
              /\ div'.quotient = DivShift.quotient /\ div'.mask = div.mask \div 2
              /\ div'.outsign = div.outsign
         /\ DOMAIN div' = DOMAIN DivRest /\ div' = [x \in DOMAIN DivRest |-> div'[x]]
<1> DEFINE iter == DivIterate(resetn)
           all == {"running", "dividend", "divisor", "quotient", "mask", "outsign", "ready", "rd"}
<1>0. iter = DivIterate(resetn)
  OBVIOUS
<1> HIDE DEF iter
<1>1. div.running \in BOOLEAN /\ DivStart \in BOOLEAN
  BY DEF DivType, DivStart
<1>2. CASE ~resetn \/ (~DivStart /\ ~div.running)
  <2>1. iter = [running |-> FALSE, ready |-> FALSE, rd |-> 0]
    BY <1>0, <1>1, <1>2 DEF DivIterate
  <2>2. DOMAIN iter = {"running", "ready", "rd"} /\ ~iter.running /\ ~iter.ready /\ iter.rd = 0
        /\ iter.running = FALSE /\ iter.ready = FALSE
    BY <2>1
  <2>3. {"instr", "wait", "wait_q"} \cap DOMAIN iter = {}
    BY <2>2
  <2>4. /\ \A x \in all : div'[x] = IF x \in DOMAIN iter THEN iter[x] ELSE DivRest[x]
        /\ DivRest.dividend = 0 /\ DivRest.divisor = 0 /\ DivRest.quotient = 0
        /\ DivRest.mask = 0 /\ DivRest.outsign = FALSE
    BY <1>0, <2>3, DivClock DEF DivRest
  <2>5. /\ div'.running = FALSE /\ div'.ready = FALSE /\ div'.rd = 0 /\ div'.dividend = 0
        /\ div'.divisor = 0 /\ div'.quotient = 0 /\ div'.mask = 0 /\ div'.outsign = FALSE
    BY <2>2, <2>4
  <2> QED BY <1>0, <1>2, <2>3, <2>5, DivClock
<1>3. CASE resetn /\ DivStart
  <2>1. iter = DivLoad
    BY <1>0, <1>3 DEF DivIterate
  <2>2. DOMAIN iter = all /\ iter.running = TRUE /\ iter.ready = FALSE /\ iter.rd = 0
        /\ iter.quotient = 0 /\ iter.mask = Top
    BY <2>1 DEF DivLoad
  <2>3. {"instr", "wait", "wait_q"} \cap DOMAIN iter = {}
    BY <2>2
  <2>4. \A x \in all : div'[x] = iter[x]
    BY <1>0, <2>2, <2>3, DivClock
  <2>5. /\ div'.running = TRUE /\ div'.ready = FALSE /\ div'.rd = 0
        /\ div'.dividend = DivLoad.dividend /\ div'.divisor = DivLoad.divisor
        /\ div'.quotient = 0 /\ div'.mask = Top /\ div'.outsign = DivLoad.outsign
    BY <2>1, <2>2, <2>4
  <2> QED BY <1>0, <1>3, <2>3, <2>5, DivClock
<1>4. CASE resetn /\ ~DivStart /\ div.running /\ div.mask = 0
  <2>1. iter = DivStop
    BY <1>0, <1>4 DEF DivIterate
  <2>2. DOMAIN iter = all /\ iter.running = FALSE /\ iter.ready = TRUE /\ iter.dividend = 0
        /\ iter.divisor = 0 /\ iter.quotient = 0 /\ iter.mask = 0 /\ iter.outsign = FALSE
    BY <2>1 DEF DivStop
  <2>3. {"instr", "wait", "wait_q"} \cap DOMAIN iter = {}
    BY <2>2
  <2>4. \A x \in all : div'[x] = iter[x]
    BY <1>0, <2>2, <2>3, DivClock
  <2>5. /\ div'.running = FALSE /\ div'.ready = TRUE /\ div'.rd = DivStop.rd
        /\ div'.dividend = 0 /\ div'.divisor = 0 /\ div'.quotient = 0 /\ div'.mask = 0
        /\ div'.outsign = FALSE
    BY <2>1, <2>2, <2>4
  <2> QED BY <1>0, <1>4, <2>3, <2>5, DivClock
<1>5. CASE resetn /\ ~DivStart /\ div.running /\ div.mask # 0
  <2>1. iter = DivShift
    BY <1>0, <1>5 DEF DivIterate
  <2>2. DOMAIN iter = all /\ iter.running = TRUE /\ iter.ready = FALSE /\ iter.rd = 0
        /\ iter.divisor = div.divisor \div 2 /\ iter.mask = div.mask \div 2
        /\ iter.outsign = div.outsign
    BY <2>1 DEF DivShift
  <2>3. {"instr", "wait", "wait_q"} \cap DOMAIN iter = {}
    BY <2>2
  <2>4. \A x \in all : div'[x] = iter[x]
    BY <1>0, <2>2, <2>3, DivClock
  <2>5. /\ div'.running = TRUE /\ div'.ready = FALSE /\ div'.rd = 0
        /\ div'.dividend = DivShift.dividend /\ div'.divisor = div.divisor \div 2
        /\ div'.quotient = DivShift.quotient /\ div'.mask = div.mask \div 2
        /\ div'.outsign = div.outsign
    BY <2>1, <2>2, <2>4
  <2> QED BY <1>0, <1>5, <2>3, <2>5, DivClock
<1> QED BY <1>1, <1>2, <1>3, <1>4, <1>5

LEMMA Signs ==
  ASSUME PortInv
  PROVE  /\ pcpi.rs1 \in Word /\ pcpi.rs2 \in Word
         /\ Negative(pcpi.rs1) = Neg(div.instr, pcpi.rs1)
         /\ Negative(pcpi.rs2) = Neg(div.instr, pcpi.rs2)
         /\ DivLoad.dividend = Mag(div.instr, pcpi.rs1)
         /\ DivLoad.divisor = Mag(div.instr, pcpi.rs2) * Top
         /\ DivLoad.outsign = Out(div.instr, pcpi.rs1, pcpi.rs2)
<1>1. pcpi.rs1 \in Word /\ pcpi.rs2 \in Word
  BY DEF PortInv
<1>2. /\ Negative(pcpi.rs1) = Neg(div.instr, pcpi.rs1)
      /\ Negative(pcpi.rs2) = Neg(div.instr, pcpi.rs2)
  BY DEF Negative, Neg
<1>3. /\ Magnitude(pcpi.rs1) = Mag(div.instr, pcpi.rs1)
      /\ Magnitude(pcpi.rs2) = Mag(div.instr, pcpi.rs2)
  BY <1>2 DEF Magnitude, Mag
<1>4. OutSign = Out(div.instr, pcpi.rs1, pcpi.rs2)
  BY <1>2 DEF OutSign, Out
<1> QED BY <1>1, <1>2, <1>3, <1>4 DEF DivLoad

LEMMA DivTypes ==
  ASSUME PortInv, DivType, NEW resetn \in BOOLEAN, UnitsClock(resetn)
  PROVE  DivType'
<1>1. /\ div.instr \in DivOps \cup {"none"} /\ div.wait \in BOOLEAN /\ div.wait_q \in BOOLEAN
      /\ div.running \in BOOLEAN /\ div.dividend \in Int /\ div.divisor \in Int
      /\ div.quotient \in Int /\ div.mask \in Int /\ div.outsign \in BOOLEAN
      /\ div.ready \in BOOLEAN /\ div.rd \in Int
  BY DEF DivType
<1>2. Values \in Nat /\ Values > 0 /\ Top \in Nat
  BY Sizes
<1>3. Offered(DivOps) \in DivOps \cup {"none"}
  BY DEF Offered
<1>4. /\ div'.instr \in DivOps \cup {"none"} /\ div'.wait \in BOOLEAN /\ div'.wait_q \in BOOLEAN
  BY <1>1, <1>3, DivIterates
<1>5. /\ div'.running \in BOOLEAN /\ div'.dividend \in Int /\ div'.divisor \in Int
      /\ div'.quotient \in Int /\ div'.mask \in Int /\ div'.outsign \in BOOLEAN
      /\ div'.ready \in BOOLEAN /\ div'.rd \in Int
  <2>1. CASE ~resetn \/ (~DivStart /\ ~div.running)
    <3>1. /\ div'.running = FALSE /\ div'.ready = FALSE /\ div'.rd = 0 /\ div'.dividend = 0
          /\ div'.divisor = 0 /\ div'.quotient = 0 /\ div'.mask = 0 /\ div'.outsign = FALSE
      BY <2>1, DivIterates
    <3>2. div'.running \in BOOLEAN /\ div'.ready \in BOOLEAN /\ div'.outsign \in BOOLEAN
      BY <3>1, Zenon
    <3> QED BY <3>1, <3>2
  <2>2. CASE resetn /\ DivStart
    <3>1. /\ div'.running = TRUE /\ div'.ready = FALSE /\ div'.rd = 0
          /\ div'.dividend = DivLoad.dividend /\ div'.divisor = DivLoad.divisor
          /\ div'.quotient = 0 /\ div'.mask = Top /\ div'.outsign = DivLoad.outsign
      BY <2>2, DivIterates
    <3>2. DivLoad.dividend \in Int /\ DivLoad.divisor \in Int
      <4>1. Mag(div.instr, pcpi.rs1) \in Nat /\ Mag(div.instr, pcpi.rs2) \in Nat
        BY Signs, Magnitudes
      <4>2. Mag(div.instr, pcpi.rs2) * Top \in Int
        BY <1>2, <4>1
      <4> QED BY <4>1, <4>2, Signs
    <3>3. DivLoad.outsign \in BOOLEAN
      <4>1. Out(div.instr, pcpi.rs1, pcpi.rs2) \in BOOLEAN
        BY DEF Out
      <4> QED BY <4>1, Signs
    <3>4. div'.running \in BOOLEAN /\ div'.ready \in BOOLEAN /\ div'.outsign \in BOOLEAN
      BY <3>1, <3>3, Zenon
    <3> QED BY <1>2, <3>1, <3>2, <3>4
  <2>3. CASE resetn /\ ~DivStart /\ div.running /\ div.mask = 0
    <3>1. /\ div'.running = FALSE /\ div'.ready = TRUE /\ div'.rd = DivStop.rd
          /\ div'.dividend = 0 /\ div'.divisor = 0 /\ div'.quotient = 0 /\ div'.mask = 0
          /\ div'.outsign = FALSE
      BY <2>3, DivIterates
    <3>2. \A x \in Int : Negated(x) \in Int
      BY <1>2 DEF Negated
    <3>3. DivStop.rd \in Int
      BY <1>1, <3>2 DEF DivStop
    <3>4. div'.running \in BOOLEAN /\ div'.ready \in BOOLEAN /\ div'.outsign \in BOOLEAN
      BY <3>1, Zenon
    <3> QED BY <3>1, <3>3, <3>4
  <2>4. CASE resetn /\ ~DivStart /\ div.running /\ div.mask # 0
    <3>1. /\ div'.running = TRUE /\ div'.ready = FALSE /\ div'.rd = 0
          /\ div'.dividend = DivShift.dividend /\ div'.divisor = div.divisor \div 2
          /\ div'.quotient = DivShift.quotient /\ div'.mask = div.mask \div 2
          /\ div'.outsign = div.outsign
      BY <2>4, DivIterates
    <3>2. DivShift.dividend \in Int /\ DivShift.quotient \in Int
      BY <1>1 DEF DivShift
    <3>3. div.divisor \div 2 \in Int /\ div.mask \div 2 \in Int
      BY <1>1
    <3>4. div'.running \in BOOLEAN /\ div'.ready \in BOOLEAN /\ div'.outsign \in BOOLEAN
      BY <1>1, <3>1, Zenon
    <3> QED BY <1>1, <3>1, <3>2, <3>3, <3>4
  <2> QED BY <1>1, <2>1, <2>2, <2>3, <2>4
<1>6. div' = [x \in DOMAIN DivRest |-> div'[x]]
  BY DivIterates
<1>7. DOMAIN DivRest = {"instr", "wait", "wait_q", "running", "dividend", "divisor", "quotient",
                        "mask", "outsign", "ready", "rd"}
  BY DEF DivRest
<1> QED BY <1>4, <1>5, <1>6, <1>7 DEF DivType

\* The divider from one clock to the next, as for the serial multiplier.
LEMMA DivSteps ==
  ASSUME PortInv, DivInv, UnitsClock(TRUE), at # "reset",
         \/ pcpi' = pcpi /\ ~(Asked(DivOps) /\ div.ready)
         \/ pcpi.valid = FALSE
         \/ pcpi'.valid = FALSE /\ (Asked(DivOps) => div.ready)
  PROVE  DivInv'
<1>1. DivType' /\ DivType
  BY DivTypes DEF DivInv
<1>2. /\ div'.instr = (IF ~div.ready THEN Offered(DivOps) ELSE "none")
      /\ div'.wait = (div.instr # "none") /\ div'.wait_q = div.wait
  <2>1. div.wait \in BOOLEAN
    BY <1>1 DEF DivType
  <2> QED BY <1>1, <2>1, DivIterates
<1>3. /\ div.wait \in BOOLEAN /\ div.wait_q \in BOOLEAN /\ div.running \in BOOLEAN
      /\ div.ready \in BOOLEAN
  BY <1>1 DEF DivType
<1>4. ASSUME ~DivStart, ~div.running PROVE DivRests'
  <2>1. div'.running = FALSE /\ div'.ready = FALSE
    BY <1>1, <1>4, DivIterates
  <2> QED BY <2>1 DEF DivRests
<1>5. CASE ~Asked(DivOps)
  <2>1. DivRests /\ AtRest(div)
    BY <1>5 DEF DivInv
  <2>2. (div.instr # "none" => div.wait) /\ (div.wait => div.wait_q)
    BY <2>1 DEF AtRest
  <2>3. ~DivStart /\ ~div.running
    BY <1>3, <2>1, <2>2 DEF DivStart, DivRests
  <2>4. DivRests'
    BY <1>4, <2>3
  <2>5. div'.instr = "none"
    BY <1>2, <1>5 DEF Offered, Asked
  <2>6. AtRest(div)' /\ Decoding(div)'
    BY <1>2, <2>2, <2>5 DEF AtRest, Decoding
  <2> QED BY <1>1, <2>4, <2>5, <2>6 DEF DivInv
<1>6. CASE Asked(DivOps)
  <2>1. pcpi.valid /\ pcpi.insn \in DivOps /\ pcpi.insn # "none" /\ Offered(DivOps) = pcpi.insn
    BY <1>6 DEF Offered, Asked, DivOps
  <2>2. div.instr \in {"none", pcpi.insn}
    BY <1>6 DEF DivInv
  <2>3. CASE DivAnswers
    <3>1. ~Asked(DivOps)'
      BY <1>6, <2>3 DEF Asked, DivAnswers
    <3>2. ~DivStart /\ ~div.running /\ div.instr # "none" /\ div.wait /\ div.ready
      BY <2>3 DEF DivAnswers, Started, DivStart
    <3>3. DivRests' /\ AtRest(div)'
      BY <1>2, <1>4, <3>2 DEF AtRest
    <3> QED BY <1>1, <3>1, <3>3 DEF DivInv
  <2>4. ASSUME ~DivAnswers
        PROVE  ~div.ready /\ pcpi' = pcpi /\ Asked(DivOps)' /\ div'.instr = pcpi.insn
    <3>1. (DivRests /\ Decoding(div)) \/ DivRuns
      BY <1>6, <2>4 DEF DivInv
    <3>2. ~div.ready
      BY <3>1 DEF DivRests, DivRuns
    <3>3. pcpi' = pcpi
      BY <1>6, <2>1, <3>2
    <3> QED BY <1>2, <1>6, <2>1, <3>2, <3>3 DEF Asked
  <2> DEFINE a == Mag(pcpi.insn, pcpi.rs1)
             b == Mag(pcpi.insn, pcpi.rs2)
  <2>5. a \in Nat /\ b \in Nat /\ a < Values
    BY Magnitudes DEF PortInv
  <2>6. CASE DivRests /\ Decoding(div) /\ ~DivStart /\ ~DivAnswers
    <3>1. DivRests'
      BY <1>4, <2>6 DEF DivRests
    <3>2. Decoding(div)'
      BY <1>2, <1>3, <2>1, <2>4, <2>6 DEF Decoding, DivStart
    <3> QED BY <1>1, <2>1, <2>4, <2>6, <3>1, <3>2 DEF DivInv
  <2>7. CASE DivRests /\ Decoding(div) /\ DivStart /\ ~DivAnswers
    <3>1. div.instr = pcpi.insn /\ div.wait
      BY <1>3, <2>2, <2>7 DEF Decoding, DivStart
    <3>2. /\ div'.running = TRUE /\ div'.ready = FALSE
          /\ div'.dividend = a /\ div'.divisor = b * Top
          /\ div'.quotient = 0 /\ div'.mask = Top
          /\ div'.outsign = Out(pcpi.insn, pcpi.rs1, pcpi.rs2)
      BY <1>1, <2>7, <3>1, DivIterates, Signs
    <3> HIDE DEF a, b
    <3>3. Dividing(a, b, W, div')
      BY <2>5, <3>2, DivisionStarts
    <3>4. W \in 0 .. W
      BY WidthAssumption
    <3>5. Dividing(a, b, W, div)'
      <4>1. a' = a /\ b' = b
        BY <2>4, <2>7 DEF a, b
      <4> QED BY <3>3, <4>1
    <3>6. DivRuns'
      BY <1>2, <2>1, <2>4, <2>7, <3>1, <3>2, <3>4, <3>5 DEF DivRuns, Started, a, b
    <3> QED BY <1>1, <2>1, <2>4, <2>7, <3>6 DEF DivInv
  <2>8. CASE DivRuns /\ ~DivAnswers
    <3>1. div.instr = pcpi.insn /\ div.wait /\ div.wait_q /\ div.running /\ ~DivStart
      BY <1>3, <2>2, <2>8 DEF DivRuns, Started, DivStart
    <3>2. PICK i \in 0 .. W : Dividing(a, b, i, div)
      BY <2>8 DEF DivRuns
    <3>3. Started(div)'
      BY <1>2, <2>1, <2>4, <2>8, <3>1 DEF Started
    <3> HIDE DEF a, b
    <3>4. i \in Nat /\ i <= W
      BY WidthAssumption
    <3>5. CASE i = 0
      <4>1. div.mask = 0 /\ Divided(a, b, div.quotient, div.dividend)
        BY <2>5, <3>2, <3>5, DivisionEnds
      <4>2. div'.running = FALSE /\ div'.ready = TRUE /\ div'.rd = DivStop.rd
        BY <1>1, <3>1, <4>1, DivIterates
      <4> DEFINE q == div.quotient
                 r == div.dividend
                 result == IF pcpi.insn \in {"div", "divu"} THEN q ELSE r
      <4>3. (IF Out(pcpi.insn, pcpi.rs1, pcpi.rs2) THEN Negated(result) ELSE result)
              = Soft(pcpi.insn, pcpi.rs1, pcpi.rs2)
        <5>1. pcpi.insn \in DivOps /\ pcpi.rs1 \in Word /\ pcpi.rs2 \in Word
          BY <2>1 DEF PortInv
        <5>2. Divided(Mag(pcpi.insn, pcpi.rs1), Mag(pcpi.insn, pcpi.rs2), q, r)
          BY <4>1 DEF a, b
        <5> HIDE DEF q, r
        <5> QED BY <5>1, <5>2, DivisionAnswers
      <4>4. DivStop.rd = (IF Out(pcpi.insn, pcpi.rs1, pcpi.rs2) THEN Negated(result) ELSE result)
        <5>1. div.outsign = Out(pcpi.insn, pcpi.rs1, pcpi.rs2)
          BY <2>8 DEF DivRuns
        <5> QED BY <3>1, <5>1 DEF DivStop
      <4>5. DivAnswers'
        BY <2>4, <2>8, <3>3, <4>2, <4>3, <4>4 DEF DivAnswers
      <4> QED BY <1>1, <2>1, <2>4, <2>8, <4>5 DEF DivInv
    <3>6. CASE i > 0
      <4>1. div.mask # 0
        <5>1. div.mask = Pow2[i-1] /\ i - 1 \in Nat
          BY <3>2, <3>4, <3>6 DEF Dividing
        <5> QED BY <5>1, Pow2Sum
      <4>2. /\ div'.running = TRUE /\ div'.ready = FALSE
            /\ div'.dividend = DivShift.dividend /\ div'.divisor = div.divisor \div 2
            /\ div'.quotient = DivShift.quotient /\ div'.mask = div.mask \div 2
            /\ div'.outsign = div.outsign
        BY <1>1, <3>1, <4>1, DivIterates
      <4>3. /\ DivShift.dividend =
                 (IF div.divisor <= div.dividend THEN div.dividend - div.divisor ELSE div.dividend)
            /\ DivShift.quotient =
                 (IF div.divisor <= div.dividend THEN div.quotient + div.mask ELSE div.quotient)
        BY DEF DivShift
      <4>4. Dividing(a, b, i - 1, div')
        BY <2>5, <3>2, <3>4, <3>6, <4>2, <4>3, DivisionSteps
      <4>5. i - 1 \in 0 .. W
        BY <3>4, <3>6, WidthAssumption
      <4>6. Dividing(a, b, i - 1, div)'
        <5>1. a' = a /\ b' = b
          BY <2>4, <2>8 DEF a, b
        <5> QED BY <4>4, <5>1
      <4>7. div'.outsign = Out(pcpi'.insn, pcpi'.rs1, pcpi'.rs2)
        BY <2>4, <2>8, <4>2 DEF DivRuns
      <4>8. DivRuns'
        BY <3>3, <4>2, <4>5, <4>6, <4>7 DEF DivRuns, a, b
      <4> QED BY <1>1, <2>1, <2>4, <2>8, <4>8 DEF DivInv
    <3> QED BY <3>4, <3>5, <3>6
  <2>9. (DivRests /\ Decoding(div)) \/ DivRuns \/ DivAnswers
    BY <1>6 DEF DivInv
  <2> QED BY <2>3, <2>6, <2>7, <2>8, <2>9
<1> QED BY <1>5, <1>6

LEMMA DivReset ==
  ASSUME PortInv, DivInv, UnitsClock(FALSE), pcpi'.valid = FALSE
  PROVE  DivInv'
<1>1. DivType' /\ DivType
  BY DivTypes DEF DivInv
<1>2. \A r \in BOOLEAN : r = FALSE /\ UnitsClock(r) =>
        /\ div'.instr = "none" /\ div'.wait = FALSE
        /\ div'.running = FALSE /\ div'.ready = FALSE
  <2> TAKE r \in BOOLEAN
  <2> HAVE r = FALSE /\ UnitsClock(r)
  <2>1. UnitsClock(r)
    OBVIOUS
  <2> QED BY <1>1, <2>1, DivIterates
<1>3. div'.instr = "none" /\ ~div'.wait /\ DivRests'
  BY <1>2 DEF DivRests
<1>4. ~Asked(DivOps)' /\ AtRest(div)'
  BY <1>3 DEF Asked, AtRest
<1> QED BY <1>1, <1>3, <1>4 DEF DivInv

-------------------------------------------------------------------------------
(* All units together, and the time-out *)

\* Only the unit that is asked answers, and its answer is that of the compiler.
LEMMA OneAnswer ==
  ASSUME UnitsInv
  PROVE  /\ MulReady => /\ Asked(MulOps) /\ ~Asked(DivOps) /\ ~div.ready
                        /\ pcpi_int_rd = Soft(pcpi.insn, pcpi.rs1, pcpi.rs2)
         /\ div.ready => /\ Asked(DivOps) /\ ~Asked(MulOps) /\ ~MulReady
                         /\ pcpi_int_rd = Soft(pcpi.insn, pcpi.rs1, pcpi.rs2)
         /\ pcpi_int_rd \in Int /\ pcpi_int_ready \in BOOLEAN
         /\ fast_mul => MulReady = mul.active[2]
         /\ ~fast_mul => MulReady = mul.ready
<1>1. ~(Asked(MulOps) /\ Asked(DivOps))
  BY DEF Asked, MulOps, DivOps
<1>2. PortInv /\ DivInv /\ (fast_mul => FastInv) /\ (~fast_mul => SerialInv) /\ fast_mul \in BOOLEAN
  BY DEF UnitsInv, PortInv
<1>3. div.ready \in BOOLEAN /\ div.rd \in Int
  BY <1>2 DEF DivInv, DivType
<1>4. ASSUME div.ready
      PROVE  Asked(DivOps) /\ div.rd = Soft(pcpi.insn, pcpi.rs1, pcpi.rs2)
  <2>1. Asked(DivOps)
    BY <1>2, <1>4 DEF DivInv, DivRests
  <2>2. DivAnswers
    BY <1>2, <1>4, <2>1 DEF DivInv, DivRests, DivRuns
  <2> QED BY <2>1, <2>2 DEF DivAnswers
<1>5. /\ MulReady => Asked(MulOps) /\ MulResult = Soft(pcpi.insn, pcpi.rs1, pcpi.rs2)
      /\ MulResult \in Int /\ MulReady \in BOOLEAN
      /\ fast_mul => MulReady = mul.active[2]
      /\ ~fast_mul => MulReady = mul.ready
  <2>1. CASE fast_mul
    <3>1. MulReady = mul.active[2] /\ FastInv
      BY <1>2, <2>1 DEF MulReady
    <3>2. mul.product \in Int /\ mul.active[2] \in BOOLEAN /\ mul.shift_out \in BOOLEAN
      BY <3>1 DEF FastInv, FastType
    <3>3. MulResult = IF mul.shift_out THEN Upper(mul.product) ELSE Lower(mul.product)
      BY <2>1, <3>2 DEF MulResult
    <3>4. MulResult \in Int
      <4>1. Values \in Nat /\ Values > 0 /\ mul.product \div Values \in Int
        BY <3>2, Sizes
      <4> QED BY <3>2, <3>3, <4>1 DEF Upper, Lower
    <3>5. ASSUME MulReady
          PROVE  Asked(MulOps) /\ MulResult = Soft(pcpi.insn, pcpi.rs1, pcpi.rs2)
      <4>1. Asked(MulOps) /\ mul.product = LeftOp * RightOp /\ mul.shift_out = High(pcpi.insn)
        BY <3>1, <3>5 DEF FastInv
      <4>2. pcpi.insn \in MulOps /\ pcpi.rs1 \in Word /\ pcpi.rs2 \in Word
        BY <1>2, <4>1 DEF Asked, PortInv
      <4>3. (IF High(pcpi.insn) THEN Upper(LeftOp * RightOp) ELSE Lower(LeftOp * RightOp))
              = Soft(pcpi.insn, pcpi.rs1, pcpi.rs2)
        BY <4>2, ProductIsSoft DEF LeftOp, RightOp
      <4> QED BY <3>3, <4>1, <4>3
    <3> QED BY <2>1, <3>1, <3>2, <3>4, <3>5
  <2>2. CASE ~fast_mul
    <3>1. MulReady = mul.ready /\ MulResult = mul.rd /\ SerialInv
      BY <1>2, <2>2 DEF MulReady, MulResult
    <3>2. mul.ready \in BOOLEAN /\ mul.rd \in Int
      BY <3>1 DEF SerialInv, MulType
    <3>3. ASSUME mul.ready PROVE Asked(MulOps) /\ mul.rd = Soft(pcpi.insn, pcpi.rs1, pcpi.rs2)
      <4>1. Asked(MulOps)
        BY <3>1, <3>3 DEF SerialInv, MulRests
      <4>2. MulAnswers
        BY <3>1, <3>3, <4>1 DEF SerialInv, MulRests, MulRuns, MulEnds
      <4> QED BY <4>1, <4>2 DEF MulAnswers
    <3> QED BY <2>2, <3>1, <3>2, <3>3
  <2> QED BY <2>1, <2>2
<1> QED BY <1>1, <1>3, <1>4, <1>5 DEF pcpi_int_rd, pcpi_int_ready

LEMMA Ages ==
  ASSUME NEW u, NEW v, ~u.wait, v.instr # "none", v.wait = (u.instr # "none")
  PROVE  Age(v) >= Age(u) + 1
<1>1. CASE u.instr = "none"
  <2>1. Age(u) = 0 /\ Age(v) \in {1, 2}
    BY <1>1 DEF Age
  <2> QED BY <2>1
<1>2. CASE u.instr # "none"
  <2>1. Age(u) = 1 /\ Age(v) = 2
    BY <1>2 DEF Age
  <2> QED BY <2>1
<1> QED BY <1>1, <1>2

LEMMA TimeSteps ==
  ASSUME UnitsInv, UnitsClock(TRUE), TimeoutClock, pcpi'.valid \in BOOLEAN,
         \/ pcpi' = pcpi /\ ~pcpi_int_ready
         \/ pcpi.valid = FALSE
         \/ pcpi'.valid = FALSE
  PROVE  TimeInv'
<1>1. MaxTimeout \in Nat /\ MaxTimeout >= 4
  BY WidthAssumption
<1>2. PortInv /\ DivInv /\ TimeInv
  BY DEF UnitsInv
<1>3. countdown \in Int /\ ~timeout /\ countdown >= MaxTimeout - 3
  BY <1>1, <1>2 DEF TimeInv, Age, FastAge
<1>4. ~timeout' /\ countdown > 0
  <2>1. countdown > 0 /\ ~(countdown = 0)
    BY <1>1, <1>3
  <2>2. timeout' = (countdown = 0)
    BY DEF TimeoutClock
  <2> QED BY <2>1, <2>2
<1>5. Age(div)' \in Nat /\ FastAge' \in Nat /\ Age(mul)' \in Nat
  BY DEF Age, FastAge
<1> DEFINE age == IF pcpi.insn \in DivOps THEN Age(div)
                  ELSE IF fast_mul THEN FastAge ELSE Age(mul)
<1>6. age' \in Nat /\ age \in Nat /\ age <= 2
  BY <1>5 DEF Age, FastAge
<1>7. CASE ~(pcpi.valid /\ ~pcpi_int_wait)
  <2>1. countdown' = MaxTimeout
    BY <1>7 DEF TimeoutClock
  <2>2. \A n \in Nat : countdown' \in Int /\ countdown' >= MaxTimeout - n
    BY <1>1, <2>1
  <2>3. (IF ~pcpi'.valid THEN 3
         ELSE IF pcpi'.insn \in DivOps THEN Age(div)'
         ELSE IF fast_mul' THEN FastAge' ELSE Age(mul)') \in Nat
    BY <1>5
  <2> QED BY <1>4, <2>2, <2>3 DEF TimeInv
<1>8. CASE pcpi.valid /\ ~pcpi_int_wait
  <2>1. countdown' = countdown - 1
    BY <1>4, <1>8 DEF TimeoutClock
  <2>2. countdown >= MaxTimeout - age
    BY <1>2, <1>8 DEF TimeInv
  <2>3. CASE pcpi'.valid = FALSE
    BY <1>1, <1>3, <1>4, <1>6, <2>1, <2>2, <2>3 DEF TimeInv
  <2>4. CASE pcpi'.valid # FALSE
    <3>1. pcpi' = pcpi /\ ~pcpi_int_ready
      BY <1>8, <2>4
    <3>2. ~MulReady /\ ~div.ready
      BY <3>1 DEF pcpi_int_ready
    <3>3. ~div.wait /\ (~fast_mul => ~mul.wait) /\ fast_mul \in BOOLEAN
      BY <1>2, <1>8 DEF pcpi_int_wait, PortInv
    <3> HIDE DEF age
    <3>4. age' >= age + 1
      <4>1. CASE pcpi.insn \in DivOps
        <5>1. div.instr \in {"none", pcpi.insn} /\ DivType /\ pcpi.insn # "none"
          BY <1>2, <1>8, <4>1 DEF DivInv, Asked, DivOps
        <5>2. /\ div'.instr = (IF TRUE /\ ~div.ready THEN Offered(DivOps) ELSE "none")
              /\ div'.wait = (TRUE /\ div.instr # "none")
          BY <5>1, DivIterates
        <5>3. div'.instr # "none" /\ div'.wait = (div.instr # "none")
          BY <1>8, <3>2, <4>1, <5>1, <5>2 DEF Offered
        <5>4. age = Age(div) /\ age' = Age(div)'
          BY <3>1, <4>1 DEF age
        <5> QED BY <3>3, <5>3, <5>4, Ages
      <4>2. CASE pcpi.insn \notin DivOps /\ ~fast_mul
        <5>1. pcpi.insn \in MulOps /\ pcpi.insn # "none"
          BY <1>2, <4>2 DEF PortInv, MulOps
        <5>2. mul.finish \in BOOLEAN
          BY <4>2 DEF UnitsInv, SerialInv, MulType
        <5>3. mul'.instr = Offered(MulOps) /\ mul'.wait = (mul.instr # "none")
          BY <4>2, SerialClock
        <5>4. mul'.instr # "none"
          BY <1>8, <5>1, <5>3 DEF Offered
        <5>5. age = Age(mul) /\ age' = Age(mul)'
          BY <3>1, <4>2 DEF age, UnitsClock
        <5> QED BY <3>3, <4>2, <5>3, <5>4, <5>5, Ages
      <4>3. CASE pcpi.insn \notin DivOps /\ fast_mul
        <5>1. Asked(MulOps) /\ FastInv /\ ~mul.active[2]
          BY <1>2, <1>8, <3>2, <4>3, OneAnswer DEF PortInv, UnitsInv, Asked
        <5>2. age = FastAge /\ age' = FastAge'
          BY <3>1, <4>3 DEF age, UnitsClock
        <5>3. (mul.active[1] => mul'.active[2]) /\ (~mul.active[1] => mul'.active[1])
          BY <1>2, <4>3, <5>1, FastLoad
        <5> QED BY <5>1, <5>2, <5>3 DEF FastAge
      <4> QED BY <3>3, <4>1, <4>2, <4>3
    <3>5. TimeInv'
      <4>1. countdown' \in Int /\ countdown' >= MaxTimeout - age'
        BY <1>1, <1>3, <1>6, <2>1, <2>2, <3>4 DEF age
      <4> QED BY <1>4, <3>1, <1>8, <4>1 DEF TimeInv, age
    <3> QED BY <3>5
  <2> QED BY <2>3, <2>4
<1> QED BY <1>7, <1>8

-------------------------------------------------------------------------------
(* The program around the units *)

UnitsReady ==
  /\ UnitsInv /\ MultestInv
  /\ irq_active => at # "reset" /\ ~pcpi.valid

LEMMA UnitsStart == Init => UnitsReady
<1> SUFFICES ASSUME Init PROVE UnitsReady
  OBVIOUS
<1>1. /\ fast_mul \in BOOLEAN /\ pcpi = [valid |-> FALSE, insn |-> "mul", rs1 |-> 0, rs2 |-> 0]
      /\ countdown = MaxTimeout /\ timeout = FALSE
      /\ mul = (IF fast_mul THEN FastRest ELSE MulRest) /\ div = DivRest
      /\ at = "waitirq" /\ operands = <<>> /\ hard = <<>> /\ irq_active = FALSE
  BY DEF Init, UnitsInit
<1>2. Values \in Nat /\ Values > 0 /\ 0 \in Word
  BY Sizes DEF Word
<1>3. PortInv
  BY <1>1, <1>2 DEF PortInv, MulOps, DivOps
<1>4. ~Asked(MulOps) /\ ~Asked(DivOps)
  BY <1>1 DEF Asked
<1>5. DivInv
  <2>1. DivType
    BY <1>1 DEF DivType, DivRest
  <2>2. DivRests /\ AtRest(div)
    BY <1>1 DEF DivRests, AtRest, DivRest
  <2> QED BY <1>4, <2>1, <2>2 DEF DivInv
<1>6. ASSUME fast_mul PROVE FastInv
  <2>1. mul = FastRest
    BY <1>1, <1>6
  <2>2. ~mul.active[1] /\ ~mul.active[2]
    BY <2>1 DEF FastRest
  <2>3. FastType
    <3> DEFINE p == <<FALSE, FALSE>>
    <3>1. p \in BOOLEAN \X BOOLEAN
      OBVIOUS
    <3>2. FastRest = [active |-> p, rs1 |-> 0, rs2 |-> 0, product |-> 0, shift_out |-> FALSE]
      BY DEF FastRest
    <3> HIDE DEF p
    <3> QED BY <2>1, <3>1, <3>2 DEF FastType
  <2> QED BY <2>2, <2>3 DEF FastInv
<1>7. ASSUME ~fast_mul PROVE SerialInv
  <2>1. mul = MulRest
    BY <1>1, <1>7
  <2>2. MulType
    BY <2>1 DEF MulType, MulRest
  <2>3. MulRests /\ AtRest(mul)
    BY <1>1, <2>1 DEF MulRests, AtRest, MulRest
  <2> QED BY <1>4, <2>2, <2>3 DEF SerialInv
<1>8. TimeInv
  BY <1>1, WidthAssumption DEF TimeInv
<1>9. MultestInv
  BY <1>1 DEF MultestInv
<1> QED BY <1>1, <1>3, <1>5, <1>6, <1>7, <1>8, <1>9 DEF UnitsReady, UnitsInv

\* A clock of the units while the core runs.
LEMMA UnitsSteps ==
  ASSUME UnitsInv, Running, PortInv', at # "reset", at' # "reset" \/ pcpi.valid = FALSE,
         \/ pcpi' = pcpi /\ ~pcpi_int_ready
         \/ pcpi.valid = FALSE
         \/ pcpi'.valid = FALSE /\ pcpi_int_ready
  PROVE  UnitsInv'
<1>1. UnitsClock(TRUE) /\ TimeoutClock /\ fast_mul' = fast_mul
  BY DEF Running, UnitsClock
<1>2. PortInv /\ DivInv /\ (fast_mul => FastInv) /\ (~fast_mul => SerialInv) /\ fast_mul \in BOOLEAN
  BY DEF UnitsInv, PortInv
<1>3. pcpi'.valid \in BOOLEAN
  BY DEF PortInv
<1>4. pcpi_int_ready <=> MulReady \/ div.ready
  BY DEF pcpi_int_ready
<1>5. /\ Asked(MulOps) => ~div.ready /\ (pcpi_int_ready <=> MulReady)
      /\ Asked(DivOps) => ~MulReady /\ (pcpi_int_ready <=> div.ready)
  BY <1>4, OneAnswer
<1>6. TimeInv'
  BY <1>1, <1>3, TimeSteps
<1>7. DivInv'
  BY <1>1, <1>2, <1>4, <1>5, DivSteps
<1>8. ASSUME fast_mul PROVE FastInv'
  <2>1. MulReady = mul.active[2]
    BY <1>8, OneAnswer
  <2> QED BY <1>1, <1>2, <1>4, <1>5, <1>8, <2>1, FastSteps
<1>9. ASSUME ~fast_mul PROVE SerialInv'
  <2>1. MulReady = mul.ready
    BY <1>9, OneAnswer
  <2> QED BY <1>1, <1>2, <1>4, <1>5, <1>9, <2>1, SerialSteps
<1> QED BY <1>1, <1>2, <1>6, <1>7, <1>8, <1>9 DEF UnitsInv

LEMMA UnitsReset ==
  ASSUME UnitsReady, NEW next, ResetClock(next), next = "reset" \/ at = "reset"
  PROVE  UnitsReady'
<1>1. /\ UnitsClock(FALSE) /\ pcpi' = Quiet /\ countdown' = MaxTimeout /\ timeout' = FALSE
      /\ operands' = <<>> /\ hard' = <<>> /\ irq_active' = FALSE /\ at' = next
      /\ fast_mul' = fast_mul
  BY DEF ResetClock, UnitsClock
<1>2. PortInv /\ DivInv /\ (fast_mul => FastInv) /\ (~fast_mul => SerialInv) /\ fast_mul \in BOOLEAN
  BY DEF UnitsReady, UnitsInv, PortInv
<1>3. pcpi'.valid = FALSE /\ PortInv'
  BY <1>1, <1>2 DEF PortInv, Quiet
<1>4. DivInv'
  BY <1>1, <1>2, <1>3, DivReset
<1>5. fast_mul => FastInv'
  BY <1>1, <1>2, <1>3, FastReset
<1>6. ~fast_mul => SerialInv'
  BY <1>1, <1>2, <1>3, SerialReset
<1>7. TimeInv'
  BY <1>1, <1>3, WidthAssumption DEF TimeInv
<1>8. MultestInv'
  BY <1>1 DEF MultestInv
<1> QED BY <1>1, <1>2, <1>3, <1>4, <1>5, <1>6, <1>7, <1>8 DEF UnitsReady, UnitsInv

LEMMA UnitsUnchanged ==
  ASSUME UnitsReady, UNCHANGED <<unitVars, at, mulVars, irq_active>>
  PROVE  UnitsReady'
<1>1. /\ fast_mul' = fast_mul /\ pcpi' = pcpi /\ countdown' = countdown /\ timeout' = timeout
      /\ mul' = mul /\ div' = div /\ at' = at /\ operands' = operands /\ hard' = hard
      /\ irq_active' = irq_active
  BY DEF unitVars, mulVars
<1>2. PortInv' = PortInv /\ MultestInv' = MultestInv
  BY <1>1 DEF PortInv, MultestInv
<1>3. TimeInv' = TimeInv
  BY <1>1 DEF TimeInv, Age, FastAge
<1>4. Asked(MulOps)' = Asked(MulOps) /\ Asked(DivOps)' = Asked(DivOps)
  BY <1>1 DEF Asked
<1>5. LeftOp' = LeftOp /\ RightOp' = RightOp
  BY <1>1 DEF LeftOp, RightOp, Left, Right
<1>6. FastInv' = FastInv
  BY <1>1, <1>4, <1>5 DEF FastInv, FastType
<1>7. DivInv' = DivInv
  <2>1. DivType' = DivType /\ DivAnswers' = DivAnswers /\ DivRests' = DivRests
    BY <1>1 DEF DivType, DivAnswers, DivRests, Started
  <2>2. DivRuns' = DivRuns
    BY <1>1 DEF DivRuns, Started
  <2>3. Decoding(div)' = Decoding(div) /\ AtRest(div)' = AtRest(div)
    BY <1>1 DEF Decoding, AtRest
  <2> QED BY <1>1, <1>4, <2>1, <2>2, <2>3 DEF DivInv
<1>8. SerialInv' = SerialInv
  <2>1. /\ MulType' = MulType /\ MulAnswers' = MulAnswers /\ MulRests' = MulRests
        /\ MulSteps' = MulSteps
    BY <1>1 DEF MulType, MulAnswers, MulRests, Started, MulSteps
  <2>2. MulRuns' = MulRuns /\ MulEnds' = MulEnds
    BY <1>1, <1>5, <2>1 DEF MulRuns, MulEnds, Started
  <2>3. Decoding(mul)' = Decoding(mul) /\ AtRest(mul)' = AtRest(mul)
    BY <1>1 DEF Decoding, AtRest
  <2> QED BY <1>1, <1>4, <2>1, <2>2, <2>3 DEF SerialInv
<1> QED BY <1>1, <1>2, <1>3, <1>6, <1>7, <1>8 DEF UnitsReady, UnitsInv

\* A step between two instructions of the units.
LEMMA UnitsBetween ==
  ASSUME UnitsReady, Running, at # "reset", ~pcpi.valid, pcpi' = pcpi, MultestInv',
         irq_active' => at' # "reset"
  PROVE  UnitsReady'
<1>1. PortInv' /\ pcpi.valid = FALSE /\ ~pcpi'.valid
  BY DEF UnitsReady, UnitsInv, PortInv, Running, UnitsClock
<1>2. UnitsInv'
  BY <1>1, UnitsSteps DEF UnitsReady
<1> QED BY <1>1, <1>2 DEF UnitsReady

LEMMA OffersStep ==
  ASSUME UnitsReady, Offer, Running, irq_active' = irq_active
  PROVE  UnitsReady'
<1>1. /\ ~irq_active /\ ~pcpi.valid /\ at = "multest" /\ operands # <<>> /\ Len(hard) < 8
      /\ pcpi' = [valid |-> TRUE, insn |-> Op, rs1 |-> operands[1], rs2 |-> operands[2]]
      /\ at' = at /\ operands' = operands /\ hard' = hard
  BY DEF Offer, Program, mulVars
<1>2. operands \in Word \X Word /\ hard \in Seq(Int)
  BY <1>1 DEF UnitsReady, MultestInv
<1>3. Op \in MulOps \cup DivOps
  <2>1. Len(hard) \in Nat
    BY <1>2
  <2>2. Len(hard) + 1 \in 1 .. 8
    BY <1>1, <2>1
  <2>3. \A i \in 1 .. 8 : Calls[i] \in MulOps \cup DivOps
    BY DEF Calls, MulOps, DivOps
  <2> QED BY <2>2, <2>3 DEF Op
<1>4. operands[1] \in Word /\ operands[2] \in Word
  BY <1>2
<1>5. fast_mul' = fast_mul /\ fast_mul \in BOOLEAN
  BY DEF Running, UnitsClock, UnitsReady, UnitsInv, PortInv
<1>6. PortInv'
  BY <1>1, <1>3, <1>4, <1>5 DEF PortInv
<1>7. pcpi.valid = FALSE
  BY <1>1 DEF UnitsReady, UnitsInv, PortInv
<1>8. UnitsInv'
  BY <1>1, <1>6, <1>7, UnitsSteps DEF UnitsReady
<1>9. MultestInv'
  BY <1>1, <1>2 DEF MultestInv
<1> QED BY <1>1, <1>8, <1>9 DEF UnitsReady

LEMMA ClockStep ==
  ASSUME UnitsReady, Clock, Running, irq_active' = irq_active
  PROVE  UnitsReady'
<1>1. pcpi.valid /\ at # "reset" /\ ~irq_active /\ ~timeout /\ pcpi_int_ready \in BOOLEAN
  BY OneAnswer DEF Clock, UnitsReady, UnitsInv, PortInv, TimeInv
<1>2. /\ operands' = operands
      /\ at' = at
      /\ \/ pcpi_int_ready /\ pcpi' = Quiet /\ hard' = Append(hard, Got)
         \/ ~pcpi_int_ready /\ pcpi' = pcpi /\ hard' = hard
  BY <1>1 DEF Clock
<1>3. PortInv'
  BY <1>1, <1>2 DEF UnitsReady, UnitsInv, PortInv, Quiet, Running, UnitsClock
<1>4. pcpi_int_ready => pcpi'.valid = FALSE
  BY <1>2 DEF Quiet, UnitsReady, UnitsInv, PortInv
<1>5. UnitsInv'
  BY <1>1, <1>2, <1>3, <1>4, UnitsSteps DEF UnitsReady
<1>6. Got \in Int
  <2>1. Values \in Nat /\ Values > 0 /\ pcpi_int_rd \in Int
    BY Sizes, OneAnswer DEF UnitsReady
  <2> QED BY <2>1 DEF Got
<1>7. hard \in Seq(Int) /\ Append(hard, Got) \in Seq(Int)
  BY <1>6 DEF UnitsReady, MultestInv
<1>8. MultestInv'
  BY <1>2, <1>7 DEF UnitsReady, MultestInv
<1> QED BY <1>1, <1>5, <1>8 DEF UnitsReady

LEMMA RoundOperands ==
  ASSUME NEW i PROVE Operands(i) \subseteq Word \X Word
<1>1. /\ Values \in Nat /\ Top \in Nat /\ Top > 0 /\ Values = 2 * Top
      /\ Lowest \in Word /\ Values - 1 \in Word /\ 0 \in Word
  BY Sizes DEF Lowest, Word
<1>2. Lowest .. Values - 1 \subseteq Word /\ 0 .. Lowest - 1 \subseteq Word
  BY <1>1 DEF Lowest, Word
<1>3. CASE i = 0
  <2>1. Operands(i) = {<<Lowest, Values - 1>>}
    BY <1>3 DEF Operands
  <2> QED BY <1>1, <2>1
<1>4. CASE i = 1
  <2>1. Operands(i) = {<<0, 0>>}
    BY <1>4 DEF Operands
  <2> QED BY <1>1, <2>1
<1>5. CASE i = 2
  <2>1. Operands(i) = {<<x, 0>> : x \in Lowest .. Values - 1}
    BY <1>5 DEF Operands
  <2> QED BY <1>1, <1>2, <2>1
<1>6. CASE i = 3
  <2>1. Operands(i) = {<<x, 0>> : x \in 0 .. Lowest - 1}
    BY <1>6 DEF Operands
  <2> QED BY <1>1, <1>2, <2>1
<1>7. CASE i \notin {0, 1, 2, 3}
  <2>1. Operands(i) = Word \X Word
    BY <1>7 DEF Operands
  <2> QED BY <2>1
<1> QED BY <1>3, <1>4, <1>5, <1>6, <1>7

LEMMA UnitsNext == UnitsReady /\ [Next]_vars => UnitsReady'
<1> SUFFICES ASSUME UnitsReady, [Next]_vars PROVE UnitsReady'
  OBVIOUS
<1>1. MultestInv
  BY DEF UnitsReady
<1>2. ASSUME Running, NextInstruction, Start \/ Finish,
             UNCHANGED <<irq_active, handler, machine, defect>>
      PROVE  UnitsReady'
  <2>1. /\ Program /\ at # "reset" /\ pcpi' = pcpi /\ UNCHANGED mulVars
    BY <1>2 DEF Start, Finish, Wait, Unmask, Arm, Test, Pass, EbreakStep, KeepMul
  <2>2. ~irq_active' /\ ~pcpi.valid
    BY <1>2, <2>1 DEF Program
  <2>3. MultestInv'
    BY <1>1, <2>1 DEF MultestInv, mulVars
  <2> QED BY <1>2, <2>1, <2>2, <2>3, UnitsBetween
<1>3. ASSUME Running, Sieve, UNCHANGED <<irq_active, handler, machine, defect>>
      PROVE  UnitsReady'
  <2>1. /\ Program /\ at # "reset" /\ pcpi' = pcpi /\ UNCHANGED mulVars
    BY <1>3 DEF Sieve, KeepMul
  <2>2. ~irq_active' /\ ~pcpi.valid
    BY <1>3, <2>1 DEF Program
  <2>3. MultestInv'
    BY <1>1, <2>1 DEF MultestInv, mulVars
  <2> QED BY <1>3, <2>1, <2>2, <2>3, UnitsBetween
<1>4. ASSUME Running, NextRound, UNCHANGED <<irq_active, handler, machine, defect>>
      PROVE  UnitsReady'
  <2>1. /\ Program /\ at # "reset" /\ pcpi' = pcpi /\ hard' = hard
        /\ operands' = operands \/ operands' \in Operands(k)
    BY <1>4 DEF NextRound
  <2>2. ~irq_active' /\ ~pcpi.valid
    BY <1>4, <2>1 DEF Program
  <2>3. MultestInv'
    <3>1. operands' \in Operands(k) => operands' \in Word \X Word
      BY RoundOperands
    <3> QED BY <1>1, <2>1, <3>1 DEF MultestInv
  <2> QED BY <1>4, <2>1, <2>2, <2>3, UnitsBetween
<1>5. ASSUME Running, Compare, UNCHANGED <<irq_active, handler, machine, defect>>
      PROVE  UnitsReady'
  <2>1. Program /\ at # "reset" /\ pcpi' = pcpi /\ hard' = <<>> /\ operands' = <<>>
    BY <1>5 DEF Compare
  <2>2. ~irq_active' /\ ~pcpi.valid
    BY <1>5, <2>1 DEF Program
  <2>3. MultestInv'
    BY <2>1 DEF MultestInv
  <2> QED BY <1>5, <2>1, <2>2, <2>3, UnitsBetween
<1>6. CASE Enter
  <2>1. Running /\ at # "reset" /\ ~pcpi.valid /\ pcpi' = pcpi /\ at' = at /\ UNCHANGED mulVars
    BY <1>6 DEF Enter, KeepProgram
  <2>2. MultestInv'
    BY <1>1, <2>1 DEF MultestInv, mulVars
  <2> QED BY <2>1, <2>2, UnitsBetween
<1>7. CASE Call
  <2>1. Running /\ irq_active /\ pcpi' = pcpi /\ UNCHANGED mulVars /\ irq_active' = irq_active
    BY <1>7 DEF Call, Handler, KeepProgram
  <2>2. at # "reset" /\ ~pcpi.valid
    BY <2>1 DEF UnitsReady
  <2>3. at' = at \/ at' = "trap"
    BY <1>7 DEF Call, irq
  <2>4. MultestInv'
    BY <1>1, <2>1 DEF MultestInv, mulVars
  <2> QED BY <2>1, <2>2, <2>3, <2>4, UnitsBetween
<1>8. CASE Restore
  <2>1. Running /\ irq_active /\ pcpi' = pcpi /\ UNCHANGED mulVars /\ ~irq_active'
    BY <1>8 DEF Restore, Handler, KeepProgram, retirq
  <2>2. at # "reset" /\ ~pcpi.valid
    BY <2>1 DEF UnitsReady
  <2>3. MultestInv'
    BY <1>1, <2>1 DEF MultestInv, mulVars
  <2> QED BY <2>1, <2>2, <2>3, UnitsBetween
<1>9. CASE Elapse
  <2>1. /\ Running /\ ~pcpi.valid /\ at # "reset" /\ pcpi' = pcpi /\ at' = at
        /\ UNCHANGED mulVars /\ irq_active' = irq_active
    BY <1>9 DEF Elapse, irqVars
  <2>2. MultestInv'
    BY <1>1, <2>1 DEF MultestInv, mulVars
  <2> QED BY <2>1, <2>2, UnitsBetween
<1>10. CASE RaiseLine
  BY <1>10, UnitsUnchanged DEF RaiseLine
<1>11. CASE Reset
  BY <1>11, UnitsReset DEF Reset
<1>12. CASE Release
  BY <1>12, UnitsReset DEF Release
<1>13. CASE UNCHANGED vars
  BY <1>13, UnitsUnchanged DEF vars, irqVars
<1>14. ASSUME Main, Running, NextInstruction, UNCHANGED <<irq_active, handler, machine, defect>>
       PROVE  UnitsReady'
  <2>1. ASSUME Offer PROVE UnitsReady'
    BY <1>14, <2>1, OffersStep
  <2>2. ASSUME Clock PROVE UnitsReady'
    BY <1>14, <2>2, ClockStep
  <2> QED BY <1>2, <1>3, <1>4, <1>5, <1>14, <2>1, <2>2 DEF Main, Multest
<1> QED BY <1>6, <1>7, <1>8, <1>9, <1>10, <1>11, <1>12, <1>13, <1>14 DEF Next, Instruction

\* The units are in step with the instruction they are offered, for registers of any
\* width: the partial product and the partial quotient, from the start of an
\* instruction to its answer, between two instructions and out of a reset.
THEOREM UnitsInvariant == Spec => []UnitsReady
BY UnitsStart, UnitsNext, PTL DEF Spec

\* Every instruction gets one answer, that of the compiler, and no time-out, for
\* registers of any width.
THEOREM AnswersTheirOwn == Spec => []OwnAnswers
<1>1. UnitsReady => OwnAnswers
  <2> SUFFICES ASSUME UnitsReady PROVE OwnAnswers
    OBVIOUS
  <2>1. ~timeout
    BY DEF UnitsReady, UnitsInv, TimeInv
  <2>2. ASSUME pcpi_int_ready
        PROVE  pcpi.valid /\ pcpi_int_rd = Soft(pcpi.insn, pcpi.rs1, pcpi.rs2)
    BY <2>2, OneAnswer DEF UnitsReady, pcpi_int_ready, Asked
  <2>3. ~(MulReady /\ div.ready)
    BY OneAnswer DEF UnitsReady
  <2> QED BY <2>1, <2>2, <2>3 DEF OwnAnswers
<1> QED BY <1>1, UnitsInvariant, PTL
-------------------------------------------------------------------------------
(* The instructions of the interrupt handler *)

Slots == 0 .. 31
QRegs == 0 .. 3
IsMachine(m) ==
  /\ m = [x |-> m.x, q |-> m.q, mem |-> m.mem]
  /\ m.x = [i \in Regs |-> m.x[i]]
  /\ m.q = [i \in QRegs |-> m.q[i]]
  /\ m.mem = [i \in Slots |-> m.mem[i]]

\* States one after the other under the instructions of s.
IsTrace(g, s, n) ==
  DOMAIN g = 0 .. n /\ g[0] = machine /\ \A i \in 1 .. n : g[i] = Execute(g[i-1], s[i])

LEMMA TraceExists == ASSUME NEW s PROVE \A n \in Nat : \E g : IsTrace(g, s, n)
<1> DEFINE T == {n \in Nat : \E g : IsTrace(g, s, n)}
<1>1. 0 \in T
  <2>1. IsTrace([i \in 0 .. 0 |-> machine], s, 0)
    BY DEF IsTrace
  <2> QED BY <2>1
<1>2. ASSUME NEW n \in Nat, n \in T PROVE n + 1 \in T
  <2>1. PICK g : IsTrace(g, s, n)
    BY <1>2
  <2> DEFINE h == [i \in 0 .. n + 1 |-> IF i = n + 1 THEN Execute(g[n], s[n+1]) ELSE g[i]]
  <2>2. DOMAIN h = 0 .. n + 1 /\ h[0] = machine
    BY <2>1 DEF IsTrace
  <2>3. ASSUME NEW i \in 1 .. n + 1 PROVE h[i] = Execute(h[i-1], s[i])
    <3>1. CASE i = n + 1
      BY <3>1
    <3>2. CASE i \in 1 .. n
      <4>1. h[i] = g[i] /\ h[i-1] = g[i-1]
        BY <3>2
      <4> QED BY <2>1, <3>2, <4>1 DEF IsTrace
    <3> QED BY <3>1, <3>2
  <2>4. IsTrace(h, s, n + 1)
    BY <2>2, <2>3 DEF IsTrace
  <2> QED BY <2>4
<1> HIDE DEF T
<1>3. Nat \subseteq T
  BY <1>1, <1>2, Induction
<1> QED BY <1>3 DEF T

LEMMA TraceUnique ==
  ASSUME NEW s, NEW m \in Nat, NEW n \in Nat, m <= n, NEW g, NEW h,
         IsTrace(g, s, m), IsTrace(h, s, n)
  PROVE  g[m] = h[m]
<1> DEFINE T == {i \in Nat : i <= m => g[i] = h[i]}
<1>1. 0 \in T
  BY DEF IsTrace
<1>2. ASSUME NEW i \in Nat, i \in T PROVE i + 1 \in T
  <2>1. ASSUME i + 1 <= m PROVE g[i+1] = h[i+1]
    <3>1. i + 1 \in 1 .. m /\ i + 1 \in 1 .. n /\ (i + 1) - 1 = i
      BY <2>1
    <3>2. g[i+1] = Execute(g[i], s[i+1]) /\ h[i+1] = Execute(h[i], s[i+1])
      BY <3>1 DEF IsTrace
    <3> QED BY <1>2, <2>1, <3>2
  <2> QED BY <2>1
<1> HIDE DEF T
<1>3. Nat \subseteq T
  BY <1>1, <1>2, Induction
<1> QED BY <1>3 DEF T

\* Run ends in the last state of the trace.
LEMMA RunTrace ==
  ASSUME NEW s, Len(s) \in Nat
  PROVE  \E g : IsTrace(g, s, Len(s)) /\ Run(s) = g[Len(s)]
<1> DEFINE At(n) == CHOOSE g : IsTrace(g, s, n)
           P == [n \in Nat |-> {At(n)[n]}]
           Rec(p) == [n \in Nat |-> IF n = 0 THEN {machine}
                                    ELSE {Execute(m, s[n]) : m \in p[n-1]}]
           after == CHOOSE p : p = Rec(p)
<1>1. \A n \in Nat : IsTrace(At(n), s, n)
  BY TraceExists
<1> HIDE DEF At
<1>2. ASSUME NEW n \in Nat PROVE /\ P[n] = {At(n)[n]} /\ At(0)[0] = machine
                                 /\ At(n+1)[n+1] = Execute(At(n)[n], s[n+1])
  <2>1. IsTrace(At(n), s, n) /\ IsTrace(At(n+1), s, n + 1) /\ IsTrace(At(0), s, 0)
    BY <1>1
  <2>2. At(n)[n] = At(n+1)[n]
    BY <2>1, TraceUnique
  <2>3. At(n+1)[n+1] = Execute(At(n+1)[n], s[n+1])
    <3>1. n + 1 \in 1 .. n + 1 /\ (n + 1) - 1 = n
      OBVIOUS
    <3> QED BY <2>1, <3>1 DEF IsTrace
  <2> QED BY <2>1, <2>2, <2>3 DEF IsTrace
<1>3. P = Rec(P)
  <2>1. ASSUME NEW n \in Nat
        PROVE  P[n] = IF n = 0 THEN {machine} ELSE {Execute(m, s[n]) : m \in P[n-1]}
    <3>1. CASE n = 0
      BY <1>2, <3>1
    <3>2. CASE n # 0
      <4>1. n - 1 \in Nat /\ (n - 1) + 1 = n
        BY <3>2
      <4>2. P[n] = {At(n)[n]} /\ P[n-1] = {At(n-1)[n-1]}
        BY <1>2, <4>1
      <4>3. At(n)[n] = Execute(At(n-1)[n-1], s[n])
        BY <1>2, <4>1
      <4> HIDE DEF P
      <4> QED BY <3>2, <4>2, <4>3
    <3> QED BY <3>1, <3>2
  <2> QED BY <2>1
<1> HIDE DEF P
<1>4. after = Rec(after)
  BY <1>3
<1>5. Run(s) = CHOOSE m \in after[Len(s)] : TRUE
  BY DEF Run
<1> HIDE DEF after
<1>6. \A n \in Nat : after[n] = {At(n)[n]}
  <2> DEFINE T == {n \in Nat : after[n] = {At(n)[n]}}
  <2>1. 0 \in T
    BY <1>2, <1>4
  <2>2. ASSUME NEW n \in Nat, n \in T PROVE n + 1 \in T
    <3>1. n + 1 \in Nat /\ n + 1 # 0 /\ (n + 1) - 1 = n
      OBVIOUS
    <3>2. after[n+1] = {Execute(m, s[n+1]) : m \in after[n]}
      BY <1>4, <3>1
    <3>3. after[n] = {At(n)[n]}
      BY <2>2
    <3>4. after[n+1] = {Execute(At(n)[n], s[n+1])}
      BY <3>2, <3>3
    <3>5. after[n+1] = {At(n+1)[n+1]}
      BY <1>2, <3>4
    <3> QED BY <3>1, <3>5
  <2> HIDE DEF T
  <2>3. Nat \subseteq T
    BY <2>1, <2>2, Induction
  <2> QED BY <2>3 DEF T
<1>7. Run(s) = At(Len(s))[Len(s)]
  BY <1>5, <1>6
<1> QED BY <1>1, <1>7

LEMMA Setq ==
  ASSUME NEW m, IsMachine(m), NEW t \in QRegs, NEW f, NEW n, n = Execute(m, setq(t, f))
  PROVE  /\ IsMachine(n) /\ n.x = m.x /\ n.mem = m.mem
         /\ \A j \in QRegs : n.q[j] = IF j = t THEN m.x[f] ELSE m.q[j]
<1> DEFINE i == setq(t, f)
           v == m.x[f]
<1>1. i.op = "setq" /\ i.to = t /\ i.from = f
  BY DEF setq
<1> HIDE DEF i
<1>2. n = [m EXCEPT !.q[t] = v]
  BY <1>1 DEF Execute, i
<1> DEFINE w == [m.q EXCEPT ![t] = v]
<1>3. n = [x |-> m.x, q |-> w, mem |-> m.mem]
  <2> HIDE DEF v
  <2> QED BY <1>2 DEF IsMachine
<1>4. \A j \in QRegs : w[j] = IF j = t THEN v ELSE m.q[j]
  <2> HIDE DEF v
  <2> QED BY DEF IsMachine
<1>5. w = [j \in QRegs |-> w[j]]
  <2> HIDE DEF v
  <2> QED BY DEF IsMachine
<1> HIDE DEF w
<1>6. n.x = m.x /\ n.q = w /\ n.mem = m.mem
  BY <1>3
<1> QED BY <1>3, <1>4, <1>5, <1>6 DEF IsMachine

LEMMA Writes ==
  ASSUME NEW m, IsMachine(m), NEW t \in Regs, NEW v, NEW n, n = [m EXCEPT !.x[t] = v]
  PROVE  /\ IsMachine(n) /\ n.q = m.q /\ n.mem = m.mem
         /\ \A j \in Regs : n.x[j] = IF j = t THEN v ELSE m.x[j]
<1> DEFINE w == [m.x EXCEPT ![t] = v]
<1>1. n = [x |-> w, q |-> m.q, mem |-> m.mem]
  BY DEF IsMachine
<1>2. \A j \in Regs : w[j] = IF j = t THEN v ELSE m.x[j]
  BY DEF IsMachine
<1>3. w = [j \in Regs |-> w[j]]
  BY DEF IsMachine
<1> HIDE DEF w
<1>4. n.x = w /\ n.q = m.q /\ n.mem = m.mem
  BY <1>1
<1> QED BY <1>1, <1>2, <1>3, <1>4 DEF IsMachine

LEMMA Getq ==
  ASSUME NEW m, IsMachine(m), NEW t \in Regs, NEW f, NEW n, n = Execute(m, getq(t, f))
  PROVE  /\ IsMachine(n) /\ n.q = m.q /\ n.mem = m.mem
         /\ \A j \in Regs : n.x[j] = IF j = t THEN m.q[f] ELSE m.x[j]
<1> DEFINE i == getq(t, f)
           v == m.q[f]
<1>1. i.op = "getq" /\ i.to = t /\ i.from = f
  BY DEF getq
<1> HIDE DEF i
<1>2. n = [m EXCEPT !.x[t] = v]
  BY <1>1 DEF Execute, i
<1> HIDE DEF v
<1> QED BY <1>2, Writes DEF v

LEMMA La ==
  ASSUME NEW m, IsMachine(m), NEW t \in Regs, NEW value, NEW n, n = Execute(m, la(t, value))
  PROVE  /\ IsMachine(n) /\ n.q = m.q /\ n.mem = m.mem
         /\ \A j \in Regs : n.x[j] = IF j = t THEN value ELSE m.x[j]
<1> DEFINE i == la(t, value)
<1>1. i.op = "la" /\ i.to = t /\ i.from = value
  BY DEF la
<1> HIDE DEF i
<1>2. n = [m EXCEPT !.x[t] = value]
  BY <1>1 DEF Execute, i
<1>3. \A v : n = [m EXCEPT !.x[t] = v] =>
        /\ IsMachine(n) /\ n.q = m.q /\ n.mem = m.mem
        /\ \A j \in Regs : n.x[j] = IF j = t THEN v ELSE m.x[j]
  BY Writes
<1> QED BY <1>2, <1>3

LEMMA Mv ==
  ASSUME NEW m, IsMachine(m), NEW t \in Regs, NEW f, NEW n, n = Execute(m, mv(t, f))
  PROVE  /\ IsMachine(n) /\ n.q = m.q /\ n.mem = m.mem
         /\ \A j \in Regs : n.x[j] = IF j = t THEN m.x[f] ELSE m.x[j]
<1> DEFINE i == mv(t, f)
           v == m.x[f]
<1>1. i.op = "mv" /\ i.to = t /\ i.from = f
  BY DEF mv
<1> HIDE DEF i
<1>2. n = [m EXCEPT !.x[t] = v]
  BY <1>1 DEF Execute, i
<1> HIDE DEF v
<1> QED BY <1>2, Writes DEF v

LEMMA Lw ==
  ASSUME NEW m, IsMachine(m), m.x[1] = Base, NEW t \in Regs, NEW f,
         NEW n, n = Execute(m, lw(t, f))
  PROVE  /\ IsMachine(n) /\ n.q = m.q /\ n.mem = m.mem
         /\ \A j \in Regs : n.x[j] = IF j = t THEN m.mem[f] ELSE m.x[j]
<1> DEFINE i == lw(t, f)
           v == m.mem[f]
<1>1. i.op = "lw" /\ i.to = t /\ i.from = f
  BY DEF lw
<1> HIDE DEF i
<1>2. n = [m EXCEPT !.x[t] = v]
  BY <1>1 DEF Execute, i
<1> HIDE DEF v
<1> QED BY <1>2, Writes DEF v

LEMMA Stores ==
  ASSUME NEW m, IsMachine(m), m.x[1] = Base, NEW t \in Slots, NEW i,
         i.op = "sw", i.to = t, NEW n, n = Execute(m, i)
  PROVE  /\ IsMachine(n) /\ n.q = m.q /\ n.x = m.x
         /\ \A j \in Slots : n.mem[j] = IF j = t THEN m.x[i.from] ELSE m.mem[j]
<1> DEFINE v == m.x[i.from]
<1>1. n = [m EXCEPT !.mem[t] = v]
  BY DEF Execute
<1> HIDE DEF v
<1> DEFINE w == [m.mem EXCEPT ![t] = v]
<1>2. n = [x |-> m.x, q |-> m.q, mem |-> w]
  BY <1>1 DEF IsMachine
<1>3. \A j \in Slots : w[j] = IF j = t THEN v ELSE m.mem[j]
  BY DEF IsMachine
<1>4. w = [j \in Slots |-> w[j]]
  BY DEF IsMachine
<1> HIDE DEF w
<1>5. n.x = m.x /\ n.q = m.q /\ n.mem = w
  BY <1>2
<1> QED BY <1>2, <1>3, <1>4, <1>5 DEF IsMachine, v

LEMMA Sw2 ==
  ASSUME NEW m, IsMachine(m), m.x[1] = Base, NEW t \in Slots, NEW n, n = Execute(m, sw2(t))
  PROVE  /\ IsMachine(n) /\ n.q = m.q /\ n.x = m.x
         /\ \A j \in Slots : n.mem[j] = IF j = t THEN m.x[2] ELSE m.mem[j]
<1> DEFINE i == sw2(t)
<1>1. i.op = "sw" /\ i.to = t /\ i.from = 2
  BY DEF sw2
<1>2. n = Execute(m, i)
  OBVIOUS
<1> HIDE DEF i
<1> QED BY <1>1, <1>2, Stores

LEMMA Sw ==
  ASSUME NEW m, IsMachine(m), m.x[1] = Base, NEW t \in Slots, NEW n, n = Execute(m, sw(t))
  PROVE  /\ IsMachine(n) /\ n.q = m.q /\ n.x = m.x
         /\ \A j \in Slots : n.mem[j] = IF j = t THEN m.x[t] ELSE m.mem[j]
<1> DEFINE i == sw(t)
<1>1. i.op = "sw" /\ i.to = t /\ i.from = t
  BY DEF sw
<1>2. n = Execute(m, i)
  OBVIOUS
<1> HIDE DEF i
<1> QED BY <1>1, <1>2, Stores


-------------------------------------------------------------------------------
(* What the handler saves *)

\* On entry the registers are the program's, and q0 is the return address.
Entered ==
  /\ IsMachine(machine) /\ machine.q[0] = at
  /\ \A i \in Regs : machine.x[i] = i
\* What irq() is called with, and what it leaves to restore from.
Saved(m) ==
  /\ IsMachine(m) /\ m.x[10] = Base
  /\ m.mem[0] = at /\ \A i \in 1 .. 31 : m.mem[i] = i

Steps == [op : {"setq", "getq", "sw", "lw", "la", "mv"}, to : Int, from : Int]

LEMMA StepsOf ==
  ASSUME NEW to \in Int, NEW from \in Int
  PROVE  /\ setq(to, from) \in Steps /\ getq(to, from) \in Steps /\ lw(to, from) \in Steps
         /\ la(to, from) \in Steps /\ mv(to, from) \in Steps
         /\ sw(to) \in Steps /\ sw2(to) \in Steps
<1>1. setq(to, from) \in Steps
  BY DEF setq, Steps
<1>2. getq(to, from) \in Steps
  BY DEF getq, Steps
<1>3. lw(to, from) \in Steps
  BY DEF lw, Steps
<1>4. la(to, from) \in Steps
  BY DEF la, Steps
<1>5. mv(to, from) \in Steps
  BY DEF mv, Steps
<1>6. sw(to) \in Steps
  BY DEF sw, Steps
<1>7. sw2(to) \in Steps
  BY DEF sw2, Steps
<1> QED BY <1>1, <1>2, <1>3, <1>4, <1>5, <1>6, <1>7

LEMMA Blocks ==
  /\ LET b == From3To31([i \in Regs |-> sw(i)])
     IN  b \in Seq(Steps) /\ Len(b) = 29 /\ \A j \in 1 .. 29 : b[j] = sw(j + 2)
  /\ LET b == From3To31([i \in Regs |-> lw(i, i)])
     IN  b \in Seq(Steps) /\ Len(b) = 29 /\ \A j \in 1 .. 29 : b[j] = lw(j + 2, j + 2)
<1>1. \A j \in 1 .. 29 : j + 2 \in Regs
  BY DEF Regs
<1>2. ASSUME NEW b, NEW c, b = From3To31(c), \A j \in 1 .. 29 : c[j+2] \in Steps
      PROVE  b \in Seq(Steps) /\ Len(b) = 29 /\ \A j \in 1 .. 29 : b[j] = c[j+2]
  <2>1. b = [j \in 1 .. 29 |-> c[j+2]] /\ \A j \in 1 .. 29 : b[j] \in Steps
    BY <1>2 DEF From3To31
  <2>2. b \in [1 .. 29 -> Steps]
    BY <2>1
  <2>3. b \in Seq(Steps)
    BY <2>2, SeqDef
  <2>4. DOMAIN b = 1 .. 29
    BY <2>1
  <2>5. Len(b) = 29
    BY <2>3, <2>4, LenProperties
  <2> QED BY <2>1, <2>3, <2>5
<1>3. \A j \in 1 .. 29 : [i \in Regs |-> sw(i)][j+2] = sw(j + 2) /\ sw(j + 2) \in Steps
  <2>1. \A j \in 1 .. 29 : j + 2 \in Regs /\ j + 2 \in Int
    BY <1>1
  <2> QED BY <2>1, StepsOf
<1>4. \A j \in 1 .. 29 : [i \in Regs |-> lw(i, i)][j+2] = lw(j + 2, j + 2)
                         /\ lw(j + 2, j + 2) \in Steps
  <2>1. \A j \in 1 .. 29 : j + 2 \in Regs /\ j + 2 \in Int
    BY <1>1
  <2> QED BY <2>1, StepsOf
<1> DEFINE c == [i \in Regs |-> sw(i)]
           d == [i \in Regs |-> lw(i, i)]
<1>5. (\A j \in 1 .. 29 : c[j+2] = sw(j + 2) /\ c[j+2] \in Steps)
      /\ (\A j \in 1 .. 29 : d[j+2] = lw(j + 2, j + 2) /\ d[j+2] \in Steps)
  BY <1>3, <1>4
<1> HIDE DEF c, d
<1>6. From3To31(c) \in Seq(Steps) /\ Len(From3To31(c)) = 29
      /\ \A j \in 1 .. 29 : From3To31(c)[j] = sw(j + 2)
  BY <1>2, <1>5
<1>7. From3To31(d) \in Seq(Steps) /\ Len(From3To31(d)) = 29
      /\ \A j \in 1 .. 29 : From3To31(d)[j] = lw(j + 2, j + 2)
  BY <1>2, <1>5
<1> QED BY <1>6, <1>7 DEF c, d

\* Three pieces of code, one after the other.
LEMMA Straight ==
  ASSUME NEW a \in Seq(Steps), NEW b \in Seq(Steps), NEW c \in Seq(Steps)
  PROVE  /\ Len((a \o b) \o c) = Len(a) + Len(b) + Len(c)
         /\ \A i \in 1 .. Len(a) : ((a \o b) \o c)[i] = a[i]
         /\ \A i \in 1 .. Len(b) : ((a \o b) \o c)[Len(a) + i] = b[i]
         /\ \A i \in 1 .. Len(c) : ((a \o b) \o c)[Len(a) + Len(b) + i] = c[i]
<1> DEFINE ab == a \o b
           s == ab \o c
           n == Len(a)
           m == Len(b)
           l == Len(c)
<1>1. /\ ab \in Seq(Steps) /\ Len(ab) = Len(a) + Len(b)
      /\ \A i \in 1 .. Len(a) + Len(b) : ab[i] = IF i <= Len(a) THEN a[i] ELSE b[i - Len(a)]
  BY ConcatProperties
<1>2. n \in Nat /\ m \in Nat /\ l \in Nat
  BY LenProperties
<1> HIDE DEF ab
<1>3. /\ Len(s) = Len(ab) + Len(c)
      /\ \A i \in 1 .. Len(ab) + Len(c) : s[i] = IF i <= Len(ab) THEN ab[i] ELSE c[i - Len(ab)]
  <2>1. ab \in Seq(Steps)
    BY <1>1
  <2> QED BY <2>1, ConcatProperties
<1> HIDE DEF s
<1>4. /\ Len(s) = n + m + l
      /\ \A i \in 1 .. n + m + l : s[i] = IF i <= n + m THEN ab[i] ELSE c[i - (n + m)]
      /\ \A i \in 1 .. n + m : ab[i] = IF i <= n THEN a[i] ELSE b[i - n]
  BY <1>1, <1>3
<1> HIDE DEF n, m, l
<1>5. ASSUME NEW i \in 1 .. n PROVE s[i] = a[i]
  <2>1. i \in 1 .. n + m + l /\ i \in 1 .. n + m /\ i <= n + m /\ i <= n
    BY <1>2
  <2> QED BY <1>4, <2>1
<1>6. ASSUME NEW i \in 1 .. m PROVE s[n + i] = b[i]
  <2>1. n + i \in 1 .. n + m + l /\ n + i \in 1 .. n + m /\ n + i <= n + m /\ ~(n + i <= n)
        /\ (n + i) - n = i
    BY <1>2
  <2> QED BY <1>4, <2>1
<1>7. ASSUME NEW i \in 1 .. l PROVE s[n + m + i] = c[i]
  <2>1. /\ n + m + i \in 1 .. n + m + l /\ ~(n + m + i <= n + m)
        /\ (n + m + i) - (n + m) = i
    BY <1>2
  <2> QED BY <1>4, <2>1
<1> QED BY <1>4, <1>5, <1>6, <1>7 DEF s, ab, n, m, l

LEMMA SaveCode ==
  LET s == save_registers \o call_handler
  IN  /\ Len(s) = 41
      /\ s[1] = setq(2, 1) /\ s[2] = setq(3, 2) /\ s[3] = la(1, Base)
      /\ s[4] = getq(2, 0) /\ s[5] = sw2(0) /\ s[6] = getq(2, 2) /\ s[7] = sw2(1)
      /\ s[8] = getq(2, 3) /\ s[9] = sw2(2)
      /\ \A i \in 1 .. 29 : s[9 + i] = sw(i + 2)
      /\ s[39] = la(2, Junk) /\ s[40] = la(10, Base) /\ s[41] = getq(11, 1)
<1> DEFINE a == <<setq(2, 1), setq(3, 2), la(1, Base),
                  getq(2, 0), sw2(0), getq(2, 2), sw2(1), getq(2, 3), sw2(2)>>
           b == From3To31([i \in Regs |-> sw(i)])
           c == <<la(2, Junk), la(10, Base), getq(11, 1)>>
           t == (a \o b) \o c
<1>1. /\ setq(2, 1) \in Steps /\ setq(3, 2) \in Steps /\ la(1, Base) \in Steps
      /\ getq(2, 0) \in Steps /\ sw2(0) \in Steps /\ getq(2, 2) \in Steps /\ sw2(1) \in Steps
      /\ getq(2, 3) \in Steps /\ sw2(2) \in Steps
      /\ la(2, Junk) \in Steps /\ la(10, Base) \in Steps /\ getq(11, 1) \in Steps
  <2>1. Base \in Int /\ Junk \in Int /\ 0 \in Int /\ 1 \in Int /\ 2 \in Int /\ 3 \in Int
        /\ 10 \in Int /\ 11 \in Int
    BY DEF Base, Junk
  <2> QED BY <2>1, StepsOf
<1>2. a \in Seq(Steps) /\ c \in Seq(Steps)
  BY <1>1
<1>3. b \in Seq(Steps)
  BY Blocks
<1>4. t = save_registers \o call_handler
  BY DEF save_registers, call_handler
<1>5. Len(a) = 9 /\ Len(c) = 3
  OBVIOUS
<1>6. Len(b) = 29 /\ \A i \in 1 .. 29 : b[i] = sw(i + 2)
  BY Blocks
<1>7. /\ a[1] = setq(2, 1) /\ a[2] = setq(3, 2) /\ a[3] = la(1, Base)
      /\ a[4] = getq(2, 0) /\ a[5] = sw2(0) /\ a[6] = getq(2, 2) /\ a[7] = sw2(1)
      /\ a[8] = getq(2, 3) /\ a[9] = sw2(2)
      /\ c[1] = la(2, Junk) /\ c[2] = la(10, Base) /\ c[3] = getq(11, 1)
  OBVIOUS
<1> HIDE DEF a, b, c
<1>8. /\ Len(t) = Len(a) + Len(b) + Len(c)
      /\ \A i \in 1 .. Len(a) : t[i] = a[i]
      /\ \A i \in 1 .. Len(b) : t[Len(a) + i] = b[i]
      /\ \A i \in 1 .. Len(c) : t[Len(a) + Len(b) + i] = c[i]
  BY <1>2, <1>3, Straight
<1> HIDE DEF t
<1>9. /\ Len(t) = 41 /\ \A i \in 1 .. 9 : t[i] = a[i]
      /\ \A i \in 1 .. 29 : t[9 + i] = b[i]
      /\ \A i \in 1 .. 3 : t[38 + i] = c[i]
  BY <1>5, <1>6, <1>8
<1>10. /\ t[1] = a[1] /\ t[2] = a[2] /\ t[3] = a[3] /\ t[4] = a[4] /\ t[5] = a[5]
       /\ t[6] = a[6] /\ t[7] = a[7] /\ t[8] = a[8] /\ t[9] = a[9]
       /\ t[39] = c[1] /\ t[40] = c[2] /\ t[41] = c[3]
  <2>1. t[38 + 1] = c[1] /\ t[38 + 2] = c[2] /\ t[38 + 3] = c[3]
    BY <1>9
  <2> QED BY <1>9, <2>1
<1>11. \A i \in 1 .. 29 : t[9 + i] = sw(i + 2)
  BY <1>6, <1>9
<1> QED BY <1>4, <1>7, <1>9, <1>10, <1>11, Zenon

LEMMA RestoreCode ==
  LET s == restore_registers
  IN  /\ Len(s) = 38
      /\ s[1] = mv(1, 10) /\ s[2] = lw(2, 0) /\ s[3] = setq(0, 2)
      /\ s[4] = lw(2, 1) /\ s[5] = setq(1, 2) /\ s[6] = lw(2, 2) /\ s[7] = setq(2, 2)
      /\ \A i \in 1 .. 29 : s[7 + i] = lw(i + 2, i + 2)
      /\ s[37] = getq(1, 1) /\ s[38] = getq(2, 2)
<1> DEFINE a == <<mv(1, 10), lw(2, 0), setq(0, 2), lw(2, 1), setq(1, 2), lw(2, 2), setq(2, 2)>>
           b == From3To31([i \in Regs |-> lw(i, i)])
           c == <<getq(1, 1), getq(2, 2)>>
           t == (a \o b) \o c
<1>1. /\ mv(1, 10) \in Steps /\ lw(2, 0) \in Steps /\ setq(0, 2) \in Steps /\ lw(2, 1) \in Steps
      /\ setq(1, 2) \in Steps /\ lw(2, 2) \in Steps /\ setq(2, 2) \in Steps
      /\ getq(1, 1) \in Steps /\ getq(2, 2) \in Steps
  <2>1. 0 \in Int /\ 1 \in Int /\ 2 \in Int /\ 10 \in Int
    OBVIOUS
  <2> QED BY <2>1, StepsOf
<1>2. a \in Seq(Steps) /\ c \in Seq(Steps)
  BY <1>1
<1>3. b \in Seq(Steps)
  BY Blocks
<1>4. t = restore_registers
  BY DEF restore_registers
<1>5. Len(a) = 7 /\ Len(c) = 2
  OBVIOUS
<1>6. Len(b) = 29 /\ \A i \in 1 .. 29 : b[i] = lw(i + 2, i + 2)
  BY Blocks
<1>7. /\ a[1] = mv(1, 10) /\ a[2] = lw(2, 0) /\ a[3] = setq(0, 2) /\ a[4] = lw(2, 1)
      /\ a[5] = setq(1, 2) /\ a[6] = lw(2, 2) /\ a[7] = setq(2, 2)
      /\ c[1] = getq(1, 1) /\ c[2] = getq(2, 2)
  OBVIOUS
<1> HIDE DEF a, b, c
<1>8. /\ Len(t) = Len(a) + Len(b) + Len(c)
      /\ \A i \in 1 .. Len(a) : t[i] = a[i]
      /\ \A i \in 1 .. Len(b) : t[Len(a) + i] = b[i]
      /\ \A i \in 1 .. Len(c) : t[Len(a) + Len(b) + i] = c[i]
  BY <1>2, <1>3, Straight
<1> HIDE DEF t
<1>9. /\ Len(t) = 38 /\ \A i \in 1 .. 7 : t[i] = a[i]
      /\ \A i \in 1 .. 29 : t[7 + i] = b[i]
      /\ \A i \in 1 .. 2 : t[36 + i] = c[i]
  BY <1>5, <1>6, <1>8
<1>10. /\ t[1] = a[1] /\ t[2] = a[2] /\ t[3] = a[3] /\ t[4] = a[4] /\ t[5] = a[5]
       /\ t[6] = a[6] /\ t[7] = a[7] /\ t[37] = c[1] /\ t[38] = c[2]
  <2>1. t[36 + 1] = c[1] /\ t[36 + 2] = c[2]
    BY <1>9
  <2> QED BY <1>9, <2>1
<1>11. \A i \in 1 .. 29 : t[7 + i] = lw(i + 2, i + 2)
  BY <1>6, <1>9
<1> QED BY <1>4, <1>7, <1>9, <1>10, <1>11, Zenon

LEMMA SaveRuns ==
  ASSUME Entered, NEW m, m = Run(save_registers \o call_handler)
  PROVE  Saved(m) /\ m.x[11] = machine.q[1]
<1> DEFINE s == save_registers \o call_handler
<1>1. /\ Len(s) = 41
      /\ s[1] = setq(2, 1) /\ s[2] = setq(3, 2) /\ s[3] = la(1, Base)
      /\ s[4] = getq(2, 0) /\ s[5] = sw2(0) /\ s[6] = getq(2, 2) /\ s[7] = sw2(1)
      /\ s[8] = getq(2, 3) /\ s[9] = sw2(2)
      /\ \A i \in 1 .. 29 : s[9 + i] = sw(i + 2)
      /\ s[39] = la(2, Junk) /\ s[40] = la(10, Base) /\ s[41] = getq(11, 1)
  BY SaveCode
<1> HIDE DEF s
<1>2. PICK g : IsTrace(g, s, 41) /\ m = g[41]
  <2>1. Len(s) \in Nat
    BY <1>1
  <2>2. m = Run(s)
    BY DEF s
  <2>3. PICK g : IsTrace(g, s, Len(s)) /\ Run(s) = g[Len(s)]
    BY <2>1, RunTrace
  <2> QED BY <1>1, <2>2, <2>3
<1>3. \A i \in 1 .. 41 : g[i] = Execute(g[i-1], s[i])
  BY <1>2 DEF IsTrace
<1>4. /\ IsMachine(g[0]) /\ g[0].q[0] = at /\ \A j \in Regs : g[0].x[j] = j
      /\ g[0].q[1] = machine.q[1]
  BY <1>2 DEF IsTrace, Entered
<1>r. 1 \in Regs /\ 2 \in Regs /\ 10 \in Regs /\ 11 \in Regs
  BY DEF Regs
<1>q. 0 \in QRegs /\ 1 \in QRegs /\ 2 \in QRegs /\ 3 \in QRegs
  BY DEF QRegs
<1>s. 0 \in Slots /\ 1 \in Slots /\ 2 \in Slots /\ (\A j \in Slots : j \in 0 .. 31)
      /\ \A j \in 1 .. 31 : j \in Slots
  BY DEF Slots
<1>e1. g[1] = Execute(g[0], setq(2, 1))
  BY <1>1, <1>3
<1>e2. g[2] = Execute(g[1], setq(3, 2))
  BY <1>1, <1>3
<1>e3. g[3] = Execute(g[2], la(1, Base))
  BY <1>1, <1>3
<1>e4. g[4] = Execute(g[3], getq(2, 0))
  BY <1>1, <1>3
<1>e5. g[5] = Execute(g[4], sw2(0))
  BY <1>1, <1>3
<1>e6. g[6] = Execute(g[5], getq(2, 2))
  BY <1>1, <1>3
<1>e7. g[7] = Execute(g[6], sw2(1))
  BY <1>1, <1>3
<1>e8. g[8] = Execute(g[7], getq(2, 3))
  BY <1>1, <1>3
<1>e9. g[9] = Execute(g[8], sw2(2))
  BY <1>1, <1>3
<1>e39. g[39] = Execute(g[38], la(2, Junk))
  BY <1>1, <1>3
<1>e40. g[40] = Execute(g[39], la(10, Base))
  BY <1>1, <1>3
<1>e41. g[41] = Execute(g[40], getq(11, 1))
  BY <1>1, <1>3
<1>6. \A i \in 1 .. 29 : g[9 + i] = Execute(g[9 + (i - 1)], sw(i + 2))
  <2>1. \A i \in 1 .. 29 : 9 + i \in 1 .. 41 /\ (9 + i) - 1 = 9 + (i - 1)
    OBVIOUS
  <2> QED BY <1>1, <1>3, <2>1
<1> HIDE DEF s
<1>7. /\ IsMachine(g[1]) /\ g[1].x = g[0].x /\ g[1].q[0] = at /\ g[1].q[1] = machine.q[1]
      /\ g[1].q[2] = 1
  <2>1. IsMachine(g[1]) /\ g[1].x = g[0].x /\ g[1].mem = g[0].mem
        /\ \A j \in QRegs : g[1].q[j] = IF j = 2 THEN g[0].x[1] ELSE g[0].q[j]
    BY <1>4, <1>e1, <1>q, Setq
  <2> QED BY <1>4, <1>r, <1>q, <2>1
<1>8. /\ IsMachine(g[2]) /\ g[2].x = g[0].x /\ g[2].q[0] = at /\ g[2].q[1] = machine.q[1]
      /\ g[2].q[2] = 1 /\ g[2].q[3] = 2
  <2>1. IsMachine(g[2]) /\ g[2].x = g[1].x /\ g[2].mem = g[1].mem
        /\ \A j \in QRegs : g[2].q[j] = IF j = 3 THEN g[1].x[2] ELSE g[1].q[j]
    <3>1. IsMachine(g[1])
      BY <1>7
    <3> QED BY <1>e2, <1>q, <3>1, Setq
  <2> QED BY <1>4, <1>7, <1>r, <1>q, <2>1
<1>9. /\ IsMachine(g[3]) /\ g[3].q = g[2].q
      /\ \A j \in Regs : g[3].x[j] = IF j = 1 THEN Base ELSE j
  <2>1. IsMachine(g[3]) /\ g[3].q = g[2].q /\ g[3].mem = g[2].mem
        /\ \A j \in Regs : g[3].x[j] = IF j = 1 THEN Base ELSE g[2].x[j]
    BY <1>e3, <1>8, <1>r, La
  <2> QED BY <1>4, <1>8, <2>1
<1>10. /\ IsMachine(g[4]) /\ g[4].q = g[2].q
       /\ \A j \in Regs : g[4].x[j] = IF j = 1 THEN Base ELSE IF j = 2 THEN at ELSE j
  <2>1. IsMachine(g[4]) /\ g[4].q = g[3].q /\ g[4].mem = g[3].mem
        /\ \A j \in Regs : g[4].x[j] = IF j = 2 THEN g[3].q[0] ELSE g[3].x[j]
    <3>1. IsMachine(g[3])
      BY <1>9
    <3> QED BY <1>e4, <1>r, <3>1, Getq
  <2> QED BY <1>8, <1>9, <2>1
<1>11. /\ IsMachine(g[5]) /\ g[5].q = g[2].q /\ g[5].mem[0] = at
       /\ \A j \in Regs : g[5].x[j] = IF j = 1 THEN Base ELSE IF j = 2 THEN at ELSE j
  <2>2. g[4].x[1] = Base /\ g[4].x[2] = at
    BY <1>10, <1>r
  <2>3. IsMachine(g[5]) /\ g[5].q = g[4].q /\ g[5].x = g[4].x
        /\ \A j \in Slots : g[5].mem[j] = IF j = 0 THEN g[4].x[2] ELSE g[4].mem[j]
    <3>1. IsMachine(g[4]) /\ g[4].x[1] = Base /\ 0 \in Slots
      BY <1>10, <1>s, <2>2
    <3> QED BY <1>e5, <3>1, Sw2
  <2> QED BY <1>10, <1>s, <2>2, <2>3
<1>12. /\ IsMachine(g[6]) /\ g[6].q = g[2].q /\ g[6].mem[0] = at
       /\ \A j \in Regs : g[6].x[j] = IF j = 1 THEN Base ELSE IF j = 2 THEN 1 ELSE j
  <2>1. IsMachine(g[6]) /\ g[6].q = g[5].q /\ g[6].mem = g[5].mem
        /\ \A j \in Regs : g[6].x[j] = IF j = 2 THEN g[5].q[2] ELSE g[5].x[j]
    <3>1. IsMachine(g[5])
      BY <1>11
    <3> QED BY <1>e6, <1>r, <3>1, Getq
  <2> QED BY <1>8, <1>11, <2>1
<1>13. /\ IsMachine(g[7]) /\ g[7].q = g[2].q /\ g[7].mem[0] = at /\ g[7].mem[1] = 1
       /\ \A j \in Regs : g[7].x[j] = IF j = 1 THEN Base ELSE IF j = 2 THEN 1 ELSE j
  <2>2. g[6].x[1] = Base /\ g[6].x[2] = 1
    BY <1>12, <1>r
  <2>3. IsMachine(g[7]) /\ g[7].q = g[6].q /\ g[7].x = g[6].x
        /\ \A j \in Slots : g[7].mem[j] = IF j = 1 THEN g[6].x[2] ELSE g[6].mem[j]
    <3>1. IsMachine(g[6]) /\ g[6].x[1] = Base /\ 1 \in Slots
      BY <1>12, <1>s, <2>2
    <3> QED BY <1>e7, <3>1, Sw2
  <2> QED BY <1>12, <1>s, <2>2, <2>3
<1>14. /\ IsMachine(g[8]) /\ g[8].q = g[2].q /\ g[8].mem[0] = at /\ g[8].mem[1] = 1
       /\ \A j \in Regs : g[8].x[j] = IF j = 1 THEN Base ELSE j
  <2>1. IsMachine(g[8]) /\ g[8].q = g[7].q /\ g[8].mem = g[7].mem
        /\ \A j \in Regs : g[8].x[j] = IF j = 2 THEN g[7].q[3] ELSE g[7].x[j]
    <3>1. IsMachine(g[7])
      BY <1>13
    <3> QED BY <1>e8, <1>r, <3>1, Getq
  <2> QED BY <1>8, <1>13, <2>1
<1>15. /\ IsMachine(g[9]) /\ g[9].q[1] = machine.q[1]
       /\ g[9].mem[0] = at /\ g[9].mem[1] = 1 /\ g[9].mem[2] = 2
       /\ \A j \in Regs : g[9].x[j] = IF j = 1 THEN Base ELSE j
  <2>2. g[8].x[1] = Base /\ g[8].x[2] = 2
    BY <1>14, <1>r
  <2>3. IsMachine(g[9]) /\ g[9].q = g[8].q /\ g[9].x = g[8].x
        /\ \A j \in Slots : g[9].mem[j] = IF j = 2 THEN g[8].x[2] ELSE g[8].mem[j]
    <3>1. IsMachine(g[8]) /\ g[8].x[1] = Base /\ 2 \in Slots
      BY <1>14, <1>s, <2>2
    <3> QED BY <1>e9, <3>1, Sw2
  <2> QED BY <1>8, <1>14, <1>s, <2>2, <2>3
<1> DEFINE OK(n) == /\ IsMachine(g[9 + n]) /\ g[9 + n].q = g[9].q /\ g[9 + n].x = g[9].x
                    /\ g[9 + n].mem[0] = at
                    /\ \A j \in 1 .. 31 : j <= n + 2 => g[9 + n].mem[j] = j
           T == {n \in Nat : n <= 29 => OK(n)}
<1>16. 0 \in T
  <2>1. 9 + 0 = 9 /\ 0 \in Nat
    OBVIOUS
  <2>2. \A j \in 1 .. 31 : j <= 0 + 2 => j = 1 \/ j = 2
    OBVIOUS
  <2> QED BY <1>15, <2>1, <2>2
<1>17. ASSUME NEW n \in Nat, n \in T PROVE n + 1 \in T
  <2>1. SUFFICES ASSUME n + 1 <= 29 PROVE OK(n + 1)
    OBVIOUS
  <2> DEFINE u == g[9 + n]
             v == g[9 + (n + 1)]
  <2>2. n + 1 \in 1 .. 29 /\ (n + 1) - 1 = n /\ n + 3 \in Slots /\ n + 3 \in Regs
        /\ (n + 1) + 2 = n + 3
    BY <2>1 DEF Regs, Slots
  <2>3. v = Execute(u, sw(n + 3))
    BY <1>6, <2>2
  <2>5. OK(n)
    BY <1>17, <2>1
  <2>6. IsMachine(u) /\ u.q = g[9].q /\ u.x = g[9].x /\ u.mem[0] = at
        /\ \A j \in 1 .. 31 : j <= n + 2 => u.mem[j] = j
    BY <2>5
  <2>7. u.x[1] = Base /\ u.x[n+3] = n + 3
    BY <1>15, <1>r, <2>2, <2>6
  <2> HIDE DEF u, v
  <2>8. IsMachine(v) /\ v.q = u.q /\ v.x = u.x
        /\ \A j \in Slots : v.mem[j] = IF j = n + 3 THEN u.x[n+3] ELSE u.mem[j]
    <3>1. IsMachine(u) /\ u.x[1] = Base /\ n + 3 \in Slots
      BY <2>2, <2>6, <2>7
    <3> DEFINE t == n + 3
    <3>2. t \in Slots /\ v = Execute(u, sw(t))
      BY <2>3, <3>1
    <3> HIDE DEF t
    <3>3. /\ IsMachine(v) /\ v.q = u.q /\ v.x = u.x
          /\ \A j \in Slots : v.mem[j] = IF j = t THEN u.x[t] ELSE u.mem[j]
      BY <3>1, <3>2, Sw
    <3> QED BY <3>3 DEF t
  <2>9. v.mem[0] = at
    BY <1>s, <2>2, <2>6, <2>8
  <2>10. ASSUME NEW j \in 1 .. 31, j <= (n + 1) + 2 PROVE v.mem[j] = j
    <3>1. CASE j = n + 3
      BY <1>s, <2>2, <2>7, <2>8, <3>1
    <3>2. CASE j # n + 3
      <4>1. j <= n + 2 /\ j \in Slots
        BY <1>s, <2>10, <3>2
      <4> QED BY <2>6, <2>8, <3>2, <4>1
    <3> QED BY <3>1, <3>2
  <2> QED BY <2>6, <2>8, <2>9, <2>10 DEF v
<1> HIDE DEF OK
<1>18. OK(29)
  <2> HIDE DEF T
  <2>1. Nat \subseteq T
    BY <1>16, <1>17, Induction
  <2>2. 29 \in T /\ 29 <= 29
    BY <2>1
  <2> QED BY <2>2 DEF T
<1>19. /\ IsMachine(g[38]) /\ g[38].q = g[9].q /\ g[38].x = g[9].x /\ g[38].mem[0] = at
       /\ \A j \in 1 .. 31 : g[38].mem[j] = j
  <2>1. 9 + 29 = 38 /\ \A j \in 1 .. 31 : j <= 29 + 2
    OBVIOUS
  <2> QED BY <1>18, <2>1 DEF OK
<1> HIDE DEF T
<1>20. IsMachine(g[39]) /\ g[39].q = g[38].q /\ g[39].mem = g[38].mem
       /\ \A j \in Regs : g[39].x[j] = IF j = 2 THEN Junk ELSE g[38].x[j]
  BY <1>e39, <1>19, <1>r, La
<1>21. IsMachine(g[40]) /\ g[40].q = g[39].q /\ g[40].mem = g[39].mem
       /\ \A j \in Regs : g[40].x[j] = IF j = 10 THEN Base ELSE g[39].x[j]
  BY <1>e40, <1>20, <1>r, La
<1>22. IsMachine(g[41]) /\ g[41].q = g[40].q /\ g[41].mem = g[40].mem
       /\ \A j \in Regs : g[41].x[j] = IF j = 11 THEN g[40].q[1] ELSE g[40].x[j]
  BY <1>e41, <1>21, <1>r, Getq
<1>23. Saved(g[41])
  BY <1>19, <1>20, <1>21, <1>22, <1>r DEF Saved
<1>24. g[41].x[11] = machine.q[1]
  BY <1>15, <1>19, <1>20, <1>21, <1>22, <1>r
<1> QED BY <1>2, <1>23, <1>24

LEMMA RestoreRuns ==
  ASSUME Saved(machine), NEW m, m = Run(restore_registers)
  PROVE  IsMachine(m) /\ m.x = Own /\ m.q[0] = at
<1> DEFINE s == restore_registers
<1>1. /\ Len(s) = 38
      /\ s[1] = mv(1, 10) /\ s[2] = lw(2, 0) /\ s[3] = setq(0, 2)
      /\ s[4] = lw(2, 1) /\ s[5] = setq(1, 2) /\ s[6] = lw(2, 2) /\ s[7] = setq(2, 2)
      /\ \A i \in 1 .. 29 : s[7 + i] = lw(i + 2, i + 2)
      /\ s[37] = getq(1, 1) /\ s[38] = getq(2, 2)
  BY RestoreCode
<1> HIDE DEF s
<1>2. PICK g : IsTrace(g, s, 38) /\ m = g[38]
  <2>1. Len(s) \in Nat
    BY <1>1
  <2>2. m = Run(s)
    BY DEF s
  <2>3. PICK g : IsTrace(g, s, Len(s)) /\ Run(s) = g[Len(s)]
    BY <2>1, RunTrace
  <2> QED BY <1>1, <2>2, <2>3
<1>3. \A i \in 1 .. 38 : g[i] = Execute(g[i-1], s[i])
  BY <1>2 DEF IsTrace
<1>r. 1 \in Regs /\ 2 \in Regs /\ 10 \in Regs
  BY DEF Regs
<1>q. 0 \in QRegs /\ 1 \in QRegs /\ 2 \in QRegs
  BY DEF QRegs
<1>4. /\ IsMachine(g[0]) /\ g[0].x[10] = Base
      /\ g[0].mem[0] = at /\ \A j \in 1 .. 31 : g[0].mem[j] = j
  BY <1>2 DEF IsTrace, Saved
<1>e1. g[1] = Execute(g[0], mv(1, 10))
  BY <1>1, <1>3
<1>e2. g[2] = Execute(g[1], lw(2, 0))
  BY <1>1, <1>3
<1>e3. g[3] = Execute(g[2], setq(0, 2))
  BY <1>1, <1>3
<1>e4. g[4] = Execute(g[3], lw(2, 1))
  BY <1>1, <1>3
<1>e5. g[5] = Execute(g[4], setq(1, 2))
  BY <1>1, <1>3
<1>e6. g[6] = Execute(g[5], lw(2, 2))
  BY <1>1, <1>3
<1>e7. g[7] = Execute(g[6], setq(2, 2))
  BY <1>1, <1>3
<1>e37. g[37] = Execute(g[36], getq(1, 1))
  BY <1>1, <1>3
<1>e38. g[38] = Execute(g[37], getq(2, 2))
  BY <1>1, <1>3
<1>6. \A i \in 1 .. 29 : g[7 + i] = Execute(g[7 + (i - 1)], lw(i + 2, i + 2))
  <2>1. \A i \in 1 .. 29 : 7 + i \in 1 .. 38 /\ (7 + i) - 1 = 7 + (i - 1)
    OBVIOUS
  <2> QED BY <1>1, <1>3, <2>1
<1>7. IsMachine(g[1]) /\ g[1].mem = g[0].mem /\ g[1].x[1] = Base
  <2>1. IsMachine(g[1]) /\ g[1].q = g[0].q /\ g[1].mem = g[0].mem
        /\ \A j \in Regs : g[1].x[j] = IF j = 1 THEN g[0].x[10] ELSE g[0].x[j]
    <3>1. IsMachine(g[0]) /\ 1 \in Regs
      BY <1>4, <1>r
    <3> QED BY <1>e1, <3>1, Mv
  <2> QED BY <1>4, <1>r, <2>1
<1>8. IsMachine(g[2]) /\ g[2].mem = g[0].mem /\ g[2].x[1] = Base /\ g[2].x[2] = at
  <2>1. IsMachine(g[2]) /\ g[2].q = g[1].q /\ g[2].mem = g[1].mem
        /\ \A j \in Regs : g[2].x[j] = IF j = 2 THEN g[1].mem[0] ELSE g[1].x[j]
    <3>1. IsMachine(g[1]) /\ g[1].x[1] = Base
      BY <1>7
    <3> QED BY <1>e2, <1>r, <3>1, Lw
  <2> QED BY <1>4, <1>7, <1>r, <2>1
<1>9. IsMachine(g[3]) /\ g[3].mem = g[0].mem /\ g[3].x[1] = Base /\ g[3].q[0] = at
  <2>1. IsMachine(g[3]) /\ g[3].x = g[2].x /\ g[3].mem = g[2].mem
        /\ \A j \in QRegs : g[3].q[j] = IF j = 0 THEN g[2].x[2] ELSE g[2].q[j]
    <3>1. IsMachine(g[2])
      BY <1>8
    <3> QED BY <1>e3, <1>q, <3>1, Setq
  <2> QED BY <1>8, <1>q, <2>1
<1>10. /\ IsMachine(g[4]) /\ g[4].mem = g[0].mem /\ g[4].x[1] = Base /\ g[4].q[0] = at
       /\ g[4].x[2] = 1
  <2>1. IsMachine(g[4]) /\ g[4].q = g[3].q /\ g[4].mem = g[3].mem
        /\ \A j \in Regs : g[4].x[j] = IF j = 2 THEN g[3].mem[1] ELSE g[3].x[j]
    <3>1. IsMachine(g[3]) /\ g[3].x[1] = Base
      BY <1>9
    <3> QED BY <1>e4, <1>r, <3>1, Lw
  <2> QED BY <1>4, <1>9, <1>r, <2>1
<1>11. /\ IsMachine(g[5]) /\ g[5].mem = g[0].mem /\ g[5].x[1] = Base /\ g[5].q[0] = at
       /\ g[5].q[1] = 1
  <2>1. IsMachine(g[5]) /\ g[5].x = g[4].x /\ g[5].mem = g[4].mem
        /\ \A j \in QRegs : g[5].q[j] = IF j = 1 THEN g[4].x[2] ELSE g[4].q[j]
    <3>1. IsMachine(g[4])
      BY <1>10
    <3> QED BY <1>e5, <1>q, <3>1, Setq
  <2> QED BY <1>10, <1>q, <2>1
<1>12. /\ IsMachine(g[6]) /\ g[6].mem = g[0].mem /\ g[6].x[1] = Base /\ g[6].q[0] = at
       /\ g[6].q[1] = 1 /\ g[6].x[2] = 2
  <2>1. IsMachine(g[6]) /\ g[6].q = g[5].q /\ g[6].mem = g[5].mem
        /\ \A j \in Regs : g[6].x[j] = IF j = 2 THEN g[5].mem[2] ELSE g[5].x[j]
    <3>1. IsMachine(g[5]) /\ g[5].x[1] = Base
      BY <1>11
    <3> QED BY <1>e6, <1>r, <3>1, Lw
  <2> QED BY <1>4, <1>11, <1>r, <2>1
<1>13. /\ IsMachine(g[7]) /\ g[7].mem = g[0].mem /\ g[7].x[1] = Base /\ g[7].q[0] = at
       /\ g[7].q[1] = 1 /\ g[7].q[2] = 2
  <2>1. IsMachine(g[7]) /\ g[7].x = g[6].x /\ g[7].mem = g[6].mem
        /\ \A j \in QRegs : g[7].q[j] = IF j = 2 THEN g[6].x[2] ELSE g[6].q[j]
    <3>1. IsMachine(g[6])
      BY <1>12
    <3> QED BY <1>e7, <1>q, <3>1, Setq
  <2> QED BY <1>12, <1>q, <2>1
<1> DEFINE OK(n) == /\ IsMachine(g[7 + n]) /\ g[7 + n].q = g[7].q /\ g[7 + n].mem = g[0].mem
                    /\ g[7 + n].x[1] = Base
                    /\ \A j \in 3 .. 31 : j <= n + 2 => g[7 + n].x[j] = j
           T == {n \in Nat : n <= 29 => OK(n)}
<1>14. 0 \in T
  <2>1. 7 + 0 = 7 /\ 0 \in Nat
    OBVIOUS
  <2>2. \A j \in 3 .. 31 : ~(j <= 0 + 2)
    OBVIOUS
  <2> QED BY <1>13, <2>1, <2>2
<1>15. ASSUME NEW n \in Nat, n \in T PROVE n + 1 \in T
  <2>1. SUFFICES ASSUME n + 1 <= 29 PROVE OK(n + 1)
    OBVIOUS
  <2> DEFINE u == g[7 + n]
             v == g[7 + (n + 1)]
  <2>2. /\ n + 1 \in 1 .. 29 /\ (n + 1) - 1 = n /\ n + 3 \in 1 .. 31 /\ n + 3 \in Regs
        /\ (n + 1) + 2 = n + 3 /\ n + 3 # 1
    BY <2>1 DEF Regs
  <2>3. v = Execute(u, lw(n + 3, n + 3))
    BY <1>6, <2>2
  <2>4. OK(n)
    BY <1>15, <2>1
  <2>5. IsMachine(u) /\ u.q = g[7].q /\ u.mem = g[0].mem /\ u.x[1] = Base
        /\ \A j \in 3 .. 31 : j <= n + 2 => u.x[j] = j
    BY <2>4
  <2> HIDE DEF u, v
  <2>6. IsMachine(v) /\ v.q = u.q /\ v.mem = u.mem
        /\ \A j \in Regs : v.x[j] = IF j = n + 3 THEN u.mem[n+3] ELSE u.x[j]
    <3>1. IsMachine(u) /\ u.x[1] = Base
      BY <2>5
    <3> DEFINE t == n + 3
    <3>2. t \in Regs /\ v = Execute(u, lw(t, t))
      BY <2>2, <2>3
    <3> HIDE DEF t
    <3>3. /\ IsMachine(v) /\ v.q = u.q /\ v.mem = u.mem
          /\ \A j \in Regs : v.x[j] = IF j = t THEN u.mem[t] ELSE u.x[j]
      BY <3>1, <3>2, Lw
    <3> QED BY <3>3 DEF t
  <2>7. v.x[1] = Base
    BY <1>r, <2>2, <2>5, <2>6
  <2>8. ASSUME NEW j \in 3 .. 31, j <= (n + 1) + 2 PROVE v.x[j] = j
    <3>0. j \in Regs
      BY DEF Regs
    <3>1. CASE j = n + 3
      BY <1>4, <2>2, <2>5, <2>6, <3>0, <3>1
    <3>2. CASE j # n + 3
      <4>1. j <= n + 2
        BY <2>8, <3>2
      <4> QED BY <2>5, <2>6, <3>0, <3>2, <4>1
    <3> QED BY <3>1, <3>2
  <2> QED BY <2>5, <2>6, <2>7, <2>8 DEF v
<1> HIDE DEF OK
<1>16. OK(29)
  <2> HIDE DEF T
  <2>1. Nat \subseteq T
    BY <1>14, <1>15, Induction
  <2>2. 29 \in T /\ 29 <= 29
    BY <2>1
  <2> QED BY <2>2 DEF T
<1> HIDE DEF T
<1>17. /\ IsMachine(g[36]) /\ g[36].q = g[7].q
       /\ \A j \in 3 .. 31 : g[36].x[j] = j
  <2>1. 7 + 29 = 36 /\ \A j \in 3 .. 31 : j <= 29 + 2
    OBVIOUS
  <2> QED BY <1>16, <2>1 DEF OK
<1>18. IsMachine(g[37]) /\ g[37].q = g[36].q /\ g[37].mem = g[36].mem
       /\ \A j \in Regs : g[37].x[j] = IF j = 1 THEN g[36].q[1] ELSE g[36].x[j]
  <2>1. IsMachine(g[36])
    BY <1>17
  <2> QED BY <1>e37, <1>r, <2>1, Getq
<1>19. IsMachine(g[38]) /\ g[38].q = g[37].q /\ g[38].mem = g[37].mem
       /\ \A j \in Regs : g[38].x[j] = IF j = 2 THEN g[37].q[2] ELSE g[37].x[j]
  <2>1. IsMachine(g[37])
    BY <1>18
  <2> QED BY <1>e38, <1>r, <2>1, Getq
<1>20. g[38].q[0] = at
  BY <1>13, <1>17, <1>18, <1>19
<1>21. ASSUME NEW j \in Regs PROVE g[38].x[j] = j
  <2>1. CASE j = 1
    BY <1>13, <1>17, <1>18, <1>19, <2>1
  <2>2. CASE j = 2
    BY <1>13, <1>17, <1>18, <1>19, <2>2
  <2>3. CASE j \in 3 .. 31
    <3>1. j # 1 /\ j # 2
      BY <2>3
    <3> QED BY <1>17, <1>18, <1>19, <2>3, <3>1
  <2> QED BY <2>1, <2>2, <2>3 DEF Regs
<1>22. g[38].x = Own
  <2>1. g[38].x = [j \in Regs |-> g[38].x[j]]
    BY <1>19 DEF IsMachine
  <2> QED BY <1>21, <2>1 DEF Own
<1> QED BY <1>2, <1>19, <1>20, <1>22

-------------------------------------------------------------------------------
(* The handler is invisible *)

\* Outside of the handler the registers are the program's; inside they are what the
\* program left, and what was saved of it.
HandlerInv ==
  /\ ~irq_active => machine = Machine
  /\ irq_active /\ at # "trap" /\ handler = "entered" => Entered
  /\ irq_active /\ at # "trap" /\ handler = "restore" => Saved(machine)

LEMMA EnterStep ==
  ASSUME HandlerInv, Enter
  PROVE  HandlerInv'
<1>1. /\ machine = Machine /\ at' = at /\ irq_active' /\ handler' = "entered"
      /\ machine' = [machine EXCEPT !.q[0] = at, !.q[1] = irq_pending]
  BY DEF Enter, Interrupted, HandlerInv
<1> DEFINE w == [j \in QRegs |-> IF j = 0 THEN at ELSE IF j = 1 THEN irq_pending ELSE 0]
           z == [j \in Slots |-> 0]
<1>2. machine' = [x |-> Own, q |-> w, mem |-> z]
  <2> DEFINE o == [j \in QRegs |-> 0]
             n == [o EXCEPT ![0] = at]
             r == [n EXCEPT ![1] = irq_pending]
  <2>1. machine = [x |-> Own, q |-> o, mem |-> z]
    BY <1>1 DEF Machine, QRegs, Slots
  <2>2. w = r
    BY DEF QRegs
  <2> HIDE DEF o, z, w
  <2>3. machine' = [x |-> Own, q |-> r, mem |-> z]
    <3> DEFINE a == [x |-> Own, q |-> o, mem |-> z]
               b == [a EXCEPT !.q = [a.q EXCEPT ![0] = at]]
               c == [b EXCEPT !.q = [b.q EXCEPT ![1] = irq_pending]]
    <3>1. machine' = [machine EXCEPT !.q[0] = at, !.q[1] = irq_pending]
      BY <1>1
    <3>2. machine' = [a EXCEPT !.q[0] = at, !.q[1] = irq_pending]
      BY <2>1, <3>1, Zenon
    <3>3. machine' = c
      BY <3>2
    <3>4. b = [x |-> Own, q |-> n, mem |-> z] /\ b.q = n
      OBVIOUS
    <3> HIDE DEF b
    <3>5. c = [x |-> Own, q |-> [b.q EXCEPT ![1] = irq_pending], mem |-> z]
      BY <3>4
    <3> QED BY <3>3, <3>4, <3>5
  <2> QED BY <2>2, <2>3
<1>3. /\ Own = [j \in Regs |-> Own[j]] /\ (\A j \in Regs : Own[j] = j)
      /\ w = [j \in QRegs |-> w[j]] /\ w[0] = at /\ z = [j \in Slots |-> z[j]]
  BY DEF Own, QRegs
<1> HIDE DEF w, z
<1>4. machine'.x = Own /\ machine'.q = w /\ machine'.mem = z
  BY <1>2
<1>5. Entered'
  BY <1>1, <1>2, <1>3, <1>4 DEF Entered, IsMachine
<1> QED BY <1>1, <1>5 DEF HandlerInv

LEMMA CallStep ==
  ASSUME HandlerInv, Call
  PROVE  HandlerInv'
<1>1. irq_active /\ at # "trap" /\ handler = "entered" /\ irq_active' = irq_active
  BY DEF Call, Handler
<1>2. Entered
  BY <1>1 DEF HandlerInv
<1> DEFINE m == Run(save_registers \o call_handler)
<1>3. Saved(m)
  BY <1>2, SaveRuns
<1>4. irq(m, m.x[10], m.x[11])
  BY DEF Call
<1> HIDE DEF m
<1> DEFINE x == [i \in Regs |-> CASE i = 10 -> m.x[10]
                                  [] i \in CallerSaved \ {10} -> Junk
                                  [] OTHER -> m.x[i]]
<1>5. \/ at' = "trap"
      \/ handler' = "restore" /\ at' = at /\ machine' = [m EXCEPT !.x = x]
  BY <1>4 DEF irq
<1>6. ASSUME handler' = "restore", at' = at, machine' = [m EXCEPT !.x = x]
      PROVE  Saved(machine)'
  <2>1. x = [j \in Regs |-> x[j]] /\ x[10] = Base
    BY <1>3 DEF Saved, Regs
  <2> HIDE DEF x
  <2>2. machine' = [x |-> x, q |-> m.q, mem |-> m.mem]
    BY <1>3, <1>6 DEF Saved, IsMachine
  <2>3. machine'.x = x /\ machine'.q = m.q /\ machine'.mem = m.mem
    BY <2>2
  <2> QED BY <1>3, <1>6, <2>1, <2>2, <2>3 DEF Saved, IsMachine
<1> QED BY <1>1, <1>5, <1>6 DEF HandlerInv

LEMMA RestoreStep ==
  ASSUME HandlerInv, Restore
  PROVE  HandlerInv' /\ at' = at /\ machine'.x = Own
<1>1. /\ irq_active /\ at # "trap" /\ handler = "restore" /\ ~irq_active'
  BY DEF Restore, Handler, retirq
<1>2. Saved(machine)
  BY <1>1 DEF HandlerInv
<1> DEFINE m == Run(restore_registers)
<1>3. m.x = Own /\ m.q[0] = at
  BY <1>2, RestoreRuns
<1>4. at' = m.q[0] /\ machine' = [Machine EXCEPT !.x = m.x]
  BY DEF Restore
<1> HIDE DEF m
<1>5. machine' = Machine
  BY <1>3, <1>4 DEF Machine
<1> QED BY <1>1, <1>3, <1>4, <1>5 DEF HandlerInv, Machine

LEMMA HandlerNext == HandlerInv /\ UnitsReady /\ [Next]_vars => HandlerInv'
<1> SUFFICES ASSUME HandlerInv, UnitsReady, [Next]_vars PROVE HandlerInv'
  OBVIOUS
<1>1. ASSUME UNCHANGED <<at, irq_active, handler, machine>> PROVE HandlerInv'
  BY <1>1 DEF HandlerInv, Entered, Saved
<1>2. CASE Main /\ UNCHANGED <<irq_active, handler, machine, defect>>
  <2>1. ~irq_active
    <3>1. Program \/ pcpi.valid
      BY <1>2 DEF Main, Start, Wait, Unmask, Arm, Test, EbreakStep, Finish, Pass, Sieve, Multest,
                  NextRound, Offer, Compare, Clock
    <3> QED BY <3>1 DEF Program, UnitsReady
  <2> QED BY <1>2, <2>1 DEF HandlerInv
<1>3. CASE RaiseLine \/ Elapse
  BY <1>1, <1>3 DEF RaiseLine, Elapse, irqVars
<1>4. CASE Reset \/ Release
  BY <1>4 DEF Reset, Release, ResetClock, HandlerInv
<1>5. CASE UNCHANGED vars
  BY <1>1, <1>5 DEF vars, irqVars
<1> QED BY <1>2, <1>3, <1>4, <1>5, EnterStep, CallStep, RestoreStep DEF Next, Instruction

\* The registers of the program are its own whenever it runs, and in the handler they
\* are first where the program left them and then all saved.
THEOREM HandlerInvariant == Spec => []HandlerInv
<1>1. Init => HandlerInv
  BY DEF Init, HandlerInv
<1> QED BY <1>1, HandlerNext, UnitsInvariant, PTL DEF Spec

\* The interrupt handler gives the program back all of its registers, and returns to
\* where it was entered, whatever irq() does to the registers a function may use.
THEOREM HandlerIsTransparent == Spec => Transparent
<1>1. HandlerInv /\ [Next]_vars => [Restore => at' = at /\ machine'.x = Own]_vars
  BY RestoreStep
<1> QED BY <1>1, HandlerInvariant, PTL DEF Spec, Transparent

================================================================================
