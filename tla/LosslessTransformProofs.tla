------------------------ MODULE LosslessTransformProofs ------------------------
(***************************************************************************)
(* What tjTransform() promises, for images and requests of every size.     *)
(*                                                                         *)
(* Everything that is computed before blocks are moved is a function of    *)
(* the image and the request: Asked says which workspaces are granted,     *)
(* Prepared what destination follows.  From there the proof is arithmetic: *)
(* a component of an iMCU has as many blocks as its factors say, so that   *)
(* rows and columns of iMCUs are inside the mirrored part as a whole, and  *)
(* every routine writes the block Ideal that a picture mirrored sample by  *)
(* sample would have there.  The routine that works in place is a          *)
(* recursive function of the row; it is replaced by its closed form.       *)
(***************************************************************************)
EXTENDS LosslessTransform, SequenceTheorems, WellFoundedInduction, TLAPS

(***************************************************************************)
(* Numbers: induction, functions defined by recursion, division.           *)
(***************************************************************************)

\* A set of naturals has a least element.
LEMMA LeastNat ==
    ASSUME NEW T, T \subseteq Nat, T # {}
    PROVE  \E m \in T : \A k \in T : m <= k
<1> DEFINE R == OpToRel(<, Nat)
<1>1. IsWellFoundedOn(R, Nat)
  BY NatLessThanWellFounded
<1>2. \E x \in T : \A y \in T : ~(<<y, x>> \in R)
  <2> HIDE DEF R
  <2>1. QED
    BY <1>1, WFMin
<1>3. \A x, y \in Nat : <<y, x>> \in R <=> y < x
  BY DEF OpToRel
<1> HIDE DEF R
<1>4. PICK x \in T : \A y \in T : ~(<<y, x>> \in R)
  BY <1>2
<1>5. \A y \in T : x <= y
  <2> SUFFICES ASSUME NEW y \in T PROVE x <= y
    OBVIOUS
  <2>1. x \in Nat /\ y \in Nat
    OBVIOUS
  <2>2. ~(y < x)
    BY <1>3, <1>4, <2>1
  <2>3. QED
    BY <2>1, <2>2
<1>6. QED
  BY <1>4, <1>5

\* What holds of 0 and is passed on holds of all numbers up to a bound.
LEMMA BoundedInduction ==
    ASSUME NEW m \in Nat, NEW S, 0 \in S,
           \A n \in 0 .. m - 1 : n \in S => n + 1 \in S
    PROVE  0 .. m \subseteq S
<1> DEFINE T == {n \in 0 .. m : n \notin S}
<1> SUFFICES ASSUME T # {} PROVE FALSE
  OBVIOUS
<1>1. T \subseteq Nat
  OBVIOUS
<1>2. PICK k \in T : \A n \in T : k <= n
  <2> HIDE DEF T
  <2>1. QED
    BY <1>1, LeastNat
<1>3. k \in 0 .. m /\ k # 0 /\ k \notin S
  OBVIOUS
<1>4. k - 1 \in 0 .. m - 1 /\ k - 1 \notin T /\ (k - 1) + 1 = k
  BY <1>2, <1>3
<1>5. k - 1 \in S
  BY <1>4
<1>6. QED
  BY <1>3, <1>4, <1>5

\* What is computed in m steps from a first value exists: a function that is
\* defined by recursion on 0 .. m satisfies its definition.
StepFunctions(m, V) == [1 .. m -> [V -> V]]
Iterates(g, m, first, F) == g[0] = first /\ \A n \in 1 .. m : g[n] = F[n][g[n - 1]]

LEMMA Iteration ==
    ASSUME NEW m \in Nat, NEW V, NEW first \in V, NEW F \in StepFunctions(m, V)
    PROVE  \E g \in [0 .. m -> V] : Iterates(g, m, first, F)
<1> USE DEF StepFunctions
<1> DEFINE Upto(k, g) == g[0] = first /\ \A n \in 1 .. k : g[n] = F[n][g[n - 1]]
           S == {k \in 0 .. m : \E g \in [0 .. k -> V] : Upto(k, g)}
<1>1. 0 \in S
  <2> DEFINE g == [i \in 0 .. 0 |-> first]
  <2>1. g \in [0 .. 0 -> V] /\ Upto(0, g)
    OBVIOUS
  <2>2. 0 \in 0 .. m
    OBVIOUS
  <2> HIDE DEF g, Upto
  <2>3. QED
    BY <2>1, <2>2
<1>2. ASSUME NEW k \in 0 .. m - 1, k \in S PROVE k + 1 \in S
  <2>1. PICK g \in [0 .. k -> V] : Upto(k, g)
    BY <1>2
  <2> DEFINE h == [i \in 0 .. k + 1 |-> IF i <= k THEN g[i] ELSE F[k + 1][g[k]]]
  <2>2. g[k] \in V /\ k + 1 \in 1 .. m /\ k \in Nat
    BY <1>2
  <2>3. F[k + 1][g[k]] \in V
    BY <2>2
  <2>4. h \in [0 .. k + 1 -> V]
    BY <2>2, <2>3
  <2>5. h[0] = first
    BY <2>1, <2>2
  <2>6. ASSUME NEW n \in 1 .. k + 1 PROVE h[n] = F[n][h[n - 1]]
    <3>1. CASE n <= k
      BY <2>1, <2>2, <3>1
    <3>2. CASE n = k + 1
      <4>1. h[n] = F[k + 1][g[k]] /\ h[n - 1] = g[k]
        BY <2>2, <3>2
      <4>2. QED
        BY <3>2, <4>1
    <3>3. QED
      BY <2>2, <3>1, <3>2
  <2>7. Upto(k + 1, h)
    BY <2>5, <2>6
  <2> HIDE DEF h, Upto
  <2>8. QED
    BY <1>2, <2>2, <2>4, <2>7
<1>3. 0 .. m \subseteq S
  <2> HIDE DEF S
  <2>1. QED
    BY <1>1, <1>2, BoundedInduction
<1>4. m \in S
  BY <1>3
<1>5. QED
  BY <1>4 DEF Iterates

\* Division: the quotient is the one number with these bounds.
LEMMA Quotient ==
    ASSUME NEW a \in Nat, NEW b \in Nat \ {0}
    PROVE  /\ a \div b \in Nat
           /\ b * (a \div b) <= a /\ a < b * (a \div b) + b
OBVIOUS

LEMMA QuotientAtLeast ==
    ASSUME NEW a \in Nat, NEW b \in Nat \ {0}, NEW q \in Nat, b * q <= a
    PROVE  q <= a \div b
<1> DEFINE d == a \div b
<1>1. d \in Nat /\ a < b * d + b
  BY Quotient
<1> HIDE DEF d
<1>2. CASE d + 1 <= q
  <2>1. PICK e \in Nat : q = d + 1 + e
    <3>1. q - (d + 1) \in Nat /\ q = d + 1 + (q - (d + 1))
      BY <1>1, <1>2
    <3>2. QED
      BY <3>1
  <2>2. b * q = b * d + b + b * e /\ b * e \in Nat /\ b * d \in Nat
    BY <1>1, <2>1
  <2>3. QED
    BY <1>1, <2>2
<1>3. QED
  BY <1>1, <1>2 DEF d

LEMMA QuotientBelow ==
    ASSUME NEW a \in Nat, NEW b \in Nat \ {0}, NEW q \in Nat, a < b * q
    PROVE  a \div b < q
<1> DEFINE d == a \div b
<1>1. d \in Nat /\ b * d <= a
  BY Quotient
<1> HIDE DEF d
<1>2. CASE q <= d
  <2>1. PICK e \in Nat : d = q + e
    <3>1. d - q \in Nat /\ d = q + (d - q)
      BY <1>1, <1>2
    <3>2. QED
      BY <3>1
  <2>2. b * d = b * q + b * e /\ b * e \in Nat /\ b * q \in Nat
    BY <1>1, <2>1
  <2>3. QED
    BY <1>1, <2>2
<1>3. QED
  BY <1>1, <1>2 DEF d

-----------------------------------------------------------------------------

-----------------------------------------------------------------------------
(* Numbers.                                                                *)

\* Products grow with their factors.
LEMMA ProductGrows ==
    ASSUME NEW a \in Nat, NEW b \in Nat, a <= b, NEW k \in Nat
    PROVE  a * k <= b * k /\ k * a <= k * b /\ a * k \in Nat /\ k * b \in Nat
<1>1. PICK e \in Nat : b = a + e
  <2>1. b - a \in Nat /\ b = a + (b - a)
    OBVIOUS
  <2>2. QED
    BY <2>1
<1>2. b * k = a * k + e * k /\ k * b = k * a + k * e
  BY <1>1
<1>3. a * k \in Nat /\ e * k \in Nat /\ k * a \in Nat /\ k * e \in Nat
  BY <1>1
<1>4. QED
  BY <1>2, <1>3

\* The quotient rounded up is the one number with these bounds.
LEMMA CeilDivFacts ==
    ASSUME NEW a \in Nat, NEW b \in Nat \ {0}
    PROVE  /\ CeilDiv(a, b) \in Nat
           /\ a <= b * CeilDiv(a, b) /\ b * CeilDiv(a, b) < a + b
           /\ a > 0 => CeilDiv(a, b) > 0
<1>1. a + b - 1 \in Nat
  OBVIOUS
<1> DEFINE q == (a + b - 1) \div b
<1>2. q \in Nat /\ b * q <= a + b - 1 /\ a + b - 1 < b * q + b
  BY <1>1, Quotient
<1> HIDE DEF q
<1>3. a > 0 => q > 0
  <2>1. q = 0 => b * q = 0
    OBVIOUS
  <2>2. QED
    BY <1>2, <2>1
<1>4. CeilDiv(a, b) = q
  BY DEF CeilDiv, q
<1>5. b * q \in Nat
  BY <1>2
<1>6. QED
  BY <1>2, <1>3, <1>4, <1>5

\* What q times the divisor covers needs a quotient of at most q.
LEMMA CeilDivAtMost ==
    ASSUME NEW a \in Nat, NEW b \in Nat \ {0}, NEW q \in Nat, a <= b * q
    PROVE  CeilDiv(a, b) <= q
<1>1. b * (q + 1) = b * q + b /\ b * q \in Nat
  OBVIOUS
<1>2. a + b - 1 \in Nat /\ a + b - 1 < b * (q + 1) /\ q + 1 \in Nat
  BY <1>1
<1>3. (a + b - 1) \div b < q + 1
  BY <1>2, QuotientBelow
<1>4. (a + b - 1) \div b \in Nat
  BY <1>2, Quotient
<1>5. QED
  BY <1>3, <1>4 DEF CeilDiv

\* What q times the divisor does not cover needs a quotient above q.
LEMMA CeilDivMoreThan ==
    ASSUME NEW a \in Nat, NEW b \in Nat \ {0}, NEW q \in Nat, b * q < a
    PROVE  q < CeilDiv(a, b)
<1>1. b * (q + 1) = b * q + b /\ b * q \in Nat
  OBVIOUS
<1>2. a + b - 1 \in Nat /\ b * (q + 1) <= a + b - 1 /\ q + 1 \in Nat
  BY <1>1
<1>3. q + 1 <= (a + b - 1) \div b
  BY <1>2, QuotientAtLeast
<1>4. (a + b - 1) \div b \in Nat
  BY <1>2, Quotient
<1>5. QED
  BY <1>3, <1>4 DEF CeilDiv

\* The blocks of a component in one direction, padded to whole iMCUs: as many
\* iMCUs as the image has, f blocks of it in each.
LEMMA PaddedBlocks ==
    ASSUME NEW n \in Nat \ {0}, NEW m \in Nat \ {0}, NEW f \in Nat \ {0}
    PROVE  /\ CeilDiv(n * f, m) \in Nat
           /\ CeilDiv(n * f, m) <= CeilDiv(n, m) * f
           /\ RoundUp(CeilDiv(n * f, m), f) = CeilDiv(n, m) * f
           /\ CeilDiv(n, m) * f \in Nat
<1> DEFINE k == CeilDiv(n, m)
           b == CeilDiv(n * f, m)
<1>1. k \in Nat /\ n <= m * k /\ m * k < n + m /\ k > 0
  BY CeilDivFacts
<1>2. n * f \in Nat
  OBVIOUS
<1>3. b \in Nat
  BY <1>2, CeilDivFacts
<1>4. k * f \in Nat
  BY <1>1
<1>5. b <= k * f
  <2>1. m * k \in Nat /\ n * f <= (m * k) * f
    BY <1>1, ProductGrows
  <2>2. (m * k) * f = m * (k * f)
    BY <1>1
  <2> HIDE DEF k, b
  <2>3. n * f <= m * (k * f)
    BY <2>1, <2>2
  <2>4. QED
    BY <1>2, <1>4, <2>3, CeilDivAtMost DEF b
<1>6. (k - 1) * f < b
  <2>1. k - 1 \in Nat /\ m * (k - 1) = m * k - m
    BY <1>1
  <2>2. m * (k - 1) + 1 <= n /\ m * (k - 1) \in Nat
    BY <1>1, <2>1
  <2>3. (m * (k - 1) + 1) * f <= n * f
    BY <2>2, ProductGrows
  <2>4. (m * (k - 1) + 1) * f = m * ((k - 1) * f) + f /\ (k - 1) * f \in Nat
    BY <2>1
  <2>5. m * ((k - 1) * f) \in Nat
    BY <2>4
  <2> HIDE DEF k, b
  <2>6. m * ((k - 1) * f) < n * f
    BY <2>3, <2>4, <2>5
  <2>7. QED
    BY <1>2, <2>4, <2>6, CeilDivMoreThan DEF b
<1> HIDE DEF k, b
<1>7. CeilDiv(b, f) = k
  <2>1. CeilDiv(b, f) \in Nat
    BY <1>3, CeilDivFacts
  <2>2. CeilDiv(b, f) <= k
    <3>1. b <= f * k
      BY <1>1, <1>5
    <3>2. QED
      BY <1>1, <1>3, <3>1, CeilDivAtMost
  <2>3. k - 1 < CeilDiv(b, f)
    <3>1. k - 1 \in Nat /\ f * (k - 1) = (k - 1) * f
      BY <1>1
    <3>2. QED
      BY <1>3, <1>6, <3>1, CeilDivMoreThan
  <2>4. QED
    BY <1>1, <2>1, <2>2, <2>3
<1>8. QED
  BY <1>3, <1>4, <1>5, <1>7 DEF RoundUp, k, b

\* A part of n pixels that begins with iMCU x ends within the iMCUs there are.
LEMMA PartInside ==
    ASSUME NEW n \in Nat \ {0}, NEW x \in Nat, NEW m \in Nat \ {0}, NEW full \in Nat \ {0},
           x * m + n <= full
    PROVE  x + CeilDiv(n, m) <= CeilDiv(full, m)
<1> DEFINE k == CeilDiv(n, m)
<1>1. k \in Nat /\ k > 0 /\ m * k < n + m
  BY CeilDivFacts
<1> HIDE DEF k
<1>2. x + k - 1 \in Nat /\ m * (x + k - 1) = x * m + m * k - m
  BY <1>1
<1>3. x * m \in Nat /\ m * k \in Nat
  BY <1>1
<1>4. m * (x + k - 1) < full
  BY <1>1, <1>2, <1>3
<1>5. x + k - 1 < CeilDiv(full, m)
  BY <1>2, <1>4, CeilDivMoreThan
<1>6. CeilDiv(full, m) \in Nat
  BY CeilDivFacts
<1>7. QED
  BY <1>1, <1>5, <1>6 DEF k

\* Whole iMCUs are no more than all of them.
LEMMA WholeAmongAll ==
    ASSUME NEW n \in Nat, NEW m \in Nat \ {0}
    PROVE  n \div m \in Nat /\ n \div m <= CeilDiv(n, m)
<1>1. CeilDiv(n, m) \in Nat /\ n <= m * CeilDiv(n, m) /\ n \div m \in Nat
  BY CeilDivFacts, Quotient
<1>2. CASE CeilDiv(n, m) < n \div m
  <2> DEFINE k == CeilDiv(n, m)
             d == n \div m
  <2>1. m * d <= n
    BY Quotient
  <2> HIDE DEF k, d
  <2>2. k + 1 <= d /\ k \in Nat /\ d \in Nat
    BY <1>1, <1>2 DEF k, d
  <2>3. m * (k + 1) <= m * d
    BY <2>2, ProductGrows
  <2>4. m * (k + 1) = m * k + m /\ m * k \in Nat /\ m * d \in Nat
    BY <2>2
  <2>5. n <= m * k
    BY <1>1 DEF k
  <2>6. QED
    BY <2>1, <2>3, <2>4, <2>5
<1>3. QED
  BY <1>1, <1>2

\* A row of iMCUs lies within the part that is mirrored if one of its blocks does.
LEMMA WholeRows ==
    ASSUME NEW f \in Nat \ {0}, NEW k \in Nat, NEW o \in Nat, NEW x \in Nat
    PROVE  o * f + (x - (x % f)) < k * f <=> o * f + x < k * f
<1>1. PICK q \in Nat, r \in Nat : x = q * f + r /\ r < f /\ x % f = r
  <2>1. x \div f \in Nat /\ x % f \in Nat /\ x = (x \div f) * f + (x % f) /\ x % f < f
    OBVIOUS
  <2>2. QED
    BY <2>1
<1>2. o * f + q * f = (o + q) * f /\ (o + q) * f \in Nat /\ k * f \in Nat
  OBVIOUS
<1>3. (o + q) * f < k * f => (o + q) * f + f <= k * f
  <2>1. CASE k <= o + q
    <3>1. k * f <= (o + q) * f
      BY <2>1, ProductGrows
    <3>2. QED
      BY <1>2, <3>1
  <2>2. CASE o + q + 1 <= k
    <3>1. (o + q + 1) * f <= k * f
      BY <2>2, ProductGrows
    <3>2. (o + q + 1) * f = (o + q) * f + f
      OBVIOUS
    <3>3. QED
      BY <3>1, <3>2
  <2>3. QED
    BY <2>1, <2>2
<1>4. o * f + (x - (x % f)) = (o + q) * f /\ o * f + x = (o + q) * f + r
  BY <1>1, <1>2
<1>5. QED
  BY <1>1, <1>2, <1>3, <1>4

\* A sample is in the mirrored part if its block is, and is the mirror image of
\* one in the mirror image of its block.
Placed(D, X, o, f, w) ==
    /\ X + o * f * D = (o * f + (X \div D)) * D + (X % D)
    /\ X + o * f * D < w * D <=> o * f + (X \div D) < w
    /\ w * D - 1 - (X + o * f * D) = (w - (o * f + (X \div D)) - 1) * D + (D - 1 - (X % D))

\* A sample of a mirrored direction: that it lies within the part is decided by
\* its block, and its mirror image is the mirror image within the mirrored block.
LEMMA SampleInBlock ==
    ASSUME NEW D \in Nat \ {0}, NEW X \in Nat, NEW o \in Nat, NEW f \in Nat, NEW w \in Nat
    PROVE  Placed(D, X, o, f, w)
<1>1. PICK b \in Nat, i \in Nat : X = b * D + i /\ i < D /\ X % D = i /\ X \div D = b
  <2>1. X \div D \in Nat /\ X % D \in Nat /\ X = (X \div D) * D + (X % D) /\ X % D < D
    OBVIOUS
  <2>2. QED
    BY <2>1
<1>2. PICK l \in Nat : l = o * f + b
  OBVIOUS
<1>3. o * f * D + b * D = l * D
  <2>1. PICK p \in Nat : p = o * f
    OBVIOUS
  <2>2. p * D + b * D = (p + b) * D
    BY <2>1
  <2>3. QED
    BY <1>2, <2>1, <2>2
<1>4. X + o * f * D = l * D + i
  <2>1. o * f * D \in Nat /\ b * D \in Nat
    OBVIOUS
  <2>2. QED
    BY <1>1, <1>3, <2>1
<1>5. l * D + i < w * D <=> l < w
  <2>1. l * D \in Nat /\ w * D \in Nat
    OBVIOUS
  <2>2. CASE l < w
    <3>1. (l + 1) * D <= w * D
      BY <2>2, ProductGrows
    <3>2. (l + 1) * D = l * D + D
      OBVIOUS
    <3>3. QED
      BY <1>1, <2>1, <2>2, <3>1, <3>2
  <2>3. CASE w <= l
    <3>1. w * D <= l * D
      BY <2>3, ProductGrows
    <3>2. QED
      BY <2>1, <2>3, <3>1
  <2>4. QED
    BY <2>2, <2>3
<1>6. w * D - 1 - (l * D + i) = (w - l - 1) * D + (D - 1 - i)
  <2>1. (w - l - 1) * D = w * D - l * D - D
    OBVIOUS
  <2>2. w * D \in Int /\ l * D \in Int
    OBVIOUS
  <2>3. QED
    BY <2>1, <2>2
<1>7. QED
  BY <1>1, <1>2, <1>4, <1>5, <1>6 DEF Placed

-----------------------------------------------------------------------------
(* Sampling factors.                                                       *)

Factors == [h : 1..4, v : 1..4]

\* A set of factors has a largest element.
LEMMA LargestOf ==
    ASSUME NEW S, S \subseteq 1..4, S # {}
    PROVE  Max(S) \in S /\ \A k \in S : k <= Max(S)
<1>0. \A y \in S : y = 1 \/ y = 2 \/ y = 3 \/ y = 4
  OBVIOUS
<1>1. \E x \in S : \A y \in S : x >= y
  <2>1. CASE 4 \in S
    <3>1. \A y \in S : 4 >= y
      BY <1>0
    <3>2. QED
      BY <2>1, <3>1
  <2>2. CASE 4 \notin S /\ 3 \in S
    <3>1. \A y \in S : 3 >= y
      BY <1>0, <2>2
    <3>2. QED
      BY <2>2, <3>1
  <2>3. CASE 4 \notin S /\ 3 \notin S /\ 2 \in S
    <3>1. \A y \in S : 2 >= y
      BY <1>0, <2>3
    <3>2. QED
      BY <2>3, <3>1
  <2>4. CASE 4 \notin S /\ 3 \notin S /\ 2 \notin S
    <3>1. \A y \in S : 1 >= y
      BY <1>0, <2>4
    <3>2. 1 \in S
      BY <1>0, <2>4
    <3>3. QED
      BY <3>1, <3>2
  <2>5. QED
    BY <2>1, <2>2, <2>3, <2>4
<1>2. Max(S) \in S /\ \A y \in S : Max(S) >= y
  BY <1>1 DEF Max
<1>3. QED
  BY <1>2

\* MaxH and MaxV are the largest factors of the components.
LEMMA LargestFactors ==
    ASSUME NEW samp \in Seq(Factors), Len(samp) > 0
    PROVE  /\ MaxH(samp) \in 1..4 /\ MaxV(samp) \in 1..4
           /\ \A c \in DOMAIN samp : samp[c].h <= MaxH(samp) /\ samp[c].v <= MaxV(samp)
<1> DEFINE H == {samp[c].h : c \in DOMAIN samp}
           V == {samp[c].v : c \in DOMAIN samp}
<1>1. DOMAIN samp = 1 .. Len(samp) /\ 1 \in DOMAIN samp
  OBVIOUS
<1>2. \A c \in DOMAIN samp : samp[c].h \in 1..4 /\ samp[c].v \in 1..4
  <2>1. \A c \in 1 .. Len(samp) : samp[c] \in Factors
    BY ElementOfSeq
  <2>2. QED
    BY <1>1, <2>1 DEF Factors
<1>3. H \subseteq 1..4 /\ V \subseteq 1..4 /\ H # {} /\ V # {}
  BY <1>1, <1>2
<1>4. \A c \in DOMAIN samp : samp[c].h \in H /\ samp[c].v \in V
  OBVIOUS
<1>5. MaxH(samp) = Max(H) /\ MaxV(samp) = Max(V)
  BY DEF MaxH, MaxV
<1> HIDE DEF H, V
<1>6. QED
  BY <1>3, <1>4, <1>5, LargestOf

\* Turned sideways, the factors of the two directions change places.
LEMMA SwappedFactors ==
    ASSUME NEW samp \in Seq(Factors)
    PROVE  /\ Swapped(samp) \in Seq(Factors) /\ Len(Swapped(samp)) = Len(samp)
           /\ DOMAIN Swapped(samp) = DOMAIN samp
           /\ \A c \in DOMAIN samp : /\ Swapped(samp)[c].h = samp[c].v
                                     /\ Swapped(samp)[c].v = samp[c].h
           /\ MaxH(Swapped(samp)) = MaxV(samp) /\ MaxV(Swapped(samp)) = MaxH(samp)
<1> DEFINE s == Swapped(samp)
<1>0. \A c \in 1 .. Len(samp) : samp[c] \in Factors
  BY ElementOfSeq
<1>1. /\ DOMAIN s = DOMAIN samp
      /\ \A c \in DOMAIN samp : s[c] \in Factors /\ s[c].h = samp[c].v /\ s[c].v = samp[c].h
  <2>1. DOMAIN samp = 1 .. Len(samp)
    OBVIOUS
  <2>2. QED
    BY <1>0, <2>1 DEF Swapped, Factors
<1>2. DOMAIN samp = 1 .. Len(samp) /\ Len(samp) \in Nat
  OBVIOUS
<1>3. s = [c \in 1 .. Len(samp) |-> s[c]]
  BY <1>2 DEF Swapped
<1> HIDE DEF s
<1>4. s \in Seq(Factors) /\ Len(s) = Len(samp)
  BY <1>1, <1>2, <1>3
<1>5. {s[c].h : c \in DOMAIN s} = {samp[c].v : c \in DOMAIN samp}
  BY <1>1
<1>6. {s[c].v : c \in DOMAIN s} = {samp[c].h : c \in DOMAIN samp}
  BY <1>1
<1>7. QED
  BY <1>1, <1>4, <1>5, <1>6 DEF MaxH, MaxV, s

\* What getSubsamp() names.
LEMMA NamedSampling ==
    ASSUME NEW i, i.colour # "GRAY", GetSubsamp(i) # "unknown"
    PROVE  /\ GetSubsamp(i) \in {"S444", "S422", "S420", "S440", "S411"}
           /\ \/ Matches(i, Standard(GetSubsamp(i)), Sampling(1, 1))
              \/ /\ GetSubsamp(i) \in {"S422", "S440"}
                 /\ Matches(i, Sampling(2, 2),
                            Sampling(Standard(GetSubsamp(i)).v, Standard(GetSubsamp(i)).h))
<1> DEFINE found == {s \in DOMAIN Subsamplings \ {"GRAY"} :
                 \/ Matches(i, Standard(s), Sampling(1, 1))
                 \/ /\ s \in {"S422", "S440"}
                    /\ Matches(i, Sampling(2, 2), Sampling(Standard(s).v, Standard(s).h))}
<1>1. GetSubsamp(i) = IF found = {} THEN "unknown" ELSE CHOOSE s \in found : TRUE
  BY DEF GetSubsamp
<1>2. found # {}
  BY <1>1
<1>3. GetSubsamp(i) \in found
  BY <1>1, <1>2
<1>4. DOMAIN Subsamplings \ {"GRAY"} = {"S444", "S422", "S420", "S440", "S411"}
  BY DEF Subsamplings
<1>5. QED
  BY <1>3, <1>4

\* A sampling that has a name is named.
LEMMA HasAName ==
    ASSUME NEW i, NEW s \in {"S444", "S422", "S420", "S440", "S411"},
           \/ Matches(i, Standard(s), Sampling(1, 1))
           \/ /\ s \in {"S422", "S440"}
              /\ Matches(i, Sampling(2, 2), Sampling(Standard(s).v, Standard(s).h))
    PROVE  GetSubsamp(i) # "unknown"
<1>1. CASE i.colour = "GRAY"
  BY <1>1 DEF GetSubsamp
<1>2. CASE i.colour # "GRAY"
  <2> DEFINE found == {t \in DOMAIN Subsamplings \ {"GRAY"} :
                 \/ Matches(i, Standard(t), Sampling(1, 1))
                 \/ /\ t \in {"S422", "S440"}
                    /\ Matches(i, Sampling(2, 2), Sampling(Standard(t).v, Standard(t).h))}
  <2>1. GetSubsamp(i) = IF found = {} THEN "unknown" ELSE CHOOSE t \in found : TRUE
    BY <1>2 DEF GetSubsamp
  <2>2. DOMAIN Subsamplings \ {"GRAY"} = {"S444", "S422", "S420", "S440", "S411"}
    BY DEF Subsamplings
  <2>3. s \in found
    BY <2>2
  <2>4. found \subseteq {"S444", "S422", "S420", "S440", "S411"}
    BY <2>2
  <2> HIDE DEF found
  <2>5. GetSubsamp(i) \in found
    BY <2>1, <2>3
  <2>6. QED
    BY <2>4, <2>5
<1>3. QED
  BY <1>1, <1>2

\* Trimming leaves at least one column, and none beyond the whole iMCUs unless
\* less than an iMCU is left.
LEMMA TrimmedFacts ==
    ASSUME NEW n \in Nat \ {0}, NEW x \in Nat, NEW m \in Nat \ {0}, NEW full \in Nat \ {0},
           x * m + n <= full
    PROVE  /\ Trimmed(n, x, m, full) \in Nat \ {0} /\ Trimmed(n, x, m, full) <= n
           /\ Trimmed(n, x, m, full) < m \/ x * m + Trimmed(n, x, m, full) <= (full \div m) * m
<1> DEFINE d == n \div m
           k == full \div m
<1>1. d \in Nat /\ m * d <= n /\ n < m * d + m
  BY Quotient
<1>2. k \in Nat /\ m * k <= full /\ full < m * k + m
  BY Quotient
<1>3. Trimmed(n, x, m, full) = IF d > 0 /\ x + d = k THEN d * m ELSE n
  BY DEF Trimmed
<1> HIDE DEF d, k
<1>4. CASE d > 0 /\ x + d = k
  <2>1. d * m \in Nat \ {0} /\ d * m = m * d /\ x * m + d * m = k * m
    BY <1>1, <1>2, <1>4
  <2>2. QED
    BY <1>1, <1>3, <1>4, <2>1 DEF k
<1>5. CASE d = 0
  <2>1. m * d = 0
    BY <1>5
  <2>2. QED
    BY <1>1, <1>3, <1>5, <2>1
<1>6. CASE d > 0 /\ x + d # k
  <2>1. x * m + m * d \in Nat /\ m * (x + d) = x * m + m * d
    BY <1>1
  <2>2. m * (x + d) <= full
    BY <1>1, <2>1
  <2>3. x + d \in Nat /\ x + d <= full \div m
    BY <1>1, <2>2, QuotientAtLeast
  <2>4. x + d + 1 <= k
    BY <1>2, <1>6, <2>3 DEF k
  <2>5. m * (x + d + 1) <= m * k
    BY <1>2, <2>3, <2>4, ProductGrows
  <2>6. m * (x + d + 1) = m * (x + d) + m /\ m * k = k * m /\ k * m \in Nat
    BY <1>1, <1>2
  <2>7. x * m + n <= k * m
    BY <1>1, <2>1, <2>5, <2>6
  <2>8. QED
    BY <1>3, <1>6, <2>7 DEF k
<1>7. QED
  BY <1>1, <1>4, <1>5, <1>6

\* The rectangle asked for, widened to where its first iMCU begins.
LEMMA Widened ==
    ASSUME NEW x \in Nat, NEW n \in Nat \ {0}, NEW m \in Nat \ {0}, NEW full \in Nat,
           x <= full - n
    PROVE  /\ x \div m \in Nat /\ n + (x % m) \in Nat \ {0}
           /\ (x \div m) * m + (n + (x % m)) <= full
<1>1. x \div m \in Nat /\ x % m \in Nat /\ x = (x \div m) * m + (x % m)
  OBVIOUS
<1>2. (x \div m) * m \in Nat
  BY <1>1
<1>3. QED
  BY <1>1, <1>2

\* A size that is whole iMCUs is the iMCUs in it.
LEMMA Divisible ==
    ASSUME NEW full \in Nat, NEW m \in Nat \ {0}, full % m = 0
    PROVE  (full \div m) * m = full
OBVIOUS

-----------------------------------------------------------------------------
(* The workspace.                                                          *)

\* What the assumptions say of the image and the request.
LEMMA Given ==
    ASSUME image \in Images, request \in Requests
    PROVE  /\ image.w \in Nat \ {0} /\ image.h \in Nat \ {0} /\ image.markers \in Nat
           /\ image.samp \in Seq(Factors) /\ Len(image.samp) \in 1..4 /\ Len(image.samp) > 0
           /\ DOMAIN image.samp = 1 .. Len(image.samp) /\ 1 \in DOMAIN image.samp
           /\ image.colour = "GRAY" => Len(image.samp) = 1
           /\ image.colour = "YCC" => Len(image.samp) = 3
           /\ Len(image.samp) = 1 => image.colour = "GRAY"
           /\ request.op \in Transforms
           /\ request.crop \in [x : Nat, y : Nat, w : Nat, h : Nat]
           /\ DCTSIZE \in Nat \ {0}
<1>1. /\ image.w \in Nat \ {0} /\ image.h \in Nat \ {0} /\ image.markers \in Nat
      /\ image.samp \in Seq(Factors)
      /\ \/ image.colour = "GRAY" /\ Len(image.samp) = 1
         \/ image.colour \in {"YCC", "RGB"} /\ Len(image.samp) = 3
         \/ image.colour \in {"CMYK", "YCCK"} /\ Len(image.samp) = 4
  BY ImagesAssumption DEF Factors
<1>2. DOMAIN image.samp = 1 .. Len(image.samp)
  BY <1>1
<1>3. request.op \in Transforms /\ request.crop \in [x : Nat, y : Nat, w : Nat, h : Nat]
  BY RequestsAssumption DEF Transforms
<1>4. /\ Len(image.samp) \in 1..4 /\ Len(image.samp) > 0
      /\ image.colour = "GRAY" => Len(image.samp) = 1
      /\ image.colour = "YCC" => Len(image.samp) = 3
      /\ Len(image.samp) = 1 => image.colour = "GRAY"
  <2>1. CASE image.colour = "GRAY" /\ Len(image.samp) = 1
    BY <2>1
  <2>2. CASE image.colour \in {"YCC", "RGB"} /\ Len(image.samp) = 3
    BY <2>2
  <2>3. CASE image.colour \in {"CMYK", "YCCK"} /\ Len(image.samp) = 4
    BY <2>3
  <2>4. QED
    BY <1>1, <2>1, <2>2, <2>3
<1>5. 1 \in DOMAIN image.samp
  BY <1>2, <1>4
<1>6. QED
  BY <1>1, <1>2, <1>3, <1>4, <1>5, SizesAssumption

\* An iMCU of the source is a block for one component, the largest factors of
\* blocks for several.
LEMMA McuFacts ==
    ASSUME image \in Images, request \in Requests
    PROVE  /\ SourceMcu.w \in Nat \ {0} /\ SourceMcu.h \in Nat \ {0}
           /\ SingleComponent => SourceMcu.w = DCTSIZE /\ SourceMcu.h = DCTSIZE
           /\ ~SingleComponent => /\ SourceMcu.w = MaxH(image.samp) * DCTSIZE
                                  /\ SourceMcu.h = MaxV(image.samp) * DCTSIZE
<1>1. MaxH(image.samp) \in 1..4 /\ MaxV(image.samp) \in 1..4 /\ DCTSIZE \in Nat \ {0}
  <2>1. image.samp \in Seq(Factors) /\ Len(image.samp) > 0 /\ DCTSIZE \in Nat \ {0}
    BY Given
  <2>2. QED
    BY <2>1, LargestFactors
<1>2. MaxH(image.samp) * DCTSIZE \in Nat \ {0} /\ MaxV(image.samp) * DCTSIZE \in Nat \ {0}
  BY <1>1
<1>3. QED
  BY <1>1, <1>2 DEF SourceMcu

\* What the workspace of a request is, in both directions.
McuW  == IF request.op \in Sideways THEN SourceMcu.h ELSE SourceMcu.w
McuH  == IF request.op \in Sideways THEN SourceMcu.w ELSE SourceMcu.h
FullW == IF request.op \in Sideways THEN image.h ELSE image.w
FullH == IF request.op \in Sideways THEN image.w ELSE image.h
AskedW == IF request.crop = NoCrop THEN FullW ELSE request.crop.w + (request.crop.x % McuW)
AskedH == IF request.crop = NoCrop THEN FullH ELSE request.crop.h + (request.crop.y % McuH)

\* The fields of the workspace, from the sizes of the transformed image.
LEMMA WorkspaceFields ==
    ASSUME info = Workspace(request)
    PROVE  /\ info.mcu.w = McuW /\ info.mcu.h = McuH
           /\ info.full.w = FullW /\ info.full.h = FullH
           /\ info.x = request.crop.x \div McuW /\ info.y = request.crop.y \div McuH
           /\ info.w = IF request.trim /\ request.op \in MirrorsX
                       THEN Trimmed(AskedW, info.x, McuW, FullW) ELSE AskedW
           /\ info.h = IF request.trim /\ request.op \in MirrorsY
                       THEN Trimmed(AskedH, info.y, McuH, FullH) ELSE AskedH
           /\ info.needed = NeedsWorkspace(request.op, info.x, info.y)
           /\ info.samp = WorkspaceSampling(request.op)
           /\ info.columns = CeilDiv(info.w, McuW) /\ info.rows = CeilDiv(info.h, McuH)
BY DEF Workspace, McuW, McuH, FullW, FullH, AskedW, AskedH, Turned

\* A workspace that was granted.
Asked ==
    /\ GetSubsamp(image) # "unknown"
    /\ info = Workspace(request)
    /\ request.perfect => Perfect(image, SourceMcu, request.op)
    /\ request.crop = NoCrop \/ CropFits(request.crop, info.full)
    /\ request.crop.x % info.mcu.w = 0 /\ request.crop.y % info.mcu.h = 0

\* The part asked for, widened to where its iMCU begins, is in the transformed image.
LEMMA ExtentFacts ==
    ASSUME image \in Images, request \in Requests, Asked
    PROVE  /\ McuW \in Nat \ {0} /\ McuH \in Nat \ {0}
           /\ FullW \in Nat \ {0} /\ FullH \in Nat \ {0}
           /\ info.x \in Nat /\ info.y \in Nat
           /\ AskedW \in Nat \ {0} /\ info.x * McuW + AskedW <= FullW
           /\ AskedH \in Nat \ {0} /\ info.y * McuH + AskedH <= FullH
<1>1. McuW \in Nat \ {0} /\ McuH \in Nat \ {0} /\ FullW \in Nat \ {0} /\ FullH \in Nat \ {0}
  BY Given, McuFacts DEF McuW, McuH, FullW, FullH
<1>2. info.x = request.crop.x \div McuW /\ info.y = request.crop.y \div McuH
  BY WorkspaceFields DEF Asked
<1>3. CASE request.crop = NoCrop
  <2>1. request.crop.x = 0 /\ request.crop.y = 0
    BY <1>3 DEF NoCrop
  <2>2. 0 \div McuW = 0 /\ 0 \div McuH = 0 /\ 0 * McuW = 0 /\ 0 * McuH = 0
    BY <1>1
  <2>3. QED
    BY <1>1, <1>2, <1>3, <2>1, <2>2 DEF AskedW, AskedH
<1>4. CASE request.crop # NoCrop
  <2>1. /\ request.crop.x \in Nat /\ request.crop.y \in Nat
        /\ request.crop.w \in Nat \ {0} /\ request.crop.h \in Nat \ {0}
        /\ request.crop.x <= FullW - request.crop.w /\ request.crop.y <= FullH - request.crop.h
    <3>1. request.crop \in [x : Nat, y : Nat, w : Nat, h : Nat]
      BY Given
    <3>2. CropFits(request.crop, info.full) /\ info.full.w = FullW /\ info.full.h = FullH
      BY <1>4, WorkspaceFields DEF Asked
    <3>3. request.crop.w \in 1 .. FullW /\ request.crop.x <= FullW - request.crop.w
      BY <3>2 DEF CropFits
    <3>4. request.crop.h \in 1 .. FullH /\ request.crop.y <= FullH - request.crop.h
      BY <3>2 DEF CropFits
    <3>5. QED
      BY <1>1, <3>1, <3>3, <3>4
  <2>2. /\ info.x \in Nat /\ AskedW \in Nat \ {0} /\ info.x * McuW + AskedW <= FullW
    <3>1. /\ request.crop.x \div McuW \in Nat
          /\ request.crop.w + (request.crop.x % McuW) \in Nat \ {0}
          /\ (request.crop.x \div McuW) * McuW + (request.crop.w + (request.crop.x % McuW)) <= FullW
      BY <1>1, <2>1, Widened
    <3>2. QED
      BY <1>2, <1>4, <3>1 DEF AskedW
  <2>3. /\ info.y \in Nat /\ AskedH \in Nat \ {0} /\ info.y * McuH + AskedH <= FullH
    <3>1. /\ request.crop.y \div McuH \in Nat
          /\ request.crop.h + (request.crop.y % McuH) \in Nat \ {0}
          /\ (request.crop.y \div McuH) * McuH + (request.crop.h + (request.crop.y % McuH)) <= FullH
      BY <1>1, <2>1, Widened
    <3>2. QED
      BY <1>2, <1>4, <3>1 DEF AskedH
  <2>4. QED
    BY <1>1, <2>2, <2>3
<1>5. QED
  BY <1>3, <1>4

\* The part that is kept is not empty and in the image, and a strip that would
\* have to be mirrored is trimmed away.
LEMMA OutputExtents ==
    ASSUME image \in Images, request \in Requests, Asked
    PROVE  /\ info.w \in Nat \ {0} /\ info.w <= AskedW /\ info.x * McuW + info.w <= FullW
           /\ info.h \in Nat \ {0} /\ info.h <= AskedH /\ info.y * McuH + info.h <= FullH
           /\ request.trim /\ request.op \in MirrorsX =>
                 info.w < McuW \/ info.x * McuW + info.w <= (FullW \div McuW) * McuW
           /\ request.trim /\ request.op \in MirrorsY =>
                 info.h < McuH \/ info.y * McuH + info.h <= (FullH \div McuH) * McuH
<1>1. /\ McuW \in Nat \ {0} /\ McuH \in Nat \ {0}
      /\ FullW \in Nat \ {0} /\ FullH \in Nat \ {0}
      /\ info.x \in Nat /\ info.y \in Nat
      /\ AskedW \in Nat \ {0} /\ info.x * McuW + AskedW <= FullW
      /\ AskedH \in Nat \ {0} /\ info.y * McuH + AskedH <= FullH
  BY ExtentFacts
<1>2. /\ info.w = IF request.trim /\ request.op \in MirrorsX
                  THEN Trimmed(AskedW, info.x, McuW, FullW) ELSE AskedW
      /\ info.h = IF request.trim /\ request.op \in MirrorsY
                  THEN Trimmed(AskedH, info.y, McuH, FullH) ELSE AskedH
  BY WorkspaceFields DEF Asked
<1>3. info.x * McuW \in Nat /\ info.y * McuH \in Nat
  BY <1>1
<1>4. /\ Trimmed(AskedW, info.x, McuW, FullW) \in Nat \ {0}
      /\ Trimmed(AskedW, info.x, McuW, FullW) <= AskedW
      /\ \/ Trimmed(AskedW, info.x, McuW, FullW) < McuW
         \/ info.x * McuW + Trimmed(AskedW, info.x, McuW, FullW) <= (FullW \div McuW) * McuW
  BY <1>1, TrimmedFacts
<1>5. /\ Trimmed(AskedH, info.y, McuH, FullH) \in Nat \ {0}
      /\ Trimmed(AskedH, info.y, McuH, FullH) <= AskedH
      /\ \/ Trimmed(AskedH, info.y, McuH, FullH) < McuH
         \/ info.y * McuH + Trimmed(AskedH, info.y, McuH, FullH) <= (FullH \div McuH) * McuH
  BY <1>1, TrimmedFacts
<1>6. QED
  BY <1>1, <1>2, <1>3, <1>4, <1>5

\* No strip is left over: what is perfect has none, what is trimmed loses it.
LEMMA NoStrip ==
    ASSUME image \in Images, request \in Requests, Asked
    PROVE  NoStripIsLeftOver
<1>1. /\ info.mcu.w = McuW /\ info.mcu.h = McuH
      /\ info.full.w = FullW /\ info.full.h = FullH
  BY WorkspaceFields DEF Asked
<1>2. McuW \in Nat \ {0} /\ McuH \in Nat \ {0} /\ FullW \in Nat /\ FullH \in Nat
  BY ExtentFacts
<1>3. ASSUME request.perfect, request.op \in MirrorsX
      PROVE  info.x * McuW + info.w <= (FullW \div McuW) * McuW
  <2>1. FullW % McuW = 0
    BY <1>3 DEF Asked, Perfect, PartialX, PartialY, FullW, McuW, MirrorsX, Sideways
  <2>2. QED
    BY <1>2, <2>1, Divisible, OutputExtents
<1>4. ASSUME request.perfect, request.op \in MirrorsY
      PROVE  info.y * McuH + info.h <= (FullH \div McuH) * McuH
  <2>1. FullH % McuH = 0
    BY <1>4 DEF Asked, Perfect, PartialX, PartialY, FullH, McuH, MirrorsY, Sideways
  <2>2. QED
    BY <1>2, <2>1, Divisible, OutputExtents
<1>5. QED
  BY <1>1, <1>3, <1>4, OutputExtents DEF NoStripIsLeftOver

SizeWanted ==
    IF request.crop = NoCrop THEN BufSize(image.w, image.h, GetSubsamp(image))
    ELSE BufSize(request.crop.w, request.crop.h, GetSubsamp(image))

\* What is known of the destination.
Prepared ==
    /\ Asked
    /\ request.gray => GrayPossible
    /\ out = Destination
    /\ size = SizeWanted

Steps == {"header", "workspace", "adjust", "execute", "write", "reopen", "over"}

\* The invariant: what has been computed so far is a function of the image and
\* the request; what the results are to say is added when it is known.
LInv ==
    /\ image \in Images /\ request \in Requests
    /\ pc \in Steps
    /\ request.crop # NoCrop => CropFits(request.crop, [w |-> image.w, h |-> image.h])
    /\ pc # "over" => result = "none"
    /\ pc \in {"header", "workspace", "adjust", "execute"} => blocks = Nothing
    /\ pc = "workspace" => GetSubsamp(image) # "unknown"
    /\ pc = "adjust" => Asked
    /\ pc \in {"execute", "write", "reopen"} => Prepared
    /\ Executed => Prepared
    /\ result = "unreadable" => Prepared /\ GetSubsamp(out) = "unknown"
    /\ result = "too small" =>
          Prepared /\ \E tables \in {0, TableBytes}, d \in {0, Uncompressed} :
              Overruns(tables + image.markers + d)
    /\ ArraysSuffice /\ MovesEverySample

-----------------------------------------------------------------------------
(* What does not change.                                                   *)

\* The workspace is a function of the image and the request.
LEMMA WorkspaceKept ==
    ASSUME UNCHANGED <<image, request>>
    PROVE  /\ Workspace(request)' = Workspace(request)
           /\ Perfect(image, SourceMcu, request.op)' = Perfect(image, SourceMcu, request.op)
<1>1. Workspace(request)' = Workspace(request)
  BY DEF Workspace, SourceMcu, SingleComponent, WorkspaceSampling
<1>2. Perfect(image, SourceMcu, request.op)' = Perfect(image, SourceMcu, request.op)
  BY DEF SourceMcu, SingleComponent
<1>3. QED
  BY <1>1, <1>2

\* The steps after the workspace was granted leave it as it was asked for.
LEMMA AskedKept ==
    ASSUME UNCHANGED <<image, request, info>>
    PROVE  Asked' <=> Asked
BY WorkspaceKept DEF Asked

\* The steps after the destination was prepared leave it.
LEMMA PreparedKept ==
    ASSUME UNCHANGED <<image, request, info, out, size>>
    PROVE  Prepared' <=> Prepared
<1>1. Destination' = Destination /\ SizeWanted' = SizeWanted /\ GrayPossible' = GrayPossible
  BY DEF Destination, SizeWanted, GrayPossible
<1>2. QED
  BY <1>1, AskedKept DEF Prepared

\* The size of the result is a function of the image and the destination.
LEMMA UncompressedKept ==
    ASSUME UNCHANGED <<image, out>>
    PROVE  Uncompressed' = Uncompressed
BY DEF Uncompressed

\* What has been moved within the arrays stays within them.
LEMMA ArraysKept ==
    ASSUME UNCHANGED <<image, request, info, out, blocks>>, ArraysSuffice
    PROVE  ArraysSuffice'
<1>1. \A c : /\ SourceColumns(c)' = SourceColumns(c) /\ SourceRows(c)' = SourceRows(c)
  BY DEF SourceColumns, SourceRows
<1>2. QED
  BY <1>1 DEF ArraysSuffice, Executed

\* What has been moved to the right place stays there.
LEMMA MovesKept ==
    ASSUME UNCHANGED <<image, request, info, out, blocks>>, MovesEverySample
    PROVE  MovesEverySample'
<1>1. \A c, x, y : Origin(c, x, y)' = Origin(c, x, y)
  BY DEF Origin, WholeX, WholeY
<1>2. \A c : Samples(c)' = Samples(c)
  BY DEF Samples
<1>3. QED
  BY <1>1, <1>2 DEF MovesEverySample, Executed

-----------------------------------------------------------------------------
(* The destination has the grid of the workspace.                          *)

One == <<Sampling(1, 1)>>

\* The factors of an image of one component, once they are normalised.
LEMMA OneFactors ==
    /\ One \in Seq(Factors) /\ Len(One) = 1 /\ DOMAIN One = {1}
    /\ One[1].h = 1 /\ One[1].v = 1 /\ MaxH(One) = 1 /\ MaxV(One) = 1
<1>1. Len(One) = 1 /\ DOMAIN One = {1} /\ One[1].h = 1 /\ One[1].v = 1
  BY DEF One, Sampling
<1>2. One \in Seq(Factors)
  BY DEF One, Sampling, Factors
<1>3. {One[c].h : c \in DOMAIN One} = {1} /\ {One[c].v : c \in DOMAIN One} = {1}
  BY <1>1
<1>4. Max({1}) = 1
  <2>1. {1} \subseteq 1..4 /\ {1} # {}
    OBVIOUS
  <2>2. Max({1}) \in {1}
    BY <2>1, LargestOf
  <2>3. QED
    BY <2>2
<1>5. QED
  BY <1>1, <1>2, <1>3, <1>4 DEF MaxH, MaxV

\* The destination of one component has its factors set to one.
LEMMA SingleDestination ==
    ASSUME image \in Images, request \in Requests, Prepared, SingleComponent
    PROVE  /\ out.samp = One /\ info.samp[1] = Sampling(1, 1)
           /\ DOMAIN image.samp # {} /\ 1 \in DOMAIN image.samp
           /\ image.samp[1].h = MaxH(image.samp) /\ image.samp[1].v = MaxV(image.samp)
<1>1. info.samp = WorkspaceSampling(request.op)
  BY WorkspaceFields DEF Prepared, Asked
<1>2. info.samp = [c \in 1..1 |-> Sampling(1, 1)]
  BY <1>1 DEF WorkspaceSampling
<1>3. [c \in 1..1 |-> Sampling(1, 1)] = One
  BY DEF One
<1>4. Len(info.samp) = 1 /\ info.samp[1] = Sampling(1, 1)
  BY <1>2, <1>3, OneFactors DEF One
<1>5. out.samp = One
  BY <1>4 DEF Prepared, Destination, One
<1>6. 1 \in DOMAIN image.samp /\ image.samp \in Seq(Factors) /\ DOMAIN image.samp = 1 .. Len(image.samp)
  BY Given
<1>7. image.samp[1].h = MaxH(image.samp) /\ image.samp[1].v = MaxV(image.samp)
  <2>1. CASE Len(image.samp) = 1
    <3>1. DOMAIN image.samp = {1}
      BY <1>6, <2>1
    <3>2. /\ {image.samp[c].h : c \in DOMAIN image.samp} = {image.samp[1].h}
          /\ {image.samp[c].v : c \in DOMAIN image.samp} = {image.samp[1].v}
      BY <3>1
    <3>3. image.samp[1] \in Factors
      BY <1>6, <2>1, ElementOfSeq
    <3>4. image.samp[1].h \in 1..4 /\ image.samp[1].v \in 1..4
      BY <3>3 DEF Factors
    <3>5. ASSUME NEW k \in 1..4 PROVE Max({k}) = k
      <4>1. {k} \subseteq 1..4 /\ {k} # {}
        OBVIOUS
      <4>2. Max({k}) \in {k}
        BY <4>1, LargestOf
      <4>3. QED
        BY <4>2
    <3>6. QED
      BY <3>2, <3>4, <3>5 DEF MaxH, MaxV
  <2>2. CASE Len(image.samp) # 1
    <3>1. request.gray /\ image.colour = "YCC"
      BY <2>2 DEF SingleComponent
    <3>2. QED
      BY <3>1 DEF Prepared, GrayPossible, Sampling
  <2>3. QED
    BY <2>1, <2>2
<1>8. QED
  BY <1>4, <1>5, <1>6, <1>7

\* The destination of several components has the factors of the source, turned
\* with the image.
LEMMA SeveralDestination ==
    ASSUME image \in Images, request \in Requests, Prepared, ~SingleComponent
    PROVE  /\ out.samp = IF request.op \in Sideways THEN Swapped(image.samp) ELSE image.samp
           /\ info.samp = out.samp
<1>1. info.samp = WorkspaceSampling(request.op)
  BY WorkspaceFields DEF Prepared, Asked
<1>2. /\ image.samp \in Seq(Factors) /\ DOMAIN image.samp = 1 .. Len(image.samp)
      /\ Len(image.samp) \in Nat /\ Len(image.samp) # 1
  BY Given DEF SingleComponent
<1>3. CASE request.op \in Sideways
  <2>1. info.samp = [c \in 1 .. Len(image.samp) |-> Swapped(image.samp)[c]]
    BY <1>1, <1>3 DEF WorkspaceSampling
  <2>2. Swapped(image.samp) = [c \in 1 .. Len(image.samp) |-> Swapped(image.samp)[c]]
    BY <1>2 DEF Swapped
  <2>3. info.samp = Swapped(image.samp) /\ Len(info.samp) # 1
    BY <1>2, <2>1, <2>2, SwappedFactors
  <2>4. QED
    BY <1>3, <2>3 DEF Prepared, Destination
<1>4. CASE request.op \notin Sideways
  <2>1. info.samp = [c \in 1 .. Len(image.samp) |-> image.samp[c]]
    BY <1>1, <1>4 DEF WorkspaceSampling
  <2>2. image.samp = [c \in 1 .. Len(image.samp) |-> image.samp[c]]
    BY <1>2
  <2>3. QED
    BY <1>2, <1>4, <2>1, <2>2 DEF Prepared, Destination
<1>5. QED
  BY <1>3, <1>4

\* What getSubsamp() makes of a result that was turned sideways.
LEMMA Readable ==
    ASSUME image \in Images, request \in Requests, Prepared, GetSubsamp(out) = "unknown"
    PROVE  GetSubsamp(image) = "S411" /\ request.op \in Sideways /\ ~request.gray
<1>1. out.colour # "GRAY"
  BY DEF GetSubsamp
<1>2. ~request.gray /\ out.colour = image.colour
  BY <1>1 DEF Prepared, Destination
<1>3. ~SingleComponent
  <2>1. image.colour # "GRAY"
    BY <1>1, <1>2
  <2>2. QED
    BY <1>2, <2>1, Given DEF SingleComponent
<1>4. /\ GetSubsamp(image) \in {"S444", "S422", "S420", "S440", "S411"}
      /\ \/ Matches(image, Standard(GetSubsamp(image)), Sampling(1, 1))
         \/ /\ GetSubsamp(image) \in {"S422", "S440"}
            /\ Matches(image, Sampling(2, 2),
                       Sampling(Standard(GetSubsamp(image)).v, Standard(GetSubsamp(image)).h))
  BY <1>1, <1>2, NamedSampling DEF Prepared, Asked
<1>5. request.op \in Sideways
  <2>1. SUFFICES ASSUME request.op \notin Sideways PROVE FALSE
    OBVIOUS
  <2>2. out.samp = image.samp
    BY <1>3, <2>1, SeveralDestination
  <2>3. \A a, b : Matches(image, a, b) <=> Matches(out, a, b)
    BY <1>2, <2>2 DEF Matches
  <2>4. QED
    BY <1>4, <2>3, HasAName
<1>6. GetSubsamp(image) = "S411"
  <2>1. SUFFICES ASSUME GetSubsamp(image) # "S411" PROVE FALSE
    OBVIOUS
  <2>2. /\ out.samp = Swapped(image.samp) /\ image.samp \in Seq(Factors)
        /\ Len(out.samp) = Len(image.samp) /\ Len(image.samp) \in 1..4
        /\ DOMAIN image.samp = 1 .. Len(image.samp)
    BY <1>3, <1>5, SeveralDestination, SwappedFactors, Given
  <2>3. ASSUME NEW a \in 1..4, NEW b \in 1..4, NEW a2 \in 1..4, NEW b2 \in 1..4,
               Matches(image, Sampling(a, b), Sampling(a2, b2))
        PROVE  Matches(out, Sampling(b, a), Sampling(b2, a2))
    <3>1. \A k \in 1 .. Len(image.samp) :
             out.samp[k] = Sampling(image.samp[k].v, image.samp[k].h)
      BY <2>2 DEF Swapped, Sampling
    <3>2. \A x, y : Sampling(x, y).h = x /\ Sampling(x, y).v = y
      BY DEF Sampling
    <3>3. 1 \in 1 .. Len(image.samp)
      BY Given
    <3>4. out.samp[1] = Sampling(b, a)
      BY <2>3, <3>1, <3>2, <3>3 DEF Matches
    <3>5. ASSUME NEW k \in 2 .. Len(out.samp)
          PROVE  out.samp[k] = IF out.colour = "YCCK" /\ k = 4 THEN Sampling(b, a) ELSE Sampling(b2, a2)
      <4>1. k \in 1 .. Len(image.samp) /\ k \in 2 .. Len(image.samp)
        BY <2>2
      <4>2. image.samp[k] = IF image.colour = "YCCK" /\ k = 4 THEN Sampling(a, b) ELSE Sampling(a2, b2)
        BY <2>3, <4>1 DEF Matches
      <4>3. QED
        BY <1>2, <3>1, <3>2, <4>1, <4>2
    <3>6. QED
      BY <3>4, <3>5 DEF Matches
  <2>4. /\ Standard("S444") = Sampling(1, 1) /\ Standard("S422") = Sampling(2, 1)
        /\ Standard("S420") = Sampling(2, 2) /\ Standard("S440") = Sampling(1, 2)
    BY DEF Standard, Subsamplings
  <2>5. \A x, y : Sampling(x, y).h = x /\ Sampling(x, y).v = y
    BY DEF Sampling
  <2>6. CASE GetSubsamp(image) = "S444"
    BY <1>4, <2>3, <2>4, <2>6, HasAName
  <2>7. CASE GetSubsamp(image) = "S420"
    BY <1>4, <2>3, <2>4, <2>7, HasAName
  <2>8. CASE GetSubsamp(image) = "S422"
    <3>1. Matches(image, Sampling(2, 1), Sampling(1, 1)) \/ Matches(image, Sampling(2, 2), Sampling(1, 2))
      BY <1>4, <2>4, <2>5, <2>8
    <3>2. Matches(out, Sampling(1, 2), Sampling(1, 1)) \/ Matches(out, Sampling(2, 2), Sampling(2, 1))
      BY <2>3, <3>1
    <3>3. QED
      BY <2>4, <2>5, <3>2, HasAName
  <2>9. CASE GetSubsamp(image) = "S440"
    <3>1. Matches(image, Sampling(1, 2), Sampling(1, 1)) \/ Matches(image, Sampling(2, 2), Sampling(2, 1))
      BY <1>4, <2>4, <2>5, <2>9
    <3>2. Matches(out, Sampling(2, 1), Sampling(1, 1)) \/ Matches(out, Sampling(2, 2), Sampling(1, 2))
      BY <2>3, <3>1
    <3>3. QED
      BY <2>4, <2>5, <3>2, HasAName
  <2>10. QED
    BY <1>4, <2>1, <2>6, <2>7, <2>8, <2>9
<1>7. QED
  BY <1>2, <1>5, <1>6

SourceX(c) == IF request.op \in Sideways THEN SourceRows(c) ELSE SourceColumns(c)
SourceY(c) == IF request.op \in Sideways THEN SourceColumns(c) ELSE SourceRows(c)

\* The arrays of the source hold whole iMCUs.
LEMMA SourceGrid ==
    ASSUME image \in Images, request \in Requests, NEW c \in DOMAIN image.samp
    PROVE  /\ image.samp[c].h \in 1..4 /\ image.samp[c].v \in 1..4
           /\ MaxH(image.samp) * DCTSIZE \in Nat \ {0} /\ MaxV(image.samp) * DCTSIZE \in Nat \ {0}
           /\ SourceColumns(c) = CeilDiv(image.w, MaxH(image.samp) * DCTSIZE) * image.samp[c].h
           /\ SourceRows(c) = CeilDiv(image.h, MaxV(image.samp) * DCTSIZE) * image.samp[c].v
           /\ SourceColumns(c) \in Nat /\ SourceRows(c) \in Nat
<1>1. image.samp \in Seq(Factors) /\ c \in 1 .. Len(image.samp) /\ Len(image.samp) > 0
  BY Given
<1>2. image.samp[c] \in Factors
  BY <1>1, ElementOfSeq
<1>3. PICK f \in 1..4, g \in 1..4 : f = image.samp[c].h /\ g = image.samp[c].v
  BY <1>2 DEF Factors
<1>4. PICK mx \in Nat \ {0}, my \in Nat \ {0} :
          mx = MaxH(image.samp) * DCTSIZE /\ my = MaxV(image.samp) * DCTSIZE
  <2>1. MaxH(image.samp) \in 1..4 /\ MaxV(image.samp) \in 1..4 /\ DCTSIZE \in Nat \ {0}
    BY <1>1, LargestFactors, Given
  <2>2. MaxH(image.samp) * DCTSIZE \in Nat \ {0} /\ MaxV(image.samp) * DCTSIZE \in Nat \ {0}
    BY <2>1
  <2>3. QED
    BY <2>2
<1>5. f \in Nat \ {0} /\ g \in Nat \ {0} /\ image.w \in Nat \ {0} /\ image.h \in Nat \ {0}
  BY Given
<1>6. /\ SourceColumns(c) = RoundUp(CeilDiv(image.w * f, mx), f)
      /\ SourceRows(c) = RoundUp(CeilDiv(image.h * g, my), g)
  BY <1>3, <1>4 DEF SourceColumns, SourceRows, BlocksAcross, BlocksDown
<1>7. ASSUME NEW n \in Nat \ {0}, NEW m \in Nat \ {0}, NEW k \in Nat \ {0}
      PROVE  RoundUp(CeilDiv(n * k, m), k) = CeilDiv(n, m) * k /\ CeilDiv(n, m) * k \in Nat
  BY PaddedBlocks
<1>8. /\ RoundUp(CeilDiv(image.w * f, mx), f) = CeilDiv(image.w, mx) * f
      /\ CeilDiv(image.w, mx) * f \in Nat
      /\ RoundUp(CeilDiv(image.h * g, my), g) = CeilDiv(image.h, my) * g
      /\ CeilDiv(image.h, my) * g \in Nat
  BY <1>5, <1>7
<1>9. QED
  BY <1>3, <1>4, <1>6, <1>8

\* An iMCU of the destination is as large as one of the workspace, and the arrays
\* of the source hold as many as the transformed image has.
LEMMA GridFacts ==
    ASSUME image \in Images, request \in Requests, Prepared, NEW c \in DOMAIN out.samp
    PROVE  /\ out.w = info.w /\ out.h = info.h
           /\ out.samp[c].h \in 1..4 /\ out.samp[c].v \in 1..4
           /\ info.samp[c] = out.samp[c]
           /\ MaxH(out.samp) * DCTSIZE = McuW /\ MaxV(out.samp) * DCTSIZE = McuH
           /\ SourceX(c) \in Nat /\ CeilDiv(FullW, McuW) * out.samp[c].h <= SourceX(c)
           /\ SourceY(c) \in Nat /\ CeilDiv(FullH, McuH) * out.samp[c].v <= SourceY(c)
<1>1. out.w = info.w /\ out.h = info.h
  BY DEF Prepared, Destination
<1>2. /\ image.samp \in Seq(Factors) /\ DCTSIZE \in Nat \ {0}
      /\ DOMAIN image.samp = 1 .. Len(image.samp) /\ 1 \in DOMAIN image.samp
      /\ image.w \in Nat \ {0} /\ image.h \in Nat \ {0}
  BY Given
<1>3. CASE SingleComponent
  <2>1. /\ c = 1 /\ out.samp = One /\ info.samp[1] = Sampling(1, 1) /\ One[1] = Sampling(1, 1)
        /\ out.samp[c].h = 1 /\ out.samp[c].v = 1 /\ MaxH(out.samp) = 1 /\ MaxV(out.samp) = 1
    BY <1>3, SingleDestination, OneFactors DEF One
  <2>2. McuW = DCTSIZE /\ McuH = DCTSIZE
    BY <1>3, McuFacts DEF McuW, McuH
  <2>3. PICK f \in Nat \ {0}, g \in Nat \ {0}, a \in Nat, b \in Nat :
           /\ f * DCTSIZE \in Nat \ {0} /\ g * DCTSIZE \in Nat \ {0}
           /\ SourceColumns(1) = a * f /\ a = CeilDiv(image.w, f * DCTSIZE)
           /\ SourceRows(1) = b * g /\ b = CeilDiv(image.h, g * DCTSIZE)
    <3>1. image.samp[1].h = MaxH(image.samp) /\ image.samp[1].v = MaxV(image.samp)
      BY <1>3, SingleDestination
    <3>2. /\ image.samp[1].h \in 1..4 /\ image.samp[1].v \in 1..4
          /\ MaxH(image.samp) * DCTSIZE \in Nat \ {0} /\ MaxV(image.samp) * DCTSIZE \in Nat \ {0}
          /\ SourceColumns(1) = CeilDiv(image.w, MaxH(image.samp) * DCTSIZE) * image.samp[1].h
          /\ SourceRows(1) = CeilDiv(image.h, MaxV(image.samp) * DCTSIZE) * image.samp[1].v
      BY <1>2, SourceGrid
    <3>3. /\ CeilDiv(image.w, MaxH(image.samp) * DCTSIZE) \in Nat
          /\ CeilDiv(image.h, MaxV(image.samp) * DCTSIZE) \in Nat
      BY <1>2, <3>2, CeilDivFacts
    <3>4. image.samp[1].h \in Nat \ {0} /\ image.samp[1].v \in Nat \ {0}
      BY <3>2
    <3>5. QED
      BY <3>1, <3>2, <3>3, <3>4
  <2>4. CeilDiv(image.w, DCTSIZE) <= a * f
    <3>1. image.w <= (f * DCTSIZE) * a
      BY <1>2, <2>3, CeilDivFacts
    <3>2. (f * DCTSIZE) * a = DCTSIZE * (a * f) /\ a * f \in Nat
      BY <1>2, <2>3
    <3>3. QED
      BY <1>2, <3>1, <3>2, CeilDivAtMost
  <2>5. CeilDiv(image.h, DCTSIZE) <= b * g
    <3>1. image.h <= (g * DCTSIZE) * b
      BY <1>2, <2>3, CeilDivFacts
    <3>2. (g * DCTSIZE) * b = DCTSIZE * (b * g) /\ b * g \in Nat
      BY <1>2, <2>3
    <3>3. QED
      BY <1>2, <3>1, <3>2, CeilDivAtMost
  <2>6. CeilDiv(image.w, DCTSIZE) \in Nat /\ CeilDiv(image.h, DCTSIZE) \in Nat
    BY <1>2, CeilDivFacts
  <2>7. SourceColumns(c) \in Nat /\ SourceRows(c) \in Nat
    BY <2>1, <2>3
  <2>8. /\ CeilDiv(FullW, McuW) * out.samp[c].h <= SourceX(c)
        /\ CeilDiv(FullH, McuH) * out.samp[c].v <= SourceY(c)
    <3>1. /\ CeilDiv(image.w, DCTSIZE) * 1 <= SourceColumns(c)
          /\ CeilDiv(image.h, DCTSIZE) * 1 <= SourceRows(c)
      BY <2>1, <2>3, <2>4, <2>5, <2>6
    <3>2. QED
      BY <2>1, <2>2, <3>1 DEF FullW, FullH, SourceX, SourceY
  <2>9. 1 * DCTSIZE = DCTSIZE
    BY <1>2
  <2>10. QED
    BY <1>1, <2>1, <2>2, <2>7, <2>8, <2>9 DEF SourceX, SourceY
<1>4. CASE ~SingleComponent
  <2>1. /\ out.samp = IF request.op \in Sideways THEN Swapped(image.samp) ELSE image.samp
        /\ info.samp = out.samp
    BY <1>4, SeveralDestination
  <2>2. c \in DOMAIN image.samp
    BY <1>2, <2>1, SwappedFactors
  <2>3. /\ image.samp[c].h \in 1..4 /\ image.samp[c].v \in 1..4
        /\ SourceColumns(c) = CeilDiv(image.w, MaxH(image.samp) * DCTSIZE) * image.samp[c].h
        /\ SourceRows(c) = CeilDiv(image.h, MaxV(image.samp) * DCTSIZE) * image.samp[c].v
        /\ SourceColumns(c) \in Nat /\ SourceRows(c) \in Nat
    BY <2>2, SourceGrid
  <2>4. SourceMcu.w = MaxH(image.samp) * DCTSIZE /\ SourceMcu.h = MaxV(image.samp) * DCTSIZE
    BY <1>4, McuFacts
  <2>5. CASE request.op \in Sideways
    <3>1. /\ out.samp[c].h = image.samp[c].v /\ out.samp[c].v = image.samp[c].h
          /\ MaxH(out.samp) = MaxV(image.samp) /\ MaxV(out.samp) = MaxH(image.samp)
      BY <1>2, <2>1, <2>2, <2>5, SwappedFactors
    <3>2. /\ SourceX(c) = SourceRows(c) /\ SourceY(c) = SourceColumns(c)
          /\ McuW = SourceMcu.h /\ McuH = SourceMcu.w /\ FullW = image.h /\ FullH = image.w
      BY <2>5 DEF SourceX, SourceY, McuW, McuH, FullW, FullH
    <3>3. QED
      BY <1>1, <2>1, <2>3, <2>4, <3>1, <3>2
  <2>6. CASE request.op \notin Sideways
    <3>1. out.samp = image.samp
      BY <2>1, <2>6
    <3>2. /\ SourceX(c) = SourceColumns(c) /\ SourceY(c) = SourceRows(c)
          /\ McuW = SourceMcu.w /\ McuH = SourceMcu.h /\ FullW = image.w /\ FullH = image.h
      BY <2>6 DEF SourceX, SourceY, McuW, McuH, FullW, FullH
    <3>3. QED
      BY <1>1, <2>1, <2>3, <2>4, <3>1, <3>2
  <2>7. QED
    BY <2>5, <2>6
<1>5. QED
  BY <1>3, <1>4

\* The blocks of the destination, and where they begin in the source.
LEMMA AcrossFacts ==
    ASSUME image \in Images, request \in Requests, Prepared, NEW c \in DOMAIN out.samp
    PROVE  /\ BlocksAcross(out, c) \in Nat /\ info.columns \in Nat /\ info.x \in Nat
           /\ BlocksAcross(out, c) <= info.columns * out.samp[c].h
           /\ RoundUp(BlocksAcross(out, c), out.samp[c].h) = info.columns * out.samp[c].h
           /\ CompWidth(c) = (FullW \div McuW) * out.samp[c].h
           /\ FullW \div McuW \in Nat /\ CompWidth(c) \in Nat /\ CompWidth(c) <= SourceX(c)
           /\ info.x * out.samp[c].h + info.columns * out.samp[c].h <= SourceX(c)
<1>1. PICK f \in 1..4, s \in Nat, m \in Nat \ {0}, full \in Nat \ {0}, n \in Nat \ {0}, x \in Nat :
          /\ f = out.samp[c].h /\ s = SourceX(c) /\ m = McuW /\ full = FullW
          /\ n = info.w /\ x = info.x /\ x * m + n <= full
  BY GridFacts, ExtentFacts, OutputExtents DEF Prepared
<1>2. f \in Nat \ {0} /\ out.w = n /\ MaxH(out.samp) * DCTSIZE = m
  BY <1>1, GridFacts
<1>3. BlocksAcross(out, c) = CeilDiv(n * f, m)
  BY <1>1, <1>2 DEF BlocksAcross
<1>4. info.columns = CeilDiv(n, m) /\ info.full.w = full
  BY <1>1, WorkspaceFields DEF Prepared, Asked
<1>5. PICK k \in Nat : k = CeilDiv(n, m)
  BY <1>1, CeilDivFacts
<1>6. PICK all \in Nat : all = CeilDiv(full, m) /\ all * f <= s
  <2>1. CeilDiv(full, m) \in Nat
    BY <1>1, CeilDivFacts
  <2>2. CeilDiv(FullW, McuW) * out.samp[c].h <= SourceX(c)
    BY GridFacts
  <2>3. QED
    BY <1>1, <2>1, <2>2
<1>7. /\ CeilDiv(n * f, m) \in Nat /\ CeilDiv(n * f, m) <= k * f
      /\ RoundUp(CeilDiv(n * f, m), f) = k * f
  BY <1>1, <1>2, <1>5, PaddedBlocks
<1>8. x * f + k * f <= s
  <2>1. x + k <= all
    BY <1>1, <1>5, <1>6, PartInside
  <2>2. x + k \in Nat /\ (x + k) * f <= all * f /\ (x + k) * f \in Nat /\ all * f \in Nat
    BY <1>1, <1>2, <1>5, <1>6, <2>1, ProductGrows
  <2>3. (x + k) * f = x * f + k * f
    BY <1>1, <1>5
  <2>4. QED
    BY <1>1, <1>6, <2>2, <2>3
<1>9. /\ full \div m \in Nat /\ (full \div m) * f \in Nat /\ (full \div m) * f <= s
  <2>1. full \div m \in Nat /\ full \div m <= all
    BY <1>1, <1>6, WholeAmongAll
  <2>2. (full \div m) * f <= all * f /\ (full \div m) * f \in Nat /\ all * f \in Nat
    BY <1>2, <1>6, <2>1, ProductGrows
  <2>3. QED
    BY <1>1, <1>6, <2>1, <2>2
<1>10. CompWidth(c) = (full \div m) * f
  BY <1>1, <1>2, <1>4 DEF CompWidth
<1>11. QED
  BY <1>1, <1>3, <1>4, <1>5, <1>7, <1>8, <1>9, <1>10

\* The same for the rows of blocks.
LEMMA DownFacts ==
    ASSUME image \in Images, request \in Requests, Prepared, NEW c \in DOMAIN out.samp
    PROVE  /\ BlocksDown(out, c) \in Nat /\ info.rows \in Nat /\ info.y \in Nat
           /\ BlocksDown(out, c) <= info.rows * out.samp[c].v
           /\ RoundUp(BlocksDown(out, c), out.samp[c].v) = info.rows * out.samp[c].v
           /\ CompHeight(c) = (FullH \div McuH) * out.samp[c].v
           /\ FullH \div McuH \in Nat /\ CompHeight(c) \in Nat /\ CompHeight(c) <= SourceY(c)
           /\ info.y * out.samp[c].v + info.rows * out.samp[c].v <= SourceY(c)
<1>1. PICK f \in 1..4, s \in Nat, m \in Nat \ {0}, full \in Nat \ {0}, n \in Nat \ {0}, y \in Nat :
          /\ f = out.samp[c].v /\ s = SourceY(c) /\ m = McuH /\ full = FullH
          /\ n = info.h /\ y = info.y /\ y * m + n <= full
  BY GridFacts, ExtentFacts, OutputExtents DEF Prepared
<1>2. f \in Nat \ {0} /\ out.h = n /\ MaxV(out.samp) * DCTSIZE = m
  BY <1>1, GridFacts
<1>3. BlocksDown(out, c) = CeilDiv(n * f, m)
  BY <1>1, <1>2 DEF BlocksDown
<1>4. info.rows = CeilDiv(n, m) /\ info.full.h = full
  BY <1>1, WorkspaceFields DEF Prepared, Asked
<1>5. PICK k \in Nat : k = CeilDiv(n, m)
  BY <1>1, CeilDivFacts
<1>6. PICK all \in Nat : all = CeilDiv(full, m) /\ all * f <= s
  <2>1. CeilDiv(full, m) \in Nat
    BY <1>1, CeilDivFacts
  <2>2. CeilDiv(FullH, McuH) * out.samp[c].v <= SourceY(c)
    BY GridFacts
  <2>3. QED
    BY <1>1, <2>1, <2>2
<1>7. /\ CeilDiv(n * f, m) \in Nat /\ CeilDiv(n * f, m) <= k * f
      /\ RoundUp(CeilDiv(n * f, m), f) = k * f
  BY <1>1, <1>2, <1>5, PaddedBlocks
<1>8. y * f + k * f <= s
  <2>1. y + k <= all
    BY <1>1, <1>5, <1>6, PartInside
  <2>2. y + k \in Nat /\ (y + k) * f <= all * f /\ (y + k) * f \in Nat /\ all * f \in Nat
    BY <1>1, <1>2, <1>5, <1>6, <2>1, ProductGrows
  <2>3. (y + k) * f = y * f + k * f
    BY <1>1, <1>5
  <2>4. QED
    BY <1>1, <1>6, <2>2, <2>3
<1>9. /\ full \div m \in Nat /\ (full \div m) * f \in Nat /\ (full \div m) * f <= s
  <2>1. full \div m \in Nat /\ full \div m <= all
    BY <1>1, <1>6, WholeAmongAll
  <2>2. (full \div m) * f <= all * f /\ (full \div m) * f \in Nat /\ all * f \in Nat
    BY <1>2, <1>6, <2>1, ProductGrows
  <2>3. QED
    BY <1>1, <1>6, <2>1, <2>2
<1>10. CompHeight(c) = (full \div m) * f
  BY <1>1, <1>2, <1>4 DEF CompHeight
<1>11. QED
  BY <1>1, <1>3, <1>4, <1>5, <1>7, <1>8, <1>9, <1>10

-----------------------------------------------------------------------------
(* The block that each block should become, whatever the routine.          *)

MirroredX(c, x) == request.op \in MirrorsX /\ Left(c, x) < CompWidth(c)
MirroredY(c, y) == request.op \in MirrorsY /\ Top(c, y) < CompHeight(c)
PlaceX(c, x) == IF MirroredX(c, x) THEN FromRight(c, x) ELSE Left(c, x)
PlaceY(c, y) == IF MirroredY(c, y) THEN FromBottom(c, y) ELSE Top(c, y)

Ideal(c, x, y) ==
    IF request.op \in Sideways
    THEN Block(PlaceY(c, y), PlaceX(c, x), TRUE, MirroredX(c, x), MirroredY(c, y))
    ELSE Block(PlaceX(c, x), PlaceY(c, y), FALSE, MirroredX(c, x), MirroredY(c, y))

\* Rows and columns of iMCUs are within the mirrored part as a whole.
LEMMA WithinPart ==
    ASSUME image \in Images, request \in Requests, Prepared, NEW c \in DOMAIN out.samp
    PROVE  /\ \A x \in Nat : InX(c, x) <=> Left(c, x) < CompWidth(c)
           /\ \A y \in Nat : InY(c, y) <=> Top(c, y) < CompHeight(c)
<1>1. PICK h \in 1..4, v \in 1..4, ox \in Nat, oy \in Nat, kx \in Nat, ky \in Nat :
          /\ h = out.samp[c].h /\ v = out.samp[c].v /\ ox = info.x /\ oy = info.y
          /\ CompWidth(c) = kx * h /\ CompHeight(c) = ky * v
  <2>1. /\ out.samp[c].h \in 1..4 /\ info.x \in Nat /\ FullW \div McuW \in Nat
        /\ CompWidth(c) = (FullW \div McuW) * out.samp[c].h
    BY GridFacts, AcrossFacts
  <2>2. /\ out.samp[c].v \in 1..4 /\ info.y \in Nat /\ FullH \div McuH \in Nat
        /\ CompHeight(c) = (FullH \div McuH) * out.samp[c].v
    BY GridFacts, DownFacts
  <2>3. QED
    BY <2>1, <2>2
<1>2. h \in Nat \ {0} /\ v \in Nat \ {0}
  OBVIOUS
<1>3. ASSUME NEW x \in Nat PROVE InX(c, x) <=> Left(c, x) < CompWidth(c)
  <2>1. ox * h + (x - (x % h)) < kx * h <=> ox * h + x < kx * h
    BY <1>2, WholeRows
  <2>2. QED
    BY <1>1, <2>1 DEF InX, Left
<1>4. ASSUME NEW y \in Nat PROVE InY(c, y) <=> Top(c, y) < CompHeight(c)
  <2>1. oy * v + (y - (y % v)) < ky * v <=> oy * v + y < ky * v
    BY <1>2, WholeRows
  <2>2. QED
    BY <1>1, <2>1 DEF InY, Top
<1>5. QED
  BY <1>3, <1>4

\* Every routine but the one in place writes the blocks it should.
LEMMA Routines ==
    ASSUME image \in Images, request \in Requests, Prepared, NEW c \in DOMAIN out.samp,
           info.needed
    PROVE  Transformed(c) = [p \in Written(c) |-> Ideal(c, p[1], p[2])]
<1> DEFINE Same(b, x, y) == b = Ideal(c, x, y)
<1>1. /\ \A x \in Nat : InX(c, x) <=> Left(c, x) < CompWidth(c)
      /\ \A y \in Nat : InY(c, y) <=> Top(c, y) < CompHeight(c)
  BY WithinPart
<1>2. request.op \in Transforms
  BY Given
<1>3. \A p \in Written(c) : p[1] \in Nat /\ p[2] \in Nat
  <2>1. /\ BlocksAcross(out, c) \in Nat
        /\ RoundUp(BlocksAcross(out, c), out.samp[c].h) \in Nat
        /\ RoundUp(BlocksDown(out, c), out.samp[c].v) \in Nat
    <3>1. /\ BlocksAcross(out, c) \in Nat
          /\ out.samp[c].h \in 1..4 /\ out.samp[c].v \in 1..4
          /\ RoundUp(BlocksAcross(out, c), out.samp[c].h) = info.columns * out.samp[c].h
          /\ RoundUp(BlocksDown(out, c), out.samp[c].v) = info.rows * out.samp[c].v
          /\ info.columns \in Nat /\ info.rows \in Nat
      BY GridFacts, AcrossFacts, DownFacts
    <3>2. QED
      BY <3>1
  <2>2. ASSUME NEW n \in Nat PROVE Columns(n) \subseteq Nat
    BY DEF Columns
  <2>3. QED
    BY <2>1, <2>2 DEF Written
<1>4. CASE request.op = "NONE"
  <2>1. \A x, y : DoCrop(c, x, y) = Ideal(c, x, y)
    BY <1>4 DEF DoCrop, Ideal, PlaceX, PlaceY, MirroredX, MirroredY, MirrorsX, MirrorsY, Sideways
  <2>2. Transformed(c) = [p \in Written(c) |-> DoCrop(c, p[1], p[2])]
    BY <1>4 DEF Transformed, Moved
  <2>3. QED
    BY <2>1, <2>2
<1>5. CASE request.op = "HFLIP"
  <2>1. \A x, y : DoFlipH(c, x, y) = Ideal(c, x, y)
    BY <1>5 DEF DoFlipH, Ideal, PlaceX, PlaceY, MirroredX, MirroredY, MirrorsX, MirrorsY, Sideways
  <2>2. Transformed(c) = [p \in Written(c) |-> DoFlipH(c, p[1], p[2])]
    BY <1>5 DEF Transformed, Moved
  <2>3. QED
    BY <2>1, <2>2
<1>6. CASE request.op = "VFLIP"
  <2>1. \A x, y \in Nat : DoFlipV(c, x, y) = Ideal(c, x, y)
    BY <1>1, <1>6 DEF DoFlipV, Ideal, PlaceX, PlaceY, MirroredX, MirroredY, MirrorsX, MirrorsY, Sideways
  <2>2. Transformed(c) = [p \in Written(c) |-> DoFlipV(c, p[1], p[2])]
    BY <1>6 DEF Transformed, Moved
  <2>3. QED
    BY <1>3, <2>1, <2>2
<1>7. CASE request.op = "TRANSPOSE"
  <2>1. \A x, y : DoTranspose(c, x, y) = Ideal(c, x, y)
    BY <1>7 DEF DoTranspose, Ideal, PlaceX, PlaceY, MirroredX, MirroredY, MirrorsX, MirrorsY, Sideways
  <2>2. Transformed(c) = [p \in Written(c) |-> DoTranspose(c, p[1], p[2])]
    BY <1>7 DEF Transformed, Moved
  <2>3. QED
    BY <2>1, <2>2
<1>8. CASE request.op = "TRANSVERSE"
  <2>1. ASSUME NEW x \in Nat, NEW y \in Nat PROVE DoTransverse(c, x, y) = Ideal(c, x, y)
    <3>1. MirroredX(c, x) = InX(c, x) /\ MirroredY(c, y) = InY(c, y) /\ request.op \in Sideways
      BY <1>1, <1>8 DEF MirroredX, MirroredY, MirrorsX, MirrorsY, Sideways, InX, InY
    <3>2. QED
      BY <3>1 DEF DoTransverse, Ideal, PlaceX, PlaceY
  <2>2. Transformed(c) = [p \in Written(c) |-> DoTransverse(c, p[1], p[2])]
    BY <1>8 DEF Transformed, Moved
  <2>3. QED
    BY <1>3, <2>1, <2>2
<1>9. CASE request.op = "ROT90"
  <2>1. \A x, y \in Nat : DoRot90(c, x, y) = Ideal(c, x, y)
    BY <1>1, <1>9 DEF DoRot90, Ideal, PlaceX, PlaceY, MirroredX, MirroredY, MirrorsX, MirrorsY, Sideways
  <2>2. Transformed(c) = [p \in Written(c) |-> DoRot90(c, p[1], p[2])]
    BY <1>9 DEF Transformed, Moved
  <2>3. QED
    BY <1>3, <2>1, <2>2
<1>10. CASE request.op = "ROT180"
  <2>1. ASSUME NEW x \in Nat, NEW y \in Nat PROVE DoRot180(c, x, y) = Ideal(c, x, y)
    <3>1. /\ MirroredX(c, x) = (Left(c, x) < CompWidth(c)) /\ MirroredY(c, y) = InY(c, y)
          /\ request.op \notin Sideways
      BY <1>1, <1>10 DEF MirroredX, MirroredY, MirrorsX, MirrorsY, Sideways, InY
    <3>2. QED
      BY <3>1 DEF DoRot180, Ideal, PlaceX, PlaceY
  <2>2. Transformed(c) = [p \in Written(c) |-> DoRot180(c, p[1], p[2])]
    BY <1>10 DEF Transformed, Moved
  <2>3. QED
    BY <1>3, <2>1, <2>2
<1>11. CASE request.op = "ROT270"
  <2>1. \A x, y \in Nat : DoRot270(c, x, y) = Ideal(c, x, y)
    BY <1>1, <1>11 DEF DoRot270, Ideal, PlaceX, PlaceY, MirroredX, MirroredY, MirrorsX, MirrorsY, Sideways
  <2>2. Transformed(c) = [p \in Written(c) |-> DoRot270(c, p[1], p[2])]
    BY <1>11 DEF Transformed, Moved
  <2>3. QED
    BY <1>3, <2>1, <2>2
<1>12. QED
  BY <1>2, <1>4, <1>5, <1>6, <1>7, <1>8, <1>9, <1>10, <1>11 DEF Transforms

\* The block that it should be is one of the source.
LEMMA IdealInside ==
    ASSUME image \in Images, request \in Requests, Prepared, NEW c \in DOMAIN out.samp,
           NEW x \in Nat, NEW y \in Nat,
           x < info.columns * out.samp[c].h, y < info.rows * out.samp[c].v
    PROVE  /\ Ideal(c, x, y).x \in Columns(SourceColumns(c))
           /\ Ideal(c, x, y).y \in Columns(SourceRows(c))
<1>1. PICK ho \in Nat, hk \in Nat, sx \in Nat, w \in Nat :
          /\ ho = info.x * out.samp[c].h /\ hk = info.columns * out.samp[c].h
          /\ sx = SourceX(c) /\ w = CompWidth(c) /\ ho + hk <= sx /\ w <= sx
  <2>1. /\ info.x \in Nat /\ info.columns \in Nat /\ out.samp[c].h \in 1..4
        /\ SourceX(c) \in Nat /\ CompWidth(c) \in Nat /\ CompWidth(c) <= SourceX(c)
        /\ info.x * out.samp[c].h + info.columns * out.samp[c].h <= SourceX(c)
    BY AcrossFacts, GridFacts
  <2>2. info.x * out.samp[c].h \in Nat /\ info.columns * out.samp[c].h \in Nat
    BY <2>1
  <2>3. QED
    BY <2>1, <2>2
<1>2. PICK vo \in Nat, vk \in Nat, sy \in Nat, h \in Nat :
          /\ vo = info.y * out.samp[c].v /\ vk = info.rows * out.samp[c].v
          /\ sy = SourceY(c) /\ h = CompHeight(c) /\ vo + vk <= sy /\ h <= sy
  <2>1. /\ info.y \in Nat /\ info.rows \in Nat /\ out.samp[c].v \in 1..4
        /\ SourceY(c) \in Nat /\ CompHeight(c) \in Nat /\ CompHeight(c) <= SourceY(c)
        /\ info.y * out.samp[c].v + info.rows * out.samp[c].v <= SourceY(c)
    BY DownFacts, GridFacts
  <2>2. info.y * out.samp[c].v \in Nat /\ info.rows * out.samp[c].v \in Nat
    BY <2>1
  <2>3. QED
    BY <2>1, <2>2
<1>3. PlaceX(c, x) \in 0 .. SourceX(c) - 1
  <2>1. Left(c, x) = ho + x
    BY <1>1 DEF Left
  <2>2. QED
    BY <1>1, <2>1 DEF PlaceX, MirroredX, FromRight
<1>4. PlaceY(c, y) \in 0 .. SourceY(c) - 1
  <2>1. Top(c, y) = vo + y
    BY <1>2 DEF Top
  <2>2. QED
    BY <1>2, <2>1 DEF PlaceY, MirroredY, FromBottom
<1>5. CASE request.op \in Sideways
  <2>1. Ideal(c, x, y).x = PlaceY(c, y) /\ Ideal(c, x, y).y = PlaceX(c, x)
    BY <1>5 DEF Ideal, Block
  <2>2. QED
    BY <1>3, <1>4, <1>5, <2>1 DEF SourceX, SourceY, Columns
<1>6. CASE request.op \notin Sideways
  <2>1. Ideal(c, x, y).x = PlaceX(c, x) /\ Ideal(c, x, y).y = PlaceY(c, y)
    BY <1>6 DEF Ideal, Block
  <2>2. QED
    BY <1>3, <1>4, <1>6, <2>1 DEF SourceX, SourceY, Columns
<1>7. QED
  BY <1>5, <1>6

\* Its samples are those that the picture should have.
LEMMA IdealSamples ==
    ASSUME image \in Images, request \in Requests, Prepared, NEW c \in DOMAIN out.samp,
           NEW X \in Nat, NEW Y \in Nat
    PROVE  SampleOf(Ideal(c, X \div DCTSIZE, Y \div DCTSIZE), X, Y) = Origin(c, X, Y)
<1> DEFINE bx == X \div DCTSIZE
           by == Y \div DCTSIZE
           I  == IF MirroredX(c, bx) THEN DCTSIZE - 1 - (X % DCTSIZE) ELSE X % DCTSIZE
           J  == IF MirroredY(c, by) THEN DCTSIZE - 1 - (Y % DCTSIZE) ELSE Y % DCTSIZE
           RX == Reflected(X + info.x * out.samp[c].h * DCTSIZE, WholeX(c), request.op \in MirrorsX)
           RY == Reflected(Y + info.y * out.samp[c].v * DCTSIZE, WholeY(c), request.op \in MirrorsY)
<1>0. DCTSIZE \in Nat \ {0}
  BY SizesAssumption
<1>1. RX = PlaceX(c, bx) * DCTSIZE + I
  <2>1. PICK f \in Nat, w \in Nat, o \in Nat :
           f = out.samp[c].h /\ w = CompWidth(c) /\ o = info.x
    BY GridFacts, AcrossFacts
  <2>2. WholeX(c) = w * DCTSIZE
    <3>1. info.full.w = FullW /\ info.mcu.w = McuW
      BY WorkspaceFields DEF Prepared, Asked
    <3>2. CompWidth(c) = (FullW \div McuW) * out.samp[c].h
      BY AcrossFacts
    <3>3. QED
      BY <2>1, <3>1, <3>2 DEF WholeX
  <2>3. Left(c, bx) = o * f + bx
    BY <2>1 DEF Left
  <2>4. /\ X + o * f * DCTSIZE = (o * f + bx) * DCTSIZE + (X % DCTSIZE)
        /\ X + o * f * DCTSIZE < w * DCTSIZE <=> o * f + bx < w
        /\ w * DCTSIZE - 1 - (X + o * f * DCTSIZE)
               = (w - (o * f + bx) - 1) * DCTSIZE + (DCTSIZE - 1 - (X % DCTSIZE))
    <3>1. Placed(DCTSIZE, X, o, f, w)
      BY <1>0, SampleInBlock
    <3>2. QED
      BY <3>1 DEF Placed
  <2>5. CASE MirroredX(c, bx)
    <3>1. RX = w * DCTSIZE - 1 - (X + o * f * DCTSIZE)
      BY <2>1, <2>2, <2>3, <2>4, <2>5 DEF Reflected, MirroredX
    <3>2. PlaceX(c, bx) = w - (o * f + bx) - 1 /\ I = DCTSIZE - 1 - (X % DCTSIZE)
      BY <2>1, <2>3, <2>5 DEF PlaceX, FromRight
    <3>3. QED
      BY <2>4, <3>1, <3>2
  <2>6. CASE ~MirroredX(c, bx)
    <3>1. RX = X + o * f * DCTSIZE
      BY <2>1, <2>2, <2>3, <2>4, <2>6 DEF Reflected, MirroredX
    <3>2. PlaceX(c, bx) = o * f + bx /\ I = X % DCTSIZE
      BY <2>3, <2>6 DEF PlaceX
    <3>3. QED
      BY <2>4, <3>1, <3>2
  <2>7. QED
    BY <2>5, <2>6
<1>2. RY = PlaceY(c, by) * DCTSIZE + J
  <2>1. PICK f \in Nat, h \in Nat, o \in Nat :
           f = out.samp[c].v /\ h = CompHeight(c) /\ o = info.y
    BY GridFacts, DownFacts
  <2>2. WholeY(c) = h * DCTSIZE
    <3>1. info.full.h = FullH /\ info.mcu.h = McuH
      BY WorkspaceFields DEF Prepared, Asked
    <3>2. CompHeight(c) = (FullH \div McuH) * out.samp[c].v
      BY DownFacts
    <3>3. QED
      BY <2>1, <3>1, <3>2 DEF WholeY
  <2>3. Top(c, by) = o * f + by
    BY <2>1 DEF Top
  <2>4. /\ Y + o * f * DCTSIZE = (o * f + by) * DCTSIZE + (Y % DCTSIZE)
        /\ Y + o * f * DCTSIZE < h * DCTSIZE <=> o * f + by < h
        /\ h * DCTSIZE - 1 - (Y + o * f * DCTSIZE)
               = (h - (o * f + by) - 1) * DCTSIZE + (DCTSIZE - 1 - (Y % DCTSIZE))
    <3>1. Placed(DCTSIZE, Y, o, f, h)
      BY <1>0, SampleInBlock
    <3>2. QED
      BY <3>1 DEF Placed
  <2>5. CASE MirroredY(c, by)
    <3>1. RY = h * DCTSIZE - 1 - (Y + o * f * DCTSIZE)
      BY <2>1, <2>2, <2>3, <2>4, <2>5 DEF Reflected, MirroredY
    <3>2. PlaceY(c, by) = h - (o * f + by) - 1 /\ J = DCTSIZE - 1 - (Y % DCTSIZE)
      BY <2>1, <2>3, <2>5 DEF PlaceY, FromBottom
    <3>3. QED
      BY <2>4, <3>1, <3>2
  <2>6. CASE ~MirroredY(c, by)
    <3>1. RY = Y + o * f * DCTSIZE
      BY <2>1, <2>2, <2>3, <2>4, <2>6 DEF Reflected, MirroredY
    <3>2. PlaceY(c, by) = o * f + by /\ J = Y % DCTSIZE
      BY <2>3, <2>6 DEF PlaceY
    <3>3. QED
      BY <2>4, <3>1, <3>2
  <2>7. QED
    BY <2>5, <2>6
<1>3. Origin(c, X, Y) = IF request.op \in Sideways THEN <<RY, RX>> ELSE <<RX, RY>>
  BY DEF Origin
<1>4. SampleOf(Ideal(c, bx, by), X, Y) =
         IF request.op \in Sideways
         THEN <<PlaceY(c, by) * DCTSIZE + J, PlaceX(c, bx) * DCTSIZE + I>>
         ELSE <<PlaceX(c, bx) * DCTSIZE + I, PlaceY(c, by) * DCTSIZE + J>>
  BY DEF SampleOf, Ideal, Block
<1> HIDE DEF RX, RY, I, J
<1>5. QED
  BY <1>1, <1>2, <1>3, <1>4 DEF bx, by

-----------------------------------------------------------------------------
(* Mirroring in place.                                                     *)

Halves(width) == CeilDiv(width, 2)

\* Half of the width, rounded up.
LEMMA HalfFacts ==
    ASSUME NEW width \in Nat
    PROVE  /\ Halves(width) \in Nat
           /\ 2 * Halves(width) <= width + 1 /\ width <= 2 * Halves(width)
<1>1. CeilDiv(width, 2) \in Nat /\ width <= 2 * CeilDiv(width, 2) /\ 2 * CeilDiv(width, 2) < width + 2
  BY CeilDivFacts
<1>2. QED
  BY <1>1 DEF Halves

\* After n swaps: n blocks at both ends of the part of that width are mirrored.
Still(x, y) == Block(x, y, FALSE, FALSE, FALSE)
Seen(x, y)  == Block(x, y, FALSE, TRUE, FALSE)
AfterSwaps(n, width, across, y) ==
    [x \in Columns(across) |->
        IF x < n \/ (width - n <= x /\ x < width) THEN Seen(width - 1 - x, y) ELSE Still(x, y)]

\* A block that has not been touched, mirrored once.
LEMMA MirrorStill ==
    ASSUME NEW x, NEW y
    PROVE  Mirror(Still(x, y)) = Seen(x, y)
<1>1. Still(x, y).mx = FALSE
  BY DEF Still, Block
<1>2. (~Still(x, y).mx) = TRUE
  BY <1>1
<1>3. Mirror(Still(x, y)) = [Still(x, y) EXCEPT !.mx = ~Still(x, y).mx]
  BY DEF Mirror
<1>4. Mirror(Still(x, y)) = [Still(x, y) EXCEPT !.mx = TRUE]
  BY <1>2, <1>3
<1>5. [Still(x, y) EXCEPT !.mx = TRUE] = Seen(x, y)
  <2>1. ASSUME NEW f, NEW t
        PROVE  [Block(x, y, f, f, f) EXCEPT !.mx = t] = Block(x, y, f, t, f)
    BY DEF Block
  <2>2. QED
    BY <2>1 DEF Still, Seen
<1>6. QED
  BY <1>4, <1>5

\* One swap of do_flip_h_no_crop() mirrors one more block at both ends.
LEMMA OneSwap ==
    ASSUME NEW width \in Nat, NEW across \in Nat, width <= across, NEW y,
           NEW n \in 1 .. Halves(width)
    PROVE  LET row == AfterSwaps(n - 1, width, across, y)
           IN  AfterSwaps(n, width, across, y) =
                  [row EXCEPT ![n - 1] = Mirror(row[width - n]),
                              ![width - n] = Mirror(row[n - 1])]
<1> DEFINE row == AfterSwaps(n - 1, width, across, y)
           a == Mirror(row[width - n])
           b == Mirror(row[n - 1])
           next == [row EXCEPT ![n - 1] = a, ![width - n] = b]
<1>1. n \in Nat /\ n - 1 \in Nat /\ width - n \in Nat /\ n - 1 <= width - n /\ width - n < across
  BY HalfFacts
<1>2. Columns(across) = 0 .. across - 1
  BY DEF Columns
<1>3. n - 1 \in Columns(across) /\ width - n \in Columns(across)
  BY <1>1, <1>2
<1>4. row[width - n] = Still(width - n, y) /\ row[n - 1] = Still(n - 1, y)
  BY <1>1, <1>3 DEF AfterSwaps
<1>5. a = Seen(width - n, y) /\ b = Seen(n - 1, y)
  BY <1>4, MirrorStill
<1>6. DOMAIN row = Columns(across)
  BY DEF AfterSwaps
<1>7. ASSUME NEW x \in Columns(across)
      PROVE  row[x] = IF x < n - 1 \/ (width - (n - 1) <= x /\ x < width)
                      THEN Seen(width - 1 - x, y) ELSE Still(x, y)
  BY DEF AfterSwaps
<1> HIDE DEF row, a, b
<1>8. /\ DOMAIN next = Columns(across)
      /\ \A x \in Columns(across) :
            next[x] = IF x = width - n THEN b ELSE IF x = n - 1 THEN a ELSE row[x]
  BY <1>3, <1>6
<1> HIDE DEF next
<1>9. ASSUME NEW x \in Columns(across)
      PROVE  next[x] = IF x < n \/ (width - n <= x /\ x < width)
                       THEN Seen(width - 1 - x, y) ELSE Still(x, y)
  <2>0. x \in Nat
    BY <1>2
  <2>1. CASE x = width - n
    <3>1. width - 1 - x = n - 1
      BY <1>1, <2>1
    <3>2. QED
      BY <1>1, <1>5, <1>8, <2>0, <2>1, <3>1
  <2>2. CASE x # width - n /\ x = n - 1
    <3>1. width - 1 - x = width - n
      BY <1>1, <2>2
    <3>2. QED
      BY <1>1, <1>5, <1>8, <2>0, <2>2, <3>1
  <2>3. CASE x # width - n /\ x # n - 1
    BY <1>1, <1>7, <1>8, <2>0, <2>3
  <2>4. QED
    BY <2>1, <2>2, <2>3
<1>10. next = [x \in Columns(across) |-> next[x]]
  BY <1>8 DEF next
<1>11. next = AfterSwaps(n, width, across, y)
  BY <1>9, <1>10 DEF AfterSwaps
<1>12. QED
  BY <1>11 DEF next, a, b, row

\* All swaps mirror the row, the block in the middle included.
LEMMA FlippedInPlace ==
    ASSUME NEW c, NEW y, CompWidth(c) \in Nat, SourceColumns(c) \in Nat,
           CompWidth(c) <= SourceColumns(c)
    PROVE  FlippedRow(c, y) = AfterSwaps(Halves(CompWidth(c)), CompWidth(c), SourceColumns(c), y)
<1> DEFINE width == CompWidth(c)
           across == SourceColumns(c)
           half == Halves(width)
           f(n) == AfterSwaps(n, width, across, y)
           Swap(n, row) == [row EXCEPT ![n - 1] = Mirror(row[width - n]),
                                       ![width - n] = Mirror(row[n - 1])]
           Recursion(g) == g = [n \in 0 .. half |->
                                   IF n = 0 THEN SourceRow(c, y) ELSE Swap(n, g[n - 1])]
           swap == CHOOSE g : Recursion(g)
           closed == [n \in 0 .. half |-> f(n)]
<1>1. FlippedRow(c, y) = swap[half]
  BY DEF FlippedRow, Halves
<1>2. half \in Nat
  BY HalfFacts
<1>3. f(0) = SourceRow(c, y)
  <2>1. \A x \in Columns(across) : x \in Nat
    BY DEF Columns
  <2>2. \A x \in Columns(across) : ~(x < 0 \/ (width - 0 <= x /\ x < width))
    BY <2>1
  <2>3. QED
    BY <2>2 DEF AfterSwaps, SourceRow, Still
<1>4. \A n \in 1 .. half : f(n) = Swap(n, f(n - 1))
  BY OneSwap
<1> HIDE DEF f, Swap, half
<1>5. Recursion(closed)
  <2>1. ASSUME NEW n \in 0 .. half
        PROVE  closed[n] = IF n = 0 THEN SourceRow(c, y) ELSE Swap(n, closed[n - 1])
    <3>1. CASE n = 0
      BY <1>3, <3>1
    <3>2. CASE n # 0
      <4>1. n \in 1 .. half /\ n - 1 \in 0 .. half
        BY <1>2, <3>2
      <4>2. closed[n] = f(n) /\ closed[n - 1] = f(n - 1)
        BY <4>1
      <4>3. QED
        BY <1>4, <3>2, <4>1, <4>2
    <3>3. QED
      BY <3>1, <3>2
  <2>2. closed = [n \in 0 .. half |-> closed[n]]
    OBVIOUS
  <2> HIDE DEF closed
  <2>3. QED
    BY <2>1, <2>2
<1>6. Recursion(swap)
  <2> HIDE DEF closed, Recursion
  <2>1. QED
    BY <1>5
<1> HIDE DEF swap
<1> DEFINE T == {n \in 0 .. half : swap[n] = f(n)}
<1>7. 0 \in T
  <2>1. swap[0] = SourceRow(c, y)
    BY <1>2, <1>6
  <2>2. QED
    BY <1>2, <1>3, <2>1
<1>8. ASSUME NEW n \in 0 .. half - 1, n \in T PROVE n + 1 \in T
  <2>1. n + 1 \in 1 .. half /\ n + 1 # 0 /\ (n + 1) - 1 = n
    BY <1>2
  <2>2. swap[n + 1] = Swap(n + 1, swap[n])
    <3>1. n + 1 \in 0 .. half
      BY <1>2
    <3>2. swap[n + 1] = IF n + 1 = 0 THEN SourceRow(c, y) ELSE Swap(n + 1, swap[(n + 1) - 1])
      BY <1>6, <3>1
    <3>3. QED
      BY <2>1, <3>2
  <2>3. swap[n] = f(n)
    BY <1>8
  <2>4. f(n + 1) = Swap(n + 1, f(n))
    BY <1>4, <2>1
  <2>5. QED
    BY <2>1, <2>2, <2>3, <2>4
<1>9. 0 .. half \subseteq T
  <2> HIDE DEF T
  <2>1. QED
    BY <1>2, <1>7, <1>8, BoundedInduction
<1>10. swap[half] = f(half)
  BY <1>2, <1>9
<1>11. QED
  BY <1>1, <1>10 DEF f, half

\* Moving to the left: what is read lies ahead of what has been written.
AfterMoves(n, row, from, across) ==
    [x \in Columns(across) |-> IF x < n THEN row[from + x] ELSE row[x]]

\* One move to the left takes a block that no earlier move has overwritten.
LEMMA OneMove ==
    ASSUME NEW from \in Nat, NEW across \in Nat, NEW many \in Nat, from + many <= across,
           NEW n \in 1 .. many, NEW row
    PROVE  LET before == AfterMoves(n - 1, row, from, across)
           IN  AfterMoves(n, row, from, across) =
                  [before EXCEPT ![n - 1] = before[from + (n - 1)]]
<1> DEFINE before == AfterMoves(n - 1, row, from, across)
           next == [before EXCEPT ![n - 1] = before[from + (n - 1)]]
<1>1. n \in Nat /\ n - 1 \in Columns(across) /\ from + (n - 1) \in Columns(across)
  BY DEF Columns
<1>2. before[from + (n - 1)] = row[from + (n - 1)]
  BY <1>1 DEF AfterMoves
<1>3. /\ DOMAIN next = Columns(across) /\ next = [x \in Columns(across) |-> next[x]]
      /\ \A x \in Columns(across) :
            next[x] = IF x = n - 1 THEN row[from + (n - 1)] ELSE before[x]
  BY <1>1, <1>2 DEF AfterMoves
<1>4. ASSUME NEW x \in Columns(across)
      PROVE  next[x] = IF x < n THEN row[from + x] ELSE row[x]
  <2>1. x \in Nat
    BY DEF Columns
  <2>2. before[x] = IF x < n - 1 THEN row[from + x] ELSE row[x]
    BY DEF AfterMoves
  <2> HIDE DEF before, next
  <2>3. CASE x = n - 1
    BY <1>1, <1>3, <2>1, <2>3
  <2>4. CASE x # n - 1
    BY <1>1, <1>3, <2>1, <2>2, <2>4
  <2>5. QED
    BY <2>3, <2>4
<1> HIDE DEF next, before
<1>5. next = AfterMoves(n, row, from, across)
  BY <1>3, <1>4 DEF AfterMoves
<1>6. QED
  BY <1>5 DEF next, before

\* All moves take the mirrored row to the left by the offset of the crop.
LEMMA MovedInPlace ==
    ASSUME NEW c, NEW y, NEW from \in Nat, NEW across \in Nat,
           BlocksAcross(out, c) \in Nat, from + BlocksAcross(out, c) <= across,
           \A n \in Nat : Left(c, n) = from + n,
           FlippedRow(c, y) = [x \in Columns(across) |-> FlippedRow(c, y)[x]],
           info.x # 0
    PROVE  InPlace(c, y) = AfterMoves(BlocksAcross(out, c), FlippedRow(c, y), from, across)
<1> DEFINE row == FlippedRow(c, y)
           many == BlocksAcross(out, c)
           f(n) == AfterMoves(n, row, from, across)
           Move(n, r) == [r EXCEPT ![n - 1] = r[Left(c, n - 1)]]
           Recursion(g) == g = [n \in 0 .. many |-> IF n = 0 THEN row ELSE Move(n, g[n - 1])]
           move == CHOOSE g : Recursion(g)
           closed == [n \in 0 .. many |-> f(n)]
<1>1. InPlace(c, y) = move[many]
  BY DEF InPlace
<1>2. f(0) = row
  <2>1. \A x \in Columns(across) : ~(x < 0)
    BY DEF Columns
  <2>2. f(0) = [x \in Columns(across) |-> row[x]]
    BY <2>1 DEF AfterMoves
  <2>3. QED
    BY <2>2
<1>3. ASSUME NEW n \in 1 .. many PROVE f(n) = Move(n, f(n - 1))
  <2>1. n - 1 \in Nat
    OBVIOUS
  <2>2. Left(c, n - 1) = from + (n - 1)
    BY <2>1
  <2>3. f(n) = [f(n - 1) EXCEPT ![n - 1] = f(n - 1)[from + (n - 1)]]
    BY OneMove
  <2>4. QED
    BY <2>2, <2>3
<1>4. many \in Nat
  OBVIOUS
<1> HIDE DEF f, Move, many, row
<1>5. Recursion(closed)
  <2>1. ASSUME NEW n \in 0 .. many
        PROVE  closed[n] = IF n = 0 THEN row ELSE Move(n, closed[n - 1])
    <3>1. CASE n = 0
      BY <1>2, <3>1
    <3>2. CASE n # 0
      <4>1. n \in 1 .. many /\ n - 1 \in 0 .. many
        BY <1>4, <3>2
      <4>2. closed[n] = f(n) /\ closed[n - 1] = f(n - 1)
        BY <4>1
      <4>3. QED
        BY <1>3, <3>2, <4>1, <4>2
    <3>3. QED
      BY <3>1, <3>2
  <2>2. closed = [n \in 0 .. many |-> closed[n]]
    OBVIOUS
  <2> HIDE DEF closed
  <2>3. QED
    BY <2>1, <2>2
<1>6. Recursion(move)
  <2> HIDE DEF closed, Recursion
  <2>1. QED
    BY <1>5
<1> HIDE DEF move
<1> DEFINE T == {n \in 0 .. many : move[n] = f(n)}
<1>7. 0 \in T
  <2>1. move[0] = row
    BY <1>4, <1>6
  <2>2. QED
    BY <1>2, <1>4, <2>1
<1>8. ASSUME NEW n \in 0 .. many - 1, n \in T PROVE n + 1 \in T
  <2>1. n + 1 \in 1 .. many /\ n + 1 # 0 /\ (n + 1) - 1 = n
    BY <1>4
  <2>2. move[n + 1] = Move(n + 1, move[n])
    <3>1. n + 1 \in 0 .. many
      BY <1>4
    <3>2. move[n + 1] = IF n + 1 = 0 THEN row ELSE Move(n + 1, move[(n + 1) - 1])
      BY <1>6, <3>1
    <3>3. QED
      BY <2>1, <3>2
  <2>3. move[n] = f(n)
    BY <1>8
  <2>4. f(n + 1) = Move(n + 1, f(n))
    BY <1>3, <2>1
  <2>5. QED
    BY <2>1, <2>2, <2>3, <2>4
<1>9. 0 .. many \subseteq T
  <2> HIDE DEF T
  <2>1. QED
    BY <1>4, <1>7, <1>8, BoundedInduction
<1>10. move[many] = f(many)
  BY <1>4, <1>9
<1>11. QED
  BY <1>1, <1>10 DEF f, many, row

\* do_flip_h_no_crop() writes the blocks it should, and leaves others in the row.
LEMMA MirroredInPlace ==
    ASSUME image \in Images, request \in Requests, Prepared, NEW c \in DOMAIN out.samp,
           request.op = "HFLIP", NEW y \in Nat, Top(c, y) = y
    PROVE  /\ \A x \in Columns(SourceColumns(c)) :
                 /\ InPlace(c, y)[x].x \in Columns(SourceColumns(c))
                 /\ InPlace(c, y)[x].y = y
           /\ \A x \in Columns(BlocksAcross(out, c)) : InPlace(c, y)[x] = Ideal(c, x, y)
<1>1. PICK across \in Nat, width \in Nat, many \in Nat, from \in Nat :
          /\ across = SourceColumns(c) /\ width = CompWidth(c)
          /\ many = BlocksAcross(out, c) /\ from = info.x * out.samp[c].h
          /\ width <= across /\ from + many <= across
  <2>1. SourceX(c) = SourceColumns(c)
    BY DEF SourceX, Sideways
  <2>2. /\ SourceX(c) \in Nat /\ CompWidth(c) \in Nat /\ CompWidth(c) <= SourceX(c)
        /\ BlocksAcross(out, c) \in Nat
        /\ BlocksAcross(out, c) <= info.columns * out.samp[c].h
        /\ info.x * out.samp[c].h + info.columns * out.samp[c].h <= SourceX(c)
        /\ info.x \in Nat /\ info.columns \in Nat /\ out.samp[c].h \in 1..4
    BY AcrossFacts, GridFacts
  <2>3. info.x * out.samp[c].h \in Nat /\ info.columns * out.samp[c].h \in Nat
    BY <2>2
  <2>4. info.x * out.samp[c].h + BlocksAcross(out, c) <= SourceX(c)
    BY <2>2, <2>3
  <2>5. QED
    BY <2>1, <2>2, <2>3, <2>4
<1>2. \A x : Left(c, x) = from + x
  BY <1>1 DEF Left
<1>3. FlippedRow(c, y) = AfterSwaps(Halves(width), width, across, y)
  BY <1>1, FlippedInPlace
<1> DEFINE row == AfterSwaps(Halves(width), width, across, y)
<1>4. ASSUME NEW x \in Columns(across)
      PROVE  /\ x \in Nat /\ x < across
             /\ row[x] = IF x < width THEN Seen(width - 1 - x, y) ELSE Still(x, y)
  <2>1. x \in Nat /\ x < across
    BY DEF Columns
  <2>2. Halves(width) \in Nat /\ 2 * Halves(width) <= width + 1 /\ width <= 2 * Halves(width)
    BY HalfFacts
  <2>3. x < width <=> x < Halves(width) \/ (width - Halves(width) <= x /\ x < width)
    BY <2>1, <2>2
  <2>4. row[x] = IF x < Halves(width) \/ (width - Halves(width) <= x /\ x < width)
                 THEN Seen(width - 1 - x, y) ELSE Still(x, y)
    BY DEF AfterSwaps
  <2>5. QED
    BY <2>1, <2>3, <2>4
<1>5. row = [x \in Columns(across) |-> row[x]]
  BY DEF AfterSwaps
<1> HIDE DEF row
<1>6. ASSUME NEW x \in Columns(across)
      PROVE  row[x].x \in Columns(across) /\ row[x].y = y
  <2>1. CASE x < width
    <3>1. row[x] = Seen(width - 1 - x, y) /\ x \in Nat
      BY <1>4, <2>1
    <3>2. row[x].x = width - 1 - x /\ row[x].y = y
      BY <3>1 DEF Seen, Block
    <3>3. width - 1 - x \in Columns(across)
      BY <1>1, <2>1, <3>1 DEF Columns
    <3>4. QED
      BY <3>2, <3>3
  <2>2. CASE ~(x < width)
    <3>1. row[x] = Still(x, y)
      BY <1>4, <2>2
    <3>2. QED
      BY <3>1 DEF Still, Block
  <2>3. QED
    BY <2>1, <2>2
<1>7. ASSUME NEW x \in Columns(many)
      PROVE  from + x \in Columns(across) /\ x \in Columns(across) /\ row[from + x] = Ideal(c, x, y)
  <2>1. x \in Nat /\ x < many
    BY DEF Columns
  <2>2. from + x \in Columns(across) /\ x \in Columns(across)
    BY <1>1, <2>1 DEF Columns
  <2>3. row[from + x] = IF from + x < width THEN Seen(width - 1 - (from + x), y)
                        ELSE Still(from + x, y)
    BY <1>4, <2>2
  <2>4. Ideal(c, x, y) = Block(PlaceX(c, x), PlaceY(c, y), FALSE, MirroredX(c, x), MirroredY(c, y))
    BY DEF Ideal, Sideways
  <2>5. MirroredY(c, y) = FALSE /\ PlaceY(c, y) = y
    BY DEF MirroredY, MirrorsY, PlaceY
  <2>6. MirroredX(c, x) = (from + x < width)
    BY <1>1, <1>2 DEF MirroredX, MirrorsX
  <2>7. CASE from + x < width
    <3>0. MirroredX(c, x) /\ MirroredX(c, x) = TRUE
      BY <2>6, <2>7
    <3>1. PlaceX(c, x) = width - 1 - (from + x)
      <4>1. PlaceX(c, x) = width - Left(c, x) - 1
        BY <1>1, <3>0 DEF PlaceX, FromRight
      <4>2. QED
        BY <1>1, <1>2, <2>1, <4>1
    <3>2. QED
      BY <2>2, <2>3, <2>4, <2>5, <2>7, <3>0, <3>1 DEF Seen
  <2>8. CASE ~(from + x < width)
    <3>0. ~MirroredX(c, x) /\ MirroredX(c, x) = FALSE
      <4>1. ~(Left(c, x) < CompWidth(c))
        BY <1>1, <1>2, <2>8
      <4>2. QED
        BY <4>1 DEF MirroredX
    <3>1. PlaceX(c, x) = from + x
      BY <1>2, <3>0 DEF PlaceX
    <3>2. QED
      BY <2>2, <2>3, <2>4, <2>5, <2>8, <3>0, <3>1 DEF Still
  <2>9. QED
    BY <2>7, <2>8
<1>8. CASE info.x = 0
  <2>1. InPlace(c, y) = row
    BY <1>3, <1>8 DEF InPlace, row
  <2>2. from = 0
    <3>1. out.samp[c].h \in 1..4
      BY GridFacts
    <3>2. QED
      BY <1>1, <1>8, <3>1
  <2>3. \A x \in Columns(many) : from + x = x
    BY <2>2 DEF Columns
  <2>4. QED
    BY <1>1, <1>6, <1>7, <2>1, <2>3
<1>9. CASE info.x # 0
  <2>1. InPlace(c, y) = AfterMoves(many, row, from, across)
    <3>1. FlippedRow(c, y) = [x \in Columns(across) |-> FlippedRow(c, y)[x]]
      BY <1>3, <1>5 DEF row
    <3>2. InPlace(c, y) = AfterMoves(BlocksAcross(out, c), FlippedRow(c, y), from, across)
      BY <1>1, <1>2, <1>9, <3>1, MovedInPlace
    <3>3. QED
      BY <1>1, <1>3, <3>2 DEF row
  <2>2. ASSUME NEW x \in Columns(across)
        PROVE  InPlace(c, y)[x] = IF x < many THEN row[from + x] ELSE row[x]
    BY <2>1 DEF AfterMoves
  <2>3. ASSUME NEW x \in Columns(many) PROVE InPlace(c, y)[x] = Ideal(c, x, y)
    <3>1. x < many
      BY DEF Columns
    <3>2. QED
      BY <1>7, <2>2, <3>1
  <2>4. ASSUME NEW x \in Columns(across)
        PROVE  InPlace(c, y)[x].x \in Columns(across) /\ InPlace(c, y)[x].y = y
    <3>1. CASE x < many
      <4>1. x \in Columns(many)
        BY <1>4, <3>1 DEF Columns
      <4>2. QED
        BY <1>6, <1>7, <2>2, <3>1, <4>1
    <3>2. CASE ~(x < many)
      BY <1>6, <2>2, <3>2
    <3>3. QED
      BY <3>1, <3>2
  <2>5. QED
    BY <1>1, <2>3, <2>4
<1>10. QED
  BY <1>8, <1>9

-----------------------------------------------------------------------------
(* What jtransform_execute_transform() leaves in an array.                 *)

Needed(c) == Columns(BlocksAcross(out, c)) \X Columns(BlocksDown(out, c))

\* Every block that the compressor reads is among those written.
LEMMA NeededFacts ==
    ASSUME image \in Images, request \in Requests, Prepared, NEW c \in DOMAIN out.samp
    PROVE  /\ Needed(c) \subseteq Written(c)
           /\ \A p \in Written(c) : /\ p[1] \in Nat /\ p[1] < info.columns * out.samp[c].h
                                    /\ p[2] \in Nat /\ p[2] < info.rows * out.samp[c].v
<1>1. PICK b \in Nat, d \in Nat, bs \in Nat, ds \in Nat :
          /\ b = BlocksAcross(out, c) /\ d = BlocksDown(out, c) /\ b <= bs /\ d <= ds
          /\ bs = info.columns * out.samp[c].h /\ ds = info.rows * out.samp[c].v
          /\ RoundUp(b, out.samp[c].h) = bs /\ RoundUp(d, out.samp[c].v) = ds
  <2>1. /\ BlocksAcross(out, c) \in Nat /\ out.samp[c].h \in 1..4
        /\ info.columns \in Nat /\ BlocksAcross(out, c) <= info.columns * out.samp[c].h
        /\ RoundUp(BlocksAcross(out, c), out.samp[c].h) = info.columns * out.samp[c].h
    BY AcrossFacts, GridFacts
  <2>2. /\ BlocksDown(out, c) \in Nat /\ out.samp[c].v \in 1..4
        /\ info.rows \in Nat /\ BlocksDown(out, c) <= info.rows * out.samp[c].v
        /\ RoundUp(BlocksDown(out, c), out.samp[c].v) = info.rows * out.samp[c].v
    BY DownFacts, GridFacts
  <2>3. info.columns * out.samp[c].h \in Nat /\ info.rows * out.samp[c].v \in Nat
    BY <2>1, <2>2
  <2>4. QED
    BY <2>1, <2>2, <2>3
<1>2. Columns(b) \subseteq Columns(bs) /\ Columns(d) \subseteq Columns(ds)
  BY <1>1 DEF Columns
<1>3. /\ \A x \in Columns(bs) : x \in Nat /\ x < bs
      /\ \A x \in Columns(ds) : x \in Nat /\ x < ds
  BY DEF Columns
<1>4. Written(c) = Columns(IF request.op \in Sideways THEN bs ELSE b) \X Columns(ds)
  BY <1>1 DEF Written
<1>5. Needed(c) = Columns(b) \X Columns(d)
  BY <1>1 DEF Needed
<1>6. QED
  BY <1>1, <1>2, <1>3, <1>4, <1>5

Whole(c, array) ==
    /\ \A p \in DOMAIN array :
          /\ array[p].x \in Columns(SourceColumns(c))
          /\ array[p].y \in Columns(SourceRows(c))
          /\ info.needed => /\ p[1] < info.columns * out.samp[c].h
                            /\ p[2] < info.rows * out.samp[c].v
    /\ Needed(c) \subseteq DOMAIN array
    /\ \A p \in Needed(c) : array[p] = Ideal(c, p[1], p[2])

\* What the chosen routine writes is read from within the source, kept within
\* the destination, and is everything that is needed.
LEMMA TransformedWhole ==
    ASSUME image \in Images, request \in Requests, Prepared, NEW c \in DOMAIN out.samp
    PROVE  Whole(c, Transformed(c))
<1>1. /\ Needed(c) \subseteq Written(c)
      /\ \A p \in Written(c) : /\ p[1] \in Nat /\ p[1] < info.columns * out.samp[c].h
                               /\ p[2] \in Nat /\ p[2] < info.rows * out.samp[c].v
  BY NeededFacts
<1>2. CASE info.needed
  <2> DEFINE array == [p \in Written(c) |-> Ideal(c, p[1], p[2])]
  <2>1. Transformed(c) = array
    BY <1>2, Routines
  <2>2. ASSUME NEW p \in Written(c)
        PROVE  /\ Ideal(c, p[1], p[2]).x \in Columns(SourceColumns(c))
               /\ Ideal(c, p[1], p[2]).y \in Columns(SourceRows(c))
    BY <1>1, IdealInside
  <2>3. Whole(c, array)
    BY <1>1, <2>2 DEF Whole
  <2>4. QED
    BY <2>1, <2>3
<1>3. CASE ~info.needed
  <2>1. info.needed = NeedsWorkspace(request.op, info.x, info.y) /\ request.op \in Transforms
    BY WorkspaceFields, Given DEF Prepared, Asked
  <2>2. /\ request.op \in {"NONE", "HFLIP"} /\ info.y = 0
        /\ request.op = "NONE" => info.x = 0
    BY <1>3, <2>1 DEF NeedsWorkspace, Transforms
  <2>3. request.op \notin Sideways /\ request.op \notin MirrorsY
    BY <2>2 DEF Sideways, MirrorsY
  <2>4. out.samp[c].h \in 1..4 /\ out.samp[c].v \in 1..4
    BY GridFacts
  <2>5. \A y \in Nat : Top(c, y) = y
    <3>1. \A y \in Nat : 0 * out.samp[c].v + y = y
      BY <2>4
    <3>2. QED
      BY <2>2, <3>1 DEF Top
  <2>6. PICK across \in Nat, down \in Nat, b \in Nat, bs \in Nat, d \in Nat, ds \in Nat :
           /\ across = SourceColumns(c) /\ down = SourceRows(c)
           /\ b = BlocksAcross(out, c) /\ d = BlocksDown(out, c) /\ b <= bs /\ d <= ds
           /\ bs <= across /\ ds <= down
           /\ bs = info.columns * out.samp[c].h
           /\ ds = info.rows * out.samp[c].v /\ RoundUp(BlocksDown(out, c), out.samp[c].v) = ds
    <3>1. /\ BlocksAcross(out, c) \in Nat /\ info.columns \in Nat /\ info.x \in Nat
          /\ BlocksAcross(out, c) <= info.columns * out.samp[c].h
          /\ SourceX(c) \in Nat
          /\ info.x * out.samp[c].h + info.columns * out.samp[c].h <= SourceX(c)
      BY <2>4, AcrossFacts, GridFacts
    <3>2. /\ BlocksDown(out, c) \in Nat /\ info.rows \in Nat /\ info.y \in Nat
          /\ BlocksDown(out, c) <= info.rows * out.samp[c].v
          /\ RoundUp(BlocksDown(out, c), out.samp[c].v) = info.rows * out.samp[c].v
          /\ SourceY(c) \in Nat
          /\ info.y * out.samp[c].v + info.rows * out.samp[c].v <= SourceY(c)
      BY <2>4, DownFacts, GridFacts
    <3>3. /\ info.x * out.samp[c].h \in Nat /\ info.columns * out.samp[c].h \in Nat
          /\ info.y * out.samp[c].v \in Nat /\ info.rows * out.samp[c].v \in Nat
      BY <2>4, <3>1, <3>2
    <3>4. SourceX(c) = SourceColumns(c) /\ SourceY(c) = SourceRows(c)
      BY <2>3 DEF SourceX, SourceY
    <3>5. info.columns * out.samp[c].h <= SourceX(c) /\ info.rows * out.samp[c].v <= SourceY(c)
      BY <3>1, <3>2, <3>3
    <3>6. QED
      BY <3>1, <3>2, <3>3, <3>4, <3>5
  <2>7. /\ Columns(b) \subseteq Columns(across) /\ Columns(d) \subseteq Columns(ds)
        /\ Columns(ds) \subseteq Columns(down)
        /\ Columns(ds) \subseteq Nat /\ Columns(across) \subseteq Nat
    BY <2>6 DEF Columns
  <2>8. Needed(c) = Columns(b) \X Columns(d)
    BY <2>6 DEF Needed
  <2>9. CASE request.op = "NONE"
    <3> DEFINE array == [p \in Columns(across) \X Columns(down) |->
                            Block(p[1], p[2], FALSE, FALSE, FALSE)]
    <3>1. Transformed(c) = array
      BY <1>3, <2>6, <2>9 DEF Transformed
    <3>2. \A x \in Nat : Left(c, x) = x
      <4>1. \A x \in Nat : 0 * out.samp[c].h + x = x
        BY <2>4
      <4>2. QED
        BY <2>2, <2>9, <4>1 DEF Left
    <3>3. ASSUME NEW x \in Nat, NEW y \in Nat
          PROVE  Ideal(c, x, y) = Block(x, y, FALSE, FALSE, FALSE)
      <4>1. MirroredX(c, x) = FALSE /\ MirroredY(c, y) = FALSE
        BY <2>9 DEF MirroredX, MirroredY, MirrorsX, MirrorsY
      <4>2. PlaceX(c, x) = x /\ PlaceY(c, y) = y
        BY <2>5, <3>2, <4>1 DEF PlaceX, PlaceY
      <4>3. QED
        BY <2>3, <4>1, <4>2 DEF Ideal
    <3>4. \A p \in DOMAIN array : array[p].x = p[1] /\ array[p].y = p[2]
      BY DEF Block
    <3>5. Needed(c) \subseteq DOMAIN array
      BY <2>7, <2>8
    <3>6. ASSUME NEW p \in Needed(c) PROVE array[p] = Ideal(c, p[1], p[2])
      <4>1. p[1] \in Nat /\ p[2] \in Nat /\ p \in DOMAIN array
        BY <2>7, <2>8, <3>5
      <4>2. QED
        BY <3>3, <4>1
    <3>7. DOMAIN array = Columns(across) \X Columns(down)
      OBVIOUS
    <3> HIDE DEF array
    <3>8. Whole(c, array)
      BY <1>3, <2>6, <3>4, <3>5, <3>6, <3>7 DEF Whole
    <3>9. QED
      BY <3>1, <3>8
  <2>10. CASE request.op = "HFLIP"
    <3> DEFINE rows == [y \in Columns(ds) |-> InPlace(c, y)]
               array == [p \in Columns(across) \X DOMAIN rows |-> rows[p[2]][p[1]]]
    <3>1. Transformed(c) = array
      BY <1>3, <2>6, <2>10 DEF Transformed
    <3>2. ASSUME NEW y \in Columns(ds)
          PROVE  /\ \A x \in Columns(across) :
                       /\ InPlace(c, y)[x].x \in Columns(across)
                       /\ InPlace(c, y)[x].y = y
                 /\ \A x \in Columns(b) : InPlace(c, y)[x] = Ideal(c, x, y)
      <4>1. y \in Nat /\ Top(c, y) = y
        BY <2>5, <2>7
      <4>2. QED
        BY <2>6, <2>10, <4>1, MirroredInPlace
    <3>3. DOMAIN array = Columns(across) \X Columns(ds)
      OBVIOUS
    <3>4. \A p \in DOMAIN array : array[p] = InPlace(c, p[2])[p[1]]
      OBVIOUS
    <3> HIDE DEF array
    <3>5. \A p \in DOMAIN array : array[p].x \in Columns(across) /\ array[p].y \in Columns(down)
      BY <2>7, <3>2, <3>3, <3>4
    <3>6. Needed(c) \subseteq DOMAIN array
      BY <2>7, <2>8, <3>3
    <3>7. ASSUME NEW p \in Needed(c) PROVE array[p] = Ideal(c, p[1], p[2])
      <4>1. p[1] \in Columns(b) /\ p[2] \in Columns(ds) /\ p \in DOMAIN array
        BY <2>7, <2>8, <3>6
      <4>2. QED
        BY <3>2, <3>4, <4>1
    <3>8. Whole(c, array)
      BY <1>3, <2>6, <3>5, <3>6, <3>7 DEF Whole
    <3>9. QED
      BY <3>1, <3>8
  <2>11. QED
    BY <2>2, <2>9, <2>10
<1>4. QED
  BY <1>2, <1>3

\* The step that moves the blocks.
LEMMA Execution ==
    ASSUME image \in Images, request \in Requests, Prepared, ExecuteTransform
    PROVE  ArraysSuffice' /\ MovesEverySample'
<1>1. /\ blocks' = [c \in DOMAIN out.samp |-> Transformed(c)]
      /\ UNCHANGED <<image, request, info, out, size>>
  BY DEF ExecuteTransform, Continue
<1>2. DOMAIN blocks' = DOMAIN out.samp /\ \A c \in DOMAIN out.samp : blocks'[c] = Transformed(c)
  BY <1>1
<1>3. \A c \in DOMAIN out.samp : Whole(c, Transformed(c))
  BY TransformedWhole
<1>4. ArraysSuffice'
  <2>1. \A c : SourceColumns(c)' = SourceColumns(c) /\ SourceRows(c)' = SourceRows(c)
    BY <1>1 DEF SourceColumns, SourceRows
  <2>2. \A c \in DOMAIN out.samp : info.samp[c] = out.samp[c]
    BY GridFacts
  <2>3. QED
    BY <1>1, <1>2, <1>3, <2>1, <2>2 DEF ArraysSuffice, Whole, Needed
<1>5. MovesEverySample'
  <2>1. \A c, x, y : Origin(c, x, y)' = Origin(c, x, y)
    BY <1>1 DEF Origin, WholeX, WholeY
  <2>2. \A c : Samples(c)' = Samples(c)
    BY <1>1 DEF Samples
  <2>3. ASSUME NEW c \in DOMAIN out.samp, NEW p \in Samples(c)
        PROVE  SampleOf(blocks'[c][<<p[1] \div DCTSIZE, p[2] \div DCTSIZE>>], p[1], p[2])
                   = Origin(c, p[1], p[2])
    <3>1. PICK b \in Nat, d \in Nat : b = BlocksAcross(out, c) /\ d = BlocksDown(out, c)
      BY AcrossFacts, DownFacts
    <3>2. DCTSIZE \in Nat \ {0}
      BY SizesAssumption
    <3>3. PICK X \in Nat, Y \in Nat : X = p[1] /\ Y = p[2] /\ X < b * DCTSIZE /\ Y < d * DCTSIZE
      <4>1. p[1] \in Columns(b * DCTSIZE) /\ p[2] \in Columns(d * DCTSIZE)
        BY <3>1 DEF Samples
      <4>2. b * DCTSIZE \in Nat /\ d * DCTSIZE \in Nat
        BY <3>2
      <4>3. QED
        BY <4>1, <4>2 DEF Columns
    <3>4. X \div DCTSIZE \in Columns(b) /\ Y \div DCTSIZE \in Columns(d)
      <4>1. b * DCTSIZE = DCTSIZE * b /\ d * DCTSIZE = DCTSIZE * d
        BY <3>2
      <4>2. /\ X \div DCTSIZE \in Nat /\ X \div DCTSIZE < b
            /\ Y \div DCTSIZE \in Nat /\ Y \div DCTSIZE < d
        BY <3>2, <3>3, <4>1, Quotient, QuotientBelow
      <4>3. QED
        BY <4>2 DEF Columns
    <3>5. <<X \div DCTSIZE, Y \div DCTSIZE>> \in Needed(c)
      BY <3>1, <3>4 DEF Needed
    <3>6. Transformed(c)[<<X \div DCTSIZE, Y \div DCTSIZE>>] = Ideal(c, X \div DCTSIZE, Y \div DCTSIZE)
      BY <1>3, <3>5 DEF Whole
    <3>7. SampleOf(Ideal(c, X \div DCTSIZE, Y \div DCTSIZE), X, Y) = Origin(c, X, Y)
      BY IdealSamples
    <3>8. QED
      BY <1>2, <3>3, <3>6, <3>7
  <2>4. QED
    BY <1>1, <1>2, <2>1, <2>2, <2>3 DEF MovesEverySample
<1>6. QED
  BY <1>4, <1>5

-----------------------------------------------------------------------------
(* How long the data can be, and how large the buffer is.                  *)

Mcus == info.columns * info.rows
Area(samp, c) == samp[c].h * samp[c].v
Areas(samp) ==
    IF Len(samp) = 1 THEN Area(samp, 1)
    ELSE IF Len(samp) = 3 THEN Area(samp, 1) + Area(samp, 2) + Area(samp, 3)
    ELSE Area(samp, 1) + Area(samp, 2) + Area(samp, 3) + Area(samp, 4)

\* In every iMCU are as many blocks of a component as its factors say.
LEMMA DataLength ==
    ASSUME image \in Images, request \in Requests, Prepared, Len(out.samp) \in {1, 3, 4},
           DOMAIN out.samp = 1 .. Len(out.samp)
    PROVE  /\ Mcus \in Nat /\ Areas(out.samp) \in Nat
           /\ Uncompressed = DCTSIZE * DCTSIZE * (Mcus * Areas(out.samp))
<1> DEFINE Len0 == Len(out.samp)
           Blocks(c) == RoundUp(BlocksAcross(out, c), out.samp[c].h)
                            * RoundUp(BlocksDown(out, c), out.samp[c].v)
           Recursion(g) == g = [c \in 0 .. Len0 |-> IF c = 0 THEN 0 ELSE g[c - 1] + Blocks(c)]
           upTo == CHOOSE g : Recursion(g)
           F == [n \in 1 .. Len0 |-> [k \in Nat |-> k + Blocks(n)]]
<1>1. Uncompressed = DCTSIZE * DCTSIZE * upTo[Len0]
  BY DEF Uncompressed
<1>2. Len0 \in Nat /\ Len0 \in {1, 3, 4}
  OBVIOUS
<1>3. ASSUME NEW c \in 1 .. Len0
      PROVE  /\ Blocks(c) = Mcus * Area(out.samp, c)
             /\ Blocks(c) \in Nat /\ Area(out.samp, c) \in Nat
  <2>0. c \in DOMAIN out.samp
    OBVIOUS
  <2>1. PICK h \in Nat, v \in Nat, a \in Nat, b \in Nat :
           h = out.samp[c].h /\ v = out.samp[c].v /\ a = info.columns /\ b = info.rows
    <3>1. out.samp[c].h \in 1..4 /\ out.samp[c].v \in 1..4
      BY <2>0, GridFacts
    <3>2. info.columns \in Nat /\ info.rows \in Nat
      BY <2>0, AcrossFacts, DownFacts
    <3>3. out.samp[c].h \in Nat /\ out.samp[c].v \in Nat
      BY <3>1
    <3>4. QED
      BY <3>2, <3>3
  <2>2. Blocks(c) = (a * h) * (b * v)
    BY <2>0, <2>1, AcrossFacts, DownFacts
  <2>3. (a * h) * (b * v) = (a * b) * (h * v) /\ (a * b) * (h * v) \in Nat /\ h * v \in Nat
    <3>1. (a * h) * (b * v) = (a * b) * (h * v)
      OBVIOUS
    <3>2. PICK p \in Nat, q \in Nat : p = a * b /\ q = h * v
      OBVIOUS
    <3>3. p * q \in Nat
      OBVIOUS
    <3>4. QED
      BY <3>1, <3>2, <3>3
  <2> HIDE DEF Blocks
  <2>4. QED
    BY <2>1, <2>2, <2>3 DEF Mcus, Area
<1>4. 1 \in 1 .. Len0
  <2>1. \A n \in {1, 3, 4} : 1 \in 1 .. n
    OBVIOUS
  <2> HIDE DEF Len0
  <2>2. QED
    BY <1>2, <2>1
<1>5. Mcus \in Nat
  <2>1. info.columns \in Nat /\ info.rows \in Nat
    BY <1>4, AcrossFacts, DownFacts
  <2>2. QED
    BY <2>1 DEF Mcus
<1> HIDE DEF Blocks, Len0
<1>6. Recursion(upTo)
  <2>1. F \in StepFunctions(Len0, Nat)
    BY <1>3 DEF StepFunctions
  <2>2. 0 \in Nat
    OBVIOUS
  <2> HIDE DEF F
  <2>3. PICK g \in [0 .. Len0 -> Nat] : Iterates(g, Len0, 0, F)
    BY <1>2, <2>1, <2>2, Iteration
  <2>4. ASSUME NEW c \in 0 .. Len0 PROVE g[c] = IF c = 0 THEN 0 ELSE g[c - 1] + Blocks(c)
    <3>1. CASE c = 0
      BY <2>3, <3>1 DEF Iterates
    <3>2. CASE c # 0
      <4>1. c \in 1 .. Len0 /\ c - 1 \in 0 .. Len0
        BY <1>2, <3>2
      <4>2. g[c] = F[c][g[c - 1]] /\ g[c - 1] \in Nat
        BY <2>3, <4>1 DEF Iterates
      <4>3. F[c][g[c - 1]] = g[c - 1] + Blocks(c)
        BY <4>1, <4>2 DEF F
      <4>4. QED
        BY <3>2, <4>2, <4>3
    <3>3. QED
      BY <3>1, <3>2
  <2>5. g = [c \in 0 .. Len0 |-> g[c]]
    OBVIOUS
  <2>6. Recursion(g)
    BY <2>4, <2>5
  <2> HIDE DEF Recursion
  <2>7. QED
    BY <2>6
<1> HIDE DEF upTo
<1>7. /\ upTo[0] = 0
      /\ \A c \in 1 .. Len0 : upTo[c] = upTo[c - 1] + Mcus * Area(out.samp, c)
  <2>1. upTo[0] = 0
    BY <1>2, <1>6
  <2>2. ASSUME NEW c \in 1 .. Len0 PROVE upTo[c] = upTo[c - 1] + Blocks(c)
    <3>1. c \in 0 .. Len0 /\ c # 0
      BY <1>2
    <3>2. QED
      BY <1>6, <3>1
  <2>3. QED
    BY <1>3, <2>1, <2>2
<1>8. \A c \in 1 .. Len0 : Area(out.samp, c) \in Nat
  BY <1>3
<1>9. PICK m \in Nat : m = Mcus
  BY <1>5
<1>10. CASE Len0 = 1
  <2>1. PICK a \in Nat : a = Area(out.samp, 1)
    BY <1>8, <1>10
  <2>2. upTo[1] = 0 + m * a
    <3>1. 1 \in 1 .. Len0 /\ 1 - 1 = 0
      BY <1>10
    <3>2. QED
      BY <1>7, <1>9, <2>1, <3>1
  <2>3. QED
    BY <1>1, <1>9, <1>10, <2>1, <2>2 DEF Areas, Len0
<1>11. CASE Len0 = 3
  <2>1. PICK a \in Nat, b \in Nat, c \in Nat :
           a = Area(out.samp, 1) /\ b = Area(out.samp, 2) /\ c = Area(out.samp, 3)
    BY <1>8, <1>11
  <2>2. upTo[1] = 0 + m * a
    <3>1. 1 \in 1 .. Len0 /\ 1 - 1 = 0
      BY <1>11
    <3>2. QED
      BY <1>7, <1>9, <2>1, <3>1
  <2>3. upTo[2] = m * a + m * b
    <3>1. 2 \in 1 .. Len0 /\ 2 - 1 = 1
      BY <1>11
    <3>2. QED
      BY <1>7, <1>9, <2>1, <2>2, <3>1
  <2>4. upTo[3] = m * a + m * b + m * c
    <3>1. 3 \in 1 .. Len0 /\ 3 - 1 = 2
      BY <1>11
    <3>2. QED
      BY <1>7, <1>9, <2>1, <2>3, <3>1
  <2>5. m * a + m * b + m * c = m * (a + b + c)
    OBVIOUS
  <2>6. Areas(out.samp) = a + b + c
    BY <1>11, <2>1 DEF Areas, Len0
  <2>7. QED
    BY <1>1, <1>9, <1>11, <2>4, <2>5, <2>6
<1>12. CASE Len0 = 4
  <2>1. PICK a \in Nat, b \in Nat, c \in Nat, d \in Nat :
           /\ a = Area(out.samp, 1) /\ b = Area(out.samp, 2)
           /\ c = Area(out.samp, 3) /\ d = Area(out.samp, 4)
    BY <1>8, <1>12
  <2>2. upTo[1] = 0 + m * a
    <3>1. 1 \in 1 .. Len0 /\ 1 - 1 = 0
      BY <1>12
    <3>2. QED
      BY <1>7, <1>9, <2>1, <3>1
  <2>3. upTo[2] = m * a + m * b
    <3>1. 2 \in 1 .. Len0 /\ 2 - 1 = 1
      BY <1>12
    <3>2. QED
      BY <1>7, <1>9, <2>1, <2>2, <3>1
  <2>4. upTo[3] = m * a + m * b + m * c
    <3>1. 3 \in 1 .. Len0 /\ 3 - 1 = 2
      BY <1>12
    <3>2. QED
      BY <1>7, <1>9, <2>1, <2>3, <3>1
  <2>5. upTo[4] = m * a + m * b + m * c + m * d
    <3>1. 4 \in 1 .. Len0 /\ 4 - 1 = 3
      BY <1>12
    <3>2. QED
      BY <1>7, <1>9, <2>1, <2>4, <3>1
  <2>6. m * a + m * b + m * c + m * d = m * (a + b + c + d)
    OBVIOUS
  <2>7. Areas(out.samp) = a + b + c + d
    BY <1>12, <2>1 DEF Areas, Len0
  <2>8. upTo[Len0] = m * Areas(out.samp) /\ Areas(out.samp) \in Nat
    <3>1. upTo[4] = m * (a + b + c + d)
      BY <2>5, <2>6
    <3>2. QED
      BY <1>12, <2>7, <3>1
  <2>9. QED
    BY <1>1, <1>9, <2>8
<1>13. QED
  BY <1>2, <1>10, <1>11, <1>12

\* Bytes that tjBufSize() reckons for a sample of the first component.
Weight(s) ==
    2 + IF s = "GRAY" THEN 0
        ELSE (4 * DCTSIZE * DCTSIZE) \div (McuWidth(s) * McuHeight(s))

Names == {"S444", "S422", "S420", "S440", "S411"}

\* A product divided by one factor is the other.
LEMMA WholeQuotient ==
    ASSUME NEW b \in Nat \ {0}, NEW k \in Nat
    PROVE  (b * k) \div b = k
<1>1. b * k \in Nat /\ b * k < b * (k + 1) /\ k + 1 \in Nat
  <2>1. b * (k + 1) = b * k + b /\ b * k \in Nat
    OBVIOUS
  <2>2. QED
    BY <2>1
<1>2. (b * k) \div b < k + 1
  BY <1>1, QuotientBelow
<1>3. k <= (b * k) \div b
  BY <1>1, QuotientAtLeast
<1>4. (b * k) \div b \in Nat
  BY <1>1, Quotient
<1>5. QED
  BY <1>2, <1>3, <1>4

\* tjBufSize() reckons two samples for every sample of brightness, and two for
\* every sample of colour.
LEMMA Weights ==
    /\ Weight("GRAY") = 2 /\ Weight("S444") = 6 /\ Weight("S422") = 4
    /\ Weight("S440") = 4 /\ Weight("S420") = 3 /\ Weight("S411") = 3
<1>1. PICK q \in Nat \ {0} : q = DCTSIZE * DCTSIZE
  <2>1. PICK d \in Nat \ {0} : d = DCTSIZE
    BY SizesAssumption
  <2>2. d * d \in Nat \ {0}
    OBVIOUS
  <2>3. QED
    BY <2>1, <2>2
<1>2. 4 * DCTSIZE * DCTSIZE = 4 * q
  BY <1>1, SizesAssumption
<1>3. /\ McuWidth("S444") * McuHeight("S444") = q
      /\ McuWidth("S422") * McuHeight("S422") = 2 * q
      /\ McuWidth("S440") * McuHeight("S440") = 2 * q
      /\ McuWidth("S420") * McuHeight("S420") = 4 * q
      /\ McuWidth("S411") * McuHeight("S411") = 4 * q
  BY <1>1, SizesAssumption DEF McuWidth, McuHeight, Subsamplings
<1>4. (4 * q) \div q = 4 /\ (4 * q) \div (2 * q) = 2 /\ (4 * q) \div (4 * q) = 1
  <2>1. 2 * q \in Nat \ {0} /\ 4 * q \in Nat \ {0}
    OBVIOUS
  <2>2. (q * 4) \div q = 4 /\ ((2 * q) * 2) \div (2 * q) = 2 /\ ((4 * q) * 1) \div (4 * q) = 1
    BY <2>1, WholeQuotient
  <2>3. q * 4 = 4 * q /\ (2 * q) * 2 = 4 * q /\ (4 * q) * 1 = 4 * q
    OBVIOUS
  <2>4. QED
    BY <2>2, <2>3
<1>5. QED
  BY <1>2, <1>3, <1>4 DEF Weight

\* The largest of factors of which the first is the largest.
LEMMA FirstIsLargest ==
    ASSUME NEW samp \in Seq(Factors), Len(samp) > 0, NEW a \in 1..4, NEW b \in 1..4,
           NEW a2 \in 1..4, NEW b2 \in 1..4, a2 <= a, b2 <= b,
           samp[1] = Sampling(a, b),
           \A c \in DOMAIN samp : samp[c] = Sampling(a, b) \/ samp[c] = Sampling(a2, b2)
    PROVE  MaxH(samp) = a /\ MaxV(samp) = b
<1>1. \A x, y : Sampling(x, y).h = x /\ Sampling(x, y).v = y
  BY DEF Sampling
<1> DEFINE H == {samp[c].h : c \in DOMAIN samp}
           V == {samp[c].v : c \in DOMAIN samp}
<1>2. 1 \in DOMAIN samp
  OBVIOUS
<1>3. a \in H /\ b \in V /\ \A k \in H : k = a \/ k = a2
  BY <1>1, <1>2
<1>4. \A k \in V : k = b \/ k = b2
  BY <1>1
<1>5. MaxH(samp) = Max(H) /\ MaxV(samp) = Max(V)
  BY DEF MaxH, MaxV
<1> HIDE DEF H, V
<1>6. H \subseteq 1..4 /\ V \subseteq 1..4 /\ H # {} /\ V # {}
  BY <1>3, <1>4
<1>7. Max(H) \in H /\ a <= Max(H) /\ Max(V) \in V /\ b <= Max(V)
  BY <1>3, <1>6, LargestOf
<1>8. Max(H) = a
  <2>1. Max(H) = a \/ Max(H) = a2
    BY <1>3, <1>7
  <2>2. a \in Nat /\ a2 \in Nat /\ a <= Max(H)
    BY <1>7
  <2>3. QED
    BY <2>1, <2>2
<1>9. Max(V) = b
  BY <1>4, <1>7
<1>10. QED
  BY <1>5, <1>8, <1>9

\* An image whose sampling has a name: its iMCUs are at least as large as those
\* of the name, and hold no more than tjBufSize() reckons for these.
Covered(s) ==
    /\ Subsamplings[s][1] <= MaxH(image.samp) /\ Subsamplings[s][2] <= MaxV(image.samp)
    /\ Subsamplings[s][1] = Subsamplings[s][2] => MaxH(image.samp) = MaxV(image.samp)
    /\ Areas(image.samp) <= Subsamplings[s][1] * Subsamplings[s][2] * Weight(s)

\* The blocks of an iMCU are at most what the name of the sampling reckons,
\* whether its factors are plain or doubled, except with four doubled components.
LEMMA NamedIsCovered ==
    ASSUME image \in Images, request \in Requests, image.colour # "GRAY",
           GetSubsamp(image) # "unknown", ~FourDoubled
    PROVE  Covered(GetSubsamp(image))
<1> DEFINE s == GetSubsamp(image)
<1>1. /\ image.samp \in Seq(Factors) /\ DOMAIN image.samp = 1 .. Len(image.samp)
      /\ \/ Len(image.samp) = 3
         \/ Len(image.samp) = 4 /\ image.samp[1] = Standard(s)
  <2>1. Len(image.samp) = 3 \/ Len(image.samp) = 4
    <3>1. \/ image.colour = "GRAY" /\ Len(image.samp) = 1
          \/ image.colour \in {"YCC", "RGB"} /\ Len(image.samp) = 3
          \/ image.colour \in {"CMYK", "YCCK"} /\ Len(image.samp) = 4
      BY ImagesAssumption
    <3>2. QED
      BY <3>1
  <2>2. QED
    BY <2>1, Given DEF FourDoubled
<1>2. /\ s \in Names
      /\ \/ Matches(image, Standard(s), Sampling(1, 1))
         \/ /\ s \in {"S422", "S440"}
            /\ Matches(image, Sampling(2, 2), Sampling(Standard(s).v, Standard(s).h))
  BY NamedSampling DEF Names
<1>3. /\ Standard("S444") = Sampling(1, 1) /\ Standard("S422") = Sampling(2, 1)
      /\ Standard("S420") = Sampling(2, 2) /\ Standard("S440") = Sampling(1, 2)
      /\ Standard("S411") = Sampling(4, 1)
  BY DEF Standard, Subsamplings
<1>4. \A x, y : Sampling(x, y).h = x /\ Sampling(x, y).v = y
  BY DEF Sampling
<1>5. /\ Subsamplings["S444"][1] = 1 /\ Subsamplings["S444"][2] = 1
      /\ Subsamplings["S422"][1] = 2 /\ Subsamplings["S422"][2] = 1
      /\ Subsamplings["S420"][1] = 2 /\ Subsamplings["S420"][2] = 2
      /\ Subsamplings["S440"][1] = 1 /\ Subsamplings["S440"][2] = 2
      /\ Subsamplings["S411"][1] = 4 /\ Subsamplings["S411"][2] = 1
  BY DEF Subsamplings
<1> HIDE DEF s
<1>6. ASSUME NEW a \in 1..4, NEW b \in 1..4, NEW a2 \in 1..4, NEW b2 \in 1..4,
             a2 <= a, b2 <= b,
             Matches(image, Sampling(a, b), Sampling(a2, b2))
      PROVE  /\ MaxH(image.samp) = a /\ MaxV(image.samp) = b
             /\ Len(image.samp) = 3 => Areas(image.samp) = a * b + a2 * b2 + a2 * b2
             /\ Len(image.samp) = 4 => \/ Areas(image.samp) = a * b + a2 * b2 + a2 * b2 + a2 * b2
                                       \/ Areas(image.samp) = a * b + a2 * b2 + a2 * b2 + a * b
  <2>1. /\ image.samp[1] = Sampling(a, b)
        /\ \A k \in 2 .. Len(image.samp) :
              image.samp[k] = IF image.colour = "YCCK" /\ k = 4 THEN Sampling(a, b) ELSE Sampling(a2, b2)
    BY <1>6 DEF Matches
  <2>2. \A c \in DOMAIN image.samp : c = 1 \/ c \in 2 .. Len(image.samp)
    BY <1>1
  <2>3. \A c \in DOMAIN image.samp : image.samp[c] = Sampling(a, b) \/ image.samp[c] = Sampling(a2, b2)
    BY <2>1, <2>2
  <2>4. Len(image.samp) > 0
    BY <1>1
  <2>5. MaxH(image.samp) = a /\ MaxV(image.samp) = b
    BY <1>1, <1>6, <2>1, <2>3, <2>4, FirstIsLargest
  <2>6. PICK p \in Nat, q \in Nat : p = a * b /\ q = a2 * b2
    OBVIOUS
  <2>7. /\ Area(image.samp, 1) = p
        /\ \A k : image.samp[k] = Sampling(a, b) => Area(image.samp, k) = p
        /\ \A k : image.samp[k] = Sampling(a2, b2) => Area(image.samp, k) = q
    <3>1. ASSUME NEW k, NEW x, NEW y, image.samp[k] = Sampling(x, y)
          PROVE  Area(image.samp, k) = x * y
      BY <1>4, <3>1 DEF Area
    <3>2. Area(image.samp, 1) = a * b
      BY <2>1, <3>1
    <3>3. ASSUME NEW k, image.samp[k] = Sampling(a, b) PROVE Area(image.samp, k) = a * b
      BY <3>1, <3>3
    <3>4. ASSUME NEW k, image.samp[k] = Sampling(a2, b2) PROVE Area(image.samp, k) = a2 * b2
      BY <3>1, <3>4
    <3>5. QED
      BY <2>6, <3>2, <3>3, <3>4
  <2>8. Len(image.samp) = 3 => Areas(image.samp) = p + q + q
    <3>1. SUFFICES ASSUME Len(image.samp) = 3 PROVE Areas(image.samp) = p + q + q
      OBVIOUS
    <3>2. Area(image.samp, 2) = q /\ Area(image.samp, 3) = q
      BY <2>1, <2>7, <3>1
    <3>3. QED
      BY <2>7, <3>1, <3>2 DEF Areas
  <2>9. Len(image.samp) = 4 =>
           Areas(image.samp) = p + q + q + q \/ Areas(image.samp) = p + q + q + p
    <3>1. SUFFICES ASSUME Len(image.samp) = 4
                   PROVE  Areas(image.samp) = p + q + q + q \/ Areas(image.samp) = p + q + q + p
      OBVIOUS
    <3>2. /\ Area(image.samp, 2) = q /\ Area(image.samp, 3) = q
          /\ Area(image.samp, 4) = q \/ Area(image.samp, 4) = p
      BY <2>1, <2>7, <3>1
    <3>3. QED
      BY <2>7, <3>1, <3>2 DEF Areas
  <2>10. QED
    BY <2>5, <2>6, <2>8, <2>9
<1>7. CASE s = "S444"
  <2>1. Matches(image, Sampling(1, 1), Sampling(1, 1))
    BY <1>2, <1>3, <1>7
  <2>2. /\ MaxH(image.samp) = 1 /\ MaxV(image.samp) = 1
        /\ Len(image.samp) = 3 => Areas(image.samp) = 1 * 1 + 1 * 1 + 1 * 1
        /\ Len(image.samp) = 4 => \/ Areas(image.samp) = 1 * 1 + 1 * 1 + 1 * 1 + 1 * 1
                                  \/ Areas(image.samp) = 1 * 1 + 1 * 1 + 1 * 1 + 1 * 1
    BY <1>6, <2>1
  <2>3. QED
    BY <1>1, <1>5, <1>7, <2>2, Weights DEF Covered, s
<1>8. CASE s = "S420"
  <2>1. Matches(image, Sampling(2, 2), Sampling(1, 1))
    BY <1>2, <1>3, <1>8
  <2>2. /\ MaxH(image.samp) = 2 /\ MaxV(image.samp) = 2
        /\ Len(image.samp) = 3 => Areas(image.samp) = 2 * 2 + 1 * 1 + 1 * 1
        /\ Len(image.samp) = 4 => \/ Areas(image.samp) = 2 * 2 + 1 * 1 + 1 * 1 + 1 * 1
                                  \/ Areas(image.samp) = 2 * 2 + 1 * 1 + 1 * 1 + 2 * 2
    BY <1>6, <2>1
  <2>3. QED
    BY <1>1, <1>5, <1>8, <2>2, Weights DEF Covered, s
<1>9. CASE s = "S411"
  <2>1. Matches(image, Sampling(4, 1), Sampling(1, 1))
    BY <1>2, <1>3, <1>9
  <2>2. /\ MaxH(image.samp) = 4 /\ MaxV(image.samp) = 1
        /\ Len(image.samp) = 3 => Areas(image.samp) = 4 * 1 + 1 * 1 + 1 * 1
        /\ Len(image.samp) = 4 => \/ Areas(image.samp) = 4 * 1 + 1 * 1 + 1 * 1 + 1 * 1
                                  \/ Areas(image.samp) = 4 * 1 + 1 * 1 + 1 * 1 + 4 * 1
    BY <1>6, <2>1
  <2>3. QED
    BY <1>1, <1>5, <1>9, <2>2, Weights DEF Covered, s
<1>10. CASE s = "S422"
  <2>1. CASE Matches(image, Sampling(2, 1), Sampling(1, 1))
    <3>1. /\ MaxH(image.samp) = 2 /\ MaxV(image.samp) = 1
          /\ Len(image.samp) = 3 => Areas(image.samp) = 2 * 1 + 1 * 1 + 1 * 1
          /\ Len(image.samp) = 4 => \/ Areas(image.samp) = 2 * 1 + 1 * 1 + 1 * 1 + 1 * 1
                                    \/ Areas(image.samp) = 2 * 1 + 1 * 1 + 1 * 1 + 2 * 1
      BY <1>6, <2>1
    <3>2. QED
      BY <1>1, <1>5, <1>10, <3>1, Weights DEF Covered, s
  <2>2. CASE Matches(image, Sampling(2, 2), Sampling(1, 2))
    <3>1. /\ MaxH(image.samp) = 2 /\ MaxV(image.samp) = 2
          /\ Len(image.samp) = 3 => Areas(image.samp) = 2 * 2 + 1 * 2 + 1 * 2
      BY <1>6, <2>2
    <3>2. Len(image.samp) = 3
      <4>1. image.samp[1] = Sampling(2, 2)
        BY <2>2 DEF Matches
      <4>2. Sampling(2, 2) # Sampling(2, 1)
        BY <1>4
      <4>3. QED
        BY <1>1, <1>3, <1>10, <4>1, <4>2
    <3>3. QED
      BY <1>5, <1>10, <3>1, <3>2, Weights DEF Covered, s
  <2>3. QED
    BY <1>2, <1>3, <1>4, <1>10, <2>1, <2>2
<1>11. CASE s = "S440"
  <2>1. CASE Matches(image, Sampling(1, 2), Sampling(1, 1))
    <3>1. /\ MaxH(image.samp) = 1 /\ MaxV(image.samp) = 2
          /\ Len(image.samp) = 3 => Areas(image.samp) = 1 * 2 + 1 * 1 + 1 * 1
          /\ Len(image.samp) = 4 => \/ Areas(image.samp) = 1 * 2 + 1 * 1 + 1 * 1 + 1 * 1
                                    \/ Areas(image.samp) = 1 * 2 + 1 * 1 + 1 * 1 + 1 * 2
      BY <1>6, <2>1
    <3>2. QED
      BY <1>1, <1>5, <1>11, <3>1, Weights DEF Covered, s
  <2>2. CASE Matches(image, Sampling(2, 2), Sampling(2, 1))
    <3>1. /\ MaxH(image.samp) = 2 /\ MaxV(image.samp) = 2
          /\ Len(image.samp) = 3 => Areas(image.samp) = 2 * 2 + 2 * 1 + 2 * 1
      BY <1>6, <2>2
    <3>2. Len(image.samp) = 3
      <4>1. image.samp[1] = Sampling(2, 2)
        BY <2>2 DEF Matches
      <4>2. Sampling(2, 2) # Sampling(1, 2)
        BY <1>4
      <4>3. QED
        BY <1>1, <1>3, <1>11, <4>1, <4>2
    <3>3. QED
      BY <1>5, <1>11, <3>1, <3>2, Weights DEF Covered, s
  <2>3. QED
    BY <1>2, <1>3, <1>4, <1>11, <2>1, <2>2
<1>12. QED
  BY <1>2, <1>7, <1>8, <1>9, <1>10, <1>11 DEF Names, s

\* Larger sizes in smaller units are no fewer units.
LEMMA CeilDivGrows ==
    ASSUME NEW a \in Nat, NEW b \in Nat, a <= b, NEW m \in Nat \ {0}, NEW k \in Nat \ {0}, k <= m
    PROVE  CeilDiv(a, m) <= CeilDiv(b, k)
<1> DEFINE q == CeilDiv(b, k)
<1>1. q \in Nat /\ b <= k * q
  BY CeilDivFacts
<1> HIDE DEF q
<1>2. k * q <= m * q /\ k * q \in Nat /\ m * q \in Nat
  BY <1>1, ProductGrows
<1>3. a <= m * q
  BY <1>1, <1>2
<1>4. QED
  BY <1>1, <1>3, CeilDivAtMost DEF q

\* Two products, factor by factor.
LEMMA ProductsGrow ==
    ASSUME NEW a \in Nat, NEW b \in Nat, NEW c \in Nat, NEW d \in Nat, a <= c, b <= d
    PROVE  a * b <= c * d /\ a * b \in Nat /\ c * d \in Nat
<1>1. a * b <= c * b /\ c * b <= c * d /\ a * b \in Nat /\ c * d \in Nat /\ c * b \in Nat
  BY ProductGrows
<1>2. QED
  BY <1>1

\* The sizes and weights of the samplings that have a name.
LEMMA NamedSizes ==
    ASSUME NEW s \in Names \cup {"GRAY"}
    PROVE  /\ Subsamplings[s][1] \in 1..4 /\ Subsamplings[s][2] \in 1..4
           /\ Weight(s) \in 1..6
<1>1. Weight(s) \in 1..6
  BY Weights DEF Names
<1>2. /\ DOMAIN Subsamplings = Names \cup {"GRAY"}
      /\ Subsamplings["S444"][1] = 1 /\ Subsamplings["S444"][2] = 1
      /\ Subsamplings["S422"][1] = 2 /\ Subsamplings["S422"][2] = 1
      /\ Subsamplings["S420"][1] = 2 /\ Subsamplings["S420"][2] = 2
      /\ Subsamplings["S440"][1] = 1 /\ Subsamplings["S440"][2] = 2
      /\ Subsamplings["S411"][1] = 4 /\ Subsamplings["S411"][2] = 1
      /\ Subsamplings["GRAY"][1] = 1 /\ Subsamplings["GRAY"][2] = 1
  BY DEF Subsamplings, Names
<1>3. QED
  BY <1>1, <1>2 DEF Names

\* An image that could be read has a name of its sampling, and one, three or
\* four components.
LEMMA NameOfImage ==
    ASSUME image \in Images, request \in Requests, GetSubsamp(image) # "unknown"
    PROVE  /\ GetSubsamp(image) \in Names \cup {"GRAY"}
           /\ ~SingleComponent => image.colour # "GRAY" /\ Len(image.samp) \in {3, 4}
<1>1. image.colour = "GRAY" => GetSubsamp(image) = "GRAY"
  BY DEF GetSubsamp
<1>2. image.colour # "GRAY" => GetSubsamp(image) \in Names
  BY NamedSampling DEF Names
<1>3. \/ image.colour = "GRAY" /\ Len(image.samp) = 1
      \/ image.colour # "GRAY" /\ Len(image.samp) \in {3, 4}
  <2>1. \/ image.colour = "GRAY" /\ Len(image.samp) = 1
        \/ image.colour \in {"YCC", "RGB"} /\ Len(image.samp) = 3
        \/ image.colour \in {"CMYK", "YCCK"} /\ Len(image.samp) = 4
    BY ImagesAssumption
  <2>2. QED
    BY <2>1
<1>4. QED
  BY <1>1, <1>2, <1>3 DEF SingleComponent

\* What tjBufSize() is given.
GivenW == IF request.crop = NoCrop THEN image.w ELSE request.crop.w
GivenH == IF request.crop = NoCrop THEN image.h ELSE request.crop.h

\* The destination has no more iMCUs than tjBufSize() reckons for the part asked
\* for: turned sideways only if iMCUs are square.
LEMMA McusBound ==
    ASSUME image \in Images, request \in Requests, Prepared,
           Slanted => SourceMcu.w = SourceMcu.h
    PROVE  /\ GivenW \in Nat /\ GivenH \in Nat /\ Mcus \in Nat
           /\ Mcus <= CeilDiv(GivenW, SourceMcu.w) * CeilDiv(GivenH, SourceMcu.h)
<1>1. /\ SourceMcu.w \in Nat \ {0} /\ SourceMcu.h \in Nat \ {0}
      /\ McuW \in Nat \ {0} /\ McuH \in Nat \ {0}
      /\ info.w \in Nat /\ info.w <= AskedW /\ AskedW \in Nat
      /\ info.h \in Nat /\ info.h <= AskedH /\ AskedH \in Nat
  BY McuFacts, ExtentFacts, OutputExtents DEF Prepared
<1>2. GivenW \in Nat /\ GivenH \in Nat
  BY Given DEF GivenW, GivenH
<1>3. info.columns = CeilDiv(info.w, McuW) /\ info.rows = CeilDiv(info.h, McuH)
  BY WorkspaceFields DEF Prepared, Asked
<1>4. request.crop # NoCrop => AskedW = request.crop.w /\ AskedH = request.crop.h
  <2>1. request.crop.x % McuW = 0 /\ request.crop.y % McuH = 0
    BY WorkspaceFields DEF Prepared, Asked
  <2>2. request.crop.w \in Nat /\ request.crop.h \in Nat
    BY Given
  <2>3. request.crop.w + 0 = request.crop.w /\ request.crop.h + 0 = request.crop.h
    BY <2>2
  <2>4. QED
    BY <2>1, <2>3 DEF AskedW, AskedH
<1>5. /\ info.columns \in Nat /\ info.columns <= CeilDiv(AskedW, McuW) /\ CeilDiv(AskedW, McuW) \in Nat
      /\ info.rows \in Nat /\ info.rows <= CeilDiv(AskedH, McuH) /\ CeilDiv(AskedH, McuH) \in Nat
  <2>1. ASSUME NEW a \in Nat, NEW b \in Nat, a <= b, NEW m \in Nat \ {0}
        PROVE  /\ CeilDiv(a, m) \in Nat /\ CeilDiv(b, m) \in Nat
               /\ CeilDiv(a, m) <= CeilDiv(b, m)
    <3>1. CeilDiv(a, m) \in Nat /\ CeilDiv(b, m) \in Nat
      BY CeilDivFacts
    <3>2. m <= m
      OBVIOUS
    <3>3. CeilDiv(a, m) <= CeilDiv(b, m)
      BY <2>1, <3>2, CeilDivGrows
    <3>4. QED
      BY <3>1, <3>3
  <2>2. QED
    BY <1>1, <1>3, <2>1
<1>6. \/ AskedW = GivenW /\ AskedH = GivenH /\ McuW = SourceMcu.w /\ McuH = SourceMcu.h
      \/ AskedW = GivenH /\ AskedH = GivenW /\ McuW = SourceMcu.h /\ McuH = SourceMcu.w
  <2>1. CASE request.op \in Sideways /\ request.crop = NoCrop
    BY <2>1 DEF AskedW, AskedH, GivenW, GivenH, McuW, McuH, FullW, FullH
  <2>2. CASE request.op \in Sideways /\ request.crop # NoCrop
    BY <1>4, <2>2 DEF Slanted, GivenW, GivenH, McuW, McuH
  <2>3. CASE request.op \notin Sideways
    BY <1>4, <2>3 DEF AskedW, AskedH, GivenW, GivenH, McuW, McuH, FullW, FullH
  <2>4. QED
    BY <2>1, <2>2, <2>3
<1>7. PICK a \in Nat, b \in Nat : a = CeilDiv(AskedW, McuW) /\ b = CeilDiv(AskedH, McuH)
  BY <1>5
<1>8. a * b = CeilDiv(GivenW, SourceMcu.w) * CeilDiv(GivenH, SourceMcu.h)
  <2>1. CASE AskedW = GivenW /\ AskedH = GivenH /\ McuW = SourceMcu.w /\ McuH = SourceMcu.h
    BY <1>7, <2>1
  <2>2. CASE AskedW = GivenH /\ AskedH = GivenW /\ McuW = SourceMcu.h /\ McuH = SourceMcu.w
    <3>1. a * b = b * a
      OBVIOUS
    <3>2. QED
      BY <1>7, <2>2, <3>1
  <2>3. QED
    BY <1>6, <2>1, <2>2
<1>9. PICK c \in Nat, r \in Nat : c = info.columns /\ r = info.rows /\ c <= a /\ r <= b
  BY <1>5, <1>7
<1>10. c * r <= a * b /\ c * r \in Nat
  BY <1>9, ProductsGrow
<1>11. QED
  BY <1>2, <1>8, <1>9, <1>10 DEF Mcus

\* The samples of the destination fit what tjBufSize() reckons.
Reckoned ==
    RoundUp(GivenW, McuWidth(GetSubsamp(image))) * RoundUp(GivenH, McuHeight(GetSubsamp(image)))
        * Weight(GetSubsamp(image))

\* The blocks of an iMCU of the destination are those of the source.
LEMMA DestinationAreas ==
    ASSUME image \in Images, request \in Requests, Prepared
    PROVE  /\ Len(out.samp) \in {1, 3, 4} /\ DOMAIN out.samp = 1 .. Len(out.samp)
           /\ Areas(out.samp) = IF SingleComponent THEN 1 ELSE Areas(image.samp)
<1>1. CASE SingleComponent
  <2>1. out.samp = One
    BY <1>1, SingleDestination
  <2>2. Len(One) = 1 /\ DOMAIN One = {1} /\ One[1].h = 1 /\ One[1].v = 1
    BY OneFactors
  <2>3. Areas(One) = 1
    BY <2>2 DEF Areas, Area
  <2>4. {1} = 1..1
    OBVIOUS
  <2>5. QED
    BY <1>1, <2>1, <2>2, <2>3, <2>4
<1>2. CASE ~SingleComponent
  <2>1. /\ image.samp \in Seq(Factors) /\ DOMAIN image.samp = 1 .. Len(image.samp)
        /\ Len(image.samp) \in {3, 4}
    BY <1>2, Given, NameOfImage DEF Prepared, Asked
  <2>2. CASE request.op \notin Sideways
    BY <1>2, <2>1, <2>2, SeveralDestination
  <2>3. CASE request.op \in Sideways
    <3>1. out.samp = Swapped(image.samp)
      BY <1>2, <2>3, SeveralDestination
    <3>2. /\ Len(out.samp) = Len(image.samp) /\ DOMAIN out.samp = DOMAIN image.samp
          /\ \A c \in DOMAIN image.samp : out.samp[c].h = image.samp[c].v /\ out.samp[c].v = image.samp[c].h
      BY <2>1, <3>1, SwappedFactors
    <3>3. ASSUME NEW c \in DOMAIN image.samp PROVE Area(out.samp, c) = Area(image.samp, c)
      <4>1. image.samp[c] \in Factors
        BY <2>1, ElementOfSeq
      <4>2. PICK h \in Nat, v \in Nat : h = image.samp[c].h /\ v = image.samp[c].v
        BY <4>1 DEF Factors
      <4>3. h * v = v * h
        OBVIOUS
      <4>4. QED
        BY <3>2, <4>2, <4>3 DEF Area
    <3>4. /\ 1 \in DOMAIN image.samp /\ 2 \in DOMAIN image.samp /\ 3 \in DOMAIN image.samp
          /\ Len(image.samp) = 4 => 4 \in DOMAIN image.samp
      <4>1. CASE Len(image.samp) = 3
        <5>1. DOMAIN image.samp = 1..3
          BY <2>1, <4>1
        <5>2. QED
          BY <4>1, <5>1
      <4>2. CASE Len(image.samp) = 4
        <5>1. DOMAIN image.samp = 1..4
          BY <2>1, <4>2
        <5>2. QED
          BY <4>2, <5>1
      <4>3. QED
        BY <2>1, <4>1, <4>2
    <3>5. Areas(out.samp) = Areas(image.samp)
      BY <2>1, <3>2, <3>3, <3>4 DEF Areas
    <3>6. QED
      BY <1>2, <2>1, <3>2, <3>5
  <2>4. QED
    BY <2>2, <2>3
<1>3. QED
  BY <1>1, <1>2

\* The samples of the destination fit what tjBufSize() reckons.
LEMMA Enough ==
    ASSUME image \in Images, request \in Requests, Prepared, ~FourDoubled,
           Slanted => McuWidth(GetSubsamp(image)) = McuHeight(GetSubsamp(image))
    PROVE  Uncompressed \in Nat /\ Reckoned \in Nat /\ Uncompressed <= Reckoned
<1> DEFINE s == GetSubsamp(image)
<1>1. s \in Names \cup {"GRAY"}
  BY NameOfImage DEF Prepared, Asked
<1>2. PICK D \in Nat \ {0}, h \in 1..4, v \in 1..4, k \in 1..6 :
          /\ D = DCTSIZE /\ h = Subsamplings[s][1] /\ v = Subsamplings[s][2] /\ k = Weight(s)
  <2> HIDE DEF s
  <2>1. QED
    BY <1>1, SizesAssumption, NamedSizes
<1>3. McuWidth(s) = D * h /\ McuHeight(s) = D * v
  BY <1>2 DEF McuWidth, McuHeight
<1>4. D * h \in Nat \ {0} /\ D * v \in Nat \ {0} /\ h \in Nat \ {0} /\ v \in Nat \ {0} /\ k \in Nat \ {0}
  BY <1>2
<1>5. ~SingleComponent => Covered(s)
  BY NameOfImage, NamedIsCovered DEF Prepared, Asked
<1>6. Slanted => SourceMcu.w = SourceMcu.h
  <2>1. SUFFICES ASSUME Slanted PROVE SourceMcu.w = SourceMcu.h
    OBVIOUS
  <2>2. CASE SingleComponent
    BY <2>2, McuFacts
  <2>3. CASE ~SingleComponent
    <3>1. D * h = D * v
      BY <1>3, <2>1
    <3>2. h = v
      BY <1>2, <3>1
    <3>3. MaxH(image.samp) = MaxV(image.samp)
      BY <1>2, <1>5, <2>3, <3>2 DEF Covered
    <3>4. QED
      BY <2>3, <3>3, McuFacts
  <2>4. QED
    BY <2>2, <2>3
<1>7. PICK w \in Nat, g \in Nat, p \in Nat, n \in Nat :
          /\ w = GivenW /\ g = GivenH /\ p = Mcus /\ n = Areas(out.samp)
          /\ p <= CeilDiv(w, SourceMcu.w) * CeilDiv(g, SourceMcu.h)
          /\ Uncompressed = D * D * (p * n)
  <2>1. /\ GivenW \in Nat /\ GivenH \in Nat /\ Mcus \in Nat
        /\ Mcus <= CeilDiv(GivenW, SourceMcu.w) * CeilDiv(GivenH, SourceMcu.h)
    BY <1>6, McusBound
  <2>2. Areas(out.samp) \in Nat /\ Uncompressed = DCTSIZE * DCTSIZE * (Mcus * Areas(out.samp))
    BY DestinationAreas, DataLength
  <2>3. QED
    BY <1>2, <2>1, <2>2
<1>8. PICK A \in Nat, B \in Nat : A = CeilDiv(w, D * h) /\ B = CeilDiv(g, D * v)
  BY <1>4, CeilDivFacts
<1>9. Reckoned = ((A * (D * h)) * (B * (D * v))) * k
  BY <1>2, <1>3, <1>7, <1>8 DEF Reckoned, RoundUp
<1>10. ((A * (D * h)) * (B * (D * v))) * k = (D * D) * ((A * B) * ((h * v) * k))
  OBVIOUS
<1>11. PICK hv \in Nat, AB \in Nat, DD \in Nat : hv = h * v /\ AB = A * B /\ DD = D * D
  BY <1>4
<1>12. PICK hvk \in Nat : hvk = hv * k /\ hv <= hvk
  BY <1>2, <1>11
<1>13. p * n <= AB * hvk /\ p * n \in Nat /\ AB * hvk \in Nat
  <2>1. CASE SingleComponent
    <3>1. SourceMcu.w = D /\ SourceMcu.h = D /\ n = 1
      BY <1>2, <1>7, <2>1, McuFacts, DestinationAreas
    <3>2. PICK cw \in Nat, ch \in Nat : cw = CeilDiv(w, D) /\ ch = CeilDiv(g, D)
      BY <1>2, CeilDivFacts
    <3>3. A * h \in Nat /\ B * v \in Nat
      BY <1>4
    <3>4. cw <= A * h
      <4>1. w <= (D * h) * A
        BY <1>4, <1>8, CeilDivFacts
      <4>2. (D * h) * A = D * (A * h)
        BY <1>4
      <4>3. QED
        BY <3>2, <3>3, <4>1, <4>2, CeilDivAtMost
    <3>5. ch <= B * v
      <4>1. g <= (D * v) * B
        BY <1>4, <1>8, CeilDivFacts
      <4>2. (D * v) * B = D * (B * v)
        BY <1>4
      <4>3. QED
        BY <3>2, <3>3, <4>1, <4>2, CeilDivAtMost
    <3>6. cw * ch <= (A * h) * (B * v) /\ cw * ch \in Nat
      BY <3>3, <3>4, <3>5, ProductsGrow
    <3>7. (A * h) * (B * v) = (A * B) * (h * v)
      OBVIOUS
    <3>8. AB * hv <= AB * hvk /\ AB * hv \in Nat /\ AB * hvk \in Nat
      BY <1>12, ProductGrows
    <3>9. p <= cw * ch
      BY <1>7, <3>1, <3>2
    <3>10. cw * ch <= AB * hv
      BY <1>11, <3>6, <3>7
    <3>11. p * n = p
      BY <3>1
    <3>12. QED
      BY <3>6, <3>8, <3>9, <3>10, <3>11
  <2>2. CASE ~SingleComponent
    <3>1. PICK mh \in Nat, mv \in Nat :
             /\ mh = MaxH(image.samp) /\ mv = MaxV(image.samp) /\ h <= mh /\ v <= mv
      <4>1. image.samp \in Seq(Factors) /\ Len(image.samp) > 0
        BY Given
      <4>2. MaxH(image.samp) \in 1..4 /\ MaxV(image.samp) \in 1..4
        BY <4>1, LargestFactors
      <4>3. h <= MaxH(image.samp) /\ v <= MaxV(image.samp)
        BY <1>2, <1>5, <2>2 DEF Covered
      <4>4. QED
        BY <4>2, <4>3
    <3>2. SourceMcu.w = D * mh /\ SourceMcu.h = D * mv
      <4>1. SourceMcu.w = mh * D /\ SourceMcu.h = mv * D
        BY <1>2, <2>2, <3>1, McuFacts
      <4>2. QED
        BY <4>1
    <3>3. D * h <= D * mh /\ D * v <= D * mv
      BY <1>4, <3>1, ProductGrows
    <3>4. D * mh \in Nat \ {0} /\ D * mv \in Nat \ {0}
      BY <1>4, <3>1
    <3>5. PICK cw \in Nat, ch \in Nat : /\ cw = CeilDiv(w, D * mh) /\ ch = CeilDiv(g, D * mv)
                                        /\ cw <= A /\ ch <= B
      <4>1. CeilDiv(w, D * mh) \in Nat /\ CeilDiv(g, D * mv) \in Nat
        BY <3>4, CeilDivFacts
      <4>2. CeilDiv(w, D * mh) <= A /\ CeilDiv(g, D * mv) <= B
        BY <1>4, <1>8, <3>3, <3>4, CeilDivGrows
      <4>3. QED
        BY <4>1, <4>2
    <3>6. cw * ch <= AB /\ cw * ch \in Nat
      BY <1>11, <3>5, ProductsGrow
    <3>7. p <= AB
      BY <1>7, <3>2, <3>5, <3>6
    <3>8. n <= hvk
      <4>1. n = Areas(image.samp)
        BY <1>7, <2>2, DestinationAreas
      <4>2. Areas(image.samp) <= h * v * k
        BY <1>2, <1>5, <2>2 DEF Covered
      <4>3. QED
        BY <1>11, <1>12, <4>1, <4>2
    <3>9. QED
      BY <3>7, <3>8, ProductsGrow
  <2>3. QED
    BY <2>1, <2>2
<1>14. DD * (p * n) <= DD * (AB * hvk) /\ DD * (p * n) \in Nat /\ DD * (AB * hvk) \in Nat
  BY <1>13, ProductGrows
<1>15. Reckoned = DD * (AB * hvk)
  BY <1>9, <1>10, <1>11, <1>12
<1>16. Uncompressed = DD * (p * n)
  BY <1>7, <1>11
<1>17. QED
  BY <1>14, <1>15, <1>16

\* The size of the buffer is what tjBufSize() reckons and its slack of 2048 bytes.
LEMMA SizeReckoned ==
    size = SizeWanted => size = Reckoned + Slack
BY DEF SizeWanted, Reckoned, BufSize, Weight, GivenW, GivenH

\* A buffer overruns only for one of the causes.
LEMMA TooSmall ==
    ASSUME image \in Images, request \in Requests, Prepared,
           NEW tables \in {0, TableBytes}, NEW d \in {0, Uncompressed},
           Overruns(tables + image.markers + d)
    PROVE  \/ TableBytes + image.markers >= Slack
           \/ Slanted /\ LET s == GetSubsamp(image) IN McuWidth(s) # McuHeight(s)
           \/ FourDoubled
<1>1. SUFFICES ASSUME ~(TableBytes + image.markers >= Slack), ~FourDoubled,
                      Slanted => McuWidth(GetSubsamp(image)) = McuHeight(GetSubsamp(image))
               PROVE  FALSE
  OBVIOUS
<1>2. TableBytes \in Nat /\ Slack \in Nat /\ image.markers \in Nat
  BY SizesAssumption, Given
<1>3. Uncompressed \in Nat /\ Reckoned \in Nat /\ Uncompressed <= Reckoned
  BY <1>1, Enough
<1>4. size = Reckoned + Slack
  BY SizeReckoned DEF Prepared
<1>5. tables + image.markers + d >= Reckoned + Slack
  BY <1>4 DEF Overruns
<1>6. QED
  BY <1>1, <1>2, <1>3, <1>5

-----------------------------------------------------------------------------
(* The invariant holds.                                                    *)

\* Before blocks are moved there is nothing to say of them.
LEMMA NothingIsNoBlocks ==
    blocks = Nothing => ArraysSuffice /\ MovesEverySample
BY DEF ArraysSuffice, MovesEverySample, Executed

\* The invariant holds of a new call.
LEMMA InvariantInit == Init => LInv
BY NothingIsNoBlocks DEF Init, LInv, Steps, Executed

\* jpeg_copy_critical_parameters() and jtransform_adjust_parameters() prepare the
\* destination that follows from the workspace.
LEMMA Destined ==
    ASSUME image \in Images, request \in Requests, Asked, request.gray => GrayPossible,
           UNCHANGED <<image, request, info>>,
           out' = Destination, size' = SizeWanted
    PROVE  Prepared'
<1>1. Asked'
  BY AskedKept
<1>2. Destination' = Destination /\ SizeWanted' = SizeWanted /\ GrayPossible' = GrayPossible
  BY DEF Destination, SizeWanted, GrayPossible
<1>3. QED
  BY <1>1, <1>2 DEF Prepared

\* The end of a call changes nothing.
LEMMA InvariantKept ==
    ASSUME LInv, UNCHANGED vars
    PROVE  LInv'
<1>1. UNCHANGED <<pc, image, request, info, out, size, blocks, result>>
  BY DEF vars
<1>2. /\ Asked' <=> Asked
      /\ Prepared' <=> Prepared
      /\ Uncompressed' = Uncompressed /\ Executed' = Executed
  BY <1>1, AskedKept, PreparedKept, UncompressedKept DEF Executed
<1>3. ArraysSuffice' /\ MovesEverySample'
  BY <1>1, ArraysKept, MovesKept DEF LInv
<1>4. \A n : Overruns(n)' <=> Overruns(n)
  BY <1>1 DEF Overruns
<1>5. result = "too small" =>
          \E tables \in {0, TableBytes}, d \in {0, Uncompressed} :
              Overruns(tables + image.markers + d)
  BY DEF LInv
<1>6. result' = "too small" =>
          \E tables \in {0, TableBytes}, d \in {0, Uncompressed'} :
              Overruns(tables + image.markers + d)'
  BY <1>1, <1>2, <1>4, <1>5
<1>7. GetSubsamp(image)' = GetSubsamp(image) /\ GetSubsamp(out)' = GetSubsamp(out)
  BY <1>1
<1>8. QED
  BY <1>1, <1>2, <1>3, <1>6, <1>7 DEF LInv

\* Every step keeps the invariant.
LEMMA InvariantNext == LInv /\ [Next]_vars => LInv'
<1> SUFFICES ASSUME LInv, [Next]_vars PROVE LInv'
  OBVIOUS
<1> DEFINE Crops == request.crop # NoCrop =>
                        CropFits(request.crop, [w |-> image.w, h |-> image.h])
<1>0. /\ image \in Images /\ request \in Requests /\ pc \in Steps /\ Crops
      /\ ArraysSuffice /\ MovesEverySample
      /\ pc # "over" => result = "none"
      /\ pc \in {"header", "workspace", "adjust", "execute"} => blocks = Nothing
      /\ Executed => Prepared
      /\ pc \in {"execute", "write", "reopen"} => Prepared
  BY DEF LInv
<1>1. CASE ReadHeader
  <2>1. /\ pc = "header" /\ UNCHANGED <<image, request, info, out, size, blocks>>
        /\ \/ pc' = "over" /\ result' = "unknown subsampling"
           \/ pc' = "workspace" /\ result' = result /\ GetSubsamp(image) # "unknown"
    BY <1>1 DEF ReadHeader, Refuse, Continue
  <2>2. blocks' = Nothing /\ result = "none"
    BY <1>0, <2>1
  <2>3. ArraysSuffice' /\ MovesEverySample'
    BY <1>0, <2>1, ArraysKept, MovesKept
  <2>4. ~Executed'
    BY <2>2 DEF Executed
  <2>5. QED
    BY <1>0, <2>1, <2>2, <2>3, <2>4 DEF LInv, Steps
<1>2. CASE RequestWorkspace
  <2>1. /\ pc = "workspace" /\ UNCHANGED <<image, request, out, size, blocks>>
        /\ \/ pc' = "over" /\ result' \in {"not perfect", "bad crop", "crop corner"} /\ info' = info
           \/ /\ pc' = "adjust" /\ result' = result /\ info' = Workspace(request)
              /\ request.perfect => Perfect(image, SourceMcu, request.op)
              /\ request.crop = NoCrop \/ CropFits(request.crop, info'.full)
              /\ request.crop.x % info'.mcu.w = 0 /\ request.crop.y % info'.mcu.h = 0
    BY <1>2 DEF RequestWorkspace, Refuse, Continue
  <2>2. blocks' = Nothing /\ result = "none" /\ GetSubsamp(image) # "unknown"
    BY <1>0, <2>1 DEF LInv
  <2>3. ArraysSuffice' /\ MovesEverySample' /\ ~Executed'
    BY <2>2 DEF ArraysSuffice, MovesEverySample, Executed
  <2>4. pc' = "adjust" => Asked'
    <3>1. /\ Workspace(request)' = Workspace(request)
          /\ Perfect(image, SourceMcu, request.op)' = Perfect(image, SourceMcu, request.op)
      BY <2>1, WorkspaceKept
    <3>2. QED
      BY <2>1, <2>2, <3>1 DEF Asked
  <2>5. QED
    BY <1>0, <2>1, <2>2, <2>3, <2>4 DEF LInv, Steps
<1>3. CASE AdjustParameters
  <2>1. /\ pc = "adjust" /\ UNCHANGED <<image, request, info, blocks>>
        /\ \/ pc' = "over" /\ result' = "no conversion"
           \/ /\ pc' = "execute" /\ result' = result
              /\ request.gray => GrayPossible
              /\ out' = Destination /\ size' = SizeWanted
    BY <1>3 DEF AdjustParameters, Refuse, Continue, SizeWanted
  <2>2. blocks' = Nothing /\ result = "none" /\ Asked
    BY <1>0, <2>1 DEF LInv
  <2>3. ArraysSuffice' /\ MovesEverySample' /\ ~Executed'
    BY <2>2 DEF ArraysSuffice, MovesEverySample, Executed
  <2>4. pc' = "execute" => Prepared'
    BY <1>0, <2>1, <2>2, Destined
  <2>5. QED
    BY <1>0, <2>1, <2>2, <2>3, <2>4 DEF LInv, Steps
<1>4. CASE ExecuteTransform
  <2>1. /\ pc = "execute" /\ pc' = "write" /\ UNCHANGED <<image, request, info, out, size, result>>
    BY <1>4 DEF ExecuteTransform, Continue
  <2>2. Prepared /\ result = "none"
    BY <1>0, <2>1
  <2>3. ArraysSuffice' /\ MovesEverySample'
    BY <1>0, <1>4, <2>2, Execution
  <2>4. Prepared'
    BY <2>1, <2>2, PreparedKept
  <2>5. QED
    BY <1>0, <2>1, <2>2, <2>3, <2>4 DEF LInv, Steps
<1>5. CASE WriteCoefficients
  <2>1. PICK tables \in {0, TableBytes}, d \in {0, Uncompressed} :
           /\ pc = "write" /\ UNCHANGED <<image, request, info, out, size, blocks>>
           /\ \/ /\ Overruns(tables + image.markers + d)
                 /\ pc' = "over" /\ result' = "too small"
              \/ pc' = "reopen" /\ result' = result
    BY <1>5 DEF WriteCoefficients, Refuse, Continue
  <2>2. Prepared /\ result = "none"
    BY <1>0, <2>1
  <2>3. ArraysSuffice' /\ MovesEverySample'
    BY <1>0, <2>1, ArraysKept, MovesKept
  <2>4. Prepared'
    BY <2>1, <2>2, PreparedKept
  <2>5. result' = "too small" =>
           \E t \in {0, TableBytes}, e \in {0, Uncompressed'} : Overruns(t + image.markers + e)'
    <3>1. Uncompressed' = Uncompressed
      BY <2>1, UncompressedKept
    <3>2. \A n : Overruns(n)' <=> Overruns(n)
      BY <2>1 DEF Overruns
    <3>3. result' = "too small" => Overruns(tables + image.markers + d)
      BY <2>1, <2>2
    <3>4. QED
      BY <2>1, <3>1, <3>2, <3>3
  <2>6. QED
    BY <1>0, <2>1, <2>2, <2>3, <2>4, <2>5 DEF LInv, Steps
<1>6. CASE Reopen
  <2>1. /\ pc = "reopen" /\ pc' = "over" /\ UNCHANGED <<image, request, info, out, size, blocks>>
        /\ result' = IF GetSubsamp(out) = "unknown" THEN "unreadable" ELSE "done"
    BY <1>6 DEF Reopen, Refuse
  <2>2. Prepared
    BY <1>0, <2>1
  <2>3. ArraysSuffice' /\ MovesEverySample'
    BY <1>0, <2>1, ArraysKept, MovesKept
  <2>4. Prepared'
    BY <2>1, <2>2, PreparedKept
  <2>5. result' = "unreadable" => GetSubsamp(out)' = "unknown"
    <3>1. GetSubsamp(out)' = GetSubsamp(out)
      BY <2>1
    <3>2. QED
      BY <2>1, <3>1
  <2>6. QED
    BY <1>0, <2>1, <2>3, <2>4, <2>5 DEF LInv, Steps
<1>7. CASE pc = "over" /\ UNCHANGED vars
  BY <1>7, InvariantKept
<1>8. CASE UNCHANGED vars
  BY <1>8, InvariantKept
<1>9. QED
  BY <1>1, <1>2, <1>3, <1>4, <1>5, <1>6, <1>7, <1>8 DEF Next

\* The invariant holds in every reachable state.
LEMMA Invariant == Spec => []LInv
<1>1. Init => LInv
  BY InvariantInit
<1>2. LInv /\ [Next]_vars => LInv'
  BY InvariantNext
<1>3. QED
  BY <1>1, <1>2, PTL DEF Spec

-----------------------------------------------------------------------------
(* The theorems.                                                           *)

\* jtransform_execute_transform() never reads or writes outside of the arrays it
\* was given, and fills every block that the compressor is going to read.
THEOREM ArraysAreLargeEnough == Spec => []ArraysSuffice
<1>1. LInv => ArraysSuffice
  BY DEF LInv
<1>2. QED
  BY <1>1, Invariant, PTL

\* The routines of transupp.c put every sample where the transform and then the
\* crop say, for every size, block size, sampling and offset.
THEOREM EverySampleMoves == Spec => []MovesEverySample
<1>1. LInv => MovesEverySample
  BY DEF LInv
<1>2. QED
  BY <1>1, Invariant, PTL

\* jtransform_request_workspace() leaves no strip behind in what it calls perfect,
\* nor in what it trimmed.
THEOREM EdgesAreWhole == Spec => []NoStripIsLeftOver
<1>1. LInv => NoStripIsLeftOver
  <2>1. SUFFICES ASSUME LInv, Executed PROVE NoStripIsLeftOver
    BY DEF NoStripIsLeftOver
  <2>2. image \in Images /\ request \in Requests /\ Asked
    BY <2>1 DEF LInv, Prepared
  <2>3. QED
    BY <2>2, NoStrip
<1>2. QED
  BY <1>1, Invariant, PTL

\* Nothing but markers, a crop turned sideways, or four components of doubled
\* factors makes the buffer of tjTransform() too small.
THEOREM TooSmallHasACause == Spec => []TooSmallForACause
<1>1. LInv => TooSmallForACause
  <2>1. SUFFICES ASSUME LInv, result = "too small" PROVE TooSmallForACause
    BY DEF TooSmallForACause
  <2>2. /\ image \in Images /\ request \in Requests /\ Prepared
        /\ \E tables \in {0, TableBytes}, d \in {0, Uncompressed} :
              Overruns(tables + image.markers + d)
    BY <2>1 DEF LInv
  <2>3. QED
    BY <2>2, TooSmall DEF TooSmallForACause
<1>2. QED
  BY <1>1, Invariant, PTL

\* JpegImage can read the header of what tjTransform() wrote, if it is not 4:1:1
\* turned sideways.
THEOREM UnreadableHasACause == Spec => []UnreadableForACause
<1>1. LInv => UnreadableForACause
  <2>1. SUFFICES ASSUME LInv, result = "unreadable" PROVE UnreadableForACause
    BY DEF UnreadableForACause
  <2>2. image \in Images /\ request \in Requests /\ Prepared /\ GetSubsamp(out) = "unknown"
    BY <2>1 DEF LInv
  <2>3. QED
    BY <2>2, Readable DEF UnreadableForACause
<1>2. QED
  BY <1>1, Invariant, PTL
=============================================================================
