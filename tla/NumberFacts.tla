----------------------------- MODULE NumberFacts -----------------------------
(* Facts about numbers that the proofs of several modules need: the quotient   *)
(* and the remainder, and that a set of numbers that is not empty has a least  *)
(* one, which is what takes the place of induction.                            *)
EXTENDS Integers, FiniteSetsExt, FiniteSetTheorems, TLAPS

\* What is left of a division, and what it adds up to.
LEMMA DivMod ==
    ASSUME NEW w \in Nat \ {0}, NEW a \in Int
    PROVE  a \div w \in Int /\ a % w \in 0..(w - 1) /\ a = ((a \div w) * w) + (a % w)
<1>1. a % w \in Int
  OBVIOUS
<1>2. a % w >= 0
  OBVIOUS
<1>3. a % w < w
  OBVIOUS
<1>4. a \div w \in Int
  OBVIOUS
<1>5. a = ((a \div w) * w) + (a % w)
  OBVIOUS
<1>6. a % w \in 0..(w - 1)
  <2> DEFINE m == a % w
  <2>1. m \in Int /\ m >= 0 /\ m < w
    BY <1>1, <1>2, <1>3
  <2> HIDE DEF m
  <2>2. m \in 0..(w - 1)
    BY <2>1
  <2> QED BY <2>2 DEF m
<1> QED BY <1>4, <1>5, <1>6

\* The remainder is the only one of its kind.
LEMMA ModUnique ==
    ASSUME NEW w \in Nat \ {0}, NEW q \in Int, NEW r \in 0..(w - 1)
    PROVE  ((q * w) + r) % w = r
<1> DEFINE a == (q * w) + r
           m == a % w
           d == a \div w
<1>0. q * w \in Int
  OBVIOUS
<1>1. a \in Int
  BY <1>0
<1>2. m \in 0..(w - 1) /\ d \in Int /\ a = (d * w) + m
  BY <1>1, DivMod
<1> HIDE DEF m, d
<1>3. (q - d) * w = m - r
  <2>1. (q - d) * w = (q * w) - (d * w)
    BY <1>2
  <2>2. d * w \in Int
    BY <1>2
  <2> QED BY <1>0, <1>2, <2>1, <2>2
<1>4. \A e \in Int, v \in Nat \ {0} : e * v < v /\ -v < e * v => e = 0
  OBVIOUS
<1>5. q - d = 0
  BY <1>2, <1>3, <1>4
<1>6. m = r
  BY <1>2, <1>3, <1>5
<1> QED BY <1>6 DEF m

\* The quotient as well.
LEMMA DivUnique ==
    ASSUME NEW w \in Nat \ {0}, NEW q \in Int, NEW r \in 0..(w - 1)
    PROVE  ((q * w) + r) \div w = q
<1> DEFINE a == (q * w) + r
           d == a \div w
<1>1. q * w \in Int
  OBVIOUS
<1>2. a \in Int /\ a % w = r
  BY <1>1, ModUnique
<1>3. d \in Int /\ a = (d * w) + r
  BY <1>2, DivMod
<1> HIDE DEF d
<1>4. d * w = q * w
  <2>1. d * w \in Int /\ r \in Int
    BY <1>3
  <2> QED BY <1>1, <1>3, <2>1
<1>5. \A e, f \in Int, v \in Nat \ {0} : e * v = f * v => e = f
  OBVIOUS
<1>6. d = q
  BY <1>3, <1>4, <1>5
<1> QED BY <1>6 DEF d

\* And of a multiple.
LEMMA Multiple ==
    ASSUME NEW w \in Nat \ {0}, NEW q \in Int
    PROVE  (q * w) % w = 0 /\ (q * w) \div w = q
<1>1. 0 \in 0..(w - 1)
  OBVIOUS
<1>2. ((q * w) + 0) % w = 0 /\ ((q * w) + 0) \div w = q
  BY <1>1, ModUnique, DivUnique, Zenon
<1>3. (q * w) + 0 = q * w
  OBVIOUS
<1> QED BY <1>2, <1>3, Zenon

\* A digit of base w put behind a number below m makes one below m * w ...
LEMMA Below ==
    ASSUME NEW m \in Nat \ {0}, NEW w \in Nat \ {0}, NEW q \in 0..(m - 1), NEW r \in 0..(w - 1)
    PROVE  (q * w) + r \in 0..((m * w) - 1)
<1>1. q * w <= (m - 1) * w
  OBVIOUS
<1>2. (m - 1) * w = (m * w) - w
  OBVIOUS
<1>3. q * w \in Nat /\ m * w \in Nat
  OBVIOUS
<1> QED BY <1>1, <1>2, <1>3

\* ... and taking it off leaves one below m.
LEMMA QuotientBelow ==
    ASSUME NEW m \in Nat \ {0}, NEW w \in Nat \ {0}, NEW a \in 0..((m * w) - 1)
    PROVE  a \div w \in 0..(m - 1)
<1> DEFINE d == a \div w
           r == a % w
<1>1. d \in Int /\ r \in 0..(w - 1) /\ a = (d * w) + r
  BY DivMod
<1>2. m * w \in Nat
  OBVIOUS
<1> HIDE DEF d, r
<1>3. \A e \in Int, v \in Nat \ {0} : e < 0 => e * v <= -v
  OBVIOUS
<1>4. \A e \in Int, f \in Nat, v \in Nat \ {0} : e >= f => e * v >= f * v
  OBVIOUS
<1>5. d * w \in Int
  BY <1>1
<1>6. d >= 0
  BY <1>1, <1>3, <1>5
<1>7. d < m
  BY <1>1, <1>2, <1>4, <1>5
<1>8. d \in 0..(m - 1)
  BY <1>1, <1>6, <1>7
<1> QED BY <1>8 DEF d

\* There is a least number in every set that has one at all.
LEMMA LeastNat ==
    ASSUME NEW T \in SUBSET Nat, T # {}
    PROVE  \E x \in T : \A y \in T : x <= y
<1> DEFINE R == OpToRel(<, Nat)
<1>1. IsWellFoundedOn(R, Nat)
  BY NatLessThanWellFounded, Zenon
<1>2. R = {ss \in Nat \X Nat : ss[1] < ss[2]}
  BY DEF OpToRel
<1> HIDE DEF R
<1>3. PICK x \in T : \A y \in T : <<y, x>> \notin R
  BY <1>1, WFMin
<1>4. \A y \in T : <<y, x>> \in R <=> y < x
  BY <1>2
<1>5. T \subseteq Nat /\ x \in Nat
  OBVIOUS
<1>6. \A y \in T : x <= y
  <2> SUFFICES ASSUME NEW y \in T PROVE x <= y
    OBVIOUS
  <2>1. ~(y < x) /\ y \in Nat
    BY <1>3, <1>4, <1>5
  <2> QED BY <2>1, <1>5
<1> QED BY <1>6

\* And Min finds it.
LEMMA Least ==
    ASSUME NEW T \in SUBSET Nat, T # {}
    PROVE  Min(T) \in T /\ \A x \in T : Min(T) <= x
<1>1. \E x \in T : \A y \in T : x <= y
  BY LeastNat
<1> QED BY <1>1 DEF Min

LEMMA LesserOfTwo ==
    ASSUME NEW a \in Nat, NEW b \in Nat
    PROVE  Min({a, b}) = IF a <= b THEN a ELSE b
<1> DEFINE m == Min({a, b})
<1>1. {a, b} \in SUBSET Nat /\ {a, b} # {}
  OBVIOUS
<1>2. m \in {a, b} /\ \A x \in {a, b} : m <= x
  BY <1>1, Least
<1> HIDE DEF m
<1>3. m = IF a <= b THEN a ELSE b
  BY <1>2
<1> QED BY <1>3 DEF m

\* A number that bounds a set of numbers, which is not empty, bounds its greatest.
LEMMA Greatest ==
    ASSUME NEW T \in SUBSET Nat, T # {}, NEW b \in Nat, \A x \in T : x <= b
    PROVE  Max(T) \in T /\ \A x \in T : x <= Max(T)
<1> DEFINE F == {b - x : x \in T}
<1>1. F \in SUBSET Nat /\ F # {}
  <2>1. PICK y \in T : TRUE
    OBVIOUS
  <2>2. b - y \in F
    BY <2>1
  <2>3. \A x \in T : b - x \in Nat
    OBVIOUS
  <2> QED BY <2>2, <2>3
<1>2. PICK f \in F : \A g \in F : f <= g
  BY <1>1, LeastNat
<1>3. PICK m \in T : f = b - m
  BY <1>2
<1>4. \A x \in T : m >= x
  <2> SUFFICES ASSUME NEW x \in T PROVE m >= x
    OBVIOUS
  <2>1. b - m <= b - x
    BY <1>2, <1>3
  <2> QED BY <2>1
<1>5. \E y \in T : \A x \in T : y >= x
  BY <1>4
<1>6. Max(T) \in T /\ \A x \in T : Max(T) >= x
  BY <1>5 DEF Max
<1> QED BY <1>6

LEMMA GreaterOfTwo ==
    ASSUME NEW a \in Nat, NEW b \in Nat
    PROVE  /\ Max({a, b}) \in {a, b} /\ a <= Max({a, b}) /\ b <= Max({a, b})
<1>1. {a, b} \in SUBSET Nat /\ {a, b} # {} /\ a + b \in Nat /\ \A x \in {a, b} : x <= a + b
  OBVIOUS
<1> QED BY <1>1, Greatest
==============================================================================
