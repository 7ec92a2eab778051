----------------------------- MODULE CodecProofs -----------------------------
(* What holds of the path from the text of a request to the filed record for   *)
(* every width of a symbol, every length of a key, every body and every order  *)
(* of members: base64 is decoded exactly, the keys that are filed stand in the *)
(* request, and no pair that was found is refused.                             *)
EXTENDS Codec, NumberFacts

(***************************************************************************)
(* Numbers: three bytes and four symbols are the same number.              *)
(***************************************************************************)

Symbols == 0..(Radix - 1)
Bytes == 0..(Byte - 1)

\* The sizes of a symbol and a byte, which '=' is not.
LEMMA Widths ==
    /\ Unit \in Nat \ {0} /\ Radix \in Nat \ {0} /\ Byte \in Nat \ {0}
    /\ Radix = (Unit * Unit) * Unit /\ Byte = Unit * Radix
    /\ Pad \notin Symbols
<1>1. Unit \in Nat \ {0}
  BY Base64Assumption
<1>2. \A u, v \in Nat \ {0} : u * v \in Nat \ {0}
  OBVIOUS
<1>3. Unit * Unit \in Nat \ {0}
  BY <1>1, <1>2
<1>4. Radix \in Nat \ {0}
  BY <1>1, <1>2, <1>3 DEF Radix
<1>5. Byte \in Nat \ {0}
  BY <1>1, <1>2, <1>4 DEF Byte
<1> QED BY <1>1, <1>4, <1>5 DEF Radix, Byte, Pad, Symbols

Number(v1, v2, v3, v4) == ((((((v1 * Radix) + v2) * Radix) + v3) * Radix) + v4)
Joined(b1, b2, b3) == ((((b1 * Byte) + b2) * Byte) + b3)

\* There are as many numbers of three bytes as of four symbols.
LEMMA SameSize == ((Radix * Radix) * Radix) * Radix = (Byte * Byte) * Byte
<1>1. \A u \in Nat : \A r, b \in Nat : r = (u * u) * u /\ b = u * r =>
        ((r * r) * r) * r = (b * b) * b
  OBVIOUS
<1> QED BY <1>1, Widths

\* The digits of the number that four symbols make are the symbols.
LEMMA DigitsOfNumber ==
    ASSUME NEW v1 \in Symbols, NEW v2 \in Symbols, NEW v3 \in Symbols, NEW v4 \in Symbols
    PROVE  LET t == Number(v1, v2, v3, v4)
           IN  /\ t \in 0..(((Byte * Byte) * Byte) - 1)
               /\ Digit(t, 1) = v1 /\ Digit(t, 2) = v2 /\ Digit(t, 3) = v3 /\ Digit(t, 4) = v4
<1> DEFINE n2 == (v1 * Radix) + v2
           n3 == (n2 * Radix) + v3
           t == (n3 * Radix) + v4
<1>1. Radix \in Nat \ {0} /\ Radix * Radix \in Nat \ {0} /\ (Radix * Radix) * Radix \in Nat \ {0}
  <2>1. \A u, v \in Nat \ {0} : u * v \in Nat \ {0}
    OBVIOUS
  <2> QED BY <2>1, Widths
<1> USE DEF Symbols
<1>2. n2 \in 0..((Radix * Radix) - 1)
  BY <1>1, Below
<1>3. n2 \in Int /\ n2 % Radix = v2 /\ n2 \div Radix = v1
  BY <1>1, <1>2, ModUnique, DivUnique
<1>4. n3 \in 0..(((Radix * Radix) * Radix) - 1)
  <2> HIDE DEF n2
  <2> QED BY <1>1, <1>2, Below
<1>5. n3 \in Int /\ n3 % Radix = v3 /\ n3 \div Radix = n2
  <2> HIDE DEF n2
  <2> QED BY <1>1, <1>3, <1>4, ModUnique, DivUnique
<1>6. t \in 0..((((Radix * Radix) * Radix) * Radix) - 1)
  <2> HIDE DEF n3
  <2> QED BY <1>1, <1>4, Below
<1>7. t % Radix = v4 /\ t \div Radix = n3
  <2> HIDE DEF n3
  <2> QED BY <1>1, <1>5, <1>6, ModUnique, DivUnique
<1>8. v1 % Radix = v1
  <2>1. ((0 * Radix) + v1) % Radix = v1
    BY <1>1, ModUnique
  <2>2. (0 * Radix) + v1 = v1
    BY <1>1
  <2> QED BY <2>1, <2>2
<1>9. t = Number(v1, v2, v3, v4)
  BY DEF Number
<1> HIDE DEF n2, n3, t
<1>10. Digit(t, 1) = v1 /\ Digit(t, 2) = v2 /\ Digit(t, 3) = v3 /\ Digit(t, 4) = v4
  BY <1>3, <1>5, <1>7, <1>8 DEF Digit
<1> QED BY <1>6, <1>9, <1>10, SameSize

\* A number of that size is what its digits make.
LEMMA NumberOfDigits ==
    ASSUME NEW t \in 0..(((Byte * Byte) * Byte) - 1)
    PROVE  /\ \A k \in 1..4 : Digit(t, k) \in Symbols
           /\ t = Number(Digit(t, 1), Digit(t, 2), Digit(t, 3), Digit(t, 4))
<1>1. Radix \in Nat \ {0} /\ Radix * Radix \in Nat \ {0} /\ (Radix * Radix) * Radix \in Nat \ {0}
  <2>1. \A u, v \in Nat \ {0} : u * v \in Nat \ {0}
    OBVIOUS
  <2> QED BY <2>1, Widths
<1> DEFINE n3 == t \div Radix
           n2 == n3 \div Radix
           n1 == n2 \div Radix
<1>2. t \in 0..((((Radix * Radix) * Radix) * Radix) - 1)
  BY SameSize
<1>3. n3 \in 0..(((Radix * Radix) * Radix) - 1)
  BY <1>1, <1>2, QuotientBelow
<1>4. n2 \in 0..((Radix * Radix) - 1)
  <2> HIDE DEF n3
  <2> QED BY <1>1, <1>3, QuotientBelow
<1>5. n1 \in 0..(Radix - 1)
  <2> HIDE DEF n2
  <2> QED BY <1>1, <1>4, QuotientBelow
<1> HIDE DEF n3, n2, n1
<1>6. n1 % Radix = n1
  <2>1. ((0 * Radix) + n1) % Radix = n1
    BY <1>1, <1>5, ModUnique
  <2>2. (0 * Radix) + n1 = n1
    BY <1>1, <1>5
  <2> QED BY <2>1, <2>2
<1>7. t % Radix \in 0..(Radix - 1) /\ t = (n3 * Radix) + (t % Radix)
  BY <1>1, <1>2, DivMod DEF n3
<1>8. n3 % Radix \in 0..(Radix - 1) /\ n3 = (n2 * Radix) + (n3 % Radix)
  BY <1>1, <1>3, DivMod DEF n2
<1>9. n2 % Radix \in 0..(Radix - 1) /\ n2 = (n1 * Radix) + (n2 % Radix)
  BY <1>1, <1>4, DivMod DEF n1
<1>10. Digit(t, 1) = n1 /\ Digit(t, 2) = n2 % Radix /\ Digit(t, 3) = n3 % Radix /\ Digit(t, 4) = t % Radix
  BY <1>6 DEF Digit, n1, n2, n3
<1>11. \A k \in 1..4 : k = 1 \/ k = 2 \/ k = 3 \/ k = 4
  OBVIOUS
<1>12. \A k \in 1..4 : Digit(t, k) \in Symbols
  BY <1>5, <1>7, <1>8, <1>9, <1>10, <1>11 DEF Symbols
<1>13. t = Number(n1, n2 % Radix, n3 % Radix, t % Radix)
  BY <1>7, <1>8, <1>9, Zenon DEF Number
<1> QED BY <1>10, <1>12, <1>13, Zenon

\* The bytes of a number, and the number of three bytes.
LEMMA BytesOfNumber ==
    ASSUME NEW t \in 0..(((Byte * Byte) * Byte) - 1)
    PROVE  /\ \A k \in 1..3 : bytes(t, k) \in Bytes
           /\ t = Joined(bytes(t, 1), bytes(t, 2), bytes(t, 3))
<1>1. Byte \in Nat \ {0} /\ Byte * Byte \in Nat \ {0}
  <2>1. \A u, v \in Nat \ {0} : u * v \in Nat \ {0}
    OBVIOUS
  <2> QED BY <2>1, Widths
<1> DEFINE n2 == t \div Byte
           n1 == n2 \div Byte
<1>2. n2 \in 0..((Byte * Byte) - 1)
  BY <1>1, QuotientBelow
<1>3. n1 \in 0..(Byte - 1)
  <2> HIDE DEF n2
  <2> QED BY <1>1, <1>2, QuotientBelow
<1> HIDE DEF n2, n1
<1>4. n1 % Byte = n1
  <2>1. ((0 * Byte) + n1) % Byte = n1
    BY <1>1, <1>3, ModUnique
  <2>2. (0 * Byte) + n1 = n1
    BY <1>1, <1>3
  <2> QED BY <2>1, <2>2
<1>5. t % Byte \in 0..(Byte - 1) /\ t = (n2 * Byte) + (t % Byte)
  BY <1>1, DivMod DEF n2
<1>6. n2 % Byte \in 0..(Byte - 1) /\ n2 = (n1 * Byte) + (n2 % Byte)
  BY <1>1, <1>2, DivMod DEF n1
<1>7. bytes(t, 1) = n1 /\ bytes(t, 2) = n2 % Byte /\ bytes(t, 3) = t % Byte
  BY <1>4 DEF bytes, n1, n2
<1>8. \A k \in 1..3 : k = 1 \/ k = 2 \/ k = 3
  OBVIOUS
<1>9. \A k \in 1..3 : bytes(t, k) \in Bytes
  BY <1>3, <1>5, <1>6, <1>7, <1>8 DEF Bytes
<1>10. t = Joined(n1, n2 % Byte, t % Byte)
  BY <1>5, <1>6, Zenon DEF Joined
<1> QED BY <1>7, <1>9, <1>10, Zenon

\* The bytes of the number that three bytes make are the bytes.
LEMMA NumberOfBytes ==
    ASSUME NEW b1 \in Bytes, NEW b2 \in Bytes, NEW b3 \in Bytes
    PROVE  LET t == Joined(b1, b2, b3)
           IN  /\ t \in 0..(((Byte * Byte) * Byte) - 1)
               /\ bytes(t, 1) = b1 /\ bytes(t, 2) = b2 /\ bytes(t, 3) = b3
<1>1. Byte \in Nat \ {0} /\ Byte * Byte \in Nat \ {0}
  <2>1. \A u, v \in Nat \ {0} : u * v \in Nat \ {0}
    OBVIOUS
  <2> QED BY <2>1, Widths
<1> USE DEF Bytes
<1> DEFINE n2 == (b1 * Byte) + b2
           t == (n2 * Byte) + b3
<1>2. n2 \in 0..((Byte * Byte) - 1)
  BY <1>1, Below
<1>3. n2 \in Int /\ n2 % Byte = b2 /\ n2 \div Byte = b1
  BY <1>1, <1>2, ModUnique, DivUnique
<1>4. t \in 0..(((Byte * Byte) * Byte) - 1)
  <2> HIDE DEF n2
  <2> QED BY <1>1, <1>2, Below
<1>5. t % Byte = b3 /\ t \div Byte = n2
  <2> HIDE DEF n2
  <2> QED BY <1>1, <1>3, <1>4, ModUnique, DivUnique
<1>6. b1 % Byte = b1
  <2>1. ((0 * Byte) + b1) % Byte = b1
    BY <1>1, ModUnique
  <2>2. (0 * Byte) + b1 = b1
    BY <1>1
  <2> QED BY <2>1, <2>2
<1>7. t = Joined(b1, b2, b3)
  BY DEF Joined
<1> HIDE DEF n2, t
<1>8. bytes(t, 1) = b1 /\ bytes(t, 2) = b2 /\ bytes(t, 3) = b3
  BY <1>3, <1>5, <1>6 DEF bytes
<1> QED BY <1>4, <1>7, <1>8

(***************************************************************************)
(* Symbols that are only partly used: the bytes that they do not hold, and *)
(* the digits that hold no byte, are zero.                                 *)
(***************************************************************************)

\* Two left over bits that are zero: the third byte is none.
LEMMA OneByteShort ==
    ASSUME NEW v1 \in Symbols, NEW v2 \in Symbols, NEW v3 \in Symbols, v3 % Unit = 0
    PROVE  bytes(Number(v1, v2, v3, 0), 3) = 0
<1> DEFINE n2 == (v1 * Radix) + v2
           u == v3 \div Unit
           m == ((n2 * Unit) * Unit) + u
<1>1. Unit \in Nat \ {0} /\ Radix \in Nat \ {0} /\ Byte \in Nat \ {0}
  BY Widths
<1>2. v1 \in Int /\ v2 \in Int /\ v3 \in Int
  BY <1>1 DEF Symbols
<1>3. u \in Int /\ v3 = u * Unit
  <2>1. u \in Int /\ v3 = (u * Unit) + 0
    BY <1>1, <1>2, DivMod
  <2> HIDE DEF u
  <2>2. u * Unit \in Int
    BY <1>1, <2>1
  <2> QED BY <2>1, <2>2
<1>4. n2 \in Int
  BY <1>1, <1>2
<1> HIDE DEF n2, u
<1>5. m \in Int
  BY <1>1, <1>3, <1>4
<1>6. /\ \A w, x, y \in Int : (x * ((w * w) * w)) + (y * w) = (((x * w) * w) + y) * w
      /\ \A w, r, z \in Int : ((z * w) * r) + 0 = z * (w * r)
  OBVIOUS
<1>7. Number(v1, v2, v3, 0) = (((n2 * Radix) + v3) * Radix) + 0
  BY Zenon DEF Number, n2
<1>8. Number(v1, v2, v3, 0) = m * Byte
  <2>1. Unit \in Int /\ Radix \in Int
    BY <1>1
  <2>2. (n2 * ((Unit * Unit) * Unit)) + (u * Unit) = m * Unit
    BY <1>3, <1>4, <1>6, <2>1, Zenon
  <2> HIDE DEF m
  <2>3. ((m * Unit) * Radix) + 0 = m * (Unit * Radix)
    BY <1>5, <1>6, <2>1, Zenon
  <2>4. Radix = (Unit * Unit) * Unit /\ Byte = Unit * Radix
    BY Widths
  <2>5. (n2 * Radix) + v3 = m * Unit
    BY <1>3, <2>2, <2>4, Zenon
  <2>6. ((m * Unit) * Radix) + 0 = m * Byte
    BY <2>3, <2>4, Zenon
  <2> QED BY <1>7, <2>5, <2>6, Zenon
<1> HIDE DEF m
<1>10. (m * Byte) % Byte = 0
  BY <1>1, <1>5, Multiple, Zenon
<1>11. bytes(Number(v1, v2, v3, 0), 3) = Number(v1, v2, v3, 0) % Byte
  BY DEF bytes
<1> QED BY <1>8, <1>10, <1>11, Zenon

\* Four left over bits that are zero: the second and the third byte are none.
LEMMA TwoBytesShort ==
    ASSUME NEW v1 \in Symbols, NEW v2 \in Symbols, v2 % (Unit * Unit) = 0
    PROVE  /\ bytes(Number(v1, v2, 0, 0), 2) = 0
           /\ bytes(Number(v1, v2, 0, 0), 3) = 0
<1> DEFINE u == v2 \div (Unit * Unit)
           m == (v1 * Unit) + u
           n == m * Byte
<1>1. Unit \in Nat \ {0} /\ Radix \in Nat \ {0} /\ Byte \in Nat \ {0} /\ Unit * Unit \in Nat \ {0}
  <2>1. \A w, x \in Nat \ {0} : w * x \in Nat \ {0}
    OBVIOUS
  <2> QED BY <2>1, Widths
<1>2. v1 \in Int /\ v2 \in Int
  BY <1>1 DEF Symbols
<1>3. u \in Int /\ v2 = u * (Unit * Unit)
  <2>1. u \in Int /\ v2 = (u * (Unit * Unit)) + 0
    BY <1>1, <1>2, DivMod
  <2> HIDE DEF u
  <2>2. u * (Unit * Unit) \in Int
    BY <1>1, <2>1
  <2> QED BY <2>1, <2>2
<1> HIDE DEF u
<1>4. m \in Int
  BY <1>1, <1>2, <1>3
<1>5. /\ \A w, r \in Nat : r = (w * w) * w => \A x, y \in Int :
            (x * r) + (y * (w * w)) = ((x * w) + y) * (w * w)
      /\ \A w, r \in Nat : \A z \in Int :
            ((((z * (w * w)) * r) + 0) * r) + 0 = (z * (w * r)) * (w * r)
  OBVIOUS
<1>6. Number(v1, v2, 0, 0) = n * Byte
  <2>1. Unit \in Nat /\ Radix \in Nat /\ Byte \in Nat
    BY <1>1
  <2>2. Radix = (Unit * Unit) * Unit /\ Byte = Unit * Radix
    BY Widths
  <2>3. \A x, y \in Int : (x * Radix) + (y * (Unit * Unit)) = ((x * Unit) + y) * (Unit * Unit)
    BY <1>5, <2>1, <2>2, Zenon
  <2>4. \A z \in Int : ((((z * (Unit * Unit)) * Radix) + 0) * Radix) + 0 = (z * Byte) * Byte
    <3>1. \A z \in Int : ((((z * (Unit * Unit)) * Radix) + 0) * Radix) + 0
                           = (z * (Unit * Radix)) * (Unit * Radix)
      BY <1>5, <2>1, Zenon
    <3> QED BY <2>2, <3>1, Zenon
  <2>5. (v1 * Radix) + v2 = m * (Unit * Unit)
    BY <1>2, <1>3, <2>3, Zenon
  <2> HIDE DEF m
  <2> QED BY <1>4, <2>4, <2>5, Zenon DEF Number
<1> HIDE DEF m
<1>7. n \in Int
  BY <1>1, <1>4
<1>8. n % Byte = 0
  BY <1>1, <1>4, Multiple, Zenon
<1> HIDE DEF n
<1>9. (n * Byte) % Byte = 0 /\ (n * Byte) \div Byte = n
  BY <1>1, <1>7, Multiple, Zenon
<1> DEFINE t == Number(v1, v2, 0, 0)
<1>10. bytes(t, 3) = t % Byte /\ bytes(t, 2) = (t \div Byte) % Byte
  BY DEF bytes
<1> QED BY <1>6, <1>8, <1>9, <1>10, Zenon

\* Two bytes: the fourth digit is none, and the third one holds two zero bits.
LEMMA OneDigitShort ==
    ASSUME NEW b1 \in Bytes, NEW b2 \in Bytes
    PROVE  /\ Digit(Joined(b1, b2, 0), 4) = 0
           /\ Digit(Joined(b1, b2, 0), 3) % Unit = 0
<1> DEFINE x == (b1 * Byte) + b2
           n == x * Unit
           t == Joined(b1, b2, 0)
           q == n \div Radix
           d == n % Radix
<1>1. Unit \in Nat \ {0} /\ Radix \in Nat \ {0} /\ Byte \in Nat \ {0}
  BY Widths
<1>2. x \in Int
  BY <1>1 DEF Bytes
<1>3. t = (x * Byte) + 0
  BY Zenon DEF Joined
<1> HIDE DEF x
<1>4. n \in Int
  BY <1>1, <1>2
<1>5. \A w, r, b \in Nat : b = w * r => \A y \in Int : (y * b) + 0 = (y * w) * r
  OBVIOUS
<1>6. t = n * Radix
  <2>1. Unit \in Nat /\ Radix \in Nat /\ Byte \in Nat
    BY <1>1
  <2>2. \A y \in Int : (y * Byte) + 0 = (y * Unit) * Radix
    BY <1>5, <2>1, Widths, Zenon
  <2>3. (x * Byte) + 0 = n * Radix
    BY <1>2, <2>2, Zenon
  <2> QED BY <1>3, <2>3, Zenon
<1>7. t % Radix = 0 /\ t \div Radix = n
  <2> HIDE DEF n
  <2>1. (n * Radix) % Radix = 0 /\ (n * Radix) \div Radix = n
    BY <1>1, <1>4, Multiple, Zenon
  <2> QED BY <2>1, <1>6, Zenon
<1> HIDE DEF t
<1>8. q \in Int /\ d \in Int /\ n = (q * Radix) + d
  <2> HIDE DEF n
  <2> QED BY <1>1, <1>4, DivMod
<1> HIDE DEF q, d
<1>9. d = (x - ((q * Unit) * Unit)) * Unit
  <2>1. \A w, r \in Nat : r = (w * w) * w => \A y, e, f \in Int : y * w = (e * r) + f =>
          f = (y - ((e * w) * w)) * w
    OBVIOUS
  <2>2. Unit \in Nat /\ Radix \in Nat
    BY <1>1
  <2>3. \A y, e, f \in Int : y * Unit = (e * Radix) + f =>
          f = (y - ((e * Unit) * Unit)) * Unit
    BY <2>1, <2>2, Widths, Zenon
  <2> QED BY <2>3, <1>2, <1>8, Zenon
<1>10. d % Unit = 0
  <2> DEFINE z == x - ((q * Unit) * Unit)
  <2>1. z \in Int
    BY <1>1, <1>2, <1>8
  <2> HIDE DEF z
  <2>2. (z * Unit) % Unit = 0
    BY <1>1, <2>1, Multiple, Zenon
  <2> QED BY <1>9, <2>2, Zenon DEF z
<1>11. Digit(t, 4) = t % Radix /\ Digit(t, 3) = (t \div Radix) % Radix
  BY DEF Digit
<1>12. Digit(t, 3) = d
  BY <1>7, <1>11, Zenon DEF d
<1> QED BY <1>7, <1>10, <1>11, <1>12, Zenon DEF t

\* One byte: two digits are none, and the second one holds four zero bits.
LEMMA TwoDigitsShort ==
    ASSUME NEW b1 \in Bytes
    PROVE  /\ Digit(Joined(b1, 0, 0), 4) = 0 /\ Digit(Joined(b1, 0, 0), 3) = 0
           /\ Digit(Joined(b1, 0, 0), 2) % (Unit * Unit) = 0
<1> DEFINE t == Joined(b1, 0, 0)
           m == (b1 * Unit) * Unit
           n == m * Radix
           q == m \div Radix
           d == m % Radix
<1>1. /\ Unit \in Nat \ {0} /\ Radix \in Nat \ {0} /\ Byte \in Nat \ {0} /\ Unit * Unit \in Nat \ {0}
  <2>1. \A w, x \in Nat \ {0} : w * x \in Nat \ {0}
    OBVIOUS
  <2> QED BY <2>1, Widths
<1>2. b1 \in Int
  BY <1>1 DEF Bytes
<1>3. m \in Int
  BY <1>1, <1>2
<1>4. /\ \A w, r, y \in Int : (y * (w * r)) * (w * r) = (((y * w) * w) * r) * r
      /\ \A b, y \in Int : (((y * b) + 0) * b) + 0 = (y * b) * b
  OBVIOUS
<1>5. t = n * Radix
  <2>1. Unit \in Int /\ Radix \in Int /\ Byte \in Int
    BY <1>1
  <2>2. (((b1 * Byte) + 0) * Byte) + 0 = (b1 * Byte) * Byte
    BY <1>2, <1>4, <2>1, Zenon
  <2>3. (b1 * (Unit * Radix)) * (Unit * Radix) = (((b1 * Unit) * Unit) * Radix) * Radix
    BY <1>2, <1>4, <2>1, Zenon
  <2>4. Byte = Unit * Radix
    BY Widths
  <2> QED BY <2>2, <2>3, <2>4, Zenon DEF Joined
<1> HIDE DEF m, t
<1>6. n \in Int
  BY <1>1, <1>3
<1>7. n % Radix = 0 /\ n \div Radix = m
  BY <1>1, <1>3, Multiple, Zenon
<1> HIDE DEF n
<1>8. t % Radix = 0 /\ t \div Radix = n
  <2>1. (n * Radix) % Radix = 0 /\ (n * Radix) \div Radix = n
    BY <1>1, <1>6, Multiple, Zenon
  <2> QED BY <2>1, <1>5, Zenon
<1>9. q \in Int /\ d \in Int /\ m = (q * Radix) + d
  BY <1>1, <1>3, DivMod
<1> HIDE DEF q, d
<1>10. d = (b1 - (q * Unit)) * (Unit * Unit)
  <2>1. \A w, r \in Nat : r = (w * w) * w => \A y, e, f \in Int : (y * w) * w = (e * r) + f =>
          f = (y - (e * w)) * (w * w)
    OBVIOUS
  <2>2. Unit \in Nat /\ Radix \in Nat
    BY <1>1
  <2>3. (b1 * Unit) * Unit = (q * Radix) + d
    BY <1>9 DEF m
  <2>4. \A y, e, f \in Int : (y * Unit) * Unit = (e * Radix) + f =>
          f = (y - (e * Unit)) * (Unit * Unit)
    BY <2>1, <2>2, Widths, Zenon
  <2> QED BY <2>3, <2>4, <1>2, <1>9, Zenon
<1>11. d % (Unit * Unit) = 0
  <2> DEFINE z == b1 - (q * Unit)
             w == Unit * Unit
  <2>1. z \in Int /\ w \in Nat \ {0}
    BY <1>1, <1>2, <1>9
  <2> HIDE DEF z, w
  <2>3. (z * w) % w = 0
    BY <2>1, Multiple, Zenon
  <2> QED BY <1>10, <2>3, Zenon DEF z, w
<1>12. /\ Digit(t, 4) = t % Radix /\ Digit(t, 3) = (t \div Radix) % Radix
       /\ Digit(t, 2) = ((t \div Radix) \div Radix) % Radix
  BY DEF Digit
<1>13. Digit(t, 2) = d
  BY <1>7, <1>8, <1>12, Zenon DEF d
<1> QED BY <1>7, <1>8, <1>11, <1>12, <1>13, Zenon DEF t

(***************************************************************************)
(* Fields: what the text search returns stands between two quotes of the   *)
(* body behind the quoted key, and fills the buffer where it was cut.      *)
(***************************************************************************)

\* The copy out of a body keeps a text that fits, and fills the buffer with any other.
LEMMA CutText ==
    ASSUME NEW t \in Returned, NEW room \in Nat
    PROVE  /\ Cut(t, room) \in Returned
           /\ Len(Cut(t, room).chars) # room => Cut(t, room).chars = t.chars
<1> DEFINE n == IF Len(t.chars) <= room THEN Len(t.chars) ELSE room
<1>1. t.chars \in Seq(Symbol)
  BY DEF Returned
<1>2. Len(t.chars) \in Nat /\ n \in 0..Len(t.chars)
  BY <1>1
<1>3. Min({Len(t.chars), room}) = n
  BY <1>2, LesserOfTwo
<1>4. Cut(t, room) = [t EXCEPT !.chars = SubSeq(t.chars, 1, n)]
  BY <1>3 DEF Cut
<1> HIDE DEF n
<1>5. SubSeq(t.chars, 1, n) \in Seq(Symbol) /\ Len(SubSeq(t.chars, 1, n)) = n
  BY <1>1, <1>2
<1>6. n = Len(t.chars) => SubSeq(t.chars, 1, n) = t.chars
  BY <1>1
<1>7. Cut(t, room) \in Returned /\ Cut(t, room).chars = SubSeq(t.chars, 1, n)
  BY <1>4, <1>5 DEF Returned
<1> QED BY <1>5, <1>6, <1>7 DEF n

\* What a handler can be asked.
LEMMA BodyTyped ==
    ASSUME order \in Handlers, body \in Bodies[order]
    PROVE  /\ order \in Seq(Field) /\ body \in Body /\ body.json \in Seq(Symbol)
           /\ \A f \in Field : Room[f] \in Nat /\ Spelling[f] \in Seq(Symbol)
<1>1. order \in Seq(Field) /\ body \in Body
  BY FieldsAssumption
<1> QED BY <1>1, FieldsAssumption DEF Body

\* Where strchr() and strstr() find what they look for.
LEMMA CharFound ==
    ASSUME NEW s \in Seq(Symbol), NEW p \in Nat \ {0}, NEW S, strchr(s, p, S) # 0
    PROVE  strchr(s, p, S) \in p..Len(s) /\ s[strchr(s, p, S)] \in S
<1> DEFINE places == {n \in p..Len(s) : s[n] \in S}
<1>1. places # {} /\ strchr(s, p, S) = Min(places)
  BY DEF strchr
<1>2. places \in SUBSET Nat
  BY DEF places
<1>3. Min(places) \in places
  BY <1>1, <1>2, Least
<1> QED BY <1>1, <1>3

LEMMA KeyFound ==
    ASSUME NEW s \in Seq(Symbol), NEW f \in Field, strstr(s, f) # 0
    PROVE  strstr(s, f) \in Nat \ {0} /\ strstr(s, f) \in Hits(s, f)
<1>1. Hits(s, f) # {} /\ strstr(s, f) = Min(Hits(s, f))
  BY DEF strstr
<1>2. Hits(s, f) \in SUBSET Nat
  BY DEF Hits
<1>3. Min(Hits(s, f)) \in Hits(s, f)
  BY <1>1, <1>2, Least
<1> QED BY <1>1, <1>2, <1>3

\* Both quotes are in the body, behind the quoted key.
LEMMA BetweenQuotes ==
    ASSUME NEW s \in Seq(Symbol), NEW f \in Field, CloseAt(s, f) # 0
    PROVE  /\ OpenAt(s, f) \in Nat \ {0} /\ CloseAt(s, f) \in (OpenAt(s, f) + 1)..Len(s)
           /\ s[OpenAt(s, f)] = Quote /\ s[CloseAt(s, f)] = Quote
           /\ \E k \in Hits(s, f) : k < OpenAt(s, f)
<1> DEFINE k == strstr(s, f)
           c == ColonAt(s, f)
           o == OpenAt(s, f)
           e == CloseAt(s, f)
<1>1. o # 0 /\ s[o] = Quote /\ e = strchr(s, o + 1, {Quote})
  BY DEF CloseAt
<1>2. c # 0 /\ o = strchr(s, c + 1, Symbol \ {Blank})
  BY <1>1 DEF OpenAt
<1>3. k # 0 /\ c = strchr(s, k, {Colon})
  BY <1>2 DEF ColonAt
<1> HIDE DEF k, c, o, e
<1>4. k \in Nat \ {0} /\ k \in Hits(s, f)
  BY <1>3, KeyFound DEF k
<1>5. c \in k..Len(s)
  BY <1>2, <1>3, <1>4, CharFound
<1>6. c + 1 \in Nat \ {0}
  BY <1>4, <1>5
<1>7. o \in (c + 1)..Len(s)
  BY <1>1, <1>2, <1>6, CharFound
<1>8. o \in Nat \ {0} /\ o + 1 \in Nat \ {0} /\ k < o
  BY <1>4, <1>5, <1>7
<1>9. e \in (o + 1)..Len(s) /\ s[e] \in {Quote}
  BY <1>1, <1>8, CharFound DEF e
<1> QED BY <1>1, <1>4, <1>8, <1>9 DEF o, e

LEMMA AskedTyped ==
    ASSUME NEW s \in Seq(Symbol), NEW f \in Field, Room[f] \in Nat
    PROVE  json_get_string(s, f) \in Returned
<1>1. CASE CloseAt(s, f) = 0
  BY <1>1 DEF json_get_string, Missing, Returned
<1>2. CASE CloseAt(s, f) # 0
  <2> DEFINE t == SubSeq(s, OpenAt(s, f) + 1, CloseAt(s, f) - 1)
  <2>1. t \in Seq(Symbol)
    BY <1>2, BetweenQuotes
  <2> HIDE DEF t
  <2>2. Found(t) \in Returned
    BY <2>1 DEF Found, Returned
  <2>3. json_get_string(s, f) = Cut(Found(t), Room[f])
    BY <1>2 DEF json_get_string, t
  <2> QED BY <2>2, <2>3, CutText
<1> QED BY <1>1, <1>2

\* A text that was found and not cut stands in the body.
LEMMA FoundStands ==
    ASSUME order \in Handlers, body \in Bodies[order], NEW f \in Field,
           NEW t, t = json_get_string(body.json, f), t # Missing, Len(t.chars) # Room[f]
    PROVE  Stands(f, t.chars)
<1> DEFINE s == body.json
           o == OpenAt(s, f)
           e == CloseAt(s, f)
           x == SubSeq(s, o + 1, e - 1)
<1>1. s \in Seq(Symbol) /\ Room[f] \in Nat
  BY BodyTyped
<1>2. e # 0 /\ t = Cut(Found(x), Room[f])
  BY DEF json_get_string
<1>3. /\ o \in Nat \ {0} /\ e \in (o + 1)..Len(s) /\ s[o] = Quote /\ s[e] = Quote
      /\ \E k \in Hits(s, f) : k < o
  BY <1>1, <1>2, BetweenQuotes
<1> HIDE DEF o, e, s
<1>4. x \in Seq(Symbol) /\ Len(x) = e - o - 1 /\ \A n \in 1..Len(x) : x[n] = s[o + n]
  BY <1>1, <1>3
<1> HIDE DEF x
<1>5. Found(x) \in Returned /\ Found(x).chars = x
  BY <1>4 DEF Found, Returned
<1>6. t.chars = x
  BY <1>1, <1>2, <1>5, CutText
<1>7. SubSeq(s, o, o + Len(x) + 1) = <<Quote>> \o x \o <<Quote>>
  <2>1. o + Len(x) + 1 = e /\ Len(x) \in Nat
    BY <1>1, <1>3, <1>4
  <2> DEFINE a == SubSeq(s, o, e)
             b == <<Quote>> \o x \o <<Quote>>
  <2>2. a \in Seq(Symbol) /\ Len(a) = Len(x) + 2 /\ \A n \in 1..(Len(x) + 2) : a[n] = s[o + n - 1]
    BY <1>1, <1>3, <2>1
  <2>3. Quote \in Symbol
    BY Widths DEF Quote, Symbol, Alien
  <2>4. /\ b \in Seq(Symbol) /\ Len(b) = Len(x) + 2
        /\ b[1] = Quote /\ b[Len(x) + 2] = Quote
        /\ \A n \in 2..(Len(x) + 1) : b[n] = x[n - 1]
    BY <1>4, <2>1, <2>3
  <2> HIDE DEF a, b
  <2>5. ASSUME NEW n \in 1..(Len(x) + 2) PROVE a[n] = b[n]
    <3>1. CASE n = 1
      BY <1>3, <2>1, <2>2, <2>4, <3>1
    <3>2. CASE n = Len(x) + 2
      <4>1. o + n - 1 = e
        BY <1>3, <2>1, <3>2
      <4> QED BY <1>3, <2>1, <2>2, <2>4, <3>2, <4>1
    <3>3. CASE n \in 2..(Len(x) + 1)
      <4>1. n - 1 \in 1..Len(x) /\ o + (n - 1) = o + n - 1
        BY <1>3, <2>1, <3>3
      <4> QED BY <1>4, <2>2, <2>4, <3>3, <4>1
    <3> QED BY <2>1, <3>1, <3>2, <3>3
  <2>6. a = b
    BY <2>1, <2>2, <2>4, <2>5
  <2> QED BY <2>1, <2>6 DEF a, b
<1>8. o \in DOMAIN s /\ o + Len(x) + 1 <= Len(s)
  BY <1>1, <1>3, <1>4
<1> QED BY <1>3, <1>6, <1>7, <1>8 DEF Stands, s

(***************************************************************************)
(* Texts: the encoding of a sequence of bytes, group by group.             *)
(***************************************************************************)

\* The place of a symbol is its quartet and the place in it.
LEMMA Fours ==
    /\ \A m \in Nat : \A n \in 1..(4 * m) : \E g \in 0..(m - 1), k \in 1..4 : n = (4 * g) + k
    /\ \A g \in Nat : \A k \in 1..4 : /\ (((4 * g) + k) - 1) \div 4 = g
                                    /\ ((((4 * g) + k) - 1) % 4) + 1 = k
<1>1. ASSUME NEW m \in Nat, NEW n \in 1..(4 * m)
      PROVE  \E g \in 0..(m - 1), k \in 1..4 : n = (4 * g) + k
  <2> DEFINE q == (n - 1) \div 4
             r == (n - 1) % 4
  <2>1. n - 1 \in Int /\ 4 \in Nat \ {0}
    OBVIOUS
  <2>2. q \in Int /\ r \in 0..3 /\ n - 1 = (q * 4) + r
    <3>1. q \in Int /\ r \in 0..(4 - 1) /\ n - 1 = (q * 4) + r
      BY <2>1, DivMod
    <3>2. 4 - 1 = 3
      OBVIOUS
    <3> QED BY <3>1, <3>2
  <2> HIDE DEF q, r
  <2>3. q \in 0..(m - 1) /\ r + 1 \in 1..4 /\ n = (4 * q) + (r + 1)
    BY <2>2
  <2> QED BY <2>3
<1>2. ASSUME NEW g \in Nat, NEW k \in 1..4
      PROVE  (((4 * g) + k) - 1) \div 4 = g /\ ((((4 * g) + k) - 1) % 4) + 1 = k
  <2> DEFINE r == k - 1
  <2>1. r \in 0..(4 - 1) /\ g \in Int /\ 4 \in Nat \ {0}
    OBVIOUS
  <2>2. ((4 * g) + k) - 1 = (g * 4) + r /\ r + 1 = k
    OBVIOUS
  <2> HIDE DEF r
  <2>3. ((g * 4) + r) \div 4 = g /\ ((g * 4) + r) % 4 = r
    BY <2>1, ModUnique, DivUnique
  <2> QED BY <2>2, <2>3
<1> QED BY <1>1, <1>2

\* The place of a byte is its group and the place in it.
LEMMA Threes ==
    ASSUME NEW m \in Nat, NEW n \in 1..(3 * m)
    PROVE  \E g \in 0..(m - 1), k \in 1..3 : n = (3 * g) + k
<1> DEFINE q == (n - 1) \div 3
           r == (n - 1) % 3
<1>1. n - 1 \in Int /\ 3 \in Nat \ {0}
  OBVIOUS
<1>2. q \in Int /\ r \in 0..2 /\ n - 1 = (q * 3) + r
  <2>1. q \in Int /\ r \in 0..(3 - 1) /\ n - 1 = (q * 3) + r
    BY <1>1, DivMod
  <2>2. 3 - 1 = 2
    OBVIOUS
  <2> QED BY <2>1, <2>2
<1> HIDE DEF q, r
<1>3. q \in 0..(m - 1) /\ r + 1 \in 1..3 /\ n = (3 * q) + (r + 1)
  BY <1>2
<1> QED BY <1>3

\* How many groups some bytes make: the one number of threes that holds them tightly.
LEMMA Thirds ==
    ASSUME NEW l \in Nat
    PROVE  /\ (l + 2) \div 3 \in Nat
           /\ l <= 3 * ((l + 2) \div 3) /\ 3 * ((l + 2) \div 3) <= l + 2
           /\ \A m \in Nat : l <= 3 * m /\ 3 * m <= l + 2 => (l + 2) \div 3 = m
<1> DEFINE q == (l + 2) \div 3
           r == (l + 2) % 3
<1>1. q \in Int /\ r \in 0..2 /\ l + 2 = (q * 3) + r
  <2>1. l + 2 \in Int /\ 3 \in Nat \ {0} /\ 3 - 1 = 2
    OBVIOUS
  <2>2. q \in Int /\ r \in 0..(3 - 1) /\ l + 2 = (q * 3) + r
    BY <2>1, DivMod
  <2> QED BY <2>1, <2>2
<1> HIDE DEF q, r
<1>2. q \in Nat /\ l <= 3 * q /\ 3 * q <= l + 2
  BY <1>1
<1>3. \A m \in Nat : l <= 3 * m /\ 3 * m <= l + 2 => q = m
  BY <1>2
<1> QED BY <1>2, <1>3 DEF q

Groups(b) == (Len(b) + 2) \div 3
At(b, n) == IF n <= Len(b) THEN b[n] ELSE 0

\* A group is the number of its bytes, those that are missing being zero.
LEMMA GroupJoined ==
    ASSUME NEW b \in Seq(Bytes), NEW g \in Nat
    PROVE  /\ \A n \in Nat \ {0} : At(b, n) \in Bytes
           /\ Group(b, g) = Joined(At(b, (3 * g) + 1), At(b, (3 * g) + 2), At(b, (3 * g) + 3))
           /\ Group(b, g) \in 0..(((Byte * Byte) * Byte) - 1)
           /\ \A k \in 1..3 : bytes(Group(b, g), k) = At(b, (3 * g) + k)
<1>1. 0 \in Bytes
  BY Widths DEF Bytes
<1>2. \A n \in Nat \ {0} : At(b, n) \in Bytes
  BY <1>1 DEF At
<1> DEFINE a1 == At(b, (3 * g) + 1)
           a2 == At(b, (3 * g) + 2)
           a3 == At(b, (3 * g) + 3)
<1>3. Group(b, g) = Joined(a1, a2, a3)
  BY Zenon DEF Group, Joined, At
<1>4. a1 \in Bytes /\ a2 \in Bytes /\ a3 \in Bytes
  <2>1. (3 * g) + 1 \in Nat \ {0} /\ (3 * g) + 2 \in Nat \ {0} /\ (3 * g) + 3 \in Nat \ {0}
    OBVIOUS
  <2> QED BY <1>2, <2>1, Zenon
<1>5. \A k \in 1..3 : k = 1 \/ k = 2 \/ k = 3
  OBVIOUS
<1>6. /\ Joined(a1, a2, a3) \in 0..(((Byte * Byte) * Byte) - 1)
      /\ bytes(Joined(a1, a2, a3), 1) = a1 /\ bytes(Joined(a1, a2, a3), 2) = a2
      /\ bytes(Joined(a1, a2, a3), 3) = a3
  <2> HIDE DEF a1, a2, a3
  <2> QED BY <1>4, NumberOfBytes
<1>7. \A k \in 1..3 : bytes(Group(b, g), k) = At(b, (3 * g) + k)
  BY <1>3, <1>5, <1>6, Zenon
<1> QED BY <1>2, <1>3, <1>6, <1>7, Zenon

\* The length of an encoding and what it has at each place.
LEMMA EncodeAt ==
    ASSUME NEW b \in Seq(Bytes)
    PROVE  /\ Groups(b) \in Nat
           /\ Encode(b) \in Seq(Symbol) /\ Len(Encode(b)) = 4 * Groups(b)
           /\ \A g \in 0..(Groups(b) - 1) : \A k \in 1..4 :
                 (4 * g) + k \in 1..Len(Encode(b)) /\ Encode(b)[(4 * g) + k] = Encoded(b, g, k)
<1> DEFINE m == Groups(b)
<1>1. m \in Nat
  BY Thirds DEF Groups
<1>2. Encode(b) = [n \in 1..(4 * m) |-> Encoded(b, (n - 1) \div 4, ((n - 1) % 4) + 1)]
  BY DEF Encode, Groups
<1> HIDE DEF m
<1>3. \A g \in 0..(m - 1) : \A k \in 1..4 :
        (4 * g) + k \in 1..(4 * m) /\ Encode(b)[(4 * g) + k] = Encoded(b, g, k)
  <2> SUFFICES ASSUME NEW g \in 0..(m - 1), NEW k \in 1..4
               PROVE  (4 * g) + k \in 1..(4 * m) /\ Encode(b)[(4 * g) + k] = Encoded(b, g, k)
    OBVIOUS
  <2>1. (4 * g) + k \in 1..(4 * m) /\ g \in Nat
    BY <1>1
  <2>2. (((4 * g) + k) - 1) \div 4 = g /\ ((((4 * g) + k) - 1) % 4) + 1 = k
    BY <2>1, Fours
  <2> QED BY <1>2, <2>1, <2>2
<1>4. \A g \in Nat, k \in 1..4 : Encoded(b, g, k) \in Symbol
  <2> SUFFICES ASSUME NEW g \in Nat, NEW k \in 1..4 PROVE Encoded(b, g, k) \in Symbol
    OBVIOUS
  <2>1. Digit(Group(b, g), k) \in Symbols
    BY GroupJoined, NumberOfDigits
  <2>2. Symbols \subseteq Symbol /\ Pad \in Symbol
    BY Widths DEF Symbols, Symbol, Pad, Alien
  <2> QED BY <2>1, <2>2 DEF Encoded
<1>5. \A n \in 1..(4 * m) : Encode(b)[n] \in Symbol
  <2> SUFFICES ASSUME NEW n \in 1..(4 * m) PROVE Encode(b)[n] \in Symbol
    OBVIOUS
  <2>1. PICK g \in 0..(m - 1), k \in 1..4 : n = (4 * g) + k
    BY <1>1, Fours
  <2>2. g \in Nat
    BY <1>1
  <2> QED BY <1>3, <1>4, <2>1, <2>2
<1>6. Encode(b) \in Seq(Symbol) /\ Len(Encode(b)) = 4 * m
  <2>1. Encode(b) \in [1..(4 * m) -> Symbol]
    BY <1>2, <1>5
  <2>2. 4 * m \in Nat
    BY <1>1
  <2> QED BY <2>1, <2>2
<1> QED BY <1>1, <1>3, <1>6 DEF m

\* A digit is no padding, so that the length can be told from the text.
LEMMA DigitOrPad ==
    ASSUME NEW b \in Seq(Bytes), NEW g \in Nat, NEW k \in 1..4
    PROVE  Encoded(b, g, k) = Pad <=> (3 * g) + k > Len(b) + 1
<1>1. Digit(Group(b, g), k) \in Symbols
  BY GroupJoined, NumberOfDigits
<1>2. Digit(Group(b, g), k) # Pad
  BY <1>1, Widths
<1>3. (3 * g) + k \in Int /\ Len(b) + 1 \in Int
  OBVIOUS
<1> QED BY <1>2, <1>3 DEF Encoded

\* The digits of a group that hold no byte are zero.
LEMMA EmptyDigits ==
    ASSUME NEW b \in Seq(Bytes), NEW g \in Nat, 3 * g < Len(b)
    PROVE  /\ \A k \in 1..4 : (3 * g) + k > Len(b) + 1 => Digit(Group(b, g), k) = 0
           /\ Len(b) = (3 * g) + 2 => Digit(Group(b, g), 3) % Unit = 0
           /\ Len(b) = (3 * g) + 1 => Digit(Group(b, g), 2) % (Unit * Unit) = 0
<1> DEFINE a1 == At(b, (3 * g) + 1)
           a2 == At(b, (3 * g) + 2)
           a3 == At(b, (3 * g) + 3)
<1>1. Len(b) \in Nat /\ \A k \in 1..4 : k = 1 \/ k = 2 \/ k = 3 \/ k = 4
  OBVIOUS
<1>2. Group(b, g) = Joined(a1, a2, a3)
  BY GroupJoined
<1>3. a1 \in Bytes /\ a2 \in Bytes /\ a3 \in Bytes
  <2>1. (3 * g) + 1 \in Nat \ {0} /\ (3 * g) + 2 \in Nat \ {0} /\ (3 * g) + 3 \in Nat \ {0}
    OBVIOUS
  <2> QED BY <2>1, GroupJoined
<1>4. /\ Len(b) = (3 * g) + 1 => a2 = 0 /\ a3 = 0
      /\ Len(b) = (3 * g) + 2 => a3 = 0
  BY <1>1 DEF At
<1> HIDE DEF a1, a2, a3
<1>5. CASE Len(b) = (3 * g) + 1
  <2>1. Group(b, g) = Joined(a1, 0, 0)
    BY <1>2, <1>4, <1>5
  <2>2. /\ Digit(Group(b, g), 4) = 0 /\ Digit(Group(b, g), 3) = 0
        /\ Digit(Group(b, g), 2) % (Unit * Unit) = 0
    BY <1>3, <2>1, TwoDigitsShort
  <2>3. ~((3 * g) + 1 > Len(b) + 1) /\ ~((3 * g) + 2 > Len(b) + 1) /\ Len(b) # (3 * g) + 2
    BY <1>1, <1>5
  <2> QED BY <1>1, <2>2, <2>3
<1>6. CASE Len(b) = (3 * g) + 2
  <2>1. Group(b, g) = Joined(a1, a2, 0)
    BY <1>2, <1>4, <1>6
  <2>2. Digit(Group(b, g), 4) = 0 /\ Digit(Group(b, g), 3) % Unit = 0
    BY <1>3, <2>1, OneDigitShort
  <2>3. /\ ~((3 * g) + 1 > Len(b) + 1) /\ ~((3 * g) + 2 > Len(b) + 1) /\ ~((3 * g) + 3 > Len(b) + 1)
        /\ Len(b) # (3 * g) + 1
    BY <1>1, <1>6
  <2> QED BY <1>1, <2>2, <2>3
<1>7. CASE Len(b) >= (3 * g) + 3
  <2>1. /\ \A k \in 1..4 : ~((3 * g) + k > Len(b) + 1)
        /\ Len(b) # (3 * g) + 1 /\ Len(b) # (3 * g) + 2
    BY <1>1, <1>7
  <2> QED BY <2>1
<1> QED BY <1>1, <1>5, <1>6, <1>7

\* Two sequences of bytes never have the same encoding.
LEMMA EncodeInjective ==
    ASSUME NEW a \in Seq(Bytes), NEW b \in Seq(Bytes), Encode(a) = Encode(b)
    PROVE  a = b
<1> DEFINE m == Groups(a)
<1>1. Len(a) \in Nat /\ Len(b) \in Nat
  OBVIOUS
<1>2. m \in Nat /\ Groups(b) = m
  <2>1. 4 * Groups(a) = 4 * Groups(b) /\ Groups(a) \in Nat /\ Groups(b) \in Nat
    BY EncodeAt
  <2> QED BY <2>1
<1>3. Len(a) <= 3 * m /\ 3 * m <= Len(a) + 2 /\ Len(b) <= 3 * m /\ 3 * m <= Len(b) + 2
  BY <1>1, <1>2, Thirds DEF Groups
<1> HIDE DEF m
<1>4. \A g \in 0..(m - 1) : \A k \in 1..4 : Encoded(a, g, k) = Encoded(b, g, k)
  BY <1>2, EncodeAt DEF m
<1>5. Len(a) = Len(b)
  <2>1. CASE m = 0
    BY <1>1, <1>3, <2>1
  <2>2. CASE m # 0
    <3> DEFINE g == m - 1
    <3>1. g \in 0..(m - 1) /\ g \in Nat /\ 3 \in 1..4 /\ 4 \in 1..4 /\ m = g + 1
      BY <1>2, <2>2
    <3> HIDE DEF g
    <3>2. Encoded(a, g, 3) = Encoded(b, g, 3) /\ Encoded(a, g, 4) = Encoded(b, g, 4)
      BY <1>4, <3>1
    <3>3. /\ (3 * g) + 3 > Len(a) + 1 <=> (3 * g) + 3 > Len(b) + 1
          /\ (3 * g) + 4 > Len(a) + 1 <=> (3 * g) + 4 > Len(b) + 1
      BY <3>1, <3>2, DigitOrPad
    <3> QED BY <1>1, <1>3, <3>1, <3>3
  <2> QED BY <2>1, <2>2
<1>6. ASSUME NEW g \in 0..(m - 1) PROVE Group(a, g) = Group(b, g)
  <2>1. g \in Nat /\ 3 * g < Len(a)
    BY <1>1, <1>2, <1>3
  <2>2. ASSUME NEW k \in 1..4 PROVE Digit(Group(a, g), k) = Digit(Group(b, g), k)
    <3>1. CASE (3 * g) + k > Len(a) + 1
      <4>1. Digit(Group(a, g), k) = 0
        BY <2>1, <3>1, EmptyDigits
      <4>2. Digit(Group(b, g), k) = 0
        BY <1>5, <2>1, <3>1, EmptyDigits
      <4> QED BY <4>1, <4>2
    <3>2. CASE ~((3 * g) + k > Len(a) + 1)
      <4>1. (3 * g) + k <= Len(a) + 1
        BY <1>1, <2>1, <3>2
      <4> QED BY <1>4, <1>5, <4>1 DEF Encoded
    <3> QED BY <3>1, <3>2
  <2>3. /\ Digit(Group(a, g), 1) = Digit(Group(b, g), 1) /\ Digit(Group(a, g), 2) = Digit(Group(b, g), 2)
        /\ Digit(Group(a, g), 3) = Digit(Group(b, g), 3) /\ Digit(Group(a, g), 4) = Digit(Group(b, g), 4)
    BY <2>2
  <2>4. /\ Group(a, g) \in 0..(((Byte * Byte) * Byte) - 1)
        /\ Group(b, g) \in 0..(((Byte * Byte) * Byte) - 1)
    BY <2>1, GroupJoined
  <2>5. /\ Group(a, g) = Number(Digit(Group(a, g), 1), Digit(Group(a, g), 2),
                               Digit(Group(a, g), 3), Digit(Group(a, g), 4))
        /\ Group(b, g) = Number(Digit(Group(b, g), 1), Digit(Group(b, g), 2),
                               Digit(Group(b, g), 3), Digit(Group(b, g), 4))
    BY <2>4, NumberOfDigits
  <2> QED BY <2>3, <2>5
<1>7. ASSUME NEW n \in 1..Len(a) PROVE a[n] = b[n]
  <2>1. PICK g \in 0..(m - 1), k \in 1..3 : n = (3 * g) + k
    <3>1. n \in 1..(3 * m)
      BY <1>1, <1>2, <1>3
    <3> QED BY <1>2, <3>1, Threes
  <2>2. g \in Nat /\ n <= Len(a) /\ n <= Len(b)
    BY <1>2, <1>5
  <2>3. bytes(Group(a, g), k) = At(a, n) /\ bytes(Group(b, g), k) = At(b, n)
    BY <2>1, <2>2, GroupJoined
  <2>4. At(a, n) = a[n] /\ At(b, n) = b[n]
    BY <2>2 DEF At
  <2> QED BY <1>6, <2>3, <2>4
<1> QED BY <1>5, <1>7

(***************************************************************************)
(* The decoder: what it has decoded so far encodes to what it has read,    *)
(* and it gives up on no text that encodes what fits.                      *)
(***************************************************************************)

Decoded ==
    /\ DecoderTypeOK
    /\ 4 * i <= Len(in)
    /\ Len(out) <= 3 * i /\ 3 * i <= Len(out) + 2
    /\ 4 * i < Len(in) => Len(out) = 3 * i
    /\ \A g \in 0..(i - 1) : \A k \in 1..4 : in[(4 * g) + k] = Encoded(out, g, k)
    /\ verdict = "ok" => 4 * i = Len(in)
    /\ verdict = "bad" /\ in # <<>> => \A b \in Seq(Bytes) : Encode(b) = in => Len(b) > cap

\* A quartet that passes the tests: its symbols are the digits of its number, and the
\* bytes that are not taken are zero.
LEMMA PassingQuartet ==
    ASSUME in \in Seq(Symbol), i \in Nat, (4 * i) + 4 <= Len(in),
           NEW pad \in 0..2, Padded(pad), Canonical(pad)
    PROVE  /\ triple(quartet) \in 0..(((Byte * Byte) * Byte) - 1)
           /\ \A k \in 1..4 : IF k <= 4 - pad THEN Digit(triple(quartet), k) = in[(4 * i) + k]
                                            ELSE in[(4 * i) + k] = Pad
           /\ \A k \in 1..3 : k > 3 - pad => bytes(triple(quartet), k) = 0
<1> DEFINE v1 == bits(quartet[1])
           v2 == bits(quartet[2])
           v3 == bits(quartet[3])
           v4 == bits(quartet[4])
           t == triple(quartet)
<1>1. \A k \in 1..4 : quartet[k] = in[(4 * i) + k] /\ quartet[k] \in Symbol
  BY DEF quartet
<1>2. \A k \in 1..4 : IF k <= 4 - pad THEN quartet[k] \in Symbols /\ bits(quartet[k]) = quartet[k]
                                   ELSE quartet[k] = Pad /\ bits(quartet[k]) = 0
  <2> SUFFICES ASSUME NEW k \in 1..4
               PROVE  IF k <= 4 - pad THEN quartet[k] \in Symbols /\ bits(quartet[k]) = quartet[k]
                                      ELSE quartet[k] = Pad /\ bits(quartet[k]) = 0
    OBVIOUS
  <2>1. CASE k <= 4 - pad
    <3>1. quartet[k] < Radix
      BY <2>1 DEF Padded
    <3>3. quartet[k] \in Nat
      <4>1. \A s \in 0..Alien : s \in Nat
        OBVIOUS
      <4> QED BY <1>1, <4>1 DEF Symbol
    <3>2. quartet[k] \in Symbols
      BY <3>1, <3>3, Widths DEF Symbols
    <3> QED BY <2>1, <3>2, Widths DEF bits
  <2>2. CASE ~(k <= 4 - pad)
    BY <2>2 DEF Padded, bits
  <2> QED BY <2>1, <2>2
<1>3. 0 \in Symbols
  BY Widths DEF Symbols
<1>4. pad = 0 \/ pad = 1 \/ pad = 2
  OBVIOUS
<1>5. v1 \in Symbols /\ v2 \in Symbols /\ v3 \in Symbols /\ v4 \in Symbols
  BY <1>2, <1>3, <1>4
<1>6. t = Number(v1, v2, v3, v4)
  BY Zenon DEF triple, Number
<1>7. /\ pad = 0 => v1 = quartet[1] /\ v2 = quartet[2] /\ v3 = quartet[3] /\ v4 = quartet[4]
      /\ pad = 1 => v1 = quartet[1] /\ v2 = quartet[2] /\ v3 = quartet[3] /\ v4 = 0
      /\ pad = 2 => v1 = quartet[1] /\ v2 = quartet[2] /\ v3 = 0 /\ v4 = 0
  BY <1>2
<1> HIDE DEF v1, v2, v3, v4, t
<1>8. /\ t \in 0..(((Byte * Byte) * Byte) - 1)
      /\ Digit(t, 1) = v1 /\ Digit(t, 2) = v2 /\ Digit(t, 3) = v3 /\ Digit(t, 4) = v4
  BY <1>5, <1>6, DigitsOfNumber
<1>9. \A k \in 1..4 : IF k <= 4 - pad THEN Digit(t, k) = in[(4 * i) + k] ELSE in[(4 * i) + k] = Pad
  <2>1. \A k \in 1..4 : k <= 4 - pad => Digit(t, k) = quartet[k]
    <3>1. \A k \in 1..4 : k = 1 \/ k = 2 \/ k = 3 \/ k = 4
      OBVIOUS
    <3> QED BY <1>4, <1>7, <1>8, <3>1
  <2> QED BY <1>1, <1>2, <2>1
<1>10. \A k \in 1..3 : k > 3 - pad => bytes(t, k) = 0
  <2>1. CASE pad = 0
    BY <2>1
  <2>2. CASE pad = 1
    <3>1. v3 % Unit = 0 /\ t = Number(v1, v2, v3, 0)
      BY <1>6, <1>7, <2>2 DEF Canonical
    <3>2. bytes(t, 3) = 0
      BY <1>5, <3>1, OneByteShort
    <3>3. \A k \in 1..3 : k > 3 - pad => k = 3
      BY <2>2
    <3> QED BY <3>2, <3>3
  <2>3. CASE pad = 2
    <3>1. v2 % (Unit * Unit) = 0 /\ t = Number(v1, v2, 0, 0)
      BY <1>6, <1>7, <2>3 DEF Canonical
    <3>2. bytes(t, 2) = 0 /\ bytes(t, 3) = 0
      BY <1>5, <3>1, TwoBytesShort
    <3>3. \A k \in 1..3 : k > 3 - pad => k = 2 \/ k = 3
      BY <2>3
    <3> QED BY <3>2, <3>3
  <2> QED BY <1>4, <2>1, <2>2, <2>3
<1> QED BY <1>8, <1>9, <1>10 DEF t

\* What is left of a text in whole quartets.
LEMMA Whole ==
    ASSUME in \in Seq(Symbol), i \in Nat, WholeQuartets, 4 * i < Len(in)
    PROVE  (4 * i) + 4 <= Len(in)
<1> DEFINE q == Len(in) \div 4
<1>1. Len(in) \in Int /\ 4 \in Nat \ {0} /\ Len(in) % 4 = 0
  BY DEF WholeQuartets
<1>2. q \in Int /\ Len(in) = (q * 4) + 0
  BY <1>1, DivMod
<1> HIDE DEF q
<1> QED BY <1>2

LEMMA QuartetDecodes == Decoded /\ Quartet => Decoded'
<1> SUFFICES ASSUME Decoded, Quartet PROVE Decoded'
  OBVIOUS
<1>1. /\ verdict = "decoding" /\ WholeQuartets /\ 4 * i < Len(in)
      /\ i' = i + 1 /\ in' = in /\ cap' = cap /\ verdict' = verdict
  BY DEF Quartet
<1>2. PICK pad \in 0..2 : Padded(pad) /\ Canonical(pad) /\ Fits(pad) /\ out' = out \o take(pad)
  BY DEF Quartet, Decodes
<1>3. /\ in \in Seq(Symbol) /\ cap \in Nat /\ i \in Nat /\ out \in Seq(Bytes)
      /\ Len(out) = 3 * i /\ 4 * i <= Len(in) /\ Len(in) \in Nat
  BY <1>1 DEF Decoded, DecoderTypeOK, Bytes
<1>4. (4 * i) + 4 <= Len(in)
  BY <1>1, <1>3, Whole
<1> DEFINE t == triple(quartet)
<1>5. /\ t \in 0..(((Byte * Byte) * Byte) - 1)
      /\ \A k \in 1..4 : IF k <= 4 - pad THEN Digit(t, k) = in[(4 * i) + k]
                                      ELSE in[(4 * i) + k] = Pad
      /\ \A k \in 1..3 : k > 3 - pad => bytes(t, k) = 0
  BY <1>2, <1>3, <1>4, PassingQuartet
<1>6. take(pad) = [k \in 1..(3 - pad) |-> bytes(t, k)]
  BY DEF take
<1> HIDE DEF t
<1>7. (\A k \in 1..3 : bytes(t, k) \in Bytes) /\ t = Joined(bytes(t, 1), bytes(t, 2), bytes(t, 3))
  BY <1>5, BytesOfNumber
<1> DEFINE o == take(pad)
<1>8. o \in Seq(Bytes) /\ Len(o) = 3 - pad /\ \A k \in 1..(3 - pad) : o[k] = bytes(t, k)
  <2>1. \A k \in 1..(3 - pad) : bytes(t, k) \in Bytes
    BY <1>7
  <2>2. 3 - pad \in Nat
    OBVIOUS
  <2> QED BY <1>6, <2>1, <2>2
<1> HIDE DEF o
<1>9. /\ out' = out \o o /\ out' \in Seq(Bytes) /\ Len(out') = ((3 * i) + 3) - pad
      /\ \A n \in 1..(3 * i) : out'[n] = out[n]
      /\ \A k \in 1..(3 - pad) : out'[(3 * i) + k] = bytes(t, k)
  <2>1. out' = out \o o
    BY <1>2 DEF o
  <2>2. \A k \in 1..(3 - pad) : (out \o o)[(3 * i) + k] = o[k]
    BY <1>3, <1>8
  <2> QED BY <1>3, <1>8, <2>1, <2>2
<1>10. \A g \in 0..(i - 1) : \A k \in 1..4 : Encoded(out', g, k) = Encoded(out, g, k)
  <2> SUFFICES ASSUME NEW g \in 0..(i - 1), NEW k \in 1..4
               PROVE  Encoded(out', g, k) = Encoded(out, g, k)
    OBVIOUS
  <2>1. g \in Nat /\ (3 * g) + 3 <= 3 * i /\ (3 * g) + k <= Len(out) + 1 /\ (3 * g) + k <= Len(out') + 1
    BY <1>3, <1>9
  <2>2. \A n \in 1..3 : At(out', (3 * g) + n) = At(out, (3 * g) + n)
    <3>1. \A n \in 1..3 : /\ (3 * g) + n \in 1..(3 * i)
                          /\ (3 * g) + n <= Len(out) /\ (3 * g) + n <= Len(out')
      BY <1>3, <1>9, <2>1
    <3> QED BY <1>9, <3>1 DEF At
  <2>3. Group(out', g) = Group(out, g)
    <3>1. /\ Group(out, g) = Joined(At(out, (3 * g) + 1), At(out, (3 * g) + 2), At(out, (3 * g) + 3))
          /\ Group(out', g) = Joined(At(out', (3 * g) + 1), At(out', (3 * g) + 2), At(out', (3 * g) + 3))
      BY <1>3, <1>9, <2>1, GroupJoined
    <3>2. 1 \in 1..3 /\ 2 \in 1..3 /\ 3 \in 1..3
      OBVIOUS
    <3> QED BY <2>2, <3>1, <3>2
  <2> QED BY <2>1, <2>3 DEF Encoded
<1>11. Group(out', i) = t
  <2>1. \A k \in 1..3 : At(out', (3 * i) + k) = bytes(t, k)
    <3> SUFFICES ASSUME NEW k \in 1..3 PROVE At(out', (3 * i) + k) = bytes(t, k)
      OBVIOUS
    <3>1. CASE k <= 3 - pad
      <4>1. k \in 1..(3 - pad) /\ (3 * i) + k <= Len(out')
        BY <1>3, <1>9, <3>1
      <4> QED BY <1>9, <4>1 DEF At
    <3>2. CASE ~(k <= 3 - pad)
      <4>1. k > 3 - pad /\ ~((3 * i) + k <= Len(out'))
        BY <1>3, <1>9, <3>2
      <4> QED BY <1>5, <4>1 DEF At
    <3> QED BY <3>1, <3>2
  <2>2. Group(out', i) = Joined(At(out', (3 * i) + 1), At(out', (3 * i) + 2), At(out', (3 * i) + 3))
    BY <1>3, <1>9, GroupJoined
  <2>3. 1 \in 1..3 /\ 2 \in 1..3 /\ 3 \in 1..3
    OBVIOUS
  <2> QED BY <1>7, <2>1, <2>2, <2>3
<1>12. \A k \in 1..4 : in[(4 * i) + k] = Encoded(out', i, k)
  <2> SUFFICES ASSUME NEW k \in 1..4 PROVE in[(4 * i) + k] = Encoded(out', i, k)
    OBVIOUS
  <2>1. k <= 4 - pad <=> (3 * i) + k <= Len(out') + 1
    BY <1>3, <1>9
  <2> QED BY <1>5, <1>11, <2>1 DEF Encoded
<1>13. \A g \in 0..(i' - 1) : \A k \in 1..4 : in'[(4 * g) + k] = Encoded(out', g, k)
  <2> SUFFICES ASSUME NEW g \in 0..(i' - 1), NEW k \in 1..4
               PROVE  in'[(4 * g) + k] = Encoded(out', g, k)
    OBVIOUS
  <2>1. g = i \/ g \in 0..(i - 1)
    BY <1>1, <1>3
  <2>2. ASSUME g \in 0..(i - 1) PROVE in[(4 * g) + k] = Encoded(out, g, k)
    BY <2>2 DEF Decoded
  <2> QED BY <1>1, <1>10, <1>12, <2>1, <2>2
<1>14. Len(out') <= cap /\ i + 1 \in 0..Len(in) /\ 4 * (i + 1) <= Len(in)
  BY <1>2, <1>3, <1>4, <1>9 DEF Fits
<1>15. DecoderTypeOK'
  BY <1>1, <1>3, <1>9, <1>14 DEF DecoderTypeOK, Bytes
<1>16. Len(out') <= 3 * (i + 1) /\ 3 * (i + 1) <= Len(out') + 2
  BY <1>3, <1>9
<1>17. 4 * (i + 1) < Len(in) => Len(out') = 3 * (i + 1)
  <2>1. pad > 0 => (4 * i) + 4 = Len(in)
    BY <1>2 DEF Padded, isLast
  <2> QED BY <1>3, <1>9, <2>1
<1> QED BY <1>1, <1>13, <1>14, <1>15, <1>16, <1>17 DEF Decoded

\* A quartet of an encoding that fits passes the tests.
LEMMA EncodingPasses ==
    ASSUME in \in Seq(Symbol), i \in Nat, cap \in Nat, Len(out) = 3 * i, 4 * i < Len(in),
           NEW b \in Seq(Bytes), Encode(b) = in, Len(b) <= cap
    PROVE  \E pad \in 0..2 : Decodes(pad)
<1> DEFINE l == Len(b)
           m == Groups(b)
           pad == IF l >= (3 * i) + 3 THEN 0 ELSE IF l = (3 * i) + 2 THEN 1 ELSE 2
<1>1. l \in Nat /\ m \in Nat /\ 4 * i < 4 * m /\ Len(in) = 4 * m
  BY EncodeAt
<1>2. l <= 3 * m /\ 3 * m <= l + 2 /\ (l <= 3 * (i + 1) /\ 3 * (i + 1) <= l + 2 => m = i + 1)
  BY <1>1, Thirds DEF Groups
<1>3. \A k \in 1..4 : quartet[k] = Encoded(b, i, k)
  <2>1. i \in 0..(m - 1)
    BY <1>1
  <2>2. \A k \in 1..4 : in[(4 * i) + k] = Encoded(b, i, k)
    BY <2>1, EncodeAt
  <2> QED BY <2>2 DEF quartet
<1> HIDE DEF m
<1>4. 3 * i < l
  BY <1>1, <1>2
<1> HIDE DEF l
<1>5. /\ pad \in 0..2
      /\ pad > 0 => m = i + 1
      /\ \A k \in 1..4 : k <= 4 - pad <=> (3 * i) + k <= l + 1
      /\ ((3 * i) + 3) - pad <= l
      /\ pad = 1 => l = (3 * i) + 2
      /\ pad = 2 => l = (3 * i) + 1
  BY <1>1, <1>2, <1>4
<1> HIDE DEF pad
<1>6. (\A k \in 1..4 : Digit(Group(b, i), k) \in Symbols) /\ (\A v \in Symbols : v < Radix)
  <2>1. \A k \in 1..4 : Digit(Group(b, i), k) \in Symbols
    BY GroupJoined, NumberOfDigits
  <2> QED BY <2>1, Widths DEF Symbols
<1>7. Padded(pad)
  <2>1. pad > 0 => isLast
    BY <1>1, <1>5 DEF isLast
  <2>2. ASSUME NEW k \in 1..4
        PROVE  IF k <= 4 - pad THEN quartet[k] < Radix ELSE quartet[k] = Pad
    <3>1. k <= 4 - pad => quartet[k] = Digit(Group(b, i), k)
      BY <1>3, <1>5 DEF Encoded, l
    <3>2. ~(k <= 4 - pad) => quartet[k] = Pad
      BY <1>3, <1>5 DEF Encoded, l
    <3> QED BY <1>6, <3>1, <3>2
  <2> QED BY <2>1, <2>2 DEF Padded
<1>8. Canonical(pad)
  <2>1. pad = 1 => Digit(Group(b, i), 3) % Unit = 0
    BY <1>4, <1>5, EmptyDigits DEF l
  <2>2. pad = 2 => Digit(Group(b, i), 2) % (Unit * Unit) = 0
    BY <1>4, <1>5, EmptyDigits DEF l
  <2>3. /\ pad = 1 => quartet[3] = Digit(Group(b, i), 3)
        /\ pad = 2 => quartet[2] = Digit(Group(b, i), 2)
    <3>1. ASSUME NEW k \in 1..4, k <= 4 - pad PROVE quartet[k] = Digit(Group(b, i), k)
      BY <1>3, <1>5, <3>1 DEF Encoded, l
    <3> QED BY <3>1
  <2> QED BY <2>1, <2>2, <2>3 DEF Canonical
<1>9. Fits(pad)
  BY <1>1, <1>5 DEF Fits, l
<1> QED BY <1>5, <1>7, <1>8, <1>9 DEF Decodes

LEMMA RejectDecodes == Decoded /\ Reject => Decoded'
<1> SUFFICES ASSUME Decoded, Reject PROVE Decoded'
  OBVIOUS
<1>1. verdict = "decoding" /\ verdict' = "bad" /\ in' = in /\ cap' = cap /\ i' = i /\ out' = out
  BY DEF Reject
<1>2. /\ in \in Seq(Symbol) /\ cap \in Nat /\ i \in Nat /\ out \in Seq(Bytes)
      /\ 4 * i < Len(in) => Len(out) = 3 * i
  BY DEF Decoded, DecoderTypeOK, Bytes
<1>3. ASSUME NEW b \in Seq(Bytes), Encode(b) = in, in # <<>>, Len(b) <= cap PROVE FALSE
  <2>1. Len(in) > 0
    BY <1>2, <1>3
  <2>2. Len(in) % 4 = 0
    <3>1. Groups(b) \in Nat /\ Len(in) = 4 * Groups(b)
      BY <1>3, EncodeAt
    <3>2. \A q \in Nat : (4 * q) % 4 = 0
      OBVIOUS
    <3> QED BY <3>1, <3>2
  <2>3. 4 * i < Len(in) /\ ~\E pad \in 0..2 : Decodes(pad)
    BY <2>1, <2>2 DEF Reject, WholeQuartets
  <2> QED BY <1>2, <1>3, <2>3, EncodingPasses
<1>4. \A b \in Seq(Bytes) : Encode(b) = in /\ in # <<>> => Len(b) > cap
  <2>1. \A b \in Seq(Bytes) : Len(b) \in Nat
    OBVIOUS
  <2> QED BY <1>2, <1>3, <2>1
<1>5. DecoderTypeOK'
  BY <1>1 DEF Decoded, DecoderTypeOK
<1> QED BY <1>1, <1>4, <1>5 DEF Decoded

LEMMA AcceptDecodes == Decoded /\ Accept => Decoded'
  BY DEF Decoded, DecoderTypeOK, Accept

LEMMA DecodeDecodes == Decoded /\ Decode => Decoded'
  BY QuartetDecodes, RejectDecodes, AcceptDecodes DEF Decode

LEMMA IdleDecodes == DecoderIdle => Decoded
<1> SUFFICES ASSUME DecoderIdle PROVE Decoded
  OBVIOUS
<1>1. in = <<>> /\ cap = 0 /\ i = 0 /\ out = <<>> /\ verdict = "idle" /\ Len(in) = 0 /\ Len(out) = 0
  BY DEF DecoderIdle
<1>2. in \in Seq(Symbol) /\ out \in Seq(0..(Byte - 1))
  BY <1>1
<1> QED BY <1>1, <1>2 DEF Decoded, DecoderTypeOK

LEMMA StartDecodes ==
    ASSUME NEW text \in Seq(Symbol), NEW room \in Nat, record_b64_decode(text, room)
    PROVE  Decoded'
<1>1. in' = text /\ cap' = room /\ i' = 0 /\ out' = <<>> /\ verdict' = "decoding" /\ Len(out') = 0
  BY DEF record_b64_decode
<1>2. in' \in Seq(Symbol) /\ out' \in Seq(0..(Byte - 1)) /\ Len(in') \in Nat
  BY <1>1
<1> QED BY <1>1, <1>2 DEF Decoded, DecoderTypeOK

\* An accepted text is the encoding of what it was decoded to.
LEMMA AcceptedIsEncoding ==
    ASSUME Decoded, verdict = "ok"
    PROVE  Encode(out) = in
<1>1. /\ in \in Seq(Symbol) /\ i \in Nat /\ out \in Seq(Bytes) /\ Len(in) = 4 * i
      /\ Len(out) <= 3 * i /\ 3 * i <= Len(out) + 2
  BY DEF Decoded, DecoderTypeOK, Bytes
<1>2. Groups(out) = i
  BY <1>1, Thirds DEF Groups
<1>3. Encode(out) \in Seq(Symbol) /\ Len(Encode(out)) = Len(in)
  BY <1>1, <1>2, EncodeAt
<1>4. ASSUME NEW n \in 1..Len(in) PROVE Encode(out)[n] = in[n]
  <2>1. PICK g \in 0..(i - 1), k \in 1..4 : n = (4 * g) + k
    <3>1. n \in 1..(4 * i)
      BY <1>1
    <3> QED BY <1>1, <3>1, Fours
  <2>2. Encode(out)[(4 * g) + k] = Encoded(out, g, k)
    <3>1. \A h \in 0..(Groups(out) - 1) : \A j \in 1..4 :
            Encode(out)[(4 * h) + j] = Encoded(out, h, j)
      BY <1>1, EncodeAt
    <3> QED BY <1>2, <3>1
  <2>3. in[(4 * g) + k] = Encoded(out, g, k)
    BY DEF Decoded
  <2> QED BY <2>1, <2>2, <2>3
<1> QED BY <1>1, <1>3, <1>4

\* What is compared with a text is always a sequence of bytes.
LEMMA CandidateTyped == ASSUME NEW text \in Seq(Symbol) PROVE Candidate(text) \in Seq(Bytes)
<1> DEFINE used == Cardinality({n \in DOMAIN text : text[n] # Pad})
           at(n) == IF n <= Len(text) THEN text[n] ELSE Pad
           quad(g) == [k \in 1..4 |-> at((4 * g) + k)]
           l == (3 * used) \div 4
<1>1. l \in Nat
  <2>1. IsFiniteSet(DOMAIN text)
    <3>1. DOMAIN text = 1..Len(text) /\ Len(text) \in Nat
      OBVIOUS
    <3> QED BY <3>1, FS_Interval
  <2>2. IsFiniteSet({n \in DOMAIN text : text[n] # Pad})
    BY <2>1, FS_Subset
  <2>3. used \in Nat
    BY <2>2, FS_CardinalityType
  <2> HIDE DEF used
  <2>4. \A u \in Nat : (3 * u) \div 4 \in Nat
    OBVIOUS
  <2> QED BY <2>3, <2>4
<1>2. \A n \in Nat \ {0} : at(n) \in Symbol
  <2>1. Pad \in Symbol
    BY Widths DEF Symbol, Pad, Alien
  <2> QED BY <2>1
<1>3. \A s \in Symbol : bits(s) \in Nat
  <2>1. \A s \in 0..Alien : s \in Nat
    OBVIOUS
  <2> QED BY <2>1 DEF Symbol, bits
<1>4. ASSUME NEW g \in Nat PROVE triple(quad(g)) \in Nat
  <2>1. \A k \in 1..4 : quad(g)[k] = at((4 * g) + k) /\ (4 * g) + k \in Nat \ {0}
    OBVIOUS
  <2> HIDE DEF quad, at
  <2>2. \A k \in 1..4 : bits(quad(g)[k]) \in Nat
    BY <1>2, <1>3, <2>1
  <2>3. /\ bits(quad(g)[1]) \in Nat /\ bits(quad(g)[2]) \in Nat
        /\ bits(quad(g)[3]) \in Nat /\ bits(quad(g)[4]) \in Nat
    BY <2>2
  <2>4. \A r, a, b, c, d \in Nat : ((((((a * r) + b) * r) + c) * r) + d) \in Nat
    OBVIOUS
  <2> QED BY <2>3, <2>4, Widths DEF triple
<1>5. ASSUME NEW t \in Nat, NEW k \in 1..3 PROVE bytes(t, k) \in Bytes
  <2>1. \A w \in Nat \ {0} : \A v \in Nat : v \div w \in Nat /\ v % w \in 0..(w - 1)
    OBVIOUS
  <2>2. t \div Byte \in Nat /\ (t \div Byte) \div Byte \in Nat
    BY <2>1, Widths
  <2> QED BY <2>1, <2>2, Widths DEF bytes, Bytes
<1>6. \A n \in 1..l : (n - 1) \div 3 \in Nat /\ ((n - 1) % 3) + 1 \in 1..3
  BY <1>1
<1>7. Candidate(text) = [n \in 1..l |-> bytes(triple(quad((n - 1) \div 3)), ((n - 1) % 3) + 1)]
  BY DEF Candidate
<1> HIDE DEF l, quad, at
<1>8. \A n \in 1..l : bytes(triple(quad((n - 1) \div 3)), ((n - 1) % 3) + 1) \in Bytes
  BY <1>4, <1>5, <1>6
<1>9. Candidate(text) \in [1..l -> Bytes]
  BY <1>7, <1>8
<1> QED BY <1>1, <1>9

LEMMA DecodedIsExact == Decoded => DecodesExactly
<1> SUFFICES ASSUME Decoded PROVE DecodesExactly
  OBVIOUS
<1>1. in \in Seq(Symbol) /\ Candidate(in) \in Seq(Bytes)
  BY CandidateTyped DEF Decoded, DecoderTypeOK
<1>2. verdict = "bad" /\ in # <<>> /\ Encode(Candidate(in)) = in => Len(Candidate(in)) > cap
  BY <1>1 DEF Decoded
<1> QED BY <1>2, AcceptedIsEncoding DEF DecodesExactly

(***************************************************************************)
(* The fields: what was looked up is what the search finds in the body.    *)
(***************************************************************************)

Searched ==
    /\ FieldsTypeOK /\ body \in Bodies[order]
    /\ \A n \in 1..asked : got[order[n]] = json_get_string(body.json, order[n])

\* The order of a handler and the set of what it asks for.
LEMMA OrderTyped ==
    ASSUME order \in Handlers
    PROVE  /\ order \in Seq(Field) /\ Len(order) \in Nat
           /\ \A n \in 1..Len(order) : order[n] \in ToSet(order)
           /\ \A f \in ToSet(order) : f \in Field /\ \E n \in 1..Len(order) : order[n] = f
<1>1. order \in Seq(Field)
  BY FieldsAssumption
<1>2. ToSet(order) = {order[n] : n \in 1..Len(order)}
  BY <1>1 DEF ToSet
<1> QED BY <1>1, <1>2

LEMMA InitSearched == FieldsInit => Searched
<1> SUFFICES ASSUME FieldsInit PROVE Searched
  OBVIOUS
<1>1. /\ order \in Handlers /\ body \in Bodies[order] /\ asked = 0
      /\ got = [f \in ToSet(order) |-> Missing]
  BY DEF FieldsInit
<1>2. body \in Body /\ Len(order) \in Nat
  BY <1>1, BodyTyped, OrderTyped
<1>3. got \in [ToSet(order) -> Returned]
  <2>1. Missing \in Returned
    BY DEF Missing, Returned
  <2> QED BY <1>1, <2>1
<1> QED BY <1>1, <1>2, <1>3 DEF Searched, FieldsTypeOK

LEMMA GetFieldSearched == Searched /\ GetField => Searched'
<1> SUFFICES ASSUME Searched, GetField PROVE Searched'
  OBVIOUS
<1>1. /\ asked < Len(order) /\ asked' = asked + 1 /\ order' = order /\ body' = body
      /\ got' = [got EXCEPT ![order[asked']] = json_get_string(body.json, order[asked'])]
  BY DEF GetField
<1>2. /\ order \in Handlers /\ body \in Bodies[order] /\ body \in Body
      /\ asked \in Nat /\ got \in [ToSet(order) -> Returned]
  BY DEF Searched, FieldsTypeOK
<1> DEFINE f == order[asked + 1]
<1>3. f \in ToSet(order) /\ f \in Field /\ asked + 1 \in 0..Len(order)
  BY <1>1, <1>2, OrderTyped
<1>4. json_get_string(body.json, f) \in Returned
  BY <1>2, <1>3, BodyTyped, AskedTyped
<1>5. got' = [got EXCEPT ![f] = json_get_string(body.json, f)]
  BY <1>1
<1>6. ASSUME NEW n \in 1..(asked + 1) PROVE got'[order[n]] = json_get_string(body.json, order[n])
  <2>1. order[n] \in ToSet(order)
    BY <1>2, <1>3, OrderTyped
  <2>2. CASE order[n] = f
    BY <1>2, <1>3, <1>5, <2>2
  <2>3. CASE order[n] # f
    <3>1. n \in 1..asked
      BY <1>2, <2>3
    <3>2. got[order[n]] = json_get_string(body.json, order[n])
      BY <3>1 DEF Searched
    <3> QED BY <1>2, <1>5, <2>1, <2>3, <3>2
  <2> QED BY <2>2, <2>3
<1> HIDE DEF f
<1>7. got' \in [ToSet(order) -> Returned]
  BY <1>2, <1>4, <1>5
<1>8. FieldsTypeOK'
  BY <1>1, <1>2, <1>3, <1>7 DEF FieldsTypeOK
<1>9. \A n \in 1..asked' : got'[order'[n]] = json_get_string(body'.json, order'[n])
  BY <1>1, <1>6
<1> QED BY <1>1, <1>2, <1>8, <1>9 DEF Searched

(***************************************************************************)
(* From the fields to the record: what is decoded at each stage, why a     *)
(* request is refused, and what is filed.                                  *)
(***************************************************************************)

WriteOrder == "device_id" \in ToSet(order)

\* A pair that the texts encode, as keystore_provision() asks for one.
SoundPair(p, s) ==
    /\ Encode(p) = got["pk"].chars /\ Len(p) = KeyLen
    /\ Encode(s) = got["sk"].chars /\ Len(s) \in {KeyLen, 2 * KeyLen}
    /\ Len(s) > KeyLen => SubSeq(s, KeyLen + 1, 2 * KeyLen) = p

NoPair == \A p, s \in Seq(Bytes) : ~SoundPair(p, s)

IdIsValid == AllFound /\ WriteOrder /\ record_device_id_valid(got["device_id"].chars)

Filed ==
    /\ IdIsValid
    /\ stored.pk \in Key(KeyLen) /\ stored.sk \in Key(2 * KeyLen)
    /\ stored.id = got["device_id"].chars /\ stored.idLen = Len(stored.id)
    /\ stored.len = Fixed + Len(stored.id)
    /\ Encode(stored.pk) = got["pk"].chars
    /\ got["sk"].chars \in {Encode(stored.sk), Encode(SubSeq(stored.sk, 1, KeyLen))}

CodecInv ==
    /\ Decoded /\ Searched
    /\ stage \in {"fields", "pk", "sk", "refused", "done"}
    /\ pk \in Key(KeyLen) \cup {<<>>}
    /\ stage = "pk" => IdIsValid /\ in = got["pk"].chars /\ cap = KeyLen
    /\ stage = "sk" => /\ IdIsValid /\ in = got["sk"].chars /\ cap = 2 * KeyLen
                       /\ pk \in Key(KeyLen) /\ Encode(pk) = got["pk"].chars
    /\ stage # "done" => stored = Missing
    /\ stored # Missing => Filed
    /\ stage = "refused" /\ WriteOrder =>
         ~FoundSoFar \/ (AllFound /\ (~record_device_id_valid(got["device_id"].chars) \/ NoPair))

\* A key is a sequence of bytes of its length.
LEMMA KeyIsSeq ==
    ASSUME NEW n \in Nat, NEW x
    PROVE  x \in Key(n) <=> x \in Seq(Bytes) /\ Len(x) = n
<1>1. Key(n) = [1..n -> Bytes]
  BY DEF Key, Bytes
<1>2. ASSUME x \in [1..n -> Bytes] PROVE x \in Seq(Bytes) /\ Len(x) = n
  BY <1>2
<1>3. ASSUME x \in Seq(Bytes), Len(x) = n PROVE x \in [1..n -> Bytes]
  BY <1>3
<1> QED BY <1>1, <1>2, <1>3

LEMMA Lengths == KeyLen \in Nat \ {0} /\ 2 * KeyLen \in Nat \ {0}
  BY CodecAssumption

\* The fields of a write that have all been found.
LEMMA FoundTexts ==
    ASSUME Searched, AllFound, WriteOrder
    PROVE  /\ ToSet(order) = {"pk", "sk", "device_id"}
           /\ \A f \in ToSet(order) : /\ f \in Field /\ got[f] \in Returned /\ got[f] # Missing
                                      /\ got[f] = json_get_string(body.json, f)
           /\ got["pk"].chars \in Seq(Symbol) /\ got["sk"].chars \in Seq(Symbol)
<1>1. order \in Handlers /\ got \in [ToSet(order) -> Returned]
  BY DEF Searched, FieldsTypeOK
<1>2. ToSet(order) = {"pk", "sk", "device_id"}
  BY <1>1, CodecAssumption DEF WriteOrder
<1>3. ASSUME NEW f \in ToSet(order)
      PROVE  /\ f \in Field /\ got[f] \in Returned /\ got[f] # Missing
             /\ got[f] = json_get_string(body.json, f)
  <2>1. PICK n \in 1..Len(order) : order[n] = f
    BY <1>1, OrderTyped
  <2>2. got[order[n]] # Missing /\ got[order[n]] = json_get_string(body.json, order[n])
    BY DEF AllFound, FoundSoFar, Searched
  <2> QED BY <1>1, <2>1, <2>2, OrderTyped
<1>4. \A t \in Returned : t.chars \in Seq(Symbol)
  BY DEF Returned
<1> QED BY <1>2, <1>3, <1>4

LEMMA InitCodec == Init => CodecInv
<1> SUFFICES ASSUME Init PROVE CodecInv
  OBVIOUS
<1>1. Decoded /\ Searched
  BY IdleDecodes, InitSearched DEF Init
<1> QED BY <1>1 DEF Init, CodecInv

\* What stays as it is while the fields do.
LEMMA SameFields ==
    ASSUME UNCHANGED fields
    PROVE  /\ Searched => Searched'
           /\ AllFound' = AllFound /\ FoundSoFar' = FoundSoFar /\ WriteOrder' = WriteOrder
           /\ NoPair' = NoPair
           /\ IdIsValid' = IdIsValid
           /\ got' = got
<1>1. order' = order /\ body' = body /\ asked' = asked /\ got' = got
  BY DEF fields
<1>2. Searched => Searched'
  BY <1>1 DEF Searched, FieldsTypeOK
<1>3. FoundSoFar' = FoundSoFar /\ WriteOrder' = WriteOrder
  BY <1>1 DEF FoundSoFar, WriteOrder
<1>4. AllFound' = AllFound
  BY <1>1, <1>3 DEF AllFound
<1>5. NoPair' = NoPair
  BY <1>1 DEF NoPair, SoundPair
<1>6. IdIsValid' = IdIsValid
  BY <1>1, <1>3, <1>4 DEF IdIsValid
<1> QED BY <1>1, <1>2, <1>3, <1>4, <1>5, <1>6

LEMMA SameDecoder == ASSUME Decoded, UNCHANGED decoder PROVE Decoded'
  BY DEF Decoded, DecoderTypeOK, decoder

LEMMA LookupCodec == CodecInv /\ Lookup => CodecInv'
<1> SUFFICES ASSUME CodecInv, Lookup PROVE CodecInv'
  OBVIOUS
<1>1. /\ stage = "fields" /\ GetField /\ UNCHANGED decoder
      /\ stage' = stage /\ pk' = pk /\ stored' = stored
  BY DEF Lookup
<1>2. Searched' /\ Decoded'
  BY <1>1, GetFieldSearched, SameDecoder DEF CodecInv
<1>3. stored = Missing
  BY <1>1 DEF CodecInv
<1> QED BY <1>1, <1>2, <1>3 DEF CodecInv

LEMMA DecodingCodec == CodecInv /\ Decoding => CodecInv'
<1> SUFFICES ASSUME CodecInv, Decoding PROVE CodecInv'
  OBVIOUS
<1>1. /\ stage \in {"pk", "sk"} /\ Decode /\ UNCHANGED fields
      /\ stage' = stage /\ pk' = pk /\ stored' = stored
  BY DEF Decoding
<1>2. in' = in /\ cap' = cap
  BY <1>1 DEF Decode, Quartet, Reject, Accept
<1>3. Searched' /\ Decoded' /\ IdIsValid' = IdIsValid /\ got' = got
  BY <1>1, SameFields, DecodeDecodes DEF CodecInv
<1>4. stored = Missing
  BY <1>1 DEF CodecInv
<1> QED BY <1>1, <1>2, <1>3, <1>4 DEF CodecInv

LEMMA SignReadyCodec == CodecInv /\ SignReady => CodecInv'
<1> SUFFICES ASSUME CodecInv, SignReady PROVE CodecInv'
  OBVIOUS
<1>1. /\ stage = "fields" /\ UNCHANGED decoder /\ UNCHANGED fields
      /\ stage' = "done" /\ pk' = pk /\ stored' = stored
  BY DEF SignReady
<1>2. Searched' /\ Decoded'
  BY <1>1, SameFields, SameDecoder DEF CodecInv
<1>3. stored = Missing
  BY <1>1 DEF CodecInv
<1> QED BY <1>1, <1>2, <1>3 DEF CodecInv

LEMMA IdTakenCodec == CodecInv /\ IdTaken => CodecInv'
<1> SUFFICES ASSUME CodecInv, IdTaken PROVE CodecInv'
  OBVIOUS
<1>1. /\ stage = "fields" /\ IdIsValid /\ UNCHANGED fields
      /\ record_b64_decode(got["pk"].chars, KeyLen)
      /\ stage' = "pk" /\ pk' = pk /\ stored' = stored
  BY DEF IdTaken, IdIsValid, WriteOrder
<1>2. got["pk"].chars \in Seq(Symbol) /\ KeyLen \in Nat
  BY <1>1, FoundTexts, Lengths DEF CodecInv, IdIsValid
<1>3. Decoded' /\ Searched' /\ IdIsValid' /\ got' = got
  BY <1>1, <1>2, StartDecodes, SameFields DEF CodecInv
<1>4. in' = got["pk"].chars /\ cap' = KeyLen /\ stored = Missing
  BY <1>1 DEF CodecInv, record_b64_decode
<1> QED BY <1>1, <1>3, <1>4 DEF CodecInv

LEMMA PkTakenCodec == CodecInv /\ PkTaken => CodecInv'
<1> SUFFICES ASSUME CodecInv, PkTaken PROVE CodecInv'
  OBVIOUS
<1>1. /\ stage = "pk" /\ verdict = "ok" /\ Len(out) = KeyLen /\ pk' = out /\ UNCHANGED fields
      /\ record_b64_decode(got["sk"].chars, 2 * KeyLen)
      /\ stage' = "sk" /\ stored' = stored
  BY DEF PkTaken
<1>2. IdIsValid /\ in = got["pk"].chars /\ stored = Missing /\ Decoded /\ Searched
  BY <1>1 DEF CodecInv
<1>3. got["sk"].chars \in Seq(Symbol) /\ 2 * KeyLen \in Nat
  BY <1>2, FoundTexts, Lengths DEF IdIsValid
<1>4. Decoded' /\ Searched' /\ IdIsValid' /\ got' = got
  BY <1>1, <1>2, <1>3, StartDecodes, SameFields
<1>5. pk' \in Key(KeyLen) /\ Encode(pk') = got["pk"].chars
  <2>1. out \in Seq(Bytes)
    BY <1>2 DEF Decoded, DecoderTypeOK, Bytes
  <2> QED BY <1>1, <1>2, <2>1, AcceptedIsEncoding, KeyIsSeq, Lengths
<1>6. in' = got["sk"].chars /\ cap' = 2 * KeyLen
  BY <1>1 DEF record_b64_decode
<1> QED BY <1>1, <1>2, <1>4, <1>5, <1>6 DEF CodecInv

\* The secret key that is filed is what was decoded, or has it as its first half.
LEMMA SecretKept ==
    ASSUME CodecInv, stage = "sk", verdict = "ok", PairMatches
    PROVE  /\ Secret \in Key(2 * KeyLen)
           /\ out \in {Secret, SubSeq(Secret, 1, KeyLen)}
<1>1. out \in Seq(Bytes) /\ pk \in Seq(Bytes) /\ Len(pk) = KeyLen
  BY KeyIsSeq, Lengths DEF CodecInv, Decoded, DecoderTypeOK, Bytes
<1>2. Secret \in Seq(Bytes) /\ Len(Secret) = 2 * KeyLen
  BY <1>1 DEF Secret, PairMatches
<1>3. Secret \in Key(2 * KeyLen)
  BY <1>2, KeyIsSeq, Lengths
<1>4. CASE Len(out) = KeyLen
  <2>1. Secret = out \o pk
    BY <1>4 DEF Secret
  <2>2. SubSeq(out \o pk, 1, KeyLen) = out
    BY <1>1, <1>4, Lengths
  <2> QED BY <1>3, <2>1, <2>2
<1>5. CASE Len(out) # KeyLen
  BY <1>3, <1>5 DEF Secret
<1> QED BY <1>4, <1>5

LEMMA PairTakenCodec == CodecInv /\ PairTaken => CodecInv'
<1> SUFFICES ASSUME CodecInv, PairTaken PROVE CodecInv'
  OBVIOUS
<1>1. /\ stage = "sk" /\ verdict = "ok" /\ PairMatches
      /\ stored' = record_encode(pk, Secret, got["device_id"].chars)
      /\ stage' = "done" /\ pk' = pk /\ UNCHANGED decoder /\ UNCHANGED fields
  BY DEF PairTaken
<1>2. /\ IdIsValid /\ in = got["sk"].chars /\ Decoded /\ Searched
      /\ pk \in Key(KeyLen) /\ Encode(pk) = got["pk"].chars
  BY <1>1 DEF CodecInv
<1>3. Decoded' /\ Searched' /\ IdIsValid' /\ got' = got
  BY <1>1, <1>2, SameDecoder, SameFields
<1>4. Secret \in Key(2 * KeyLen) /\ out \in {Secret, SubSeq(Secret, 1, KeyLen)}
  BY <1>1, SecretKept
<1>5. Encode(out) = got["sk"].chars
  BY <1>1, <1>2, AcceptedIsEncoding
<1>6. got["sk"].chars \in {Encode(Secret), Encode(SubSeq(Secret, 1, KeyLen))}
  BY <1>4, <1>5
<1> DEFINE s == Secret
           new == record_encode(pk, s, got["device_id"].chars)
<1>7. /\ new.pk = pk /\ new.sk = s /\ new.id = got["device_id"].chars
      /\ new.idLen = Len(new.id) /\ new.len = Fixed + Len(new.id)
  BY DEF record_encode
<1>8. stored' = new
  BY <1>1
<1> HIDE DEF s, new
<1>9. Filed'
  BY <1>2, <1>3, <1>4, <1>6, <1>7, <1>8 DEF Filed, s, Key
<1> QED BY <1>1, <1>2, <1>3, <1>9 DEF CodecInv

\* A text that was refused by the decoder, or decoded to something that the pair does
\* not have, leaves no pair that the texts could encode.
LEMMA PkRefused ==
    ASSUME CodecInv, stage = "pk",
           verdict = "bad" \/ (verdict = "ok" /\ Len(out) # KeyLen)
    PROVE  NoPair
<1> SUFFICES ASSUME NEW p \in Seq(Bytes), NEW s \in Seq(Bytes), SoundPair(p, s) PROVE FALSE
  BY DEF NoPair
<1>1. in = got["pk"].chars /\ cap = KeyLen /\ Decoded
  BY DEF CodecInv
<1>2. Encode(p) = in /\ Len(p) = KeyLen
  BY <1>1 DEF SoundPair
<1>3. in # <<>>
  <2>1. /\ Len(Encode(p)) = 4 * Groups(p) /\ Groups(p) \in Nat /\ Len(p) <= 3 * Groups(p)
    BY EncodeAt, Thirds DEF Groups
  <2>2. Groups(p) # 0
    BY <1>2, <2>1, Lengths
  <2> QED BY <1>2, <2>1, <2>2
<1>4. CASE verdict = "bad"
  <2>1. Len(p) > cap
    BY <1>1, <1>2, <1>3, <1>4 DEF Decoded
  <2> QED BY <1>1, <1>2, <2>1, Lengths
<1>5. CASE verdict = "ok" /\ Len(out) # KeyLen
  <2>1. Encode(out) = in /\ out \in Seq(Bytes)
    BY <1>1, <1>5, AcceptedIsEncoding DEF Decoded, DecoderTypeOK, Bytes
  <2>2. out = p
    BY <1>2, <2>1, EncodeInjective
  <2> QED BY <1>2, <1>5, <2>2
<1> QED BY <1>4, <1>5

LEMMA SkRefused ==
    ASSUME CodecInv, stage = "sk",
           verdict = "bad" \/ (verdict = "ok" /\ ~PairMatches)
    PROVE  NoPair
<1> SUFFICES ASSUME NEW p \in Seq(Bytes), NEW s \in Seq(Bytes), SoundPair(p, s) PROVE FALSE
  BY DEF NoPair
<1>1. /\ in = got["sk"].chars /\ cap = 2 * KeyLen /\ Decoded
      /\ pk \in Key(KeyLen) /\ Encode(pk) = got["pk"].chars
  BY DEF CodecInv
<1>2. Encode(s) = in /\ Len(s) \in {KeyLen, 2 * KeyLen}
  BY <1>1 DEF SoundPair
<1>3. pk = p /\ Len(p) = KeyLen
  <2>1. pk \in Seq(Bytes) /\ Encode(pk) = Encode(p)
    BY <1>1, KeyIsSeq, Lengths DEF SoundPair
  <2> QED BY <2>1, EncodeInjective DEF SoundPair
<1>4. in # <<>>
  <2>1. Len(Encode(s)) = 4 * Groups(s) /\ Groups(s) \in Nat /\ Len(s) <= 3 * Groups(s)
    BY EncodeAt, Thirds DEF Groups
  <2>2. Groups(s) # 0
    <3>1. Len(s) \in Nat /\ Len(s) # 0
      BY <1>2, Lengths
    <3> QED BY <2>1, <3>1
  <2> QED BY <1>2, <2>1, <2>2
<1>5. CASE verdict = "bad"
  <2>1. Len(s) > cap
    BY <1>1, <1>2, <1>4, <1>5 DEF Decoded
  <2> QED BY <1>1, <1>2, <2>1, Lengths
<1>6. CASE verdict = "ok" /\ ~PairMatches
  <2>1. Encode(out) = in /\ out \in Seq(Bytes)
    BY <1>1, <1>6, AcceptedIsEncoding DEF Decoded, DecoderTypeOK, Bytes
  <2>2. out = s
    BY <1>2, <2>1, EncodeInjective
  <2>3. CASE Len(s) = KeyLen
    <3>1. Secret = s \o p
      BY <1>3, <2>2, <2>3 DEF Secret
    <3>2. Len(s \o p) = 2 * KeyLen /\ SubSeq(s \o p, KeyLen + 1, 2 * KeyLen) = p
      BY <1>3, <2>3, Lengths
    <3> QED BY <1>3, <1>6, <3>1, <3>2 DEF PairMatches
  <2>4. CASE Len(s) = 2 * KeyLen
    <3>1. Len(s) # KeyLen /\ Len(s) > KeyLen
      BY <2>4, Lengths
    <3>2. Secret = s /\ SubSeq(s, KeyLen + 1, 2 * KeyLen) = p
      BY <2>2, <3>1 DEF Secret, SoundPair
    <3> QED BY <1>3, <1>6, <2>4, <3>2 DEF PairMatches
  <2> QED BY <1>2, <2>3, <2>4
<1> QED BY <1>5, <1>6

LEMMA RefusedCodec == CodecInv /\ Refused => CodecInv'
<1> SUFFICES ASSUME CodecInv, Refused PROVE CodecInv'
  OBVIOUS
<1>1. stage' = "refused" /\ pk' = pk /\ stored' = stored /\ UNCHANGED decoder /\ UNCHANGED fields
  BY DEF Refused
<1>2. Decoded' /\ Searched'
  BY <1>1, SameDecoder, SameFields DEF CodecInv
<1>3. stored = Missing
  BY DEF Refused, CodecInv
<1> DEFINE Reason == \/ ~FoundSoFar
                     \/ AllFound /\ (~record_device_id_valid(got["device_id"].chars) \/ NoPair)
<1>4. WriteOrder => Reason
  <2>1. CASE stage = "fields"
    BY <2>1 DEF Refused
  <2>2. CASE stage = "pk"
    BY <2>2, PkRefused DEF Refused, CodecInv, IdIsValid
  <2>3. CASE stage = "sk"
    BY <2>3, SkRefused DEF Refused, CodecInv, IdIsValid
  <2> QED BY <2>1, <2>2, <2>3 DEF Refused
<1>5. WriteOrder' => Reason'
  <2>1. WriteOrder' = WriteOrder /\ FoundSoFar' = FoundSoFar /\ AllFound' = AllFound
    BY <1>1, SameFields
  <2>2. NoPair' = NoPair /\ got' = got
    BY <1>1, SameFields
  <2>3. record_device_id_valid(got["device_id"].chars)' = record_device_id_valid(got["device_id"].chars)
    BY <2>2 DEF record_device_id_valid
  <2> QED BY <1>4, <2>1, <2>2, <2>3
<1> QED BY <1>1, <1>2, <1>3, <1>5 DEF CodecInv

LEMMA StutterCodec == CodecInv /\ UNCHANGED vars => CodecInv'
<1> SUFFICES ASSUME CodecInv, UNCHANGED vars PROVE CodecInv'
  OBVIOUS
<1>1. /\ UNCHANGED fields /\ UNCHANGED decoder
      /\ stage' = stage /\ pk' = pk /\ stored' = stored /\ in' = in /\ cap' = cap
  BY DEF vars, decoder
<1>2. Decoded' /\ Searched' /\ IdIsValid' = IdIsValid /\ got' = got /\ NoPair' = NoPair
  BY <1>1, SameDecoder, SameFields DEF CodecInv
<1>3. WriteOrder' = WriteOrder /\ FoundSoFar' = FoundSoFar /\ AllFound' = AllFound
  BY <1>1, SameFields
<1>4. Filed => Filed'
  BY <1>1, <1>2 DEF Filed, Key
<1> QED BY <1>1, <1>2, <1>3, <1>4 DEF CodecInv

LEMMA CodecInvariant == Spec => []CodecInv
<1>1. CodecInv /\ [Next]_vars => CodecInv'
  BY LookupCodec, DecodingCodec, SignReadyCodec, IdTakenCodec, PkTakenCodec, PairTakenCodec,
     RefusedCodec, StutterCodec DEF Next
<1> QED BY <1>1, InitCodec, PTL DEF Spec

\* A text that was cut has a length that no encoding has: one that decodes to a key is whole.
LEMMA KeyStands ==
    ASSUME Searched, AllFound, WriteOrder, NEW f \in {"pk", "sk"},
           NEW b \in Seq(Bytes), Encode(b) = got[f].chars
    PROVE  Stands(f, Encode(b))
<1>1. /\ order \in Handlers /\ body \in Bodies[order] /\ f \in Field
      /\ got[f] = json_get_string(body.json, f) /\ got[f] # Missing
  BY FoundTexts DEF Searched, FieldsTypeOK
<1>2. Len(got[f].chars) = 4 * Groups(b) /\ Groups(b) \in Nat
  BY EncodeAt
<1>3. Room[f] % 4 = 3
  BY CodecAssumption
<1>4. \A m \in Nat : (4 * m) % 4 # 3
  OBVIOUS
<1>5. Len(got[f].chars) # Room[f]
  BY <1>2, <1>3, <1>4
<1>6. Stands(f, got[f].chars)
  BY <1>1, <1>5, FoundStands
<1> QED BY <1>6

LEMMA CodecFiles == CodecInv => FiledStandsInRequest
<1> SUFFICES ASSUME CodecInv, stored # Missing
             PROVE  /\ record_decodes(stored)
                    /\ Stands("pk", Encode(stored.pk))
                    /\ Stands("sk", Encode(stored.sk)) \/ Stands("sk", Encode(SubSeq(stored.sk, 1, KeyLen)))
  BY DEF FiledStandsInRequest
<1>1. Filed /\ IdIsValid /\ WriteOrder /\ AllFound /\ Searched
  BY DEF CodecInv, Filed, IdIsValid
<1>2. record_decodes(stored)
  <2>1. record_device_id_valid(stored.id)
    BY <1>1 DEF Filed, IdIsValid
  <2> QED BY <1>1, <2>1 DEF Filed, record_decodes, record_device_id_valid
<1>3. stored.pk \in Seq(Bytes) /\ stored.sk \in Seq(Bytes) /\ Len(stored.sk) = 2 * KeyLen
  BY <1>1, KeyIsSeq, Lengths DEF Filed
<1>4. SubSeq(stored.sk, 1, KeyLen) \in Seq(Bytes)
  BY <1>3, Lengths
<1>5. Stands("pk", Encode(stored.pk))
  BY <1>1, <1>3, KeyStands DEF Filed
<1>6. Stands("sk", Encode(stored.sk)) \/ Stands("sk", Encode(SubSeq(stored.sk, 1, KeyLen)))
  BY <1>1, <1>3, <1>4, KeyStands DEF Filed
<1> QED BY <1>2, <1>5, <1>6

\* A 400 although every field was found: the id is not valid, or no pair fits the texts.
LEMMA CodecRefuses ==
    ASSUME CodecInv, stage = "refused", WriteOrder
    PROVE  ~Sound(got["pk"], got["sk"], got["device_id"])
<1> SUFFICES ASSUME Sound(got["pk"], got["sk"], got["device_id"]) PROVE FALSE
  OBVIOUS
<1> DEFINE p == Candidate(got["pk"].chars)
           s == Candidate(got["sk"].chars)
<1>1. order \in Handlers /\ asked \in 0..Len(order) /\ got \in [ToSet(order) -> Returned]
  BY DEF CodecInv, Searched, FieldsTypeOK
<1>2. ToSet(order) = {"pk", "sk", "device_id"}
  BY <1>1, CodecAssumption DEF WriteOrder
<1>3. \A f \in ToSet(order) : got[f] # Missing /\ got[f].chars \in Seq(Symbol)
  BY <1>1, <1>2 DEF Sound, Returned
<1>4. p \in Seq(Bytes) /\ s \in Seq(Bytes)
  BY <1>2, <1>3, CandidateTyped
<1>5. /\ SoundPair(p, s) /\ record_device_id_valid(got["device_id"].chars)
  BY DEF Sound, SoundPair
<1> HIDE DEF p, s
<1>6. FoundSoFar
  <2> SUFFICES ASSUME NEW n \in 1..asked PROVE got[order[n]] # Missing
    BY DEF FoundSoFar
  <2>1. n \in 1..Len(order)
    BY <1>1, OrderTyped
  <2> QED BY <1>1, <1>3, <2>1, OrderTyped
<1>7. ~record_device_id_valid(got["device_id"].chars) \/ NoPair
  BY <1>6 DEF CodecInv
<1> QED BY <1>4, <1>5, <1>7 DEF NoPair

(***************************************************************************)
(* The results                                                             *)
(***************************************************************************)

\* Every variable of the path keeps its type: the decoder stores no more than out_cap
\* bytes, a byte is a byte, and what reaches record_encode() has the length of a key.
THEOREM CodecTypes == Spec => []TypeOK
<1>1. CodecInv => TypeOK
  BY DEF CodecInv, Decoded, Searched, Filed, TypeOK
<1> QED BY <1>1, CodecInvariant, PTL

\* record_b64_decode() accepts a text only as the encoding of the bytes it returns, and
\* refuses one only when it is empty or encodes nothing that fits.
THEOREM DecoderIsExact == Spec => []DecodesExactly
<1>1. CodecInv => DecodesExactly
  BY DecodedIsExact DEF CodecInv
<1> QED BY <1>1, CodecInvariant, PTL

\* Of all the sequences of bytes there are, none that would have fitted encodes to a
\* text that record_b64_decode() refused.
THEOREM NoEncodingRefused ==
    Spec => [](verdict = "bad" /\ in # <<>> =>
                 \A b \in Seq(0..(Byte - 1)) : Encode(b) = in => Len(b) > cap)
<1>1. CodecInv => (verdict = "bad" /\ in # <<>> =>
                     \A b \in Seq(0..(Byte - 1)) : Encode(b) = in => Len(b) > cap)
  BY DEF CodecInv, Decoded, Bytes
<1> QED BY <1>1, CodecInvariant, PTL

\* Whatever the body is, the keys that keystore_provision() files are encoded between two
\* quotes of it, behind the names of their members: no text that json_get_string() cut to
\* its buffer is ever taken for a key.
THEOREM FiledStands == Spec => []FiledStandsInRequest
<1>1. CodecInv => FiledStandsInRequest
  BY CodecFiles
<1> QED BY <1>1, CodecInvariant, PTL

\* POST /write answers no request with a 400 in which json_get_string() found a matching
\* pair of keys and a device id as it should be.
THEOREM NothingFoundRefused ==
    Spec => [](stage = "refused" /\ "device_id" \in ToSet(order) =>
                 ~Sound(got["pk"], got["sk"], got["device_id"]))
<1>1. CodecInv => (stage = "refused" /\ "device_id" \in ToSet(order) =>
                     ~Sound(got["pk"], got["sk"], got["device_id"]))
  BY CodecRefuses DEF WriteOrder
<1> QED BY <1>1, CodecInvariant, PTL
==============================================================================
