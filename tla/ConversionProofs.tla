-------------------------- MODULE ConversionProofs --------------------------
(***************************************************************************)
(* What the conversions of RequestParams do, for every size of a byte:     *)
(* the arithmetic the proofs about a request need.  The sizes are 1, 2, 4  *)
(* and 8 bytes; that a type holds a multiple of the values of a narrower   *)
(* one is all the proofs use of ByteValues.                                *)
(***************************************************************************)
EXTENDS RequestParams, SequenceTheorems, WellFoundedInduction, TLAPS

\* Induction over the natural numbers, for a set.
LEMMA Induction ==
  ASSUME NEW S \in SUBSET Nat, 0 \in S, \A n \in S : n + 1 \in S
  PROVE  S = Nat
<1> SUFFICES ASSUME Nat \ S # {} PROVE FALSE
  OBVIOUS
<1> DEFINE R == {p \in Nat \X Nat : p[1] < p[2]}
<1>1. IsWellFoundedOn(R, Nat)
  BY NatLessThanWellFounded DEF OpToRel
<1>2. PICK m \in Nat \ S : \A i \in Nat \ S : <<i, m>> \notin R
  <2> HIDE DEF R
  <2>1. Nat \ S \subseteq Nat
    OBVIOUS
  <2>2. QED
    BY <1>1, <2>1, WFMin
<1>3. m # 0 /\ m - 1 \in Nat /\ <<m - 1, m>> \in R
  OBVIOUS
<1>4. m - 1 \in S
  BY <1>2, <1>3
<1>5. QED
  BY <1>3, <1>4

\* Up to n, g is the function.
Counts(g, n) ==
  /\ g \in [0..n -> Nat]
  /\ g[0] = 1
  /\ \A i \in 1..n : g[i] = Byte * g[i - 1]

\* There is such a function for every n.
LEMMA CountsExist ==
  ASSUME NEW n \in Nat
  PROVE  \E g : Counts(g, n)
<1> DEFINE S == {m \in Nat : \E g : Counts(g, m)}
<1>1. 0 \in S
  <2>1. Counts([i \in 0..0 |-> 1], 0)
    BY DEF Counts
  <2>2. QED
    BY <2>1
<1>2. ASSUME NEW m \in S
      PROVE  m + 1 \in S
  <2>1. PICK g : Counts(g, m)
    OBVIOUS
  <2> DEFINE h == [i \in 0..m + 1 |-> IF i <= m THEN g[i] ELSE Byte * g[m]]
  <2>2. g[m] \in Nat /\ Byte * g[m] \in Nat
    BY <2>1, ByteAssumption DEF Counts
  <2>3. h \in [0..m + 1 -> Nat] /\ h[0] = 1
    BY <2>1, <2>2 DEF Counts
  <2>4. ASSUME NEW i \in 1..m + 1
        PROVE  h[i] = Byte * h[i - 1]
    <3>1. CASE i <= m
      <4>1. h[i] = g[i] /\ h[i - 1] = g[i - 1] /\ i \in 1..m
        BY <3>1
      <4>2. QED
        BY <2>1, <4>1 DEF Counts
    <3>2. CASE i = m + 1
      <4>1. h[i] = Byte * g[m] /\ h[i - 1] = g[m]
        BY <3>2
      <4>2. QED
        BY <4>1
    <3>3. QED
      BY <3>1, <3>2
  <2>5. Counts(h, m + 1)
    BY <2>3, <2>4 DEF Counts
  <2>6. QED
    BY <2>5
<1>3. S = Nat
  <2> HIDE DEF S
  <2>1. S \in SUBSET Nat
    BY DEF S
  <2>2. QED
    BY <1>1, <1>2, <2>1, Induction
<1>4. QED
  BY <1>3

\* Two of them agree where both are.
LEMMA CountsUnique ==
  ASSUME NEW n \in Nat, NEW m \in Nat, n <= m, NEW g, NEW h, Counts(g, n), Counts(h, m)
  PROVE  g[n] = h[n]
<1> DEFINE S == {i \in Nat : i <= n => g[i] = h[i]}
<1>1. 0 \in S
  BY DEF Counts
<1>2. ASSUME NEW i \in S
      PROVE  i + 1 \in S
  <2>1. i + 1 <= n => /\ g[i + 1] = Byte * g[(i + 1) - 1]
                      /\ h[i + 1] = Byte * h[(i + 1) - 1]
    <3>1. i + 1 <= n => i + 1 \in 1..n /\ i + 1 \in 1..m
      OBVIOUS
    <3>2. /\ \A j \in 1..n : g[j] = Byte * g[j - 1]
          /\ \A j \in 1..m : h[j] = Byte * h[j - 1]
      BY DEF Counts
    <3>3. QED
      BY <3>1, <3>2
  <2>2. (i + 1) - 1 = i
    OBVIOUS
  <2>3. QED
    BY <2>1, <2>2
<1>3. S = Nat
  <2> HIDE DEF S
  <2>1. S \in SUBSET Nat
    BY DEF S
  <2>2. QED
    BY <1>1, <1>2, <2>1, Induction
<1>4. QED
  BY <1>3

\* ByteValues is the function its recursive definition describes.
LEMMA ByteValuesDef ==
  ByteValues = [n \in Nat |-> IF n = 0 THEN 1 ELSE Byte * ByteValues[n - 1]]
<1> DEFINE Last(n) == (CHOOSE g : Counts(g, n))[n]
           f == [n \in Nat |-> Last(n)]
<1>1. ASSUME NEW n \in Nat
      PROVE  f[n] = IF n = 0 THEN 1 ELSE Byte * f[n - 1]
  <2>1. PICK g : g = (CHOOSE x : Counts(x, n)) /\ Counts(g, n)
    BY CountsExist
  <2>2. f[n] = g[n]
    BY <2>1
  <2>3. CASE n = 0
    BY <2>1, <2>2, <2>3 DEF Counts
  <2>4. CASE n # 0
    <3>1. n - 1 \in Nat /\ n \in 1..n
      BY <2>4
    <3>2. PICK h : h = (CHOOSE x : Counts(x, n - 1)) /\ Counts(h, n - 1)
      BY <3>1, CountsExist
    <3>3. h[n - 1] = g[n - 1]
      BY <2>1, <3>1, <3>2, CountsUnique
    <3>4. f[n - 1] = h[n - 1]
      BY <3>1, <3>2
    <3>5. g[n] = Byte * g[n - 1]
      BY <2>1, <3>1 DEF Counts
    <3>6. QED
      BY <2>2, <2>4, <3>3, <3>4, <3>5
  <2>5. QED
    BY <2>3, <2>4
<1>2. f = [n \in Nat |-> IF n = 0 THEN 1 ELSE Byte * f[n - 1]]
  <2>1. f = [n \in Nat |-> f[n]]
    OBVIOUS
  <2> HIDE DEF f
  <2>2. QED
    BY <1>1, <2>1
<1> HIDE DEF f
<1>3. \E x : x = [n \in Nat |-> IF n = 0 THEN 1 ELSE Byte * x[n - 1]]
  BY <1>2
<1>4. QED
  BY <1>3 DEF ByteValues

-----------------------------------------------------------------------------
(* Powers of Byte.                                                         *)

\* The sizes in bytes of the integer types of the code.
Widths == {1, 2, 4, 8}

\* One more byte multiplies the number of values by Byte.
LEMMA ByteValuesStep ==
  /\ ByteValues[0] = 1
  /\ \A n \in Nat : /\ ByteValues[n + 1] = Byte * ByteValues[n]
                    /\ ByteValues[n] \in Nat \ {0}
<1>1. ASSUME NEW n \in Nat
      PROVE  ByteValues[n + 1] = Byte * ByteValues[n]
  <2>1. n + 1 \in Nat /\ n + 1 # 0 /\ (n + 1) - 1 = n
    OBVIOUS
  <2>2. ByteValues[n + 1] = Byte * ByteValues[(n + 1) - 1]
    BY <2>1, ByteValuesDef
  <2>3. QED
    BY <2>1, <2>2
<1>2. ByteValues[0] = 1
  BY ByteValuesDef
<1> DEFINE S == {n \in Nat : ByteValues[n] \in Nat \ {0}}
<1>3. 0 \in S
  BY <1>2
<1>4. ASSUME NEW n \in S
      PROVE  n + 1 \in S
  <2>1. \A x \in Nat \ {0} : Byte * x \in Nat \ {0}
    BY ByteAssumption
  <2>2. QED
    BY <1>1, <2>1
<1>5. S = Nat
  <2> HIDE DEF S
  <2>1. S \in SUBSET Nat
    BY DEF S
  <2>2. QED
    BY <1>3, <1>4, <2>1, Induction
<1>6. QED
  BY <1>1, <1>2, <1>5

\* The numbers of values of the widths, each the square of the one before.
LEMMA Powers ==
  /\ ByteValues[1] = Byte
  /\ ByteValues[2] = Byte * Byte
  /\ ByteValues[4] = ByteValues[2] * ByteValues[2]
  /\ ByteValues[8] = ByteValues[4] * ByteValues[4]
<1>1. \A n \in {0, 1, 2, 3, 4, 5, 6, 7} : /\ ByteValues[n + 1] = Byte * ByteValues[n]
                                        /\ ByteValues[n] \in Nat
  BY ByteValuesStep
<1>2. /\ ByteValues[1] = Byte * ByteValues[0] /\ ByteValues[2] = Byte * ByteValues[1]
      /\ ByteValues[3] = Byte * ByteValues[2] /\ ByteValues[4] = Byte * ByteValues[3]
      /\ ByteValues[5] = Byte * ByteValues[4] /\ ByteValues[6] = Byte * ByteValues[5]
      /\ ByteValues[7] = Byte * ByteValues[6] /\ ByteValues[8] = Byte * ByteValues[7]
      /\ ByteValues[4] \in Nat
  BY <1>1
<1>3. ByteValues[1] = Byte /\ ByteValues[2] = Byte * Byte
  BY <1>2, ByteValuesStep, ByteAssumption
<1>4. ByteValues[4] = ByteValues[2] * ByteValues[2]
  <2>1. \A b \in Nat : b * (b * (b * b)) = (b * b) * (b * b)
    OBVIOUS
  <2>2. ByteValues[4] = Byte * (Byte * (Byte * Byte))
    BY <1>2, <1>3
  <2>3. QED
    BY <1>3, <2>1, <2>2, ByteAssumption
<1>5. ByteValues[8] = ByteValues[4] * ByteValues[4]
  <2>1. \A b, c \in Nat : b * (b * (b * (b * c))) = ((b * b) * (b * b)) * c
    OBVIOUS
  <2>2. ByteValues[8] = Byte * (Byte * (Byte * (Byte * ByteValues[4])))
    BY <1>2
  <2>3. ByteValues[8] = ((Byte * Byte) * (Byte * Byte)) * ByteValues[4]
    BY <1>2, <2>1, <2>2, ByteAssumption
  <2>4. QED
    BY <1>3, <1>4, <2>3
<1>6. QED
  BY <1>3, <1>4, <1>5

\* x is a multiple of y.
Multiple(x, y) == \E j \in Nat \ {0} : x = y * j

\* A multiple of a multiple is a multiple.
LEMMA MultipleTransitive ==
  ASSUME NEW x \in Nat, NEW y \in Nat, NEW z \in Nat, Multiple(x, y), Multiple(y, z)
  PROVE  Multiple(x, z)
<1> PICK i \in Nat \ {0} : x = y * i
  BY DEF Multiple
<1> PICK j \in Nat \ {0} : y = z * j
  BY DEF Multiple
<1>1. x = z * (j * i) /\ j * i \in Nat \ {0}
  OBVIOUS
<1>2. QED
  BY <1>1 DEF Multiple

\* The number of values of a type is even, and a multiple of that of a narrower one.
LEMMA WidthMultiples ==
  ASSUME NEW n \in Widths
  PROVE  /\ Multiple(ByteValues[n], 2)
         /\ \A k \in Widths : k <= n => Multiple(ByteValues[n], ByteValues[k])
<1>1. \A k \in Widths : ByteValues[k] \in Nat \ {0}
  BY ByteValuesStep DEF Widths
<1>2. /\ Multiple(ByteValues[8], ByteValues[4])
      /\ Multiple(ByteValues[4], ByteValues[2])
  BY <1>1, Powers DEF Multiple, Widths
<1>3. Multiple(ByteValues[2], ByteValues[1])
  BY Powers, ByteAssumption DEF Multiple
<1>4. Multiple(ByteValues[1], 2)
  <2>1. \E j \in Int : Byte = 2 * j
    BY ByteAssumption
  <2>2. QED
    BY <2>1, Powers, ByteAssumption DEF Multiple
<1>5. \A k \in Widths : Multiple(ByteValues[k], ByteValues[k])
  <2>1. \A x \in Nat : x = x * 1
    OBVIOUS
  <2>2. QED
    BY <1>1, <2>1 DEF Multiple
<1>6. Multiple(ByteValues[8], ByteValues[2])
  BY <1>1, <1>2, MultipleTransitive DEF Widths
<1>7. Multiple(ByteValues[4], ByteValues[1])
  BY <1>1, <1>2, <1>3, MultipleTransitive DEF Widths
<1>8. Multiple(ByteValues[8], ByteValues[1])
  BY <1>1, <1>2, <1>7, MultipleTransitive DEF Widths
<1>9. \A k \in Widths : k <= n => Multiple(ByteValues[n], ByteValues[k])
  BY <1>2, <1>3, <1>5, <1>6, <1>7, <1>8 DEF Widths
<1>10. Multiple(ByteValues[n], ByteValues[1])
  BY <1>9 DEF Widths
<1>11. QED
  BY <1>1, <1>4, <1>9, <1>10, MultipleTransitive DEF Widths

-----------------------------------------------------------------------------
(* Division.                                                               *)

\* Quotient and remainder.
LEMMA Division ==
  ASSUME NEW v \in Int, NEW m \in Nat \ {0}
  PROVE  /\ v \div m \in Int /\ v % m \in 0..m - 1
         /\ v = m * (v \div m) + (v % m)
OBVIOUS

\* A remainder is the only one.
LEMMA Remainder ==
  ASSUME NEW m \in Nat \ {0}, NEW q \in Int, NEW r \in 0..m - 1
  PROVE  (m * q + r) % m = r
OBVIOUS

\* A remainder of a multiple of m has the remainder of m.
LEMMA RemainderOfMultiple ==
  ASSUME NEW v \in Int, NEW m \in Nat \ {0}, NEW j \in Nat \ {0}
  PROVE  (v % (m * j)) % m = v % m
<1>0. m * j > 0
  OBVIOUS
<1>1. PICK n \in Nat \ {0} : n = m * j
  BY <1>0
<1>2. PICK q \in Int, u \in Int : v = n * q + u /\ u = v % n
  <2>1. v \div n \in Int /\ v % n \in Int /\ v = n * (v \div n) + (v % n)
    BY Division
  <2>2. QED
    BY <2>1
<1>3. PICK r \in Int, w \in 0..m - 1 : u = m * r + w /\ w = u % m
  BY Division
<1>4. v = m * (j * q + r) + w
  <2>1. v = (m * j) * q + (m * r + w)
    BY <1>1, <1>2, <1>3
  <2>2. \A b, c, d, e, f \in Int : (b * c) * d + (b * e + f) = b * (c * d + e) + f
    OBVIOUS
  <2>3. QED
    BY <2>1, <2>2
<1>5. j * q + r \in Int
  OBVIOUS
<1>6. v % m = w
  BY <1>4, <1>5, Remainder
<1>7. QED
  BY <1>1, <1>2, <1>3, <1>6

-----------------------------------------------------------------------------
(* Conversions.                                                            *)

\* The integer types of the code.
IntTypes == {UInt(n) : n \in Widths} \cup {SInt(n) : n \in Widths}

\* An integer type is not text and has one of the widths.
LEMMA IntTypeShape ==
  ASSUME NEW t \in IntTypes
  PROVE  /\ t # Text /\ t.bytes \in Widths /\ t.signed \in BOOLEAN
         /\ t = IF t.signed THEN SInt(t.bytes) ELSE UInt(t.bytes)
         /\ ByteValues[t.bytes] \in Nat \ {0}
<1>1. PICK n \in Widths : t = UInt(n) \/ t = SInt(n)
  BY DEF IntTypes
<1>2. n \in Nat \ {0}
  BY DEF Widths
<1>3. CASE t = UInt(n)
  BY <1>2, <1>3, ByteValuesStep DEF UInt, Text
<1>4. CASE t = SInt(n)
  BY <1>2, <1>4, ByteValuesStep DEF SInt, Text
<1>5. QED
  BY <1>1, <1>3, <1>4

\* Text is copied.
LEMMA ConvertText ==
  \A v : Convert(v, Text) = v
BY DEF Convert

\* Conversion to an unsigned type of any size is the remainder.
LEMMA ConvertUnsigned ==
  ASSUME NEW v \in Int, NEW n \in Nat \ {0}
  PROVE  /\ Convert(v, UInt(n)) = v % ByteValues[n]
         /\ Convert(v, UInt(n)) \in 0 .. ByteValues[n] - 1
<1>1. UInt(n) # Text /\ UInt(n).bytes = n /\ UInt(n).signed = FALSE
  BY DEF UInt, Text
<1>2. Convert(v, UInt(n)) = v % ByteValues[n]
  BY <1>1 DEF Convert
<1>3. QED
  BY <1>2, ByteValuesStep, Division

\* Conversion to a signed type: what is not below the middle is negative.
LEMMA ConvertSigned ==
  ASSUME NEW v \in Int, NEW n \in Widths
  PROVE  Convert(v, SInt(n)) = IF 2 * (v % ByteValues[n]) >= ByteValues[n]
                                 THEN (v % ByteValues[n]) - ByteValues[n]
                                 ELSE v % ByteValues[n]
<1>1. SInt(n) # Text /\ SInt(n).bytes = n /\ SInt(n).signed = TRUE
  BY DEF SInt, Text
<1>2. QED
  BY <1>1 DEF Convert

\* A number is in the range of a type.
InRange(v, t) ==
  IF t.signed THEN -ByteValues[t.bytes] <= 2 * v /\ 2 * v < ByteValues[t.bytes]
              ELSE 0 <= v /\ v < ByteValues[t.bytes]

\* A conversion ends in the range of the type and adds a multiple of its number of
\* values.
LEMMA ConvertRange ==
  ASSUME NEW v \in Int, NEW t \in IntTypes
  PROVE  /\ Convert(v, t) \in Int /\ InRange(Convert(v, t), t)
         /\ \E q \in Int : Convert(v, t) = ByteValues[t.bytes] * q + v
<1> DEFINE m == ByteValues[t.bytes]
           u == v % m
<1>1. m \in Nat \ {0} /\ t.bytes \in Widths /\ t.bytes \in Nat \ {0}
  BY IntTypeShape DEF Widths
<1>2. /\ v \div m \in Int /\ u \in 0 .. m - 1
      /\ v = m * (v \div m) + u
  BY <1>1, Division
<1>3. Convert(v, t) = IF t.signed /\ 2 * u >= m THEN u - m ELSE u
  <2>1. CASE t.signed
    <3>1. t = SInt(t.bytes)
      BY <2>1, IntTypeShape
    <3>2. Convert(v, SInt(t.bytes)) = IF 2 * u >= m THEN u - m ELSE u
      BY <1>1, ConvertSigned
    <3>3. QED
      BY <2>1, <3>1, <3>2
  <2>2. CASE ~t.signed
    <3>1. t = UInt(t.bytes)
      BY <2>2, IntTypeShape
    <3>2. Convert(v, UInt(t.bytes)) = u
      BY <1>1, ConvertUnsigned
    <3>3. QED
      BY <2>2, <3>1, <3>2
  <2>3. QED
    BY <2>1, <2>2
<1>4. Convert(v, t) \in Int /\ InRange(Convert(v, t), t)
  <2> HIDE DEF m, u
  <2>1. InRange(Convert(v, t), t) <=>
          IF t.signed THEN -m <= 2 * Convert(v, t) /\ 2 * Convert(v, t) < m
                      ELSE 0 <= Convert(v, t) /\ Convert(v, t) < m
    BY DEF InRange, m
  <2>2. QED
    BY <1>1, <1>2, <1>3, <2>1
<1>5. \E q \in Int : Convert(v, t) = m * q + v
  <2> DEFINE d == v \div m
  <2> HIDE DEF m, u, d
  <2>1. d \in Int /\ v = m * d + u /\ u \in Int /\ m \in Nat
    BY <1>1, <1>2 DEF d
  <2>2. u = m * (-d) + v /\ u - m = m * (-d - 1) + v
    <3>1. \A x, y, z \in Int : z = x * (-y) + (x * y + z) /\ z - x = x * (-y - 1) + (x * y + z)
      OBVIOUS
    <3>2. QED
      BY <2>1, <3>1
  <2>3. -d \in Int /\ -d - 1 \in Int
    BY <2>1
  <2>4. QED
    BY <1>3, <2>2, <2>3
<1>6. QED
  BY <1>4, <1>5

\* A number fits a type exactly when it is in its range.
LEMMA FitsInRange ==
  ASSUME NEW v \in Int, NEW t \in IntTypes
  PROVE  Fits(v, t) <=> InRange(v, t)
<1> DEFINE m == ByteValues[t.bytes]
<1>1. m \in Nat \ {0} /\ t.bytes \in Widths /\ t.bytes \in Nat \ {0}
  BY IntTypeShape DEF Widths
<1>2. Fits(v, t) => InRange(v, t)
  BY ConvertRange DEF Fits
<1>3. ASSUME 0 <= v, v < m
      PROVE  v % m = v
  <2> HIDE DEF m
  <2>1. 0 \in Int /\ v \in 0 .. m - 1 /\ v = m * 0 + v
    BY <1>1, <1>3
  <2>2. QED
    BY <1>1, <2>1, Remainder
<1>4. ASSUME -m <= 2 * v, v < 0
      PROVE  v % m = v + m
  <2> HIDE DEF m
  <2>1. -1 \in Int /\ v + m \in 0 .. m - 1 /\ v = m * (-1) + (v + m)
    BY <1>1, <1>4
  <2>2. (m * (-1) + (v + m)) % m = v + m
    BY <1>1, <2>1, Remainder
  <2>3. QED
    BY <2>1, <2>2
<1>5. ASSUME InRange(v, t)
      PROVE  Fits(v, t)
  <2>1. CASE ~t.signed
    BY <1>1, <1>3, <1>5, <2>1, IntTypeShape, ConvertUnsigned DEF InRange, Fits
  <2>2. CASE t.signed
    <3>1. -m <= 2 * v /\ 2 * v < m
      BY <1>5, <2>2 DEF InRange
    <3>2. Convert(v, t) = IF 2 * (v % m) >= m THEN (v % m) - m ELSE v % m
      BY <1>1, <2>2, IntTypeShape, ConvertSigned
    <3> HIDE DEF m
    <3>3. CASE v >= 0
      BY <1>1, <1>3, <3>1, <3>2, <3>3 DEF Fits
    <3>4. CASE v < 0
      BY <1>1, <1>4, <3>1, <3>2, <3>4 DEF Fits
    <3>5. QED
      BY <3>3, <3>4
  <2>3. QED
    BY <2>1, <2>2, IntTypeShape
<1>6. QED
  BY <1>2, <1>5

\* What was converted to a type fits it.
LEMMA ConvertFits ==
  ASSUME NEW v \in Int, NEW t \in IntTypes
  PROVE  Convert(v, t) \in Int /\ Fits(Convert(v, t), t)
BY ConvertRange, FitsInRange

\* A narrower integer fits a wider type of its own signedness.
LEMMA FitsWider ==
  ASSUME NEW v \in Int, NEW t \in IntTypes, NEW w \in IntTypes,
         Fits(v, t), t.signed = w.signed, t.bytes <= w.bytes
  PROVE  Fits(v, w)
<1>1. PICK j \in Nat \ {0} : ByteValues[w.bytes] = ByteValues[t.bytes] * j
  BY IntTypeShape, WidthMultiples DEF Multiple
<1>2. ByteValues[w.bytes] >= ByteValues[t.bytes]
  <2>1. ByteValues[t.bytes] \in Nat
    BY IntTypeShape
  <2>2. \A x \in Nat : x * j >= x
    OBVIOUS
  <2>3. QED
    BY <1>1, <2>1, <2>2
<1>3. InRange(v, t) /\ ByteValues[t.bytes] \in Nat /\ ByteValues[w.bytes] \in Nat
  BY FitsInRange, IntTypeShape
<1>4. InRange(v, w)
  BY <1>2, <1>3 DEF InRange
<1>5. QED
  BY <1>4, FitsInRange

\* The low bytes of a number survive a conversion that keeps them.
LEMMA LowBytesSurvive ==
  ASSUME NEW v \in Int, NEW t \in IntTypes, NEW k \in Widths, k <= t.bytes
  PROVE  Convert(Convert(v, t), UInt(k)) = Convert(v, UInt(k))
<1>0. k \in Nat \ {0} /\ t.bytes \in Widths
  BY IntTypeShape DEF Widths
<1>1. PICK q \in Int : Convert(v, t) = ByteValues[t.bytes] * q + v
  BY ConvertRange
<1>2. PICK j \in Nat \ {0} : ByteValues[t.bytes] = ByteValues[k] * j
  BY <1>0, WidthMultiples DEF Multiple
<1>3. PICK b \in Nat \ {0} : b = ByteValues[k]
  BY <1>0, ByteValuesStep
<1>4. PICK d \in Int, r \in 0 .. b - 1 : v = b * d + r /\ r = v % b
  <2>1. v \div b \in Int /\ v % b \in 0 .. b - 1 /\ v = b * (v \div b) + (v % b)
    BY Division
  <2>2. QED
    BY <2>1
<1>5. Convert(v, t) = b * (j * q + d) + r
  <2>1. Convert(v, t) = (b * j) * q + (b * d + r)
    BY <1>1, <1>2, <1>3, <1>4
  <2>2. \A w, x, y, z, s \in Int : (w * x) * y + (w * z + s) = w * (x * y + z) + s
    OBVIOUS
  <2>3. QED
    BY <2>1, <2>2
<1>6. j * q + d \in Int
  OBVIOUS
<1>7. Convert(v, t) % b = r
  BY <1>5, <1>6, Remainder
<1>8. QED
  BY <1>0, <1>3, <1>4, <1>7, ConvertFits, ConvertUnsigned

\* An attribute's value fits the unsigned type of its size, whatever the size.
LEMMA ValueFits ==
  ASSUME NEW a, IsAttribute(a)
  PROVE  Convert(a.value, UInt(a.size)) = a.value /\ a.value \in Nat /\ a.size \in Nat
<1>1. a.size \in Nat /\ a.value \in Nat /\ a.value < ByteValues[a.size]
  BY DEF IsAttribute, Attributes
<1>2. CASE a.size = 0
  <2>1. UInt(a.size) = Text
    BY <1>2 DEF UInt, Text
  <2>2. QED
    BY <1>1, <2>1, ConvertText
<1>3. CASE a.size # 0
  <2>1. PICK m \in Nat \ {0} : m = ByteValues[a.size]
    BY <1>1, ByteValuesStep
  <2>2. 0 \in Int /\ a.value \in 0 .. m - 1 /\ a.value = m * 0 + a.value
    BY <1>1, <2>1
  <2>3. (m * 0 + a.value) % m = a.value
    BY <2>2, Remainder
  <2>4. a.value % m = a.value
    BY <2>2, <2>3
  <2>5. a.value \in Int /\ a.size \in Nat \ {0}
    BY <1>1, <1>3
  <2>6. QED
    BY <1>1, <2>1, <2>4, <2>5, ConvertUnsigned
<1>4. QED
  BY <1>2, <1>3

\* A field that kept every byte of an attribute still tells its value after another
\* conversion that keeps them.
LEMMA SentSurvives ==
  ASSUME NEW a, IsAttribute(a), NEW t \in IntTypes, NEW w \in IntTypes,
         a.size \in Widths, a.size <= t.bytes, a.size <= w.bytes
  PROVE  Convert(Convert(Convert(a.value, t), w), UInt(a.size)) = a.value
<1>1. a.value \in Int /\ Convert(a.value, t) \in Int
  BY ValueFits, ConvertFits
<1>2. Convert(Convert(Convert(a.value, t), w), UInt(a.size)) = Convert(Convert(a.value, t), UInt(a.size))
  BY <1>1, LowBytesSurvive
<1>3. Convert(Convert(a.value, t), UInt(a.size)) = Convert(a.value, UInt(a.size))
  BY <1>1, LowBytesSurvive
<1>4. QED
  BY <1>2, <1>3, ValueFits

\* The reader of an attribute of its own width finds the number that was written,
\* converted to the type it reads.
LEMMA WireIsRead ==
  ASSUME NEW v \in Int, NEW t \in IntTypes
  PROVE  /\ Read(Wire(v, t.bytes), t) = Convert(v, t)
         /\ Wire(v, t.bytes) \in Attributes
<1>1. PICK m \in Nat \ {0} : m = ByteValues[t.bytes]
  BY IntTypeShape
<1>2. t.bytes \in Widths /\ t.bytes \in Nat \ {0} /\ t.bytes - t.bytes = 0
  BY IntTypeShape DEF Widths
<1>3. v % m \in 0 .. m - 1 /\ Convert(v, UInt(t.bytes)) = v % m
  BY <1>1, <1>2, Division, ConvertUnsigned
<1>4. /\ Wire(v, t.bytes).value = v % m /\ Wire(v, t.bytes).size = t.bytes
      /\ Wire(v, t.bytes) \in Attributes
  BY <1>2, <1>3 DEF Wire, Attributes
<1>5. \A x \in Int : x \div 1 = x
  OBVIOUS
<1>6. Read(Wire(v, t.bytes), t) = Convert(v % m, t)
  BY <1>2, <1>3, <1>4, <1>5, ByteValuesStep DEF Read
<1>7. (v % m) % m = v % m
  <2>1. 0 \in Int /\ v % m = m * 0 + (v % m)
    BY <1>3
  <2>2. QED
    BY <1>3, <2>1, Remainder
<1>8. Convert(v % m, t) = Convert(v, t)
  <2>1. v % m \in Int
    BY <1>3
  <2>2. CASE t.signed
    <3>1. t = SInt(t.bytes)
      BY <2>2, IntTypeShape
    <3> DEFINE S(u) == IF 2 * u >= m THEN u - m ELSE u
    <3>2. Convert(v % m, SInt(t.bytes)) = S((v % m) % m)
      BY <1>1, <1>2, <2>1, ConvertSigned
    <3>3. Convert(v, SInt(t.bytes)) = S(v % m)
      BY <1>1, <1>2, ConvertSigned
    <3> HIDE DEF S
    <3>4. QED
      BY <1>7, <3>1, <3>2, <3>3
  <2>3. CASE ~t.signed
    <3>1. t = UInt(t.bytes)
      BY <2>3, IntTypeShape
    <3>2. Convert(v % m, UInt(t.bytes)) = (v % m) % m
      BY <1>1, <1>2, <2>1, ConvertUnsigned
    <3>3. QED
      BY <1>3, <1>7, <3>1, <3>2
  <2>4. QED
    BY <2>2, <2>3, IntTypeShape
<1>9. QED
  BY <1>4, <1>6, <1>8

=============================================================================
