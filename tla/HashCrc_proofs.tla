--------------------------- MODULE HashCrc_proofs ----------------------------
(***************************************************************************)
(* The hash of every array of bytes, of any length, is its CRC-32C by      *)
(* division, and the binary search for the highest bit ends there.         *)
(*                                                                         *)
(* Multiplication of a word by a power of the indeterminate is linear, so  *)
(* it is enough that every entry of crc32c_tables at a power of two is     *)
(* that multiple of the entry before it: the eight lemmas on the rows.     *)
(***************************************************************************)
EXTENDS HashCrc, FiniteSetTheorems, WellFoundedInduction, TLAPS

-----------------------------------------------------------------------------
(* The least counterexample: what stands for induction here.                *)

\* A set of natural numbers that is not empty has a least element.
LEMMA Least ==
  ASSUME NEW S \in SUBSET Nat, S # {}
  PROVE  \E m \in S : \A k \in S : m <= k
<1>1. OpToRel(<, Nat) = {p \in Nat \X Nat : p[1] < p[2]}
  BY DEF OpToRel
<1>2. PICK m \in S : \A k \in S : <<k, m>> \notin OpToRel(<, Nat)
  <2>1. S \subseteq Nat
    OBVIOUS
  <2> QED BY <2>1, NatLessThanWellFounded, WFMin
<1>3. \A k \in S : ~ (k < m)
  BY <1>1, <1>2
<1> QED BY <1>3

-----------------------------------------------------------------------------
(* Words                                                                    *)

LEMMA XorType ==
  ASSUME NEW T, NEW v \in SUBSET T, NEW w \in SUBSET T
  PROVE  Xor(v, w) \in SUBSET T
BY DEF Xor

LEMMA XorLaws ==
  ASSUME NEW u, NEW v, NEW w
  PROVE  /\ Xor(u, v) = Xor(v, u)
         /\ Xor(Xor(u, v), w) = Xor(u, Xor(v, w))
         /\ Xor(u, {}) = u /\ Xor({}, u) = u /\ Xor(u, u) = {}
BY DEF Xor

\* Two sums of two, and of four, added term by term.
LEMMA XorPairs ==
  ASSUME NEW a, NEW b, NEW c, NEW d
  PROVE  Xor(Xor(a, b), Xor(c, d)) = Xor(Xor(a, c), Xor(b, d))
BY DEF Xor

LEMMA ShiftMember ==
  ASSUME NEW w \in SUBSET Nat, NEW n \in Nat
  PROVE  /\ ShiftRight(w, n) \in SUBSET Nat
         /\ \A b \in Nat : b \in ShiftRight(w, n) <=> b + n \in w
BY DEF ShiftRight

LEMMA ShiftXor ==
  ASSUME NEW v \in SUBSET Nat, NEW w \in SUBSET Nat, NEW n \in Nat
  PROVE  ShiftRight(Xor(v, w), n) = Xor(ShiftRight(v, n), ShiftRight(w, n))
<1>1. Xor(v, w) \in SUBSET Nat
  BY XorType
<1>2. /\ ShiftRight(v, n) \in SUBSET Nat /\ ShiftRight(w, n) \in SUBSET Nat
      /\ ShiftRight(Xor(v, w), n) \in SUBSET Nat
  BY <1>1, ShiftMember
<1>3. Xor(ShiftRight(v, n), ShiftRight(w, n)) \in SUBSET Nat
  BY <1>2, XorType
<1>4. ASSUME NEW b \in Nat
      PROVE  b \in ShiftRight(Xor(v, w), n) <=> b \in Xor(ShiftRight(v, n), ShiftRight(w, n))
  BY <1>1, ShiftMember DEF Xor
<1> QED BY <1>2, <1>3, <1>4

LEMMA ShiftShift ==
  ASSUME NEW w \in SUBSET Nat, NEW m \in Nat, NEW n \in Nat
  PROVE  ShiftRight(ShiftRight(w, m), n) = ShiftRight(w, m + n)
<1>1. ShiftRight(w, m) \in SUBSET Nat /\ m + n \in Nat
  BY ShiftMember
<1>2. /\ ShiftRight(ShiftRight(w, m), n) \in SUBSET Nat
      /\ ShiftRight(w, m + n) \in SUBSET Nat
  BY <1>1, ShiftMember
<1>3. ASSUME NEW b \in Nat
      PROVE  b \in ShiftRight(ShiftRight(w, m), n) <=> b \in ShiftRight(w, m + n)
  <2>1. b \in ShiftRight(ShiftRight(w, m), n) <=> b + n \in ShiftRight(w, m)
    BY <1>1, ShiftMember
  <2>2. b + n \in ShiftRight(w, m) <=> (b + n) + m \in w
    <3>1. b + n \in Nat
      OBVIOUS
    <3> QED BY <3>1, ShiftMember
  <2>3. b \in ShiftRight(w, m + n) <=> b + (m + n) \in w
    BY <1>1, ShiftMember
  <2>4. (b + n) + m = b + (m + n)
    OBVIOUS
  <2> QED BY <2>1, <2>2, <2>3, <2>4
<1> QED BY <1>2, <1>3

\* Byte i of a word, and of a word moved by whole bytes.
LEMMA ByteMember ==
  ASSUME NEW w \in SUBSET Nat, NEW i \in Nat
  PROVE  /\ Byte(w, i) \in SUBSET (0..7)
         /\ \A b \in 0..7 : b \in Byte(w, i) <=> b + 8 * i \in w
<1>1. 8 * i \in Nat
  OBVIOUS
<1>2. Byte(w, i) = ShiftRight(w, 8 * i) \cap 0..7
  BY DEF Byte, Low
<1>3. \A b \in Nat : b \in ShiftRight(w, 8 * i) <=> b + 8 * i \in w
  BY <1>1, ShiftMember
<1>4. ASSUME NEW b \in 0..7 PROVE b \in Byte(w, i) <=> b + 8 * i \in w
  <2>1. b \in Nat
    OBVIOUS
  <2> QED BY <1>2, <1>3, <2>1
<1> QED BY <1>2, <1>4

LEMMA ByteOfShift ==
  ASSUME NEW w \in SUBSET Nat, NEW i \in Nat, NEW j \in Nat
  PROVE  Byte(ShiftRight(w, 8 * j), i) = Byte(w, i + j)
<1>1. 8 * i \in Nat /\ 8 * j \in Nat /\ 8 * j + 8 * i = 8 * (i + j)
  OBVIOUS
<1> QED BY <1>1, ShiftShift DEF Byte

-----------------------------------------------------------------------------
(* Words written as numbers, and the division by a bit.                     *)

LEMMA BitsOf ==
  ASSUME NEW n \in Nat, n < 65536
  PROVE  /\ Bits(n) \in SUBSET (0..15)
         /\ \A b \in 0..15 : b \in Bits(n) <=> (n \div 2^b) % 2 = 1
<1>1. Bits(n) = {b \in 0..30 : (n \div 2^b) % 2 = 1}
  BY DEF Bits
<1>2. /\ 16 \notin Bits(n) /\ 17 \notin Bits(n) /\ 18 \notin Bits(n) /\ 19 \notin Bits(n)
      /\ 20 \notin Bits(n) /\ 21 \notin Bits(n) /\ 22 \notin Bits(n) /\ 23 \notin Bits(n)
      /\ 24 \notin Bits(n) /\ 25 \notin Bits(n) /\ 26 \notin Bits(n) /\ 27 \notin Bits(n)
      /\ 28 \notin Bits(n) /\ 29 \notin Bits(n) /\ 30 \notin Bits(n)
  BY SMT, <1>1
<1>3. ASSUME NEW b \in Bits(n) PROVE b \in 0..15
  <2>1. b \in 0..30
    BY <1>1
  <2> QED BY SMT, <2>1, <1>2
<1> QED BY <1>1, <1>3

LEMMA WordMember ==
  ASSUME NEW hi \in Nat, NEW lo \in Nat, hi < 65536, lo < 65536
  PROVE  /\ Word(hi, lo) \in SUBSET (0..31)
         /\ \A b \in 0..15 : /\ b \in Word(hi, lo) <=> b \in Bits(lo)
                             /\ b + 16 \in Word(hi, lo) <=> b \in Bits(hi)
<1>1. Bits(lo) \in SUBSET (0..15) /\ Bits(hi) \in SUBSET (0..15)
  BY BitsOf
<1>2. Word(hi, lo) = Bits(lo) \cup {b + 16 : b \in Bits(hi)}
  BY DEF Word
<1>3. ASSUME NEW b \in 0..15 PROVE b \in Word(hi, lo) <=> b \in Bits(lo)
  BY SMT, <1>1, <1>2
<1>4. ASSUME NEW b \in 0..15 PROVE b + 16 \in Word(hi, lo) <=> b \in Bits(hi)
  BY SMT, <1>1, <1>2
<1>5. Word(hi, lo) \in SUBSET (0..31)
  BY SMT, <1>1, <1>2
<1> QED BY <1>3, <1>4, <1>5

LEMMA PolynomialIs ==
  Polynomial = {3, 4, 5, 6, 8, 9, 11, 12, 13, 17, 18, 20, 21, 22, 23, 25, 31}
<1>1. Polynomial \in SUBSET (0..31)
  BY SMT, WordMember DEF Polynomial
<1> QED BY SMTT(60), <1>1, WordMember, BitsOf DEF Polynomial

LEMMA PolynomialType == Polynomial \in SUBSET (0..31) /\ Polynomial \in SUBSET Nat
<1>1. Polynomial \in SUBSET (0..31)
  BY SMT, WordMember DEF Polynomial
<1> QED BY <1>1

\* The division of a word followed by a zero, a bit at a time.
Step(w) == Divide(w, FALSE)

LEMMA StepMember ==
  ASSUME NEW w \in SUBSET Nat
  PROVE  /\ Step(w) \in SUBSET Nat
         /\ \A b \in Nat : b \in Step(w) <=> ~ (b + 1 \in w <=> 0 \in w /\ b \in Polynomial)
<1>1. /\ ShiftRight(w, 1) \in SUBSET Nat
      /\ \A b \in Nat : b \in ShiftRight(w, 1) <=> b + 1 \in w
  BY ShiftMember
<1>2. 0 \in w => Step(w) = Xor(ShiftRight(w, 1), Polynomial)
  BY DEF Step, Divide
<1>3. 0 \notin w => Step(w) = ShiftRight(w, 1)
  <2>1. 0 \notin w => (0 \in w) = FALSE
    OBVIOUS
  <2> QED BY Zenon, <2>1 DEF Step, Divide
<1>4. ASSUME NEW b \in Nat
      PROVE  b \in Step(w) <=> ~ (b + 1 \in w <=> 0 \in w /\ b \in Polynomial)
  BY <1>1, <1>2, <1>3 DEF Xor
<1>5. Step(w) \in SUBSET Nat
  BY <1>1, <1>2, <1>3, PolynomialType DEF Xor
<1> QED BY <1>4, <1>5

\* The division is linear.
LEMMA StepXor ==
  ASSUME NEW v \in SUBSET Nat, NEW w \in SUBSET Nat
  PROVE  Step(Xor(v, w)) = Xor(Step(v), Step(w))
<1>1. Xor(v, w) \in SUBSET Nat
  BY XorType
<1>2. Step(v) \in SUBSET Nat /\ Step(w) \in SUBSET Nat /\ Step(Xor(v, w)) \in SUBSET Nat
  BY <1>1, StepMember
<1>3. Xor(Step(v), Step(w)) \in SUBSET Nat
  BY <1>2, XorType
<1>4. ASSUME NEW b \in Nat PROVE b \in Step(Xor(v, w)) <=> b \in Xor(Step(v), Step(w))
  <2>1. /\ b + 1 \in Xor(v, w) <=> ~ (b + 1 \in v <=> b + 1 \in w)
        /\ 0 \in Xor(v, w) <=> ~ (0 \in v <=> 0 \in w)
        /\ b \in Xor(Step(v), Step(w)) <=> ~ (b \in Step(v) <=> b \in Step(w))
    BY DEF Xor
  <2>2. /\ b \in Step(v) <=> ~ (b + 1 \in v <=> 0 \in v /\ b \in Polynomial)
        /\ b \in Step(w) <=> ~ (b + 1 \in w <=> 0 \in w /\ b \in Polynomial)
        /\ b \in Step(Xor(v, w)) <=> ~ (b + 1 \in Xor(v, w) <=> 0 \in Xor(v, w) /\ b \in Polynomial)
    BY <1>1, StepMember
  <2> QED BY <2>1, <2>2
<1> QED BY <1>2, <1>3, <1>4

\* w is what one more division makes of v.
OneLater(v, w) ==
  /\ v \in SUBSET (0..31) /\ w \in SUBSET (0..31)
  /\ \A b \in 0..31 : b \in w <=> ~ (b + 1 \in v <=> 0 \in v /\ b \in Polynomial)

LEMMA StepOf ==
  ASSUME NEW v, NEW w, OneLater(v, w)
  PROVE  v \in SUBSET Nat /\ w \in SUBSET Nat /\ Step(v) = w
<1>1. v \in SUBSET Nat /\ w \in SUBSET Nat
  BY DEF OneLater
<1>2. Step(v) \in SUBSET Nat
  BY <1>1, StepMember
<1>3. ASSUME NEW b \in Nat PROVE b \in Step(v) <=> b \in w
  <2>1. b \in Step(v) <=> ~ (b + 1 \in v <=> 0 \in v /\ b \in Polynomial)
    BY <1>1, StepMember
  <2>2. CASE b \in 0..31
    BY <2>1, <2>2 DEF OneLater
  <2>3. CASE b \notin 0..31
    <3>1. b \notin w /\ b \notin Polynomial /\ b + 1 \notin v
      BY SMT, <2>3, PolynomialType DEF OneLater
    <3> QED BY <2>1, <3>1
  <2> QED BY <2>2, <2>3
<1> QED BY <1>1, <1>2, <1>3

-----------------------------------------------------------------------------
(* The rows of the table.                                                   *)

\* Each entry of the row is one division later than the next, which is the
\* entry of the next higher bit.
Chain(row) == \A k \in 1..7 : OneLater(row[k + 1], row[k])

\* The row before the first: a byte as it is.
Units == <<{0}, {1}, {2}, {3}, {4}, {5}, {6}, {7}>>

LEMMA UnitRow == Chain(Units) /\ OneLater(Units[1], Powers0[8])
<1>1. \A k \in 1..8 : Units[k] = {k - 1}
  BY SMT DEF Units
<1>2. Chain(Units)
  BY SMT, <1>1 DEF Chain, OneLater
<1>3. Powers0[8] = Polynomial
  BY SMT DEF Powers0, Polynomial
<1>4. OneLater({0}, Polynomial)
  BY SMT, PolynomialType DEF OneLater
<1> QED BY <1>1, <1>2, <1>3, <1>4

LEMMA Row0 == Chain(Powers0) /\ OneLater(Powers0[1], Powers1[8])
BY SMTT(60), WordMember, BitsOf, PolynomialIs DEF Chain, OneLater, Powers0, Powers1

LEMMA Row1 == Chain(Powers1) /\ OneLater(Powers1[1], Powers2[8])
BY SMTT(60), WordMember, BitsOf, PolynomialIs DEF Chain, OneLater, Powers1, Powers2

LEMMA Row2 == Chain(Powers2) /\ OneLater(Powers2[1], Powers3[8])
BY SMTT(60), WordMember, BitsOf, PolynomialIs DEF Chain, OneLater, Powers2, Powers3

LEMMA Row3 == Chain(Powers3) /\ OneLater(Powers3[1], Powers4[8])
BY SMTT(60), WordMember, BitsOf, PolynomialIs DEF Chain, OneLater, Powers3, Powers4

LEMMA Row4 == Chain(Powers4) /\ OneLater(Powers4[1], Powers5[8])
BY SMTT(60), WordMember, BitsOf, PolynomialIs DEF Chain, OneLater, Powers4, Powers5

LEMMA Row5 == Chain(Powers5) /\ OneLater(Powers5[1], Powers6[8])
BY SMTT(60), WordMember, BitsOf, PolynomialIs DEF Chain, OneLater, Powers5, Powers6

LEMMA Row6 == Chain(Powers6) /\ OneLater(Powers6[1], Powers7[8])
BY SMTT(60), WordMember, BitsOf, PolynomialIs DEF Chain, OneLater, Powers6, Powers7

LEMMA Row7 == Chain(Powers7)
BY SMTT(60), WordMember, BitsOf, PolynomialIs DEF Chain, OneLater, Powers7

\* Eight divisions: a byte of zeros.
ByteStep(w) == Step(Step(Step(Step(Step(Step(Step(Step(w))))))))

LEMMA ByteStepType ==
  ASSUME NEW w \in SUBSET Nat
  PROVE  ByteStep(w) \in SUBSET Nat
<1>1. \A x \in SUBSET Nat : Step(x) \in SUBSET Nat
  BY StepMember
<1> QED BY Zenon, <1>1 DEF ByteStep

LEMMA ByteStepXor ==
  ASSUME NEW v \in SUBSET Nat, NEW w \in SUBSET Nat
  PROVE  ByteStep(Xor(v, w)) = Xor(ByteStep(v), ByteStep(w))
<1>1. \A x \in SUBSET Nat : Step(x) \in SUBSET Nat
  BY StepMember
<1>2. \A x, y \in SUBSET Nat : Step(Xor(x, y)) = Xor(Step(x), Step(y))
  BY StepXor
<1> DEFINE Twice(x) == Step(Step(x))
           FourTimes(x) == Twice(Twice(x))
<1>3. \A x \in SUBSET Nat : Twice(x) \in SUBSET Nat
  BY Zenon, <1>1
<1>4. \A x, y \in SUBSET Nat : Twice(Xor(x, y)) = Xor(Twice(x), Twice(y))
  BY Zenon, <1>1, <1>2
<1>5. \A x \in SUBSET Nat : ByteStep(x) = FourTimes(FourTimes(x))
  BY Zenon DEF ByteStep
<1> HIDE DEF Twice
<1>6. \A x \in SUBSET Nat : FourTimes(x) \in SUBSET Nat
  BY Zenon, <1>3
<1>7. \A x, y \in SUBSET Nat : FourTimes(Xor(x, y)) = Xor(FourTimes(x), FourTimes(y))
  BY Zenon, <1>3, <1>4
<1>8. Xor(v, w) \in SUBSET Nat
  BY XorType
<1> HIDE DEF FourTimes
<1>9. FourTimes(FourTimes(Xor(v, w))) = Xor(FourTimes(FourTimes(v)), FourTimes(FourTimes(w)))
  BY Zenon, <1>6, <1>7
<1> QED BY Zenon, <1>5, <1>8, <1>9

LEMMA ByteStepOfRow ==
  ASSUME NEW row, NEW next, Chain(row), Chain(next), OneLater(row[1], next[8])
  PROVE  \A k \in 1..8 : /\ row[k] \in SUBSET Nat /\ next[k] \in SUBSET Nat
                         /\ ByteStep(row[k]) = next[k]
<1>1. ASSUME NEW k \in 1..7
      PROVE  /\ row[k + 1] \in SUBSET Nat /\ row[k] \in SUBSET Nat /\ Step(row[k + 1]) = row[k]
             /\ next[k + 1] \in SUBSET Nat /\ next[k] \in SUBSET Nat /\ Step(next[k + 1]) = next[k]
  <2>1. OneLater(row[k + 1], row[k]) /\ OneLater(next[k + 1], next[k])
    BY DEF Chain
  <2> QED BY <2>1, StepOf
<1>2. /\ Step(row[2]) = row[1] /\ Step(row[3]) = row[2] /\ Step(row[4]) = row[3]
      /\ Step(row[5]) = row[4] /\ Step(row[6]) = row[5] /\ Step(row[7]) = row[6]
      /\ Step(row[8]) = row[7]
  BY SMT, <1>1
<1>3. /\ Step(next[2]) = next[1] /\ Step(next[3]) = next[2] /\ Step(next[4]) = next[3]
      /\ Step(next[5]) = next[4] /\ Step(next[6]) = next[5] /\ Step(next[7]) = next[6]
      /\ Step(next[8]) = next[7]
  BY SMT, <1>1
<1>4. Step(row[1]) = next[8]
  BY StepOf
<1>5. /\ ByteStep(row[1]) = next[1] /\ ByteStep(row[2]) = next[2] /\ ByteStep(row[3]) = next[3]
      /\ ByteStep(row[4]) = next[4] /\ ByteStep(row[5]) = next[5] /\ ByteStep(row[6]) = next[6]
      /\ ByteStep(row[7]) = next[7] /\ ByteStep(row[8]) = next[8]
  BY ZenonT(60), <1>2, <1>3, <1>4 DEF ByteStep
<1>6. ASSUME NEW k \in 1..8 PROVE row[k] \in SUBSET Nat /\ next[k] \in SUBSET Nat
  <2>1. CASE k \in 1..7
    BY <1>1, <2>1
  <2>2. CASE k = 8
    <3>1. 7 \in 1..7 /\ 7 + 1 = 8
      OBVIOUS
    <3> QED BY <1>1, <2>2, <3>1
  <2> QED BY <2>1, <2>2
<1>7. ASSUME NEW k \in 1..8 PROVE ByteStep(row[k]) = next[k]
  <2>1. k = 1 \/ k = 2 \/ k = 3 \/ k = 4 \/ k = 5 \/ k = 6 \/ k = 7 \/ k = 8
    OBVIOUS
  <2> QED BY Zenon, <1>5, <2>1
<1> QED BY <1>6, <1>7

\* The rows follow one another by a byte of zeros.
LEMMA NextRow ==
  /\ \A k \in 1..8 : ByteStep(Units[k]) = Powers[1][k]
  /\ \A n \in 1..7 : \A k \in 1..8 : ByteStep(Powers[n][k]) = Powers[n + 1][k]
  /\ \A n \in 1..8 : \A k \in 1..8 : Powers[n][k] \in SUBSET (0..31)
  /\ \A k \in 1..8 : Units[k] = {k - 1}
<1>1. /\ Powers[1] = Powers0 /\ Powers[2] = Powers1 /\ Powers[3] = Powers2 /\ Powers[4] = Powers3
      /\ Powers[5] = Powers4 /\ Powers[6] = Powers5 /\ Powers[7] = Powers6 /\ Powers[8] = Powers7
  BY Zenon DEF Powers
<1>2. \A k \in 1..8 : ByteStep(Units[k]) = Powers0[k]
  BY Zenon, UnitRow, Row0, ByteStepOfRow
<1>3. \A row, next : Chain(row) /\ Chain(next) /\ OneLater(row[1], next[8])
         => \A k \in 1..8 : ByteStep(row[k]) = next[k]
  BY ByteStepOfRow
<1>4. \A k \in 1..8 : ByteStep(Powers0[k]) = Powers1[k]
  BY <1>3, Row0, Row1
<1>5. \A k \in 1..8 : ByteStep(Powers1[k]) = Powers2[k]
  BY <1>3, Row1, Row2
<1>6. \A k \in 1..8 : ByteStep(Powers2[k]) = Powers3[k]
  BY <1>3, Row2, Row3
<1>7. \A k \in 1..8 : ByteStep(Powers3[k]) = Powers4[k]
  BY <1>3, Row3, Row4
<1>8. \A k \in 1..8 : ByteStep(Powers4[k]) = Powers5[k]
  BY <1>3, Row4, Row5
<1>9. \A k \in 1..8 : ByteStep(Powers5[k]) = Powers6[k]
  BY <1>3, Row5, Row6
<1>10. \A k \in 1..8 : ByteStep(Powers6[k]) = Powers7[k]
  BY <1>3, Row6, Row7
<1>11. \A row : Chain(row) => \A k \in 1..8 : row[k] \in SUBSET (0..31)
  <2> SUFFICES ASSUME NEW row, Chain(row), NEW k \in 1..8 PROVE row[k] \in SUBSET (0..31)
    OBVIOUS
  <2>1. \A j \in 1..7 : row[j + 1] \in SUBSET (0..31) /\ row[j] \in SUBSET (0..31)
    BY Zenon DEF Chain, OneLater
  <2>2. CASE k \in 1..7
    BY <2>1, <2>2
  <2>3. CASE k = 8
    <3>1. 7 \in 1..7 /\ 7 + 1 = 8
      OBVIOUS
    <3> QED BY <2>1, <2>3, <3>1
  <2> QED BY <2>2, <2>3
<1>12. ASSUME NEW n \in 1..8, NEW k \in 1..8 PROVE Powers[n][k] \in SUBSET (0..31)
  <2>1. n = 1 \/ n = 2 \/ n = 3 \/ n = 4 \/ n = 5 \/ n = 6 \/ n = 7 \/ n = 8
    OBVIOUS
  <2> QED BY Zenon, <1>1, <1>11, <2>1, Row0, Row1, Row2, Row3, Row4, Row5, Row6, Row7
<1>13. ASSUME NEW n \in 1..7, NEW k \in 1..8 PROVE ByteStep(Powers[n][k]) = Powers[n + 1][k]
  <2>1. n = 1 \/ n = 2 \/ n = 3 \/ n = 4 \/ n = 5 \/ n = 6 \/ n = 7
    OBVIOUS
  <2>2. CASE n = 1
    <3>1. Powers[n] = Powers0 /\ Powers[n + 1] = Powers1
      <4>1. n + 1 = 2
        BY <2>2
      <4> QED BY Zenon, <1>1, <2>2, <4>1
    <3> QED BY Zenon, <1>4, <3>1
  <2>3. CASE n = 2
    <3>1. Powers[n] = Powers1 /\ Powers[n + 1] = Powers2
      <4>1. n + 1 = 3
        BY <2>3
      <4> QED BY Zenon, <1>1, <2>3, <4>1
    <3> QED BY Zenon, <1>5, <3>1
  <2>4. CASE n = 3
    <3>1. Powers[n] = Powers2 /\ Powers[n + 1] = Powers3
      <4>1. n + 1 = 4
        BY <2>4
      <4> QED BY Zenon, <1>1, <2>4, <4>1
    <3> QED BY Zenon, <1>6, <3>1
  <2>5. CASE n = 4
    <3>1. Powers[n] = Powers3 /\ Powers[n + 1] = Powers4
      <4>1. n + 1 = 5
        BY <2>5
      <4> QED BY Zenon, <1>1, <2>5, <4>1
    <3> QED BY Zenon, <1>7, <3>1
  <2>6. CASE n = 5
    <3>1. Powers[n] = Powers4 /\ Powers[n + 1] = Powers5
      <4>1. n + 1 = 6
        BY <2>6
      <4> QED BY Zenon, <1>1, <2>6, <4>1
    <3> QED BY Zenon, <1>8, <3>1
  <2>7. CASE n = 6
    <3>1. Powers[n] = Powers5 /\ Powers[n + 1] = Powers6
      <4>1. n + 1 = 7
        BY <2>7
      <4> QED BY Zenon, <1>1, <2>7, <4>1
    <3> QED BY Zenon, <1>9, <3>1
  <2>8. CASE n = 7
    <3>1. Powers[n] = Powers6 /\ Powers[n + 1] = Powers7
      <4>1. n + 1 = 8
        BY <2>8
      <4> QED BY Zenon, <1>1, <2>8, <4>1
    <3> QED BY Zenon, <1>10, <3>1
  <2> QED BY <2>1, <2>2, <2>3, <2>4, <2>5, <2>6, <2>7, <2>8
<1>14. \A k \in 1..8 : Units[k] = {k - 1}
  BY SMT DEF Units
<1> QED BY <1>1, <1>2, <1>12, <1>13, <1>14

-----------------------------------------------------------------------------
(* An entry of the table is the sum of the entries at its bits.             *)

LEMMA XorMember ==
  ASSUME NEW v, NEW w, NEW b
  PROVE  b \in Xor(v, w) <=> ~ (b \in v <=> b \in w)
BY DEF Xor

\* The entry of one bit of an index, and the sum of the entries of all.
Term(byte, k, word) == IF k \in byte THEN word ELSE {}

Combine(row, byte) ==
  Xor(Xor(Xor(Xor(Xor(Xor(Xor(Term(byte, 0, row[1]), Term(byte, 1, row[2])),
                          Term(byte, 2, row[3])), Term(byte, 3, row[4])),
                  Term(byte, 4, row[5])), Term(byte, 5, row[6])),
          Term(byte, 6, row[7])), Term(byte, 7, row[8]))

LEMMA CombineType ==
  ASSUME NEW T, NEW row, NEW byte, \A k \in 1..8 : row[k] \in SUBSET T
  PROVE  Combine(row, byte) \in SUBSET T
<1>1. /\ row[1] \in SUBSET T /\ row[2] \in SUBSET T /\ row[3] \in SUBSET T /\ row[4] \in SUBSET T
      /\ row[5] \in SUBSET T /\ row[6] \in SUBSET T /\ row[7] \in SUBSET T /\ row[8] \in SUBSET T
  BY SMT
<1>2. \A k, w : w \in SUBSET T => Term(byte, k, w) \in SUBSET T
  BY DEF Term
<1>3. \A v, w \in SUBSET T : Xor(v, w) \in SUBSET T
  BY XorType
<1> QED BY ZenonT(60), <1>1, <1>2, <1>3 DEF Combine

LEMMA ByteStepOfCombine ==
  ASSUME NEW row, NEW next, NEW byte,
         \A k \in 1..8 : row[k] \in SUBSET Nat /\ ByteStep(row[k]) = next[k]
  PROVE  ByteStep(Combine(row, byte)) = Combine(next, byte)
<1>1. /\ row[1] \in SUBSET Nat /\ row[2] \in SUBSET Nat /\ row[3] \in SUBSET Nat
      /\ row[4] \in SUBSET Nat /\ row[5] \in SUBSET Nat /\ row[6] \in SUBSET Nat
      /\ row[7] \in SUBSET Nat /\ row[8] \in SUBSET Nat
  BY SMT
<1>2. /\ ByteStep(row[1]) = next[1] /\ ByteStep(row[2]) = next[2] /\ ByteStep(row[3]) = next[3]
      /\ ByteStep(row[4]) = next[4] /\ ByteStep(row[5]) = next[5] /\ ByteStep(row[6]) = next[6]
      /\ ByteStep(row[7]) = next[7] /\ ByteStep(row[8]) = next[8]
  BY SMT
<1>3. ByteStep({}) = {}
  <2>1. {} \in SUBSET Nat
    OBVIOUS
  <2>2. Xor({}, {}) = {} /\ Xor(ByteStep({}), ByteStep({})) = {}
    BY XorLaws
  <2>3. ByteStep(Xor({}, {})) = Xor(ByteStep({}), ByteStep({}))
    BY <2>1, ByteStepXor
  <2> QED BY <2>2, <2>3
<1>4. \A k, w : w \in SUBSET Nat => /\ Term(byte, k, w) \in SUBSET Nat
                                    /\ ByteStep(Term(byte, k, w)) = Term(byte, k, ByteStep(w))
  BY <1>3 DEF Term
<1>5. \A v, w \in SUBSET Nat : /\ Xor(v, w) \in SUBSET Nat
                               /\ ByteStep(Xor(v, w)) = Xor(ByteStep(v), ByteStep(w))
  BY XorType, ByteStepXor
<1> DEFINE t(k) == Term(byte, k, row[k + 1])
           u(k) == Term(byte, k, next[k + 1])
           a1 == Xor(t(0), t(1))
           a2 == Xor(a1, t(2))
           a3 == Xor(a2, t(3))
           a4 == Xor(a3, t(4))
           a5 == Xor(a4, t(5))
           a6 == Xor(a5, t(6))
           a7 == Xor(a6, t(7))
<1>6. \A k \in 0..7 : t(k) \in SUBSET Nat /\ ByteStep(t(k)) = u(k)
  <2> SUFFICES ASSUME NEW k \in 0..7 PROVE t(k) \in SUBSET Nat /\ ByteStep(t(k)) = u(k)
    OBVIOUS
  <2>1. row[k + 1] \in SUBSET Nat /\ ByteStep(row[k + 1]) = next[k + 1]
    BY SMT
  <2> QED BY <1>4, <2>1
<1>7. /\ Combine(row, byte) = a7
      /\ Combine(next, byte) = Xor(Xor(Xor(Xor(Xor(Xor(Xor(u(0), u(1)), u(2)), u(3)), u(4)), u(5)), u(6)), u(7))
  BY SMT DEF Combine
<1>8. /\ t(0) \in SUBSET Nat /\ t(1) \in SUBSET Nat /\ t(2) \in SUBSET Nat /\ t(3) \in SUBSET Nat
      /\ t(4) \in SUBSET Nat /\ t(5) \in SUBSET Nat /\ t(6) \in SUBSET Nat /\ t(7) \in SUBSET Nat
      /\ ByteStep(t(0)) = u(0) /\ ByteStep(t(1)) = u(1) /\ ByteStep(t(2)) = u(2)
      /\ ByteStep(t(3)) = u(3) /\ ByteStep(t(4)) = u(4) /\ ByteStep(t(5)) = u(5)
      /\ ByteStep(t(6)) = u(6) /\ ByteStep(t(7)) = u(7)
  <2> HIDE DEF t, u
  <2> QED BY SMT, <1>6
<1> HIDE DEF t, u
<1>11. a1 \in SUBSET Nat /\ ByteStep(a1) = Xor(u(0), u(1))
  <2>1. t(0) \in SUBSET Nat /\ t(1) \in SUBSET Nat /\ ByteStep(t(0)) = u(0) /\ ByteStep(t(1)) = u(1)
    BY <1>8
  <2> QED BY Zenon, <1>5, <2>1
<1>12. a2 \in SUBSET Nat /\ ByteStep(a2) = Xor(ByteStep(a1), u(2))
  <2> HIDE DEF a1
  <2>1. t(2) \in SUBSET Nat /\ ByteStep(t(2)) = u(2) /\ a1 \in SUBSET Nat
    BY <1>8, <1>11
  <2> QED BY Zenon, <1>5, <2>1
<1>13. a3 \in SUBSET Nat /\ ByteStep(a3) = Xor(ByteStep(a2), u(3))
  <2> HIDE DEF a2
  <2>1. t(3) \in SUBSET Nat /\ ByteStep(t(3)) = u(3) /\ a2 \in SUBSET Nat
    BY <1>8, <1>12
  <2> QED BY Zenon, <1>5, <2>1
<1>14. a4 \in SUBSET Nat /\ ByteStep(a4) = Xor(ByteStep(a3), u(4))
  <2> HIDE DEF a3
  <2>1. t(4) \in SUBSET Nat /\ ByteStep(t(4)) = u(4) /\ a3 \in SUBSET Nat
    BY <1>8, <1>13
  <2> QED BY Zenon, <1>5, <2>1
<1>15. a5 \in SUBSET Nat /\ ByteStep(a5) = Xor(ByteStep(a4), u(5))
  <2> HIDE DEF a4
  <2>1. t(5) \in SUBSET Nat /\ ByteStep(t(5)) = u(5) /\ a4 \in SUBSET Nat
    BY <1>8, <1>14
  <2> QED BY Zenon, <1>5, <2>1
<1>16. a6 \in SUBSET Nat /\ ByteStep(a6) = Xor(ByteStep(a5), u(6))
  <2> HIDE DEF a5
  <2>1. t(6) \in SUBSET Nat /\ ByteStep(t(6)) = u(6) /\ a5 \in SUBSET Nat
    BY <1>8, <1>15
  <2> QED BY Zenon, <1>5, <2>1
<1>17. ByteStep(a7) = Xor(ByteStep(a6), u(7))
  <2> HIDE DEF a6
  <2>1. t(7) \in SUBSET Nat /\ ByteStep(t(7)) = u(7) /\ a6 \in SUBSET Nat
    BY <1>8, <1>16
  <2> QED BY Zenon, <1>5, <2>1
<1> HIDE DEF a1, a2, a3, a4, a5, a6, a7
<1> QED BY <1>7, <1>11, <1>12, <1>13, <1>14, <1>15, <1>16, <1>17

\* The number of elements below k + 1, from that below k.
LEMMA CountNext ==
  ASSUME NEW A \in SUBSET (0..7), NEW k \in 0..7
  PROVE  Cardinality(A \cap 0..k) % 2 = 1
           <=> ~ (Cardinality(A \cap 0..(k - 1)) % 2 = 1 <=> k \in A)
<1> DEFINE below == A \cap 0..(k - 1)
<1>1. IsFiniteSet(below)
  <2>1. IsFiniteSet(0..(k - 1))
    BY FS_Interval
  <2> QED BY <2>1, FS_Intersection
<1>2. Cardinality(below) \in Nat
  BY <1>1, FS_CardinalityType
<1>3. k \notin below
  OBVIOUS
<1>4. CASE k \in A
  <2>1. A \cap 0..k = below \cup {k}
    BY <1>4
  <2>2. Cardinality(below \cup {k}) = Cardinality(below) + 1
    BY <1>1, <1>3, FS_AddElement
  <2> HIDE DEF below
  <2>3. (Cardinality(below) + 1) % 2 = 1 <=> ~ (Cardinality(below) % 2 = 1)
    BY SMT, <1>2
  <2> QED BY <1>4, <2>1, <2>2, <2>3 DEF below
<1>5. CASE k \notin A
  <2>1. A \cap 0..k = below
    BY <1>5
  <2> QED BY <1>5, <2>1
<1> QED BY <1>4, <1>5

LEMMA CombineMember ==
  ASSUME NEW row, NEW byte \in SUBSET (0..7), NEW b
  PROVE  b \in Combine(row, byte) <=> Cardinality({k \in byte : b \in row[k + 1]}) % 2 = 1
<1> DEFINE A == {k \in byte : b \in row[k + 1]}
           c(k) == Cardinality(A \cap 0..k) % 2 = 1
<1>1. A \in SUBSET (0..7) /\ A \cap 0..7 = A
  OBVIOUS
<1>2. ~ (Cardinality(A \cap 0..(0 - 1)) % 2 = 1)
  <2>1. A \cap 0..(0 - 1) = {}
    OBVIOUS
  <2>2. ~ (0 % 2 = 1)
    OBVIOUS
  <2> QED BY <2>1, <2>2, FS_EmptySet
<1>3. \A k \in 0..7 : b \in Term(byte, k, row[k + 1]) <=> k \in A
  BY DEF Term
<1>4. \A k \in 0..7 : c(k) <=> ~ (Cardinality(A \cap 0..(k - 1)) % 2 = 1 <=> k \in A)
  <2> HIDE DEF A
  <2> QED BY <1>1, CountNext
<1> HIDE DEF A
<1>5. c(0) <=> 0 \in A
  BY SMT, <1>2, <1>4
<1>6. /\ c(1) <=> ~ (c(0) <=> 1 \in A)
      /\ c(2) <=> ~ (c(1) <=> 2 \in A)
      /\ c(3) <=> ~ (c(2) <=> 3 \in A)
      /\ c(4) <=> ~ (c(3) <=> 4 \in A)
      /\ c(5) <=> ~ (c(4) <=> 5 \in A)
      /\ c(6) <=> ~ (c(5) <=> 6 \in A)
      /\ c(7) <=> ~ (c(6) <=> 7 \in A)
  BY SMT, <1>4
<1>7. /\ b \in Term(byte, 0, row[1]) <=> 0 \in A
      /\ b \in Term(byte, 1, row[2]) <=> 1 \in A
      /\ b \in Term(byte, 2, row[3]) <=> 2 \in A
      /\ b \in Term(byte, 3, row[4]) <=> 3 \in A
      /\ b \in Term(byte, 4, row[5]) <=> 4 \in A
      /\ b \in Term(byte, 5, row[6]) <=> 5 \in A
      /\ b \in Term(byte, 6, row[7]) <=> 6 \in A
      /\ b \in Term(byte, 7, row[8]) <=> 7 \in A
  BY SMT, <1>3
<1>8. \A v, w : b \in Xor(v, w) <=> ~ (b \in v <=> b \in w)
  BY XorMember
<1> HIDE DEF c
<1>9. b \in Combine(row, byte) <=> c(7)
  BY SMT, <1>5, <1>6, <1>7, <1>8 DEF Combine
<1> QED BY <1>1, <1>9 DEF c, A

LEMMA TableIsCombine ==
  ASSUME NEW n \in 0..7, NEW byte \in SUBSET (0..7)
  PROVE  crc32c_tables(n, byte) = Combine(Powers[n + 1], byte)
<1>1. Combine(Powers[n + 1], byte) \in SUBSET (0..31)
  <2> DEFINE row == Powers[n + 1]
             T == 0..31
  <2>1. n + 1 \in 1..8
    OBVIOUS
  <2>2. \A k \in 1..8 : row[k] \in SUBSET T
    BY Zenon, <2>1, NextRow
  <2> HIDE DEF row, T
  <2>3. Combine(row, byte) \in SUBSET T
    BY <2>2, CombineType
  <2> QED BY <2>3 DEF row, T
<1>2. \A b : b \in Combine(Powers[n + 1], byte)
             <=> Cardinality({k \in byte : b \in Powers[n + 1][k + 1]}) % 2 = 1
  BY CombineMember
<1> HIDE DEF Combine
<1> QED BY <1>1, <1>2 DEF crc32c_tables

LEMMA ByteIsCombine ==
  ASSUME NEW byte \in SUBSET (0..7)
  PROVE  Combine(Units, byte) = byte
<1>1. \A k \in 1..8 : Units[k] = {k - 1}
  BY NextRow
<1>2. Combine(Units, byte) \in SUBSET (0..7)
  <2>1. \A k \in 1..8 : Units[k] \in SUBSET (0..7)
    BY <1>1
  <2> QED BY Zenon, <2>1, CombineType
<1>3. ASSUME NEW b \in 0..7 PROVE b \in Combine(Units, byte) <=> b \in byte
  <2>1. \A k \in byte : b \in Units[k + 1] <=> k = b
    BY <1>1
  <2>2. {k \in byte : b \in Units[k + 1]} = IF b \in byte THEN {b} ELSE {}
    BY <2>1
  <2>3. Cardinality({b}) = 1 /\ Cardinality({}) = 0
    BY FS_EmptySet, FS_Singleton
  <2>4. 1 % 2 = 1 /\ ~ (0 % 2 = 1)
    OBVIOUS
  <2>5. Cardinality({k \in byte : b \in Units[k + 1]}) % 2 = 1 <=> b \in byte
    BY <2>2, <2>3, <2>4
  <2> QED BY <2>5, CombineMember
<1> QED BY <1>2, <1>3

-----------------------------------------------------------------------------
(* One to eight bytes by the tables are as many bytes by division.          *)

LEMMA TableType ==
  ASSUME NEW n, NEW byte
  PROVE  /\ crc32c_tables(n, byte) \in SUBSET (0..31)
         /\ crc32c_tables(n, byte) \in SUBSET Nat
<1>1. crc32c_tables(n, byte) \in SUBSET (0..31)
  BY DEF crc32c_tables
<1> QED BY <1>1

LEMMA ByteStepOfTable ==
  ASSUME NEW n \in 0..6, NEW byte \in SUBSET (0..7)
  PROVE  ByteStep(crc32c_tables(n, byte)) = crc32c_tables(n + 1, byte)
<1> DEFINE row  == Powers[n + 1]
           next == Powers[(n + 1) + 1]
<1>1. n \in 0..7 /\ n + 1 \in 0..7 /\ n + 1 \in 1..7 /\ n + 1 \in 1..8
  OBVIOUS
<1>2. \A k \in 1..8 : row[k] \in SUBSET Nat /\ ByteStep(row[k]) = next[k]
  <2>1. \A k \in 1..8 : row[k] \in SUBSET (0..31) /\ ByteStep(row[k]) = next[k]
    BY Zenon, <1>1, NextRow
  <2> HIDE DEF row, next
  <2> QED BY <2>1
<1>3. crc32c_tables(n, byte) = Combine(row, byte)
  BY <1>1, TableIsCombine
<1>4. crc32c_tables(n + 1, byte) = Combine(next, byte)
  BY <1>1, TableIsCombine
<1> HIDE DEF row, next
<1> QED BY <1>2, <1>3, <1>4, ByteStepOfCombine

LEMMA StepShifts ==
  ASSUME NEW w \in SUBSET Nat, 0 \notin w
  PROVE  Step(w) = ShiftRight(w, 1)
<1>1. (0 \in w) = FALSE
  OBVIOUS
<1> QED BY Zenon, <1>1 DEF Step, Divide

\* A word without its lowest byte only moves.
LEMMA ByteStepShifts ==
  ASSUME NEW w \in SUBSET Nat, \A b \in 0..7 : b \notin w
  PROVE  ByteStep(w) = ShiftRight(w, 8)
<1>1. ASSUME NEW n \in 0..7 PROVE Step(ShiftRight(w, n)) = ShiftRight(w, n + 1)
  <2>1. ShiftRight(w, n) \in SUBSET Nat /\ 0 \notin ShiftRight(w, n)
    <3>1. n \in Nat /\ 0 \in Nat /\ 0 + n = n
      OBVIOUS
    <3>2. 0 \in ShiftRight(w, n) <=> 0 + n \in w
      BY <3>1, ShiftMember
    <3> QED BY <3>1, <3>2, ShiftMember
  <2>2. Step(ShiftRight(w, n)) = ShiftRight(ShiftRight(w, n), 1)
    BY <2>1, StepShifts
  <2> QED BY <2>2, ShiftShift
<1>2. Step(w) = ShiftRight(w, 1)
  BY StepShifts
<1>3. /\ Step(ShiftRight(w, 1)) = ShiftRight(w, 2) /\ Step(ShiftRight(w, 2)) = ShiftRight(w, 3)
      /\ Step(ShiftRight(w, 3)) = ShiftRight(w, 4) /\ Step(ShiftRight(w, 4)) = ShiftRight(w, 5)
      /\ Step(ShiftRight(w, 5)) = ShiftRight(w, 6) /\ Step(ShiftRight(w, 6)) = ShiftRight(w, 7)
      /\ Step(ShiftRight(w, 7)) = ShiftRight(w, 8)
  BY SMT, <1>1
<1> QED BY <1>2, <1>3 DEF ByteStep

LEMMA ByteStepIs ==
  ASSUME NEW w \in SUBSET Nat
  PROVE  ByteStep(w) = Xor(crc32c_tables(0, Byte(w, 0)), ShiftRight(w, 8))
<1> DEFINE low  == Byte(w, 0)
           high == w \ (0..7)
<1>1. low \in SUBSET (0..7) /\ \A b \in 0..7 : b \in low <=> b \in w
  <2>1. \A b \in 0..7 : b \in low <=> b + 8 * 0 \in w
    BY ByteMember
  <2> QED BY <2>1, ByteMember
<1>2. high \in SUBSET Nat /\ low \in SUBSET Nat
  BY <1>1
<1>3. w = Xor(low, high)
  <2> HIDE DEF low
  <2>1. \A b : b \in w <=> b \in Xor(low, high)
    BY <1>1 DEF Xor
  <2> QED BY <2>1
<1>4. ByteStep(low) = crc32c_tables(0, low)
  <2> DEFINE row == Powers[1]
  <2>1. \A k \in 1..8 : Units[k] \in SUBSET Nat /\ ByteStep(Units[k]) = row[k]
    BY NextRow
  <2>2. crc32c_tables(0, low) = Combine(row, low)
    <3>1. 0 \in 0..7 /\ 0 + 1 = 1
      OBVIOUS
    <3> QED BY <1>1, <3>1, TableIsCombine
  <2> HIDE DEF row
  <2>3. ByteStep(Combine(Units, low)) = Combine(row, low)
    BY <2>1, ByteStepOfCombine
  <2>4. Combine(Units, low) = low
    BY <1>1, ByteIsCombine
  <2> QED BY <2>2, <2>3, <2>4
<1>5. ByteStep(high) = ShiftRight(high, 8)
  BY <1>2, ByteStepShifts
<1>6. ShiftRight(high, 8) = ShiftRight(w, 8)
  <2>1. /\ ShiftRight(high, 8) \in SUBSET Nat
        /\ \A b \in Nat : b \in ShiftRight(high, 8) <=> b + 8 \in high
    BY <1>2, ShiftMember
  <2>2. /\ ShiftRight(w, 8) \in SUBSET Nat
        /\ \A b \in Nat : b \in ShiftRight(w, 8) <=> b + 8 \in w
    BY ShiftMember
  <2>3. \A b \in Nat : b + 8 \in high <=> b + 8 \in w
    OBVIOUS
  <2> QED BY <2>1, <2>2, <2>3
<1>7. ByteStep(w) = Xor(ByteStep(low), ByteStep(high))
  BY <1>2, <1>3, ByteStepXor
<1> QED BY <1>4, <1>5, <1>6, <1>7

\* The step of a table's entry and of the rest of a word.
LEMMA ByteStepOfSum ==
  ASSUME NEW n \in 0..6, NEW byte \in SUBSET (0..7), NEW w \in SUBSET Nat
  PROVE  ByteStep(Xor(crc32c_tables(n, byte), w)) = Xor(crc32c_tables(n + 1, byte), ByteStep(w))
BY TableType, ByteStepXor, ByteStepOfTable

\* Sixteen and thirty-two divisions.
TwoBytes(w)  == ByteStep(ByteStep(w))
FourBytes(w) == TwoBytes(TwoBytes(w))

LEMMA TwoBytesIs ==
  ASSUME NEW w \in SUBSET Nat
  PROVE  TwoBytes(w) = Xor(CRC32_UPD(w, 1), ShiftRight(w, 16))
<1> DEFINE rest == ShiftRight(w, 8)
<1>1. rest \in SUBSET Nat
  BY ShiftMember
<1>2. Byte(w, 0) \in SUBSET (0..7) /\ Byte(w, 1) \in SUBSET (0..7)
  BY ByteMember
<1>3. ByteStep(rest) = Xor(crc32c_tables(0, Byte(w, 1)), ShiftRight(w, 16))
  <2>1. ByteStep(rest) = Xor(crc32c_tables(0, Byte(rest, 0)), ShiftRight(rest, 8))
    BY <1>1, ByteStepIs
  <2>2. ShiftRight(rest, 8) = ShiftRight(w, 16)
    <3>1. 8 + 8 = 16 /\ 8 \in Nat
      OBVIOUS
    <3> QED BY <3>1, ShiftShift
  <2>3. Byte(rest, 0) = Byte(w, 1)
    <3>1. 8 * 1 = 8 /\ 0 + 1 = 1 /\ 1 \in Nat /\ 0 \in Nat
      OBVIOUS
    <3>2. Byte(ShiftRight(w, 8 * 1), 0) = Byte(w, 0 + 1)
      BY <3>1, ByteOfShift
    <3> QED BY <3>1, <3>2
  <2> QED BY <2>1, <2>2, <2>3
<1> HIDE DEF rest
<1>4. ByteStep(w) = Xor(crc32c_tables(0, Byte(w, 0)), rest)
  BY ByteStepIs DEF rest
<1>5. TwoBytes(w) = Xor(crc32c_tables(1, Byte(w, 0)), ByteStep(rest))
  <2>1. 0 \in 0..6 /\ 0 + 1 = 1
    OBVIOUS
  <2>2. ByteStep(Xor(crc32c_tables(0, Byte(w, 0)), rest))
        = Xor(crc32c_tables(0 + 1, Byte(w, 0)), ByteStep(rest))
    BY <1>1, <1>2, <2>1, ByteStepOfSum
  <2> QED BY <1>4, <2>1, <2>2 DEF TwoBytes
<1>6. CRC32_UPD(w, 1) = Xor(crc32c_tables(1, Byte(w, 0)), crc32c_tables(0, Byte(w, 1)))
  <2>1. 1 - 1 = 0
    OBVIOUS
  <2> QED BY <2>1 DEF CRC32_UPD
<1> QED BY <1>3, <1>5, <1>6, XorLaws

LEMMA UpdType ==
  ASSUME NEW w, NEW n
  PROVE  CRC32_UPD(w, n) \in SUBSET (0..31) /\ CRC32_UPD(w, n) \in SUBSET Nat
<1>1. CRC32_UPD(w, n) \in SUBSET (0..31)
  <2> DEFINE a == crc32c_tables(n, Byte(w, 0))
             b == crc32c_tables(n - 1, Byte(w, 1))
             T == 0..31
  <2>1. a \in SUBSET T /\ b \in SUBSET T
    BY TableType
  <2>2. CRC32_UPD(w, n) = Xor(a, b)
    BY DEF CRC32_UPD
  <2> HIDE DEF a, b, T
  <2>3. Xor(a, b) \in SUBSET T
    BY <2>1, XorType
  <2> QED BY <2>2, <2>3 DEF T
<1> QED BY <1>1

LEMMA TwoBytesOfUpd ==
  ASSUME NEW w \in SUBSET Nat, NEW n \in 1..5
  PROVE  TwoBytes(CRC32_UPD(w, n)) = CRC32_UPD(w, n + 2)
<1>1. Byte(w, 0) \in SUBSET (0..7) /\ Byte(w, 1) \in SUBSET (0..7)
  BY ByteMember
<1>2. \A m \in 0..5 : \A byte \in SUBSET (0..7) :
        TwoBytes(crc32c_tables(m, byte)) = crc32c_tables(m + 2, byte)
  <2> SUFFICES ASSUME NEW m \in 0..5, NEW byte \in SUBSET (0..7)
               PROVE  TwoBytes(crc32c_tables(m, byte)) = crc32c_tables(m + 2, byte)
    OBVIOUS
  <2>1. m \in 0..6 /\ m + 1 \in 0..6 /\ (m + 1) + 1 = m + 2
    OBVIOUS
  <2>2. ByteStep(crc32c_tables(m, byte)) = crc32c_tables(m + 1, byte)
    BY <2>1, ByteStepOfTable
  <2>3. ByteStep(crc32c_tables(m + 1, byte)) = crc32c_tables((m + 1) + 1, byte)
    BY <2>1, ByteStepOfTable
  <2> QED BY <2>1, <2>2, <2>3 DEF TwoBytes
<1>3. \A v, x \in SUBSET Nat : TwoBytes(Xor(v, x)) = Xor(TwoBytes(v), TwoBytes(x))
  BY ByteStepXor, ByteStepType DEF TwoBytes
<1>4. n \in 0..5 /\ n - 1 \in 0..5 /\ (n - 1) + 2 = (n + 2) - 1
  OBVIOUS
<1>5. /\ TwoBytes(crc32c_tables(n, Byte(w, 0))) = crc32c_tables(n + 2, Byte(w, 0))
      /\ TwoBytes(crc32c_tables(n - 1, Byte(w, 1))) = crc32c_tables((n + 2) - 1, Byte(w, 1))
  BY <1>1, <1>2, <1>4
<1>6. /\ crc32c_tables(n, Byte(w, 0)) \in SUBSET Nat
      /\ crc32c_tables(n - 1, Byte(w, 1)) \in SUBSET Nat
  BY TableType
<1> QED BY <1>3, <1>5, <1>6 DEF CRC32_UPD

LEMMA TwoBytesLaws ==
  /\ \A w \in SUBSET Nat : TwoBytes(w) \in SUBSET Nat
  /\ \A v, w \in SUBSET Nat : TwoBytes(Xor(v, w)) = Xor(TwoBytes(v), TwoBytes(w))
<1>1. \A w \in SUBSET Nat : ByteStep(w) \in SUBSET Nat
  BY ByteStepType
<1>2. \A v, w \in SUBSET Nat : ByteStep(Xor(v, w)) = Xor(ByteStep(v), ByteStep(w))
  BY ByteStepXor
<1> QED BY Zenon, <1>1, <1>2 DEF TwoBytes

LEMMA FourBytesXor ==
  ASSUME NEW v \in SUBSET Nat, NEW w \in SUBSET Nat
  PROVE  FourBytes(Xor(v, w)) = Xor(FourBytes(v), FourBytes(w))
BY Zenon, TwoBytesLaws DEF FourBytes

\* The rest of a word of so many bits.
LEMMA ShiftedOut ==
  ASSUME NEW n \in Nat, NEW w \in SUBSET Nat, \A b \in w : b < n
  PROVE  ShiftRight(w, n) = {}
<1>1. \A b \in Nat : b \notin ShiftRight(w, n)
  <2> SUFFICES ASSUME NEW b \in Nat PROVE b \notin ShiftRight(w, n)
    OBVIOUS
  <2>1. b \in ShiftRight(w, n) <=> b + n \in w
    BY ShiftMember
  <2>2. ~ (b + n < n)
    OBVIOUS
  <2> QED BY <2>1, <2>2
<1>2. ShiftRight(w, n) \in SUBSET Nat
  BY ShiftMember
<1> QED BY <1>1, <1>2

LEMMA FourBytesIs ==
  ASSUME NEW w \in SUBSET Nat
  PROVE  FourBytes(w) = Xor(Xor(CRC32_UPD(w, 3), CRC32_UPD(ShiftRight(w, 16), 1)), ShiftRight(w, 32))
<1> DEFINE rest == ShiftRight(w, 16)
           u    == CRC32_UPD(w, 1)
<1>1. rest \in SUBSET Nat /\ u \in SUBSET Nat
  BY ShiftMember, UpdType
<1>2. TwoBytes(w) = Xor(u, rest)
  BY TwoBytesIs
<1>3. TwoBytes(u) = CRC32_UPD(w, 3)
  <2>1. 1 \in 1..5 /\ 1 + 2 = 3
    OBVIOUS
  <2> QED BY <2>1, TwoBytesOfUpd
<1>4. ShiftRight(rest, 16) = ShiftRight(w, 32)
  <2>1. 16 + 16 = 32 /\ 16 \in Nat
    OBVIOUS
  <2> QED BY <2>1, ShiftShift
<1> HIDE DEF rest, u
<1>5. TwoBytes(rest) = Xor(CRC32_UPD(rest, 1), ShiftRight(rest, 16))
  BY <1>1, TwoBytesIs
<1>6. FourBytes(w) = Xor(TwoBytes(u), TwoBytes(rest))
  BY <1>1, <1>2, TwoBytesLaws DEF FourBytes
<1>7. FourBytes(w) = Xor(CRC32_UPD(w, 3), Xor(CRC32_UPD(rest, 1), ShiftRight(w, 32)))
  BY <1>3, <1>4, <1>5, <1>6
<1> QED BY <1>7, XorLaws DEF rest

LEMMA OneByteByTable ==
  ASSUME NEW word \in SUBSET Nat, NEW init_val \in SUBSET Nat
  PROVE  crc32c_1byte(word, init_val) = ByteStep(Xor(init_val, word))
<1>1. Xor(init_val, word) \in SUBSET Nat
  BY XorType
<1> QED BY <1>1, ByteStepIs DEF crc32c_1byte

LEMMA TwoBytesByTable ==
  ASSUME NEW word \in SUBSET Nat, NEW init_val \in SUBSET Nat
  PROVE  crc32c_2bytes(word, init_val) = TwoBytes(Xor(init_val, word))
<1>1. Xor(init_val, word) \in SUBSET Nat
  BY XorType
<1> QED BY <1>1, TwoBytesIs DEF crc32c_2bytes

LEMMA FourBytesByTable ==
  ASSUME NEW word \in SUBSET Nat, NEW init_val \in SUBSET Nat,
         \A b \in word : b < 32, \A b \in init_val : b < 32
  PROVE  crc32c_1word(word, init_val) = FourBytes(Xor(init_val, word))
<1> DEFINE w == Xor(init_val, word)
<1>1. w \in SUBSET Nat
  BY XorType
<1>2. ShiftRight(w, 32) = {}
  <2>1. \A b \in w : b < 32
    BY DEF Xor
  <2>2. 32 \in Nat
    OBVIOUS
  <2> HIDE DEF w
  <2> QED BY <1>1, <2>1, <2>2, ShiftedOut
<1>3. crc32c_1word(word, init_val) = Xor(CRC32_UPD(w, 3), CRC32_UPD(ShiftRight(w, 16), 1))
  BY DEF crc32c_1word
<1> HIDE DEF w
<1>4. FourBytes(w) = Xor(CRC32_UPD(w, 3), CRC32_UPD(ShiftRight(w, 16), 1))
  <2>1. FourBytes(w) = Xor(Xor(CRC32_UPD(w, 3), CRC32_UPD(ShiftRight(w, 16), 1)), {})
    BY <1>1, <1>2, FourBytesIs
  <2> QED BY <2>1, XorLaws
<1> QED BY <1>3, <1>4 DEF w

\* Only the lowest four bytes of a word matter to its first four tables.
LEMMA SameLowBytes ==
  ASSUME NEW v \in SUBSET Nat, NEW w \in SUBSET Nat,
         \A b \in Nat : b < 32 => (b \in v <=> b \in w)
  PROVE  /\ CRC32_UPD(v, 3) = CRC32_UPD(w, 3)
         /\ CRC32_UPD(ShiftRight(v, 16), 1) = CRC32_UPD(ShiftRight(w, 16), 1)
<1>1. ASSUME NEW i \in 0..3 PROVE Byte(v, i) = Byte(w, i)
  <2>1. i \in Nat
    OBVIOUS
  <2>2. Byte(v, i) \in SUBSET (0..7) /\ Byte(w, i) \in SUBSET (0..7)
    BY <2>1, ByteMember
  <2>3. ASSUME NEW b \in 0..7 PROVE b \in Byte(v, i) <=> b \in Byte(w, i)
    <3>1. b + 8 * i \in Nat /\ b + 8 * i < 32
      OBVIOUS
    <3>2. b \in Byte(v, i) <=> b + 8 * i \in v
      BY <2>1, ByteMember
    <3>3. b \in Byte(w, i) <=> b + 8 * i \in w
      BY <2>1, ByteMember
    <3> QED BY <3>1, <3>2, <3>3
  <2> QED BY <2>2, <2>3
<1>2. Byte(v, 0) = Byte(w, 0) /\ Byte(v, 1) = Byte(w, 1) /\ Byte(v, 2) = Byte(w, 2) /\ Byte(v, 3) = Byte(w, 3)
  BY <1>1
<1>3. \A x \in SUBSET Nat : /\ Byte(ShiftRight(x, 16), 0) = Byte(x, 2)
                            /\ Byte(ShiftRight(x, 16), 1) = Byte(x, 3)
  <2> SUFFICES ASSUME NEW x \in SUBSET Nat
               PROVE  /\ Byte(ShiftRight(x, 16), 0) = Byte(x, 2)
                      /\ Byte(ShiftRight(x, 16), 1) = Byte(x, 3)
    OBVIOUS
  <2>1. 8 * 2 = 16 /\ 0 + 2 = 2 /\ 1 + 2 = 3 /\ 0 \in Nat /\ 1 \in Nat /\ 2 \in Nat
    OBVIOUS
  <2>2. /\ Byte(ShiftRight(x, 8 * 2), 0) = Byte(x, 0 + 2)
        /\ Byte(ShiftRight(x, 8 * 2), 1) = Byte(x, 1 + 2)
    BY <2>1, ByteOfShift
  <2> QED BY <2>1, <2>2
<1> QED BY <1>2, <1>3 DEF CRC32_UPD

LEMMA EightBytesByTable ==
  ASSUME NEW word \in SUBSET Nat, NEW init_val \in SUBSET Nat,
         \A b \in word : b < 64, \A b \in init_val : b < 32
  PROVE  crc32c_2words(word, init_val) = FourBytes(FourBytes(Xor(init_val, word)))
<1> DEFINE w    == Xor(init_val, word)
           c    == Xor(init_val, Low(word, 32))
           high == ShiftRight(word, 32)
           c16  == ShiftRight(c, 16)
           h16  == ShiftRight(high, 16)
<1>1. Low(word, 32) \in SUBSET Nat
  BY DEF Low
<1>2. w \in SUBSET Nat /\ c \in SUBSET Nat /\ high \in SUBSET Nat
  <2>1. w \in SUBSET Nat
    BY XorType
  <2>2. c \in SUBSET Nat
    BY <1>1 DEF Xor
  <2>3. high \in SUBSET Nat
    <3>1. 32 \in Nat
      OBVIOUS
    <3> QED BY <3>1, ShiftMember
  <2> QED BY <2>1, <2>2, <2>3
<1>3. c16 \in SUBSET Nat /\ h16 \in SUBSET Nat
  <2> HIDE DEF c, high
  <2>1. 16 \in Nat
    OBVIOUS
  <2> QED BY <1>2, <2>1, ShiftMember
<1>4. crc32c_2words(word, init_val)
      = Xor(Xor(CRC32_UPD(c, 7), CRC32_UPD(c16, 5)), Xor(CRC32_UPD(high, 3), CRC32_UPD(h16, 1)))
  BY DEF crc32c_2words
<1>5. \A b \in Nat : b < 32 => (b \in w <=> b \in c)
  BY DEF Xor, Low
<1>6. ShiftRight(w, 32) = high
  <2>1. 32 \in Nat
    OBVIOUS
  <2>2. ShiftRight(w, 32) = Xor(ShiftRight(init_val, 32), high)
    BY <2>1, ShiftXor
  <2>3. ShiftRight(init_val, 32) = {}
    BY <2>1, ShiftedOut
  <2> QED BY <2>2, <2>3, XorLaws
<1>7. ShiftRight(high, 32) = {}
  <2>1. ShiftRight(high, 32) = ShiftRight(word, 64)
    <3>1. 32 + 32 = 64 /\ 32 \in Nat
      OBVIOUS
    <3> QED BY <3>1, ShiftShift
  <2>2. ShiftRight(word, 64) = {}
    <3>1. 64 \in Nat
      OBVIOUS
    <3> QED BY <3>1, ShiftedOut
  <2> QED BY <2>1, <2>2
<1> HIDE DEF w, c, high
<1> DEFINE u == CRC32_UPD(c, 3)
           v == CRC32_UPD(c16, 1)
<1>8. u \in SUBSET Nat /\ v \in SUBSET Nat
  BY UpdType
<1>9. FourBytes(w) = Xor(Xor(u, v), high)
  <2>1. CRC32_UPD(w, 3) = u /\ CRC32_UPD(ShiftRight(w, 16), 1) = v
    BY <1>2, <1>5, SameLowBytes
  <2> QED BY <1>2, <1>6, <2>1, FourBytesIs
<1>10. FourBytes(high) = Xor(CRC32_UPD(high, 3), CRC32_UPD(h16, 1))
  <2>1. FourBytes(high) = Xor(Xor(CRC32_UPD(high, 3), CRC32_UPD(h16, 1)), {})
    BY <1>2, <1>7, FourBytesIs
  <2> QED BY <2>1, XorLaws
<1>11. FourBytes(u) = CRC32_UPD(c, 7) /\ FourBytes(v) = CRC32_UPD(c16, 5)
  <2>1. /\ 3 \in 1..5 /\ 5 \in 1..5 /\ 1 \in 1..5
        /\ 3 + 2 = 5 /\ 5 + 2 = 7 /\ 1 + 2 = 3
    OBVIOUS
  <2>2. /\ TwoBytes(CRC32_UPD(c, 3)) = CRC32_UPD(c, 5) /\ TwoBytes(CRC32_UPD(c, 5)) = CRC32_UPD(c, 7)
        /\ TwoBytes(CRC32_UPD(c16, 1)) = CRC32_UPD(c16, 3)
        /\ TwoBytes(CRC32_UPD(c16, 3)) = CRC32_UPD(c16, 5)
    <3> HIDE DEF c16
    <3> QED BY <1>2, <1>3, <2>1, TwoBytesOfUpd
  <2> QED BY <2>2 DEF FourBytes
<1> HIDE DEF u, v, c16, h16
<1>12. Xor(u, v) \in SUBSET Nat
  BY <1>8, XorType
<1>13. FourBytes(FourBytes(w)) = Xor(FourBytes(Xor(u, v)), FourBytes(high))
  BY <1>2, <1>9, <1>12, FourBytesXor
<1>14. FourBytes(Xor(u, v)) = Xor(FourBytes(u), FourBytes(v))
  BY <1>8, FourBytesXor
<1> QED BY <1>4, <1>10, <1>11, <1>13, <1>14 DEF w

-----------------------------------------------------------------------------
(* The division as Crc defines it.                                          *)

\* f is the remainder after each bit, of n bits of the word.
IsRest(f, word, n) ==
  f = [k \in 0..n |-> IF k = 0 THEN {} ELSE Divide(f[k - 1], k - 1 \in word)]

\* Two divisions go alike as long as their words are.
LEMMA RestsAgree ==
  ASSUME NEW f, NEW g, NEW v, NEW w, NEW m \in Nat, NEW n \in Nat, NEW k \in Nat,
         IsRest(f, v, m), IsRest(g, w, n), k <= m, k <= n,
         \A j \in 0..(k - 1) : j \in v <=> j \in w
  PROVE  f[k] = g[k]
<1> SUFFICES ASSUME f[k] # g[k] PROVE FALSE
  OBVIOUS
<1> DEFINE S == {j \in 0..k : f[j] # g[j]}
<1>1. S \in SUBSET Nat /\ S # {}
  OBVIOUS
<1>2. PICK j \in S : \A i \in S : j <= i
  <2> HIDE DEF S
  <2> QED BY <1>1, Least
<1>3. j \in 0..k /\ f[j] # g[j] /\ j \in 0..m /\ j \in 0..n
  OBVIOUS
<1>4. /\ f[j] = IF j = 0 THEN {} ELSE Divide(f[j - 1], j - 1 \in v)
      /\ g[j] = IF j = 0 THEN {} ELSE Divide(g[j - 1], j - 1 \in w)
  BY <1>3 DEF IsRest
<1>5. j # 0
  BY <1>3, <1>4
<1>6. j - 1 \in 0..(k - 1) /\ j - 1 \in 0..k /\ ~ (j <= j - 1)
  BY <1>3, <1>5
<1>7. f[j - 1] = g[j - 1]
  BY <1>2, <1>6
<1>8. (j - 1 \in v) = (j - 1 \in w)
  BY <1>6
<1> QED BY <1>3, <1>4, <1>5, <1>7, <1>8

\* The division is defined for every number of bits.
LEMMA RestExists ==
  ASSUME NEW word
  PROVE  \A n \in Nat : \E f : IsRest(f, word, n)
<1> SUFFICES ASSUME \E n \in Nat : ~ \E f : IsRest(f, word, n) PROVE FALSE
  OBVIOUS
<1> DEFINE S == {n \in Nat : ~ \E f : IsRest(f, word, n)}
<1>1. S \in SUBSET Nat /\ S # {}
  OBVIOUS
<1>2. PICK n \in S : \A i \in S : n <= i
  <2> HIDE DEF S
  <2> QED BY <1>1, Least
<1>3. n \in Nat /\ ~ \E f : IsRest(f, word, n)
  OBVIOUS
<1>4. CASE n = 0
  <2> DEFINE f == [k \in 0..n |-> {}]
  <2>1. IsRest(f, word, n)
    BY <1>4 DEF IsRest
  <2> QED BY <1>3, <2>1
<1>5. CASE n # 0
  <2>1. n - 1 \in Nat /\ ~ (n <= n - 1)
    BY <1>3, <1>5
  <2>2. n - 1 \notin S
    BY <1>2, <2>1
  <2>3. PICK g : IsRest(g, word, n - 1)
    BY <2>1, <2>2
  <2> DEFINE f == [k \in 0..n |-> IF k = n THEN Divide(g[n - 1], n - 1 \in word) ELSE g[k]]
             h == [k \in 0..n |-> IF k = 0 THEN {} ELSE Divide(f[k - 1], k - 1 \in word)]
  <2>4. \A k \in 0..(n - 1) : g[k] = IF k = 0 THEN {} ELSE Divide(g[k - 1], k - 1 \in word)
    BY <2>3 DEF IsRest
  <2>5. ASSUME NEW k \in 0..n PROVE f[k] = h[k]
    <3>1. CASE k = 0
      BY <1>5, <2>1, <2>4, <3>1
    <3>2. CASE k # 0 /\ k # n
      <4>1. k \in 0..(n - 1) /\ k - 1 \in 0..n /\ k - 1 # n
        BY <1>3, <3>2
      <4>2. f[k - 1] = g[k - 1] /\ f[k] = g[k]
        BY <3>2, <4>1
      <4> QED BY <2>4, <3>2, <4>1, <4>2
    <3>3. CASE k = n
      <4>1. n - 1 \in 0..n /\ n - 1 # n
        BY <1>3, <1>5
      <4>2. f[n - 1] = g[n - 1]
        BY <4>1
      <4> QED BY <1>5, <3>3, <4>2
    <3> QED BY <3>1, <3>2, <3>3
  <2>6. f = h
    BY <2>5
  <2>7. IsRest(f, word, n)
    BY <2>6 DEF IsRest
  <2> QED BY <1>3, <2>7
<1> QED BY <1>4, <1>5

LEMMA CrcIsRest ==
  ASSUME NEW word, NEW n \in Nat
  PROVE  \E f : IsRest(f, word, n) /\ Crc(word, n) = f[n]
<1> DEFINE f == CHOOSE f : IsRest(f, word, n)
<1>1. IsRest(f, word, n)
  BY RestExists
<1>2. Crc(word, n) = f[n]
  BY DEF Crc, IsRest
<1> QED BY <1>1, <1>2

\* The division, a bit at a time, and of the words that agree so far.
LEMMA CrcLaws ==
  /\ \A word : Crc(word, 0) = {}
  /\ \A word : \A n \in Nat : Crc(word, n + 1) = Divide(Crc(word, n), n \in word)
  /\ \A v, w : \A n \in Nat : (\A j \in 0..(n - 1) : j \in v <=> j \in w) => Crc(v, n) = Crc(w, n)
<1>1. ASSUME NEW word PROVE Crc(word, 0) = {}
  <2>1. PICK f : IsRest(f, word, 0) /\ Crc(word, 0) = f[0]
    BY CrcIsRest
  <2>2. 0 \in 0..0
    OBVIOUS
  <2> QED BY <2>1, <2>2 DEF IsRest
<1>2. ASSUME NEW word, NEW n \in Nat
      PROVE  Crc(word, n + 1) = Divide(Crc(word, n), n \in word)
  <2>1. n + 1 \in Nat /\ n <= n + 1 /\ n + 1 \in 0..(n + 1) /\ n + 1 # 0 /\ (n + 1) - 1 = n
    OBVIOUS
  <2>2. PICK f : IsRest(f, word, n) /\ Crc(word, n) = f[n]
    BY CrcIsRest
  <2>3. PICK g : IsRest(g, word, n + 1) /\ Crc(word, n + 1) = g[n + 1]
    BY <2>1, CrcIsRest
  <2>4. f[n] = g[n]
    BY <2>1, <2>2, <2>3, RestsAgree
  <2>5. g[n + 1] = Divide(g[(n + 1) - 1], (n + 1) - 1 \in word)
    BY <2>1, <2>3 DEF IsRest
  <2> QED BY <2>1, <2>2, <2>3, <2>4, <2>5
<1>3. ASSUME NEW v, NEW w, NEW n \in Nat, \A j \in 0..(n - 1) : j \in v <=> j \in w
      PROVE  Crc(v, n) = Crc(w, n)
  <2>1. PICK f : IsRest(f, v, n) /\ Crc(v, n) = f[n]
    BY CrcIsRest
  <2>2. PICK g : IsRest(g, w, n) /\ Crc(w, n) = g[n]
    BY CrcIsRest
  <2>3. n <= n
    OBVIOUS
  <2> QED BY <1>3, <2>1, <2>2, <2>3, RestsAgree
<1> QED BY <1>1, <1>2, <1>3

LEMMA DivideType ==
  ASSUME NEW w \in SUBSET (0..31), NEW bit \in BOOLEAN
  PROVE  Divide(w, bit) \in SUBSET (0..31)
<1>1. ShiftRight(w, 1) \in SUBSET (0..31)
  <2>1. \A b \in w : b >= 1 => b - 1 \in 0..31
    BY SMT
  <2> QED BY <2>1 DEF ShiftRight
<1> DEFINE s == ShiftRight(w, 1)
           T == 0..31
<1>2. s \in SUBSET T /\ Polynomial \in SUBSET T
  BY <1>1, PolynomialType
<1>3. Divide(w, bit) \in {s, Xor(s, Polynomial)}
  BY DEF Divide
<1> HIDE DEF s, T
<1>4. Xor(s, Polynomial) \in SUBSET T
  BY <1>2, XorType
<1> QED BY <1>2, <1>3, <1>4 DEF T

LEMMA CrcType ==
  ASSUME NEW word
  PROVE  \A n \in Nat : Crc(word, n) \in SUBSET (0..31) /\ Crc(word, n) \in SUBSET Nat
<1> DEFINE T == 0..31
           S == {n \in Nat : Crc(word, n) \notin SUBSET T}
<1>1. S = {}
  <2> SUFFICES ASSUME S # {} PROVE FALSE
    OBVIOUS
  <2>1. S \in SUBSET Nat
    OBVIOUS
  <2>2. PICK n \in S : \A i \in S : n <= i
    <3> HIDE DEF S
    <3> QED BY <2>1, Least
  <2>3. n \in Nat /\ Crc(word, n) \notin SUBSET T
    OBVIOUS
  <2>4. n # 0
    BY <2>3, CrcLaws
  <2>5. n - 1 \in Nat /\ ~ (n <= n - 1) /\ (n - 1) + 1 = n
    BY <2>3, <2>4
  <2>6. Crc(word, n - 1) \in SUBSET T
    BY <2>2, <2>5
  <2>7. Crc(word, n) = Divide(Crc(word, n - 1), n - 1 \in word)
    <3>1. Crc(word, (n - 1) + 1) = Divide(Crc(word, n - 1), n - 1 \in word)
      BY <2>5, CrcLaws
    <3> QED BY <2>5, <3>1
  <2>8. (n - 1 \in word) \in BOOLEAN
    OBVIOUS
  <2>9. Divide(Crc(word, n - 1), n - 1 \in word) \in SUBSET T
    BY <2>6, <2>8, DivideType
  <2> QED BY <2>3, <2>7, <2>9
<1>2. ASSUME NEW n \in Nat PROVE Crc(word, n) \in SUBSET T
  BY <1>1
<1>3. \A w \in SUBSET T : w \in SUBSET Nat
  OBVIOUS
<1> HIDE DEF T
<1>4. ASSUME NEW n \in Nat PROVE Crc(word, n) \in SUBSET T /\ Crc(word, n) \in SUBSET Nat
  BY <1>2, <1>3
<1> QED BY <1>4 DEF T

\* The next bit may as well be added to the word that is divided.
LEMMA DivideIsStep ==
  ASSUME NEW w \in SUBSET Nat, NEW next \in SUBSET Nat
  PROVE  Xor(Divide(w, 0 \in next), ShiftRight(next, 1)) = Step(Xor(w, next))
<1> DEFINE divided == Divide(w, 0 \in next)
           shifted == ShiftRight(w, 1)
           rest    == ShiftRight(next, 1)
<1>1. /\ shifted \in SUBSET Nat /\ rest \in SUBSET Nat
      /\ \A b \in Nat : b \in shifted <=> b + 1 \in w
      /\ \A b \in Nat : b \in rest <=> b + 1 \in next
  BY ShiftMember
<1>2. /\ (0 \in next <=> 0 \in w) => divided = shifted
      /\ ~ (0 \in next <=> 0 \in w) => divided = Xor(shifted, Polynomial)
  <2>1. CASE 0 \in next
    <3>1. (0 \in next) = TRUE
      BY <2>1
    <3> QED BY Zenon, <3>1 DEF Divide
  <2>2. CASE 0 \notin next
    <3>1. (0 \in next) = FALSE
      BY <2>2
    <3>2. CASE 0 \in w
      <4>1. (0 \in w) = TRUE
        BY <3>2
      <4> QED BY Zenon, <2>2, <3>1, <3>2, <4>1 DEF Divide
    <3>3. CASE 0 \notin w
      <4>1. (0 \in w) = FALSE
        BY <3>3
      <4> QED BY Zenon, <2>2, <3>1, <3>3, <4>1 DEF Divide
    <3> QED BY <3>2, <3>3
  <2> QED BY <2>1, <2>2
<1> HIDE DEF divided, shifted, rest
<1>3. divided \in SUBSET Nat
  BY <1>1, <1>2, PolynomialType DEF Xor
<1>4. Xor(w, next) \in SUBSET Nat /\ Xor(divided, rest) \in SUBSET Nat
  BY <1>1, <1>3 DEF Xor
<1>5. ASSUME NEW b \in Nat PROVE b \in Xor(divided, rest) <=> b \in Step(Xor(w, next))
  <2>1. /\ b + 1 \in Xor(w, next) <=> ~ (b + 1 \in w <=> b + 1 \in next)
        /\ 0 \in Xor(w, next) <=> ~ (0 \in w <=> 0 \in next)
        /\ b \in Xor(divided, rest) <=> ~ (b \in divided <=> b \in rest)
        /\ b \in Xor(shifted, Polynomial) <=> ~ (b \in shifted <=> b \in Polynomial)
    BY XorMember
  <2>2. b \in Step(Xor(w, next))
          <=> ~ (b + 1 \in Xor(w, next) <=> 0 \in Xor(w, next) /\ b \in Polynomial)
    BY <1>4, StepMember
  <2>3. /\ b \in shifted <=> b + 1 \in w
        /\ b \in rest <=> b + 1 \in next
    BY <1>1
  <2>4. b \in divided <=> ~ (b + 1 \in w <=> ~ (0 \in next <=> 0 \in w) /\ b \in Polynomial)
    BY <1>2, <2>1, <2>3
  <2> QED BY <2>1, <2>2, <2>3, <2>4
<1>6. Step(Xor(w, next)) \in SUBSET Nat
  BY <1>4, StepMember
<1>7. Xor(divided, rest) = Step(Xor(w, next))
  BY <1>4, <1>5, <1>6
<1> QED BY <1>7 DEF divided, rest

\* A byte of the data divided is the step of the hash and the bytes to come.
LEMMA CrcOfByte ==
  ASSUME NEW word, NEW m \in Nat, NEW next \in SUBSET Nat,
         \A i \in 0..7 : i \in next <=> m + i \in word
  PROVE  ByteStep(Xor(Crc(word, m), next)) = Xor(Crc(word, m + 8), ShiftRight(next, 8))
<1> DEFINE x(j) == Xor(Crc(word, m + j), ShiftRight(next, j))
<1>1. ASSUME NEW j \in 0..7 PROVE Step(x(j)) = x(j + 1)
  <2> DEFINE c == Crc(word, m + j)
             d == ShiftRight(next, j)
  <2>1. /\ j \in Nat /\ m + j \in Nat /\ (m + j) + 1 = m + (j + 1) /\ 0 \in Nat /\ 0 + j = j
    OBVIOUS
  <2>2. c \in SUBSET Nat
    BY <2>1, CrcType
  <2>3. d \in SUBSET Nat
    BY <2>1, ShiftMember
  <2>4. 0 \in d <=> m + j \in word
    <3>1. 0 \in d <=> 0 + j \in next
      BY <2>1, ShiftMember
    <3> QED BY <2>1, <3>1
  <2>5. ShiftRight(d, 1) = ShiftRight(next, j + 1)
    BY <2>1, ShiftShift
  <2>6. Crc(word, m + (j + 1)) = Divide(c, m + j \in word)
    <3>1. Crc(word, (m + j) + 1) = Divide(c, m + j \in word)
      BY <2>1, CrcLaws
    <3> QED BY <2>1, <3>1
  <2>7. (0 \in d) = (m + j \in word)
    BY <2>4
  <2> HIDE DEF c, d
  <2>8. Xor(Divide(c, 0 \in d), ShiftRight(d, 1)) = Step(Xor(c, d))
    BY <2>2, <2>3, DivideIsStep
  <2>9. x(j + 1) = Step(Xor(c, d))
    BY <2>5, <2>6, <2>7, <2>8
  <2> QED BY <2>9 DEF c, d
<1>2. x(0) = Xor(Crc(word, m), next)
  <2>1. m + 0 = m
    OBVIOUS
  <2>2. ShiftRight(next, 0) = next
    <3>1. 0 \in Nat /\ \A b \in Nat : b + 0 = b
      OBVIOUS
    <3>2. /\ ShiftRight(next, 0) \in SUBSET Nat
          /\ \A b \in Nat : b \in ShiftRight(next, 0) <=> b + 0 \in next
      BY <3>1, ShiftMember
    <3> QED BY <3>1, <3>2
  <2> QED BY <2>1, <2>2
<1> HIDE DEF x
<1>3. /\ Step(x(0)) = x(1) /\ Step(x(1)) = x(2) /\ Step(x(2)) = x(3) /\ Step(x(3)) = x(4)
      /\ Step(x(4)) = x(5) /\ Step(x(5)) = x(6) /\ Step(x(6)) = x(7) /\ Step(x(7)) = x(8)
  BY SMT, <1>1
<1>4. ByteStep(x(0)) = x(8)
  BY <1>3 DEF ByteStep
<1> QED BY <1>2, <1>4 DEF x

\* The same of two, four and eight bytes.
LEMMA CrcOfTwoBytes ==
  ASSUME NEW word, NEW m \in Nat, NEW next \in SUBSET Nat,
         \A i \in Nat : i < 16 => (i \in next <=> m + i \in word)
  PROVE  TwoBytes(Xor(Crc(word, m), next)) = Xor(Crc(word, m + 16), ShiftRight(next, 16))
<1> DEFINE rest == ShiftRight(next, 8)
<1>1. m + 8 \in Nat /\ (m + 8) + 8 = m + 16 /\ 8 + 8 = 16 /\ 8 \in Nat
  OBVIOUS
<1>2. rest \in SUBSET Nat /\ \A b \in Nat : b \in rest <=> b + 8 \in next
  <2>1. 8 \in Nat
    OBVIOUS
  <2> QED BY <2>1, ShiftMember
<1>3. ShiftRight(rest, 8) = ShiftRight(next, 16)
  BY <1>1, ShiftShift
<1>4. ASSUME NEW i \in Nat, i < 8 PROVE i \in rest <=> (m + 8) + i \in word
  <2>1. i \in rest <=> i + 8 \in next
    BY <1>2
  <2>2. i + 8 \in Nat /\ i + 8 < 16 /\ m + (i + 8) = (m + 8) + i
    BY <1>4
  <2> QED BY <2>1, <2>2
<1> HIDE DEF rest
<1>5. ByteStep(Xor(Crc(word, m), next)) = Xor(Crc(word, m + 8), rest)
  <2>1. \A i \in Nat : i < 8 => (i \in next <=> m + i \in word)
    OBVIOUS
  <2> QED BY <2>1, CrcOfByte DEF rest
<1>6. ByteStep(Xor(Crc(word, m + 8), rest))
      = Xor(Crc(word, (m + 8) + 8), ShiftRight(rest, 8))
  BY <1>1, <1>2, <1>4, CrcOfByte
<1> QED BY <1>1, <1>3, <1>5, <1>6 DEF TwoBytes

LEMMA CrcOfFourBytes ==
  ASSUME NEW word, NEW m \in Nat, NEW next \in SUBSET Nat,
         \A i \in Nat : i < 32 => (i \in next <=> m + i \in word)
  PROVE  FourBytes(Xor(Crc(word, m), next)) = Xor(Crc(word, m + 32), ShiftRight(next, 32))
<1> DEFINE rest == ShiftRight(next, 16)
<1>1. m + 16 \in Nat /\ (m + 16) + 16 = m + 32 /\ 16 + 16 = 32 /\ 16 \in Nat
  OBVIOUS
<1>2. rest \in SUBSET Nat /\ \A b \in Nat : b \in rest <=> b + 16 \in next
  <2>1. 16 \in Nat
    OBVIOUS
  <2> QED BY <2>1, ShiftMember
<1>3. ShiftRight(rest, 16) = ShiftRight(next, 32)
  BY <1>1, ShiftShift
<1>4. ASSUME NEW i \in Nat, i < 16 PROVE i \in rest <=> (m + 16) + i \in word
  <2>1. i \in rest <=> i + 16 \in next
    BY <1>2
  <2>2. i + 16 \in Nat /\ i + 16 < 32 /\ m + (i + 16) = (m + 16) + i
    BY <1>4
  <2> QED BY <2>1, <2>2
<1> HIDE DEF rest
<1>5. TwoBytes(Xor(Crc(word, m), next)) = Xor(Crc(word, m + 16), rest)
  <2>1. \A i \in Nat : i < 16 => (i \in next <=> m + i \in word)
    OBVIOUS
  <2> QED BY <2>1, CrcOfTwoBytes DEF rest
<1>6. TwoBytes(Xor(Crc(word, m + 16), rest))
      = Xor(Crc(word, (m + 16) + 16), ShiftRight(rest, 16))
  BY <1>1, <1>2, <1>4, CrcOfTwoBytes
<1> QED BY <1>1, <1>3, <1>5, <1>6 DEF FourBytes

LEMMA CrcOfEightBytes ==
  ASSUME NEW word, NEW m \in Nat, NEW next \in SUBSET Nat,
         \A i \in Nat : i < 64 => (i \in next <=> m + i \in word)
  PROVE  FourBytes(FourBytes(Xor(Crc(word, m), next))) = Xor(Crc(word, m + 64), ShiftRight(next, 64))
<1> DEFINE rest == ShiftRight(next, 32)
<1>1. m + 32 \in Nat /\ (m + 32) + 32 = m + 64 /\ 32 + 32 = 64 /\ 32 \in Nat
  OBVIOUS
<1>2. rest \in SUBSET Nat /\ \A b \in Nat : b \in rest <=> b + 32 \in next
  <2>1. 32 \in Nat
    OBVIOUS
  <2> QED BY <2>1, ShiftMember
<1>3. ShiftRight(rest, 32) = ShiftRight(next, 64)
  BY <1>1, ShiftShift
<1>4. ASSUME NEW i \in Nat, i < 32 PROVE i \in rest <=> (m + 32) + i \in word
  <2>1. i \in rest <=> i + 32 \in next
    BY <1>2
  <2>2. i + 32 \in Nat /\ i + 32 < 64 /\ m + (i + 32) = (m + 32) + i
    BY <1>4
  <2> QED BY <2>1, <2>2
<1> HIDE DEF rest
<1>5. FourBytes(Xor(Crc(word, m), next)) = Xor(Crc(word, m + 32), rest)
  <2>1. \A i \in Nat : i < 32 => (i \in next <=> m + i \in word)
    OBVIOUS
  <2> QED BY <2>1, CrcOfFourBytes DEF rest
<1>6. FourBytes(Xor(Crc(word, m + 32), rest))
      = Xor(Crc(word, (m + 32) + 32), ShiftRight(rest, 32))
  BY <1>1, <1>2, <1>4, CrcOfFourBytes
<1> QED BY <1>1, <1>3, <1>5, <1>6

-----------------------------------------------------------------------------
(* The loop of hash_crc                                                     *)

\* The hash so far is that of the bytes so far.
HashInv ==
  array => data \in SUBSET Nat /\ pd \in Nat /\ crc = Crc(data, 8 * pd)

LEMMA PieceMember ==
  ASSUME data \in SUBSET Nat, pd \in Nat, NEW n \in Nat
  PROVE  /\ Piece(n) \in SUBSET Nat /\ \A b \in Piece(n) : b < 8 * n
         /\ \A i \in Nat : i < 8 * n => (i \in Piece(n) <=> 8 * pd + i \in data)
<1> DEFINE rest == ShiftRight(data, 8 * pd)
<1>1. 8 * pd \in Nat /\ 8 * n \in Nat
  OBVIOUS
<1>2. rest \in SUBSET Nat /\ \A b \in Nat : b \in rest <=> b + 8 * pd \in data
  BY <1>1, ShiftMember
<1>3. Piece(n) = rest \cap 0..(8 * n - 1)
  BY DEF Piece, Low
<1> HIDE DEF rest
<1>4. \A i \in Nat : i + 8 * pd = 8 * pd + i
  BY <1>1
<1>5. \A b \in Piece(n) : b \in Nat /\ b < 8 * n
  BY <1>1, <1>3
<1>6. \A i \in Nat : i < 8 * n => (i \in Piece(n) <=> i \in rest)
  BY <1>1, <1>3
<1> QED BY <1>2, <1>4, <1>5, <1>6

\* A piece consumed extends the hash by its bytes.
LEMMA HashInvConsumed ==
  ASSUME HashInv, array, NEW n \in {1, 2, 4, 8},
         NEW word, Consume(n, word),
         \/ n = 8 /\ word = crc32c_2words(Piece(8), crc)
         \/ n = 4 /\ word = crc32c_1word(Piece(4), crc)
         \/ n = 2 /\ word = crc32c_2bytes(Piece(2), crc)
         \/ n = 1 /\ word = crc32c_1byte(Piece(1), crc)
  PROVE  HashInv'
<1> DEFINE m    == 8 * pd
           next == Piece(n)
           sum  == Xor(Crc(data, m), next)
<1>1. data \in SUBSET Nat /\ pd \in Nat /\ crc = Crc(data, m) /\ data' = data
  BY DEF HashInv, input, Consume
<1>2. n \in Nat /\ m \in Nat /\ pd' \in Nat /\ m + 8 * n = 8 * pd' /\ crc' = word
  BY <1>1 DEF Consume
<1>3. /\ next \in SUBSET Nat /\ \A b \in next : b < 8 * n
      /\ \A i \in Nat : i < 8 * n => (i \in next <=> m + i \in data)
  BY <1>1, <1>2, PieceMember
<1>4. crc \in SUBSET Nat /\ \A b \in crc : b < 32
  <2>1. crc \in SUBSET (0..31) /\ crc \in SUBSET Nat
    BY <1>1, <1>2, CrcType
  <2> QED BY <2>1
<1>5. ShiftRight(next, 8 * n) = {}
  <2>1. 8 * n \in Nat
    BY <1>2
  <2> QED BY <1>3, <2>1, ShiftedOut
<1> HIDE DEF m, next
<1>6. crc' = Xor(Crc(data, m + 8 * n), ShiftRight(next, 8 * n))
  <2>1. CASE n = 8
    <3>1. 8 * n = 64
      BY <2>1
    <3>2. crc' = crc32c_2words(next, crc)
      BY <1>2, <2>1 DEF next
    <3>3. crc' = FourBytes(FourBytes(sum))
      BY <1>1, <1>3, <1>4, <3>1, <3>2, EightBytesByTable
    <3> QED BY <1>2, <1>3, <3>1, <3>3, CrcOfEightBytes
  <2>2. CASE n = 4
    <3>1. 8 * n = 32
      BY <2>2
    <3>2. crc' = crc32c_1word(next, crc)
      BY <1>2, <2>2 DEF next
    <3>3. crc' = FourBytes(sum)
      BY <1>1, <1>3, <1>4, <3>1, <3>2, FourBytesByTable
    <3> QED BY <1>2, <1>3, <3>1, <3>3, CrcOfFourBytes
  <2>3. CASE n = 2
    <3>1. 8 * n = 16
      BY <2>3
    <3>2. crc' = crc32c_2bytes(next, crc)
      BY <1>2, <2>3 DEF next
    <3>3. crc' = TwoBytes(sum)
      BY <1>1, <1>3, <1>4, <3>2, TwoBytesByTable
    <3> QED BY <1>2, <1>3, <3>1, <3>3, CrcOfTwoBytes
  <2>4. CASE n = 1
    <3>1. 8 * n = 8 /\ \A i \in 0..7 : i \in Nat /\ i < 8
      BY <2>4
    <3>2. crc' = crc32c_1byte(next, crc)
      BY <1>2, <2>4 DEF next
    <3>3. crc' = ByteStep(sum)
      BY <1>1, <1>3, <1>4, <3>2, OneByteByTable
    <3> QED BY <1>2, <1>3, <3>1, <3>3, CrcOfByte
  <2> QED BY <2>1, <2>2, <2>3, <2>4
<1>7. m + 8 * n \in Nat
  BY <1>2
<1>8. crc' = Crc(data, m + 8 * n)
  BY <1>5, <1>6, XorLaws
<1> QED BY <1>1, <1>2, <1>8 DEF HashInv

\* After every piece the hash is the CRC of the bytes consumed, whatever the
\* array and its length.
THEOREM HashInvariant == Spec => []HashInv
<1>1. Init => HashInv
  <2> SUFFICES ASSUME Init, array PROVE data \in SUBSET Nat /\ pd \in Nat /\ crc = Crc(data, 8 * pd)
    BY DEF HashInv
  <2>1. PICK d \in Data : data = d.data
    BY DEF Init
  <2>2. data \in SUBSET Nat
    <3>1. d.len \in Nat /\ d.data \subseteq 0..(8 * d.len - 1)
      BY HashAssumption
    <3> QED BY <2>1, <3>1
  <2>3. pd = 0 /\ crc = {} /\ 8 * 0 = 0
    BY DEF Init
  <2> QED BY <2>2, <2>3, CrcLaws
<1>2. HashInv /\ [Next]_vars => HashInv'
  <2> SUFFICES ASSUME HashInv, [Next]_vars PROVE HashInv'
    OBVIOUS
  <2>1. CASE Eight
    <3>1. array /\ Consume(8, crc32c_2words(Piece(8), crc))
      BY <2>1 DEF Eight
    <3> QED BY <3>1, HashInvConsumed
  <2>2. CASE Four
    <3>1. array /\ Consume(4, crc32c_1word(Piece(4), crc))
      BY <2>2 DEF Four
    <3> QED BY <3>1, HashInvConsumed
  <2>3. CASE Two
    <3>1. array /\ Consume(2, crc32c_2bytes(Piece(2), crc))
      BY <2>3 DEF Two
    <3> QED BY <3>1, HashInvConsumed
  <2>4. CASE One
    <3>1. array /\ Consume(1, crc32c_1byte(Piece(1), crc))
      BY <2>4 DEF One
    <3> QED BY <3>1, HashInvConsumed
  <2>5. CASE Place
    BY <2>5 DEF Place, HashInv, input
  <2>6. CASE UNCHANGED vars
    BY <2>6 DEF vars, HashInv, input
  <2> QED BY <2>1, <2>2, <2>3, <2>4, <2>5, <2>6 DEF Next
<1> QED BY <1>1, <1>2, PTL DEF Spec

\* hash_crc computes CRC-32C: its tables, and the pieces it takes an array in,
\* never show in the hash.
THEOREM HashIsTheCrc == Spec => []HashIsCrc32c
<1>1. HashInv => HashIsCrc32c
  <2> SUFFICES ASSUME HashInv, array PROVE crc = Crc(Low(data, 8 * pd), 8 * pd)
    BY DEF HashIsCrc32c
  <2> DEFINE n == 8 * pd
  <2>1. n \in Nat /\ crc = Crc(data, n)
    BY DEF HashInv
  <2>2. \A j \in 0..(n - 1) : j \in data <=> j \in Low(data, n)
    BY <2>1 DEF Low
  <2> HIDE DEF n
  <2>3. Crc(data, n) = Crc(Low(data, n), n)
    BY <2>1, <2>2, CrcLaws
  <2> QED BY <2>1, <2>3 DEF n
<1> QED BY <1>1, HashInvariant, PTL

-----------------------------------------------------------------------------
(* The highest bit                                                          *)

\* The greatest element of a bounded set.
LEMMA MaxIs ==
  ASSUME NEW N \in Nat, NEW w \in SUBSET Nat, w # {}, \A b \in w : b < N
  PROVE  Max(w) \in w /\ \A b \in w : b <= Max(w)
<1> DEFINE S == {k \in Nat : N - k \in w}
<1>1. S # {}
  <2>1. PICK b \in w : TRUE
    OBVIOUS
  <2>2. N - b \in Nat /\ N - (N - b) = b
    BY <2>1
  <2>3. N - b \in S
    BY <2>1, <2>2
  <2> QED BY <2>3
<1>2. S \in SUBSET Nat
  OBVIOUS
<1>3. PICK m \in S : \A k \in S : m <= k
  <2> HIDE DEF S
  <2> QED BY <1>1, <1>2, Least
<1>4. N - m \in w /\ m \in Nat
  OBVIOUS
<1>5. ASSUME NEW b \in w PROVE b <= N - m
  <2>1. b \in Nat /\ b < N
    OBVIOUS
  <2>2. N - b \in Nat /\ N - (N - b) = b
    BY <2>1
  <2>3. N - b \in S
    BY <2>2
  <2>4. m <= N - b
    BY <1>3, <2>3
  <2> QED BY <1>4, <2>1, <2>4
<1>6. \E x \in w : \A y \in w : x >= y
  <2>1. \A y \in w : N - m >= y
    BY <1>4, <1>5
  <2> QED BY <1>4, <2>1
<1>7. Max(w) \in w /\ \A y \in w : Max(w) >= y
  BY <1>6 DEF Max
<1> QED BY <1>7

\* The bits of x end within the upper n: and where they end, total is the same
\* after every round.
Normal(x, r, n, width, total) ==
  /\ x \in SUBSET Nat /\ r \in Int
  /\ \E h \in x : /\ \A b \in x : b <= h
                  /\ width - n <= h /\ h < width /\ r + h = total

\* A round halves what is left to search.
LEMMA FlsRoundNormal ==
  ASSUME NEW x, NEW r, NEW n \in Nat, NEW width \in Nat, NEW total \in Int,
         Normal(x, r, 2 * n, width, total)
  PROVE  LET y == FlsRound(x, r, n, width)
         IN  Normal(y[1], y[2], n, width, total)
<1>1. PICK h \in x : /\ \A b \in x : b <= h
                     /\ width - 2 * n <= h /\ h < width /\ r + h = total
  BY DEF Normal
<1>2. x \in SUBSET Nat /\ r \in Int /\ h \in Nat
  BY DEF Normal
<1>3. CASE \E b \in x : b >= width - n
  <2>1. FlsRound(x, r, n, width) = <<x, r>>
    BY <1>3 DEF FlsRound
  <2>2. PICK b \in x : b >= width - n
    BY <1>3
  <2>3. b \in Nat /\ b <= h
    BY <1>1, <1>2
  <2>4. width - n <= h
    BY <1>2, <2>2, <2>3
  <2>5. Normal(x, r, n, width, total)
    BY <1>1, <1>2, <2>4 DEF Normal
  <2> QED BY <2>1, <2>5
<1>4. CASE ~ \E b \in x : b >= width - n
  <2> DEFINE y == ShiftLeft(x, n, width)
  <2>1. FlsRound(x, r, n, width) = <<y, r - n>>
    BY <1>4 DEF FlsRound
  <2>2. h + n < width
    <3>1. ~ (h >= width - n)
      BY <1>4
    <3> QED BY <1>2, <3>1
  <2>3. y = {b + n : b \in {c \in x : c + n < width}}
    BY DEF ShiftLeft
  <2> HIDE DEF y
  <2>4. y \in SUBSET Nat
    BY <1>2, <2>3
  <2>5. h + n \in y
    BY <1>1, <2>2, <2>3
  <2>6. \A b \in y : b <= h + n
    BY <1>1, <1>2, <2>3
  <2>7. width - n <= h + n /\ (r - n) + (h + n) = total /\ r - n \in Int
    BY <1>1, <1>2
  <2>8. Normal(y, r - n, n, width, total)
    BY <2>2, <2>4, <2>5, <2>6, <2>7 DEF Normal
  <2> QED BY <2>1, <2>8
<1> QED BY <1>3, <1>4

\* After the round of one bit, the highest bit is at the top.
LEMMA FlsDone ==
  ASSUME NEW x, NEW r, NEW width \in Nat, NEW total \in Int, Normal(x, r, 1, width, total)
  PROVE  r = total - width + 1
BY DEF Normal

LEMMA FlsStart ==
  ASSUME NEW x \in SUBSET Nat, NEW width \in Nat, x # {}, \A b \in x : b < width
  PROVE  Max(x) \in Nat /\ Normal(x, width, width, width, width + Max(x))
<1>1. Max(x) \in x /\ \A b \in x : b <= Max(x)
  BY MaxIs
<1>2. Max(x) \in Nat /\ Max(x) < width
  BY <1>1
<1> QED BY <1>1, <1>2 DEF Normal

LEMMA FlsIs ==
  ASSUME NEW x \in SUBSET Nat, \A b \in x : b < 32
  PROVE  fls(x) = IF x = {} THEN 0 ELSE Max(x) + 1
<1>1. CASE x = {}
  BY <1>1 DEF fls
<1>2. CASE x # {}
  <2> DEFINE a == FlsRound(x, 32, 16, 32)
             b == FlsRound(a[1], a[2], 8, 32)
             c == FlsRound(b[1], b[2], 4, 32)
             d == FlsRound(c[1], c[2], 2, 32)
             e == FlsRound(d[1], d[2], 1, 32)
             t == 32 + Max(x)
  <2>1. fls(x) = e[2]
    BY Zenon, <1>2 DEF fls
  <2>2. 32 \in Nat
    OBVIOUS
  <2>3. Max(x) \in Nat /\ Normal(x, 32, 32, 32, t)
    BY <1>2, <2>2, FlsStart
  <2>4. t \in Int /\ t - 32 + 1 = Max(x) + 1
    BY <2>3
  <2> HIDE DEF t
  <2>5. Normal(a[1], a[2], 16, 32, t)
    <3>1. 16 \in Nat /\ 2 * 16 = 32
      OBVIOUS
    <3> QED BY <2>2, <2>3, <2>4, <3>1, FlsRoundNormal
  <2> HIDE DEF a
  <2>6. Normal(b[1], b[2], 8, 32, t)
    <3>1. 8 \in Nat /\ 2 * 8 = 16
      OBVIOUS
    <3> QED BY <2>2, <2>4, <2>5, <3>1, FlsRoundNormal
  <2> HIDE DEF b
  <2>7. Normal(c[1], c[2], 4, 32, t)
    <3>1. 4 \in Nat /\ 2 * 4 = 8
      OBVIOUS
    <3> QED BY <2>2, <2>4, <2>6, <3>1, FlsRoundNormal
  <2> HIDE DEF c
  <2>8. Normal(d[1], d[2], 2, 32, t)
    <3>1. 2 \in Nat /\ 2 * 2 = 4
      OBVIOUS
    <3> QED BY <2>2, <2>4, <2>7, <3>1, FlsRoundNormal
  <2> HIDE DEF d
  <2>9. Normal(e[1], e[2], 1, 32, t)
    <3>1. 1 \in Nat /\ 2 * 1 = 2
      OBVIOUS
    <3> QED BY <2>2, <2>4, <2>8, <3>1, FlsRoundNormal
  <2> HIDE DEF e
  <2>10. e[2] = t - 32 + 1
    BY <2>2, <2>4, <2>9, FlsDone
  <2> QED BY <1>2, <2>1, <2>4, <2>10
<1> QED BY <1>1, <1>2

LEMMA Fls64Is ==
  ASSUME NEW x \in SUBSET Nat, \A b \in x : b < 64
  PROVE  fls64(x) = IF x = {} THEN 0 ELSE Max(x) + 1
<1>1. CASE x = {}
  BY <1>1 DEF fls64
<1>2. CASE x # {}
  <2> DEFINE a == FlsRound(x, 64, 32, 64)
             b == FlsRound(a[1], a[2], 16, 64)
             c == FlsRound(b[1], b[2], 8, 64)
             d == FlsRound(c[1], c[2], 4, 64)
             e == FlsRound(d[1], d[2], 2, 64)
             f == FlsRound(e[1], e[2], 1, 64)
             t == 64 + Max(x)
  <2>1. fls64(x) = f[2]
    BY Zenon, <1>2 DEF fls64
  <2>2. 64 \in Nat
    OBVIOUS
  <2>3. Max(x) \in Nat /\ Normal(x, 64, 64, 64, t)
    BY <1>2, <2>2, FlsStart
  <2>4. t \in Int /\ t - 64 + 1 = Max(x) + 1
    BY <2>3
  <2> HIDE DEF t
  <2>5. Normal(a[1], a[2], 32, 64, t)
    <3>1. 32 \in Nat /\ 2 * 32 = 64
      OBVIOUS
    <3> QED BY <2>2, <2>3, <2>4, <3>1, FlsRoundNormal
  <2> HIDE DEF a
  <2>6. Normal(b[1], b[2], 16, 64, t)
    <3>1. 16 \in Nat /\ 2 * 16 = 32
      OBVIOUS
    <3> QED BY <2>2, <2>4, <2>5, <3>1, FlsRoundNormal
  <2> HIDE DEF b
  <2>7. Normal(c[1], c[2], 8, 64, t)
    <3>1. 8 \in Nat /\ 2 * 8 = 16
      OBVIOUS
    <3> QED BY <2>2, <2>4, <2>6, <3>1, FlsRoundNormal
  <2> HIDE DEF c
  <2>8. Normal(d[1], d[2], 4, 64, t)
    <3>1. 4 \in Nat /\ 2 * 4 = 8
      OBVIOUS
    <3> QED BY <2>2, <2>4, <2>7, <3>1, FlsRoundNormal
  <2> HIDE DEF d
  <2>9. Normal(e[1], e[2], 2, 64, t)
    <3>1. 2 \in Nat /\ 2 * 2 = 4
      OBVIOUS
    <3> QED BY <2>2, <2>4, <2>8, <3>1, FlsRoundNormal
  <2> HIDE DEF e
  <2>10. Normal(f[1], f[2], 1, 64, t)
    <3>1. 1 \in Nat /\ 2 * 1 = 2
      OBVIOUS
    <3> QED BY <2>2, <2>4, <2>9, <3>1, FlsRoundNormal
  <2> HIDE DEF f
  <2>11. f[2] = t - 64 + 1
    BY <2>2, <2>4, <2>10, FlsDone
  <2> QED BY <1>2, <2>1, <2>4, <2>11
<1> QED BY <1>1, <1>2

\* fls and fls64 end at the highest bit of every hash and of every word hashed.
THEOREM FlsFindsTheHighestBit == Spec => []FlsIsHighestBit
<1>1. HashInv => FlsIsHighestBit
  <2> SUFFICES ASSUME HashInv, array
               PROVE  /\ fls(crc) = (IF crc = {} THEN 0 ELSE Max(crc) + 1)
                      /\ LET w == Low(data, 64)
                         IN  fls64(w) = (IF w = {} THEN 0 ELSE Max(w) + 1)
    BY DEF FlsIsHighestBit
  <2>1. data \in SUBSET Nat /\ pd \in Nat /\ crc = Crc(data, 8 * pd)
    BY DEF HashInv
  <2>2. crc \in SUBSET Nat /\ \A b \in crc : b < 32
    <3>1. 8 * pd \in Nat
      BY <2>1
    <3>2. crc \in SUBSET (0..31) /\ crc \in SUBSET Nat
      BY <2>1, <3>1, CrcType
    <3> QED BY <3>2
  <2>3. Low(data, 64) \in SUBSET Nat /\ \A b \in Low(data, 64) : b < 64
    BY <2>1 DEF Low
  <2> QED BY <2>2, <2>3, FlsIs, Fls64Is
<1> QED BY <1>1, HashInvariant, PTL

-----------------------------------------------------------------------------
(* The bucket of a hash                                                     *)

IsProduct(f, val, n) ==
  f = [k \in 0..n |->
         IF k = 0 THEN <<0, 0>>
         ELSE Plus(Plus(f[k - 1], f[k - 1]), IF 32 - k \in val THEN GOLDEN_RATIO_32 ELSE <<0, 0>>)]

\* The multiplication is defined, however many bits it doubles.
LEMMA ProductExists ==
  ASSUME NEW val
  PROVE  \A n \in Nat : \E f : IsProduct(f, val, n)
<1> DEFINE next(p, k) == Plus(Plus(p, p), IF 32 - k \in val THEN GOLDEN_RATIO_32 ELSE <<0, 0>>)
<1> SUFFICES ASSUME \E n \in Nat : ~ \E f : IsProduct(f, val, n) PROVE FALSE
  OBVIOUS
<1> DEFINE S == {n \in Nat : ~ \E f : IsProduct(f, val, n)}
<1>1. S \in SUBSET Nat /\ S # {}
  OBVIOUS
<1>2. PICK n \in S : \A i \in S : n <= i
  <2> HIDE DEF S
  <2> QED BY <1>1, Least
<1>3. n \in Nat /\ ~ \E f : IsProduct(f, val, n)
  OBVIOUS
<1>4. \A f, m : IsProduct(f, val, m)
                  <=> f = [k \in 0..m |-> IF k = 0 THEN <<0, 0>> ELSE next(f[k - 1], k)]
  BY DEF IsProduct
<1> HIDE DEF next
<1>5. CASE n = 0
  <2> DEFINE f == [k \in 0..n |-> <<0, 0>>]
             h == [k \in 0..n |-> IF k = 0 THEN <<0, 0>> ELSE next(f[k - 1], k)]
  <2>1. f = h
    BY <1>5
  <2>2. IsProduct(f, val, n)
    BY <1>4, <2>1
  <2> QED BY <1>3, <2>2
<1>6. CASE n # 0
  <2>1. n - 1 \in Nat /\ ~ (n <= n - 1)
    BY <1>3, <1>6
  <2>2. n - 1 \notin S
    BY <1>2, <2>1
  <2>3. PICK g : IsProduct(g, val, n - 1)
    BY <2>1, <2>2
  <2> DEFINE f == [k \in 0..n |-> IF k = n THEN next(g[n - 1], n) ELSE g[k]]
             h == [k \in 0..n |-> IF k = 0 THEN <<0, 0>> ELSE next(f[k - 1], k)]
  <2>4. \A k \in 0..(n - 1) : g[k] = IF k = 0 THEN <<0, 0>> ELSE next(g[k - 1], k)
    BY <1>4, <2>3
  <2>5. ASSUME NEW k \in 0..n PROVE f[k] = h[k]
    <3>1. CASE k = 0
      BY <1>6, <2>1, <2>4, <3>1
    <3>2. CASE k # 0 /\ k # n
      <4>1. k \in 0..(n - 1) /\ k - 1 \in 0..n /\ k - 1 # n
        BY <1>3, <3>2
      <4>2. f[k - 1] = g[k - 1] /\ f[k] = g[k]
        BY <3>2, <4>1
      <4> QED BY <2>4, <3>2, <4>1, <4>2
    <3>3. CASE k = n
      <4>1. n - 1 \in 0..n /\ n - 1 # n
        BY <1>3, <1>6
      <4>2. f[n - 1] = g[n - 1]
        BY <4>1
      <4> QED BY <1>6, <3>3, <4>2
    <3> QED BY <3>1, <3>2, <3>3
  <2>6. f = h
    BY <2>5
  <2>7. IsProduct(f, val, n)
    BY <1>4, <2>6
  <2> QED BY <1>3, <2>7
<1> QED BY <1>5, <1>6

\* A number of 32 bits, as upper and lower half.
IsHalves(p) ==
  /\ p[1] \in Nat /\ p[1] < 65536
  /\ p[2] \in Nat /\ p[2] < 65536

LEMMA PlusType ==
  ASSUME NEW p, NEW q, IsHalves(p), IsHalves(q)
  PROVE  IsHalves(Plus(p, q))
<1>1. /\ p[1] \in Nat /\ p[2] \in Nat /\ q[1] \in Nat /\ q[2] \in Nat
  BY DEF IsHalves
<1>2. (p[2] + q[2]) \div 65536 \in Nat
  BY SMT, <1>1
<1>3. \A i \in Nat : i % 65536 \in Nat /\ i % 65536 < 65536
  BY SMT
<1> QED BY SMT, <1>1, <1>2, <1>3 DEF Plus, IsHalves

LEMMA TimesGoldenType ==
  ASSUME NEW val
  PROVE  IsHalves(TimesGolden(val))
<1> DEFINE f == CHOOSE f : IsProduct(f, val, 32)
           S == {k \in 0..32 : ~ IsHalves(f[k])}
<1>1. IsProduct(f, val, 32)
  <2>1. 32 \in Nat
    OBVIOUS
  <2> QED BY <2>1, ProductExists
<1>2. TimesGolden(val) = f[32]
  BY Zenon DEF TimesGolden, IsProduct
<1>3. IsHalves(<<0, 0>>) /\ IsHalves(GOLDEN_RATIO_32)
  BY SMT DEF IsHalves, GOLDEN_RATIO_32
<1> HIDE DEF f
<1>4. f[0] = <<0, 0>>
  BY SMT, <1>1 DEF IsProduct
<1>5. ASSUME NEW k \in 0..32, k # 0, IsHalves(f[k - 1]) PROVE IsHalves(f[k])
  <2> DEFINE term == IF 32 - k \in val THEN GOLDEN_RATIO_32 ELSE <<0, 0>>
  <2>1. f[k] = Plus(Plus(f[k - 1], f[k - 1]), term)
    BY <1>1, <1>5 DEF IsProduct
  <2>2. IsHalves(term)
    BY <1>3
  <2> HIDE DEF term
  <2>3. IsHalves(Plus(f[k - 1], f[k - 1]))
    BY <1>5, PlusType
  <2> QED BY <2>1, <2>2, <2>3, PlusType
<1>6. S = {}
  <2> SUFFICES ASSUME S # {} PROVE FALSE
    OBVIOUS
  <2>1. S \in SUBSET Nat
    OBVIOUS
  <2>2. PICK k \in S : \A i \in S : k <= i
    <3> HIDE DEF S
    <3> QED BY <2>1, Least
  <2>3. k \in 0..32 /\ ~ IsHalves(f[k])
    OBVIOUS
  <2>4. k # 0
    BY <1>3, <1>4, <2>3
  <2>5. k - 1 \in 0..32 /\ ~ (k <= k - 1)
    BY <2>3, <2>4
  <2>6. IsHalves(f[k - 1])
    BY <2>2, <2>5
  <2> QED BY <1>5, <2>3, <2>4, <2>6
<1>7. 32 \in 0..32
  OBVIOUS
<1> QED BY <1>2, <1>6, <1>7

\* The bucket of a hash is a number of as many bits as the table has.
LEMMA BucketOfHash ==
  ASSUME NEW val, NEW b \in 1..16
  PROVE  hash_32(val, b) \in 0..(2^b - 1)
<1> DEFINE upper == TimesGolden(val)[1]
<1>1. upper \in Nat /\ upper < 65536
  BY TimesGoldenType DEF IsHalves
<1>2. hash_32(val, b) = upper \div 2^(16 - b)
  BY DEF hash_32
<1> HIDE DEF upper
<1>3. b = 1 \/ b = 2 \/ b = 3 \/ b = 4 \/ b = 5 \/ b = 6 \/ b = 7 \/ b = 8 \/ b = 9 \/ b = 10
      \/ b = 11 \/ b = 12 \/ b = 13 \/ b = 14 \/ b = 15 \/ b = 16
  OBVIOUS
<1>4. upper \div 2^15 \in 0..(2^1 - 1)
  BY SMT, <1>1
<1>5. upper \div 2^14 \in 0..(2^2 - 1)
  BY SMT, <1>1
<1>6. upper \div 2^13 \in 0..(2^3 - 1)
  BY SMT, <1>1
<1>7. upper \div 2^12 \in 0..(2^4 - 1)
  BY SMT, <1>1
<1>8. upper \div 2^11 \in 0..(2^5 - 1)
  BY SMT, <1>1
<1>9. upper \div 2^10 \in 0..(2^6 - 1)
  BY SMT, <1>1
<1>10. upper \div 2^9 \in 0..(2^7 - 1)
  BY SMT, <1>1
<1>11. upper \div 2^8 \in 0..(2^8 - 1)
  BY SMT, <1>1
<1>12. upper \div 2^7 \in 0..(2^9 - 1)
  BY SMT, <1>1
<1>13. upper \div 2^6 \in 0..(2^10 - 1)
  BY SMT, <1>1
<1>14. upper \div 2^5 \in 0..(2^11 - 1)
  BY SMT, <1>1
<1>15. upper \div 2^4 \in 0..(2^12 - 1)
  BY SMT, <1>1
<1>16. upper \div 2^3 \in 0..(2^13 - 1)
  BY SMT, <1>1
<1>17. upper \div 2^2 \in 0..(2^14 - 1)
  BY SMT, <1>1
<1>18. upper \div 2^1 \in 0..(2^15 - 1)
  BY SMT, <1>1
<1>19. upper \div 2^0 \in 0..(2^16 - 1)
  BY SMT, <1>1
<1> QED
  <2>1. CASE b = 1
    <3>1. 16 - b = 15
      BY <2>1
    <3> QED BY Zenon, <1>2, <1>4, <2>1, <3>1
  <2>2. CASE b = 2
    <3>1. 16 - b = 14
      BY <2>2
    <3> QED BY Zenon, <1>2, <1>5, <2>2, <3>1
  <2>3. CASE b = 3
    <3>1. 16 - b = 13
      BY <2>3
    <3> QED BY Zenon, <1>2, <1>6, <2>3, <3>1
  <2>4. CASE b = 4
    <3>1. 16 - b = 12
      BY <2>4
    <3> QED BY Zenon, <1>2, <1>7, <2>4, <3>1
  <2>5. CASE b = 5
    <3>1. 16 - b = 11
      BY <2>5
    <3> QED BY Zenon, <1>2, <1>8, <2>5, <3>1
  <2>6. CASE b = 6
    <3>1. 16 - b = 10
      BY <2>6
    <3> QED BY Zenon, <1>2, <1>9, <2>6, <3>1
  <2>7. CASE b = 7
    <3>1. 16 - b = 9
      BY <2>7
    <3> QED BY Zenon, <1>2, <1>10, <2>7, <3>1
  <2>8. CASE b = 8
    <3>1. 16 - b = 8
      BY <2>8
    <3> QED BY Zenon, <1>2, <1>11, <2>8, <3>1
  <2>9. CASE b = 9
    <3>1. 16 - b = 7
      BY <2>9
    <3> QED BY Zenon, <1>2, <1>12, <2>9, <3>1
  <2>10. CASE b = 10
    <3>1. 16 - b = 6
      BY <2>10
    <3> QED BY Zenon, <1>2, <1>13, <2>10, <3>1
  <2>11. CASE b = 11
    <3>1. 16 - b = 5
      BY <2>11
    <3> QED BY Zenon, <1>2, <1>14, <2>11, <3>1
  <2>12. CASE b = 12
    <3>1. 16 - b = 4
      BY <2>12
    <3> QED BY Zenon, <1>2, <1>15, <2>12, <3>1
  <2>13. CASE b = 13
    <3>1. 16 - b = 3
      BY <2>13
    <3> QED BY Zenon, <1>2, <1>16, <2>13, <3>1
  <2>14. CASE b = 14
    <3>1. 16 - b = 2
      BY <2>14
    <3> QED BY Zenon, <1>2, <1>17, <2>14, <3>1
  <2>15. CASE b = 15
    <3>1. 16 - b = 1
      BY <2>15
    <3> QED BY Zenon, <1>2, <1>18, <2>15, <3>1
  <2>16. CASE b = 16
    <3>1. 16 - b = 0
      BY <2>16
    <3> QED BY Zenon, <1>2, <1>19, <2>16, <3>1
  <2> QED BY <1>3, <2>1, <2>2, <2>3, <2>4, <2>5, <2>6, <2>7, <2>8, <2>9, <2>10, <2>11, <2>12, <2>13, <2>14, <2>15, <2>16

LEMMA HashBitsIs ==
  ASSUME NEW b \in 1..16
  PROVE  HASH_BITS(b) = b
<1> DEFINE S == {x \in 2..63 : x \in {b}} \cup {1}
<1>1. ilog2({b}) = Max(S)
  BY DEF ilog2
<1>2. S \in SUBSET Nat /\ 1 \in S /\ \A x \in S : x < 64
  OBVIOUS
<1>3. b \in S /\ \A x \in S : x <= b
  OBVIOUS
<1> HIDE DEF S
<1>4. Max(S) \in S /\ \A x \in S : x <= Max(S)
  <2>1. 64 \in Nat /\ S # {}
    BY <1>2
  <2> QED BY <1>2, <2>1, MaxIs
<1>5. Max(S) = b
  <2> DEFINE m == Max(S)
  <2>1. m \in Nat /\ m <= b /\ b <= m
    BY <1>2, <1>3, <1>4
  <2> HIDE DEF m
  <2>2. m = b
    BY <2>1
  <2> QED BY <2>2 DEF m
<1> QED BY <1>1, <1>5 DEF HASH_BITS

\* The table's size is given once, and an entry put in one of its buckets.
BucketInv == array => bits \in 1..16 /\ BucketInTable

\* Whatever array of bytes is hashed, the bucket is one of the table's: only a
\* protocol number can be put outside.
THEOREM ArraysHashIntoTheTable == Spec => [](array => BucketInTable)
<1>1. Init => BucketInv
  BY HashAssumption DEF Init, BucketInv, BucketInTable
<1>2. BucketInv /\ [Next]_vars => BucketInv'
  <2> SUFFICES ASSUME BucketInv, [Next]_vars PROVE BucketInv'
    OBVIOUS
  <2>1. CASE Eight \/ Four \/ Two \/ One \/ UNCHANGED vars
    <3>1. array' = array /\ bits' = bits /\ bucket' = bucket
      BY <2>1 DEF Eight, Four, Two, One, Consume, input, vars
    <3> QED BY Zenon, <3>1 DEF BucketInv, BucketInTable
  <2>2. CASE Place
    <3>1. array' = array /\ bits' = bits
      BY <2>2 DEF Place, input
    <3>2. ASSUME array PROVE bits \in 1..16 /\ bucket' \in 0..(2^bits - 1)
      <4>1. bits \in 1..16
        BY <3>2 DEF BucketInv
      <4>2. bucket' = hash_32(crc, bits)
        BY <2>2, <3>2, <4>1, HashBitsIs DEF Place
      <4> QED BY <4>1, <4>2, BucketOfHash
    <3> QED BY Zenon, <3>1, <3>2 DEF BucketInv, BucketInTable
  <2> QED BY <2>1, <2>2 DEF Next
<1>3. BucketInv => (array => BucketInTable)
  BY DEF BucketInv
<1> QED BY <1>1, <1>2, <1>3, PTL DEF Spec
=============================================================================
