----------------------------- MODULE RangeProofs ----------------------------
(***************************************************************************)
(* The range decoder keeps its range normalized and its code in step, for  *)
(* every base, every scale of probabilities and every input.               *)
(***************************************************************************)
EXTENDS Range, TLAPS

\* Products grow with their factors.
LEMMA TimesMonotonic ==
  \A a, b, c \in Nat : a <= b => a * c <= b * c
  OBVIOUS

\* The numbers of four digits, of which Top is the least with a first digit.
LEMMA Sizes ==
  /\ Byte \in Nat /\ Byte >= 2
  /\ Top \in Nat /\ Top >= 1
  /\ Word \in Nat /\ Word = Top * Byte /\ Word >= 2 * Top
  /\ Top % 2 = 0 /\ Word % 2 = 0
<1>1. Byte \in Nat /\ Byte >= 2 /\ Byte % 2 = 0
  BY RangeAssumption
<1>2. Byte * Byte \in Nat /\ Byte * Byte >= 1
  BY <1>1
<1>3. Top \in Nat /\ Top >= 1
  BY <1>1, <1>2 DEF Top
<1>4. Word \in Nat /\ Word = Top * Byte
  BY <1>1, <1>3 DEF Word
<1>5. 2 * Top <= Byte * Top
  BY <1>1, <1>3, TimesMonotonic
<1>6. \A x \in Nat : (x * Byte) % 2 = 0
  <2> SUFFICES ASSUME NEW x \in Nat PROVE (x * Byte) % 2 = 0
    OBVIOUS
  <2> DEFINE k == Byte \div 2
  <2>1. k \in Nat /\ Byte = 2 * k
    BY <1>1
  <2> HIDE DEF k
  <2>2. x * Byte = 2 * (x * k) /\ x * k \in Nat
    BY <2>1
  <2> QED
    BY <2>2
<1> QED
  BY <1>1, <1>2, <1>3, <1>4, <1>5, <1>6 DEF Top

\* The two parts of a normalized range: neither is empty, and one digit brings
\* either of them back to the size of Top.
LEMMA BoundSplits ==
  ASSUME NEW r \in Nat, r >= Top,
         NEW p \in Least .. Total - Least,
         NEW bound, bound = (r \div Total) * p
  PROVE  /\ bound \in Nat /\ bound <= r
         /\ bound * Byte >= Top
         /\ (r - bound) * Byte >= Top
<1> DEFINE q == r \div Total
           t == Top \div Total
<1>1. /\ Least \in Nat /\ Least >= 1 /\ Total \in Nat /\ Total >= 1
      /\ p \in Nat /\ p >= Least /\ p <= Total - Least
      /\ Byte * Least >= Total /\ Top % Total = 0
  BY RangeAssumption
<1>2. q \in Nat /\ t \in Nat /\ r >= q * Total /\ r < (q + 1) * Total /\ Top = t * Total
  BY <1>1, Sizes
<1>3. q >= t
  <2>1. CASE q + 1 <= t
    <3>1. (q + 1) * Total <= t * Total
      BY <2>1, <1>1, <1>2, TimesMonotonic
    <3> QED
      BY <3>1, <1>1, <1>2, Sizes
  <2> QED
    BY <2>1, <1>2
<1> HIDE DEF q, t
<1>4. \A x \in Nat : x >= q * Least => x * Byte >= Top
  <2> SUFFICES ASSUME NEW x \in Nat, x >= q * Least
               PROVE  x * Byte >= Top
    OBVIOUS
  <2>1. (q * Least) * Byte <= x * Byte
    BY <1>1, <1>2, Sizes, TimesMonotonic
  <2>2. q * Total <= q * (Byte * Least)
    BY <1>1, <1>2, Sizes, TimesMonotonic
  <2>3. t * Total <= q * Total
    BY <1>1, <1>2, <1>3, TimesMonotonic
  <2>4. q * (Byte * Least) = (q * Least) * Byte
    BY <1>1, <1>2, Sizes
  <2> QED
    BY <2>1, <2>2, <2>3, <2>4, <1>1, <1>2, Sizes
<1>5. bound = q * p
  BY DEF q
<1>6. bound \in Nat /\ q * Least <= bound
  <2>1. Least * q <= p * q
    BY <1>1, <1>2, TimesMonotonic
  <2> QED
    BY <2>1, <1>1, <1>2, <1>5
<1>7. bound <= q * (Total - Least)
  <2>1. p * q <= (Total - Least) * q
    BY <1>1, <1>2, TimesMonotonic
  <2> QED
    BY <2>1, <1>1, <1>2, <1>5
<1>8. q * (Total - Least) = q * Total - q * Least
  BY <1>1, <1>2
<1>9. r - bound \in Nat /\ r - bound >= q * Least
  BY <1>1, <1>2, <1>6, <1>7, <1>8
<1> QED
  BY <1>4, <1>6, <1>9

\* A probability that follows a bit stays off the ends.
LEMMA ProbabilitiesStay ==
  \A p \in Least .. Total - Least :
    /\ p + (Total - p) \div Move \in Least .. Total - Least
    /\ p - p \div Move \in Least .. Total - Least
<1> SUFFICES ASSUME NEW p \in Least .. Total - Least
             PROVE  /\ p + (Total - p) \div Move \in Least .. Total - Least
                    /\ p - p \div Move \in Least .. Total - Least
  OBVIOUS
<1>1. /\ Move \in Nat \ {0} /\ Total \in Nat /\ Least \in Nat
  BY RangeAssumption
<1>2. p - p \div Move >= Least /\ p + (Total - p) \div Move <= Total - Least
  BY RangeAssumption, Zenon
<1>3. \A x \in Nat : x \div Move \in Nat
  BY <1>1
<1>4. p \in Nat /\ Total - p \in Nat /\ p >= Least /\ p <= Total - Least
  BY <1>1
<1> QED
  BY <1>1, <1>2, <1>3, <1>4

-----------------------------------------------------------------------------
\* RangeNormalized and InStep are inductive together with the types of the
\* variables they speak of.
IInv ==
  /\ range \in Nat /\ range < Word /\ range >= Top
  /\ code \in Nat /\ code < Word
  /\ probs \in [Context -> Least .. Total - Least]
  /\ exact \in Int /\ corrupt \in BOOLEAN
  /\ InStep

\* What normalize makes of a range that one digit brings back to size.
LEMMA NormalizeRestores ==
  ASSUME NEW r \in Nat, NEW c \in Nat, NEW e \in Int,
         r < Word, r * Byte >= Top, c < Word,
         corrupt' \in BOOLEAN,
         ~corrupt' => c = e /\ c < r,
         Normalize(r, c, e)
  PROVE  /\ range' \in Nat /\ range' < Word /\ range' >= Top
         /\ code' \in Nat /\ code' < Word
         /\ exact' \in Int
         /\ InStep'
<1>1. CASE r >= Top
  BY <1>1, Sizes DEF Normalize, InStep
<1>2. CASE r < Top
  <2>1. PICK b \in 0 .. Byte - 1 :
          /\ code' = (c * Byte + b) % Word
          /\ exact' = IF corrupt' THEN 0 ELSE e * Byte + b
    BY <1>2, Sizes DEF Normalize
  <2>2. range' = r * Byte
    BY <1>2, Sizes DEF Normalize
  <2>3. (r + 1) * Byte <= Top * Byte
    BY <1>2, Sizes, TimesMonotonic
  <2>4. (r + 1) * Byte = r * Byte + Byte
    BY Sizes
  <2>5. r * Byte \in Nat /\ r * Byte < Word
    BY <2>3, <2>4, Sizes
  <2>6. c * Byte + b \in Nat
    BY <2>1, Sizes
  <2>7. code' \in Nat /\ code' < Word
    BY <2>1, <2>6, Sizes
  <2>8. e * Byte + b \in Int
    BY <2>1, Sizes
  <2>9. ASSUME ~corrupt'
        PROVE  code' = exact' /\ exact' \in 0 .. range' - 1
    <3>1. c = e /\ c + 1 <= r
      BY <2>9
    <3>2. (c + 1) * Byte <= r * Byte
      BY <3>1, Sizes, TimesMonotonic
    <3>3. (c + 1) * Byte = c * Byte + Byte
      BY Sizes
    <3>4. c * Byte + b < r * Byte
      BY <3>2, <3>3, <2>1, Sizes
    <3>5. (c * Byte + b) % Word = c * Byte + b
      BY <3>4, <2>5, <2>6, Sizes
    <3> QED
      BY <3>1, <3>4, <3>5, <2>1, <2>2, <2>6, <2>9, <2>5
  <2> QED
    BY <2>1, <2>2, <2>5, <2>7, <2>8, <2>9 DEF InStep
<1> QED
  BY <1>1, <1>2, Sizes

\* A bit with a probability, of either value.
LEMMA BitKeeps ==
  ASSUME IInv, NEW i \in Context, Bit(i)
  PROVE  IInv'
<1> DEFINE p == probs[i]
           bound == (range \div Total) * p
<1>1. p \in Least .. Total - Least
  BY DEF IInv
<1>2. /\ range \in Nat /\ range < Word /\ range >= Top
      /\ code \in Nat /\ code < Word /\ exact \in Int
      /\ corrupt' = corrupt /\ corrupt' \in BOOLEAN
      /\ ~corrupt => code = exact /\ code < range
  BY Sizes DEF IInv, InStep, Bit
<1>3. /\ bound \in Nat /\ bound <= range
      /\ bound * Byte >= Top /\ (range - bound) * Byte >= Top
  BY <1>1, <1>2, BoundSplits
<1>4. p + (Total - p) \div Move \in Least .. Total - Least
      /\ p - p \div Move \in Least .. Total - Least
  BY <1>1, ProbabilitiesStay
<1> HIDE DEF bound
<1>5. CASE /\ code < bound
           /\ probs' = [probs EXCEPT ![i] = p + (Total - p) \div Move]
           /\ Normalize(bound, code, exact)
  <2>1. ~corrupt' => code = exact /\ code < bound
    BY <1>2, <1>5
  <2>2. bound < Word
    BY <1>2, <1>3, Sizes
  <2>3. /\ range' \in Nat /\ range' < Word /\ range' >= Top
        /\ code' \in Nat /\ code' < Word /\ exact' \in Int /\ InStep'
    BY <1>2, <1>3, <1>5, <2>1, <2>2, NormalizeRestores
  <2>4. probs' \in [Context -> Least .. Total - Least]
    BY <1>4, <1>5 DEF IInv
  <2> QED
    BY <1>2, <2>3, <2>4 DEF IInv
<1>6. CASE /\ code >= bound
           /\ probs' = [probs EXCEPT ![i] = p - p \div Move]
           /\ Normalize(range - bound, code - bound, exact - bound)
  <2>1. ~corrupt' => code - bound = exact - bound /\ code - bound < range - bound
    BY <1>2, <1>3
  <2>2. /\ range - bound \in Nat /\ range - bound < Word
        /\ code - bound \in Nat /\ code - bound < Word /\ exact - bound \in Int
    BY <1>2, <1>3, <1>6, Sizes
  <2>3. /\ range' \in Nat /\ range' < Word /\ range' >= Top
        /\ code' \in Nat /\ code' < Word /\ exact' \in Int /\ InStep'
    BY <1>2, <1>3, <1>6, <2>1, <2>2, NormalizeRestores
  <2>4. probs' \in [Context -> Least .. Total - Least]
    BY <1>4, <1>6 DEF IInv
  <2> QED
    BY <1>2, <2>3, <2>4 DEF IInv
<1> QED
  BY <1>5, <1>6 DEF Bit, bound

\* A bit without: unless the code is the last number of an odd range, the sign
\* of the wrapped difference says which half the code is in.
LEMMA DirectBitKeeps ==
  ASSUME IInv, DirectBit
  PROVE  IInv'
<1> DEFINE half == range \div 2
           difference == (code - half) % Word
<1>0. corrupt' = (corrupt \/ (range % 2 = 1 /\ code = range - 1)) /\ probs' = probs
  BY DEF DirectBit
<1>1. /\ range \in Nat /\ range < Word /\ range >= Top
      /\ code \in Nat /\ code < Word /\ exact \in Int
      /\ corrupt' \in BOOLEAN
      /\ probs' = probs
      /\ ~corrupt => code = exact /\ code < range
      /\ ~corrupt' => ~corrupt /\ ~(range % 2 = 1 /\ code = range - 1)
  <2>1. corrupt' \in BOOLEAN /\ (~corrupt' => ~corrupt /\ ~(range % 2 = 1 /\ code = range - 1))
    BY <1>0, Zenon
  <2>2. ~corrupt => code = exact /\ code < range
    BY Sizes DEF IInv, InStep
  <2> QED
    BY <1>0, <2>1, <2>2 DEF IInv
<1>2. /\ half \in Nat /\ half < Word /\ 2 * half <= range /\ range <= 2 * half + 1
      /\ range % 2 = range - 2 * half
  BY <1>1, Sizes
<1>3. half < Word \div 2 /\ half * Byte >= Top
  <2>1. 2 * half <= Byte * half
    BY <1>2, Sizes, TimesMonotonic
  <2>2. PICK k \in Nat : Top = 2 * k
    BY Sizes
  <2>3. PICK l \in Nat : Word = 2 * l
    BY Sizes
  <2> QED
    BY <1>1, <1>2, <2>1, <2>2, <2>3, Sizes
<1>4. PICK l \in Nat : Word = 2 * l
  BY Sizes
<1>5. difference \in Nat /\ difference < Word
  BY <1>1, <1>2, Sizes
<1>6. (difference + half) % Word \in Nat /\ (difference + half) % Word < Word
  BY <1>2, <1>5, Sizes
\* In step, the difference is negative just when the code is in the lower half.
<1>7. ASSUME ~corrupt'
      PROVE  /\ code = exact /\ code < 2 * half
             /\ IF code < half
                THEN difference >= Word \div 2 /\ (difference + half) % Word = code
                ELSE difference < Word \div 2 /\ difference = code - half
  <2>1. code = exact /\ code < 2 * half
    BY <1>1, <1>2, <1>7
  <2>2. CASE code < half
    <3>1. difference = code - half + Word
      BY <1>1, <1>2, <2>2, Sizes
    <3>2. (difference + half) % Word = code
      <4>1. difference + half = code + Word
        BY <3>1, <1>1, <1>2, Sizes
      <4> QED
        BY <4>1, <1>1, Sizes
    <3> QED
      BY <2>1, <2>2, <3>1, <3>2, <1>1, <1>2, <1>3, <1>4
  <2>3. CASE code >= half
    <3>1. difference = code - half
      BY <1>1, <1>2, <2>3, Sizes
    <3> QED
      BY <2>1, <2>3, <3>1, <1>1, <1>2, <1>3, <1>4
  <2> QED
    BY <2>2, <2>3, <1>1, <1>2
<1> HIDE DEF half, difference
<1>8. CASE /\ difference >= Word \div 2
           /\ Normalize(half, (difference + half) % Word, exact)
  <2>1. ~corrupt' => (difference + half) % Word = exact /\ (difference + half) % Word < half
    BY <1>1, <1>2, <1>5, <1>7, <1>8, <1>4
  <2>2. /\ range' \in Nat /\ range' < Word /\ range' >= Top
        /\ code' \in Nat /\ code' < Word /\ exact' \in Int /\ InStep'
    BY <1>1, <1>2, <1>3, <1>6, <1>8, <2>1, NormalizeRestores
  <2> QED
    BY <1>1, <2>2 DEF IInv
<1>9. CASE /\ ~(difference >= Word \div 2)
           /\ Normalize(half, difference, exact - half)
  <2>1. ~corrupt' => difference = exact - half /\ difference < half
    BY <1>1, <1>2, <1>5, <1>7, <1>9, <1>4
  <2>2. exact - half \in Int
    BY <1>1, <1>2
  <2>3. /\ range' \in Nat /\ range' < Word /\ range' >= Top
        /\ code' \in Nat /\ code' < Word /\ exact' \in Int /\ InStep'
    BY <1>1, <1>2, <1>3, <1>5, <1>9, <2>1, <2>2, NormalizeRestores
  <2> QED
    BY <1>1, <2>3 DEF IInv
<1> QED
  BY <1>8, <1>9 DEF DirectBit, half, difference

LEMMA RangeInvariant == Spec => []IInv
<1>1. Init => IInv
  <2> SUFFICES ASSUME Init PROVE IInv
    OBVIOUS
  <2>1. Total \div 2 \in Least .. Total - Least
    BY RangeAssumption
  <2>2. /\ range = Word - 1 /\ code \in 0 .. Word - 1 /\ exact = code
        /\ probs = [i \in Context |-> Total \div 2]
    BY DEF Init
  <2>3. corrupt \in BOOLEAN /\ (~corrupt => code # Word - 1)
    BY Zenon DEF Init
  <2>4. range \in Nat /\ range < Word /\ range >= Top /\ code \in Nat /\ code < Word
    BY <2>2, Sizes
  <2>5. probs \in [Context -> Least .. Total - Least]
    BY <2>1, <2>2
  <2>6. InStep
    BY <2>2, <2>3, Sizes DEF InStep
  <2> QED
    BY <2>2, <2>3, <2>4, <2>5, <2>6 DEF IInv
<1>2. ASSUME IInv, [Next]_vars
      PROVE  IInv'
  <2>1. ASSUME NEW i \in Context, Bit(i)
        PROVE  IInv'
    BY <1>2, <2>1, BitKeeps
  <2>2. CASE BitOutside
    BY <1>2, <2>2 DEF BitOutside, IInv, InStep
  <2>3. CASE DirectBit
    BY <1>2, <2>3, DirectBitKeeps
  <2>4. CASE UNCHANGED vars
    BY <1>2, <2>4 DEF vars, IInv, InStep
  <2> QED
    BY <1>2, <2>1, <2>2, <2>3, <2>4 DEF Next
<1> QED
  BY <1>1, <1>2, PTL DEF Spec

\* One call of normalize after each bit is enough, whatever the input is: the
\* next bit finds a range that it can split.
THEOREM OneNormalizeIsEnough == Spec => []RangeNormalized
<1>1. IInv => RangeNormalized
  BY DEF IInv, RangeNormalized
<1> QED
  BY <1>1, RangeInvariant, PTL

\* On every input an encoder may have written the wrapped code is the exact
\* distance into the interval, and inside it.
THEOREM CodeStaysInStep == Spec => []InStep
<1>1. IInv => InStep
  BY DEF IInv
<1> QED
  BY <1>1, RangeInvariant, PTL
=============================================================================
