-------------------------------- MODULE Range -------------------------------
(***************************************************************************)
(* The range decoder under the LZMA symbol loop (crates/unpack/src/lzma.rs *)
(* RangeDecoder): numbers of four digits to the base Byte, of which the    *)
(* code wraps, and probabilities that follow the bits they predict. What   *)
(* the decoder asks for next is up to its caller: any probability of a     *)
(* table, a bit without one, or an index past the end of a table.          *)
(***************************************************************************)
EXTENDS Integers

CONSTANTS
  Byte,       \* 256: Word is u32, Top is TOP
  Total,      \* 2048, the sum of the two probabilities
  Move,       \* 32, how slowly a probability follows
  Least,      \* the least a probability gets to: 31
  Context,    \* the indices of the probabilities
  MaxInput,   \* the longest input
  MaxOverrun  \* how many bits of a symbol may be asked for after the input

Top == Byte * Byte * Byte
Word == Top * Byte

ASSUME RangeAssumption ==
  /\ Byte \in Nat \ {0} /\ Byte % 2 = 0 /\ Total \in Nat \ {0} /\ Move \in Nat \ {0}
  /\ Least \in 1 .. Total \div 2
  /\ Top % Total = 0                      \* TOP is a multiple of 2048
  /\ Byte * Least >= Total                \* one digit makes up for any bit
  /\ \A p \in Least .. Total - Least :
       /\ p - p \div Move >= Least
       /\ p + (Total - p) \div Move <= Total - Least
  /\ MaxInput \in Nat /\ MaxOverrun \in Nat

VARIABLES
  range, code, exhausted,  \* as in RangeDecoder
  probs,                   \* the tables of probabilities, as one
  length,                  \* how many digits there are; never changes
  pos,                     \* how many digits were read
  overrun,                 \* the bits read after exhausted was set
  exact,    \* what code would be without wrapping: how far the number that
            \* the input spells lies above the interval the bits lead to
  corrupt   \* the input is one that no encoder writes

vars == <<range, code, exhausted, probs, length, pos, overrun, exact, corrupt>>

TypeOK ==
  /\ range \in 0 .. Word - 1 /\ code \in 0 .. Word - 1
  /\ exhausted \in BOOLEAN /\ corrupt \in BOOLEAN
  /\ probs \in [Context -> 0 .. Total]
  /\ length \in 0 .. MaxInput /\ pos \in 0 .. length /\ overrun \in 0 .. MaxOverrun
  /\ exact \in Int

\* new: one digit is read and dropped, four are the code. decode has checked
\* that there are five.
Init ==
  /\ range = Word - 1
  /\ code \in 0 .. Word - 1
  /\ exhausted = FALSE
  /\ probs = [c \in Context |-> Total \div 2]
  /\ length \in 5 .. MaxInput /\ pos = 5 /\ overrun = 0
  /\ exact = code
  /\ corrupt = (code = Word - 1)

-----------------------------------------------------------------------------
\* Mutant: the end of the input is not noticed.
Bug_NextByte(b) ==
  /\ b \in 0 .. Byte - 1
  /\ pos' = IF pos < length THEN pos + 1 ELSE pos
  /\ UNCHANGED exhausted

\* next_byte: the next digit, also when the decoder has given up; zero for ever
\* after the last one.
NextByte(b) ==
  \/ /\ pos < length
     /\ b \in 0 .. Byte - 1
     /\ pos' = pos + 1
     /\ UNCHANGED exhausted
  \/ /\ pos = length
     /\ b = 0
     /\ exhausted' = TRUE
     /\ UNCHANGED pos

\* normalize after an operation that leaves range r and code c; u32 drops what
\* the shift moves out of code.
Normalize(r, c, e) ==
  IF r < Top
  THEN /\ range' = r * Byte
       /\ \E b \in 0 .. Byte - 1 :
            /\ NextByte(b)
            /\ code' = (c * Byte + b) % Word
            /\ exact' = IF corrupt' THEN 0 ELSE e * Byte + b
  ELSE /\ range' = r /\ code' = c /\ exact' = IF corrupt' THEN 0 ELSE e
       /\ UNCHANGED <<pos, exhausted>>

\* The caller looks at exhausted between symbols, not between bits.
Asked ==
  /\ UNCHANGED length
  /\ overrun < MaxOverrun
  /\ overrun' = IF exhausted THEN overrun + 1 ELSE overrun

\* Mutant: the probability of a zero grows by its own share.
Bug_Bit(c) ==
  LET p == probs[c]
      bound == (range \div Total) * p
  IN  /\ Asked
      /\ UNCHANGED corrupt
      /\ \/ /\ code < bound
            /\ probs' = [probs EXCEPT ![c] = p + (p \div Move)]
            /\ Normalize(bound, code, exact)
         \/ /\ code >= bound
            /\ probs' = [probs EXCEPT ![c] = p - p \div Move]
            /\ Normalize(range - bound, code - bound, exact - bound)

\* bit with an index inside its table.
Bit(c) ==
  LET p == probs[c]
      bound == (range \div Total) * p
  IN  /\ Asked
      /\ UNCHANGED corrupt
      /\ \/ /\ code < bound
            /\ probs' = [probs EXCEPT ![c] = p + (Total - p) \div Move]
            /\ Normalize(bound, code, exact)
         \/ /\ code >= bound
            /\ probs' = [probs EXCEPT ![c] = p - p \div Move]
            /\ Normalize(range - bound, code - bound, exact - bound)

\* bit with an index past the end: the decoder gives up.
BitOutside ==
  /\ Asked
  /\ exhausted' = TRUE
  /\ UNCHANGED <<range, code, probs, pos, exact, corrupt>>

\* Mutant: the difference is not tried, but taken.
Bug_DirectBit ==
  LET half == range \div 2
  IN  /\ Asked
      /\ UNCHANGED <<probs, corrupt>>
      /\ Normalize(half, code - half, exact - half)

\* One turn of direct_bits: half the range is subtracted, and added again when
\* the difference, as a signed number, is negative. An encoder never leaves
\* the last number of an odd range; here nobody looks.
DirectBit ==
  LET half == range \div 2
      difference == (code - half) % Word
      negative == difference >= Word \div 2
  IN  /\ Asked
      /\ UNCHANGED probs
      /\ corrupt' = (corrupt \/ (range % 2 = 1 /\ code = range - 1))
      /\ IF negative THEN Normalize(half, (difference + half) % Word, exact)
                     ELSE Normalize(half, difference, exact - half)

Next == (\E c \in Context : Bit(c)) \/ BitOutside \/ DirectBit

\* The caller's loop runs until it sees exhausted.
Spec == Init /\ [][Next]_vars /\ WF_vars(Next)

-----------------------------------------------------------------------------
\* One call of normalize is enough: between two operations the range has its
\* first digit, so that neither bound, the new range nor the difference of the
\* next bit can be zero or wrap, whatever the input is.
RangeNormalized ==
  /\ range >= Top
  /\ \A c \in Context : probs[c] \in Least .. Total - Least

\* The code keeps step with the range: it is the exact difference, no digit was
\* lost by wrapping, and it lies inside the range, for every input but those
\* that start with four digits of ones or leave the last number of an odd range.
InStep == ~corrupt => code = exact /\ exact \in 0 .. range - 1

\* The input runs out, however likely the bits are: a stream of any length
\* decodes to a bounded output.
InputRunsOut == <>exhausted
=============================================================================
