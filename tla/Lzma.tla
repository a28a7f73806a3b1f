-------------------------------- MODULE Lzma --------------------------------
(***************************************************************************)
(* The symbol loop of the LZMA decoder (crates/unpack/src/lzma.rs): which  *)
(* symbols follow each other, how the four last distances move, what is    *)
(* copied from where, and why the loop stops. The range coder is reduced   *)
(* to what it can answer: any bit, and at any bit that the input ran out.  *)
(* No decision depends on the value of a byte, so a literal is named by    *)
(* the place at which it was written.                                      *)
(***************************************************************************)
EXTENDS Naturals, Sequences

CONSTANTS
  Limit,     \* the bound on the output
  DictSize,  \* from the header, not validated
  Length,    \* what LenDecoder::decode returns: 0 .. 271
  Distance   \* what decode_distance returns: 0 .. u32::MAX

ASSUME LimitAssumption == Limit \in Nat /\ DictSize \in Nat

ASSUME SymbolAssumption == Length \subseteq Nat /\ Distance \subseteq Nat

MatchMinLen == 2

VARIABLES
  out,
  state,                   \* what the last symbols were: below 7, a literal
  rep0, rep1, rep2, rep3,  \* the last four distances, less one
  exhausted,               \* RangeDecoder::exhausted
  from, left,              \* start + i and total - i of the copy loop
  pc                       \* "dangling" is the exit of a failed out.get

reps == <<rep0, rep1, rep2, rep3>>
vars == <<out, state, reps, exhausted, from, left, pc>>

TypeOK ==
  /\ out \in Seq(Nat)
  /\ state \in 0 .. 11
  /\ reps \in Nat \X Nat \X Nat \X Nat
  /\ exhausted \in BOOLEAN
  /\ from \in Nat /\ left \in Nat
  /\ pc \in {"symbol", "copying", "done", "dangling"}

Init ==
  /\ out = <<>>
  /\ state = 0
  /\ rep0 = 0 /\ rep1 = 0 /\ rep2 = 0 /\ rep3 = 0
  /\ exhausted = FALSE
  /\ from = 0 /\ left = 0
  /\ pc = "symbol"

-----------------------------------------------------------------------------
StateLiteral(s) == IF s <= 3 THEN 0 ELSE IF s <= 9 THEN s - 3 ELSE s - 6

\* The state after a symbol that is not a literal: one value when the one
\* before it was a literal, another when it was not.
After(afterLiteral, afterMatch) == IF state < 7 THEN afterLiteral ELSE afterMatch

\* out.get(out.len() - (r + 1)) is Some; the subtraction wraps to no index.
InWindow(r) == r < Len(out)

\* The loop's condition, and the bits of one symbol, which may end the input.
Symbol ==
  /\ pc = "symbol"
  /\ Len(out) < Limit
  /\ ~exhausted
  /\ exhausted' \in BOOLEAN

Stop ==
  /\ pc = "symbol"
  /\ ~(Len(out) < Limit /\ ~exhausted)
  /\ pc' = "done"
  /\ UNCHANGED <<out, state, reps, exhausted, from, left>>

\* After a match a literal is decoded against the byte at the last distance.
Literal ==
  /\ Symbol
  /\ IF state >= 7 => InWindow(rep0)
     THEN /\ out' = Append(out, Len(out) + 1)
          /\ state' = StateLiteral(state)
          /\ pc' = pc
     ELSE pc' = "dangling" /\ UNCHANGED <<out, state>>
  /\ UNCHANGED <<reps, from, left>>

\* A repeated distance before anything was written.
RepFirst ==
  /\ Symbol
  /\ out = <<>>
  /\ pc' = "done"
  /\ UNCHANGED <<out, state, reps, from, left>>

\* One byte at the last distance.
ShortRep ==
  /\ Symbol
  /\ out # <<>>
  /\ state' = After(9, 11)
  /\ IF InWindow(rep0)
     THEN out' = Append(out, out[Len(out) - rep0]) /\ pc' = pc
     ELSE out' = out /\ pc' = "dangling"
  /\ UNCHANGED <<reps, from, left>>

\* Mutant: the least length is forgotten.
Bug_BeginCopy(r, n) ==
  IF InWindow(r)
  THEN /\ pc' = "copying"
       /\ from' = Len(out) - (r + 1)
       /\ left' = n
  ELSE /\ pc' = "dangling"
       /\ UNCHANGED <<from, left>>

\* The head of the copy loop: distance r, length code n.
BeginCopy(r, n) ==
  IF InWindow(r)
  THEN /\ pc' = "copying"
       /\ from' = Len(out) - (r + 1)
       /\ left' = n + MatchMinLen
  ELSE /\ pc' = "dangling"
       /\ UNCHANGED <<from, left>>

\* Mutant: the third distance is not handed on to the fourth place.
Bug_MoveToFront(k) ==
  /\ rep0' = reps[k + 1]
  /\ rep1' = IF k >= 1 THEN rep0 ELSE rep1
  /\ rep2' = IF k >= 2 THEN rep1 ELSE rep2
  /\ rep3' = rep3

\* The distance used moves to the front of the four.
MoveToFront(k) ==
  /\ rep0' = reps[k + 1]
  /\ rep1' = IF k >= 1 THEN rep0 ELSE rep1
  /\ rep2' = IF k >= 2 THEN rep1 ELSE rep2
  /\ rep3' = IF k = 3 THEN rep2 ELSE rep3

\* A copy at one of the last four distances.
RepMatch(k, n) ==
  /\ Symbol
  /\ out # <<>>
  /\ MoveToFront(k)
  /\ state' = After(8, 11)
  /\ BeginCopy(reps[k + 1], n)
  /\ UNCHANGED out

\* Mutant: a distance one past the start passes.
Bug_Believable(d) == d < DictSize /\ d <= Len(out)

\* Anything else is the end marker or corrupt.
Believable(d) == d < DictSize /\ d < Len(out)

\* A copy at a new distance.
Match(d, n) ==
  /\ Symbol
  /\ rep0' = d /\ rep1' = rep0 /\ rep2' = rep1 /\ rep3' = rep2
  /\ state' = After(7, 10)
  /\ IF Believable(d)
     THEN BeginCopy(d, n)
     ELSE pc' = "done" /\ UNCHANGED <<from, left>>
  /\ UNCHANGED out

\* Mutants: the output bound is not looked at; the source does not advance.
Bug_CopyByte ==
  /\ pc = "copying"
  /\ left > 0 /\ from < Len(out)
  /\ out' = Append(out, out[from + 1])
  /\ from' = from + 1
  /\ left' = left - 1
  /\ UNCHANGED <<state, reps, exhausted, pc>>

Bug_CopyByteStuck ==
  /\ pc = "copying"
  /\ left > 0 /\ Len(out) < Limit /\ from < Len(out)
  /\ out' = Append(out, out[from + 1])
  /\ left' = left - 1
  /\ UNCHANGED <<state, reps, exhausted, from, pc>>

\* The source of a copy may run into the bytes the copy itself wrote.
CopyByte ==
  /\ pc = "copying"
  /\ left > 0 /\ Len(out) < Limit /\ from < Len(out)
  /\ out' = Append(out, out[from + 1])
  /\ from' = from + 1
  /\ left' = left - 1
  /\ UNCHANGED <<state, reps, exhausted, pc>>

EndCopy ==
  /\ pc = "copying"
  /\ ~(left > 0 /\ Len(out) < Limit /\ from < Len(out))
  /\ pc' = "symbol"
  /\ UNCHANGED <<out, state, reps, exhausted, from, left>>

Next ==
  \/ Stop
  \/ Literal
  \/ RepFirst
  \/ ShortRep
  \/ \E k \in 0 .. 3, n \in Length : RepMatch(k, n)
  \/ \E d \in Distance, n \in Length : Match(d, n)
  \/ CopyByte
  \/ EndCopy

Spec == Init /\ [][Next]_vars

\* decode is a loop in one thread: it takes a step whenever it can.
FairSpec == Spec /\ WF_vars(Next)

-----------------------------------------------------------------------------
\* The exits at a failed out.get (lines 197, 227 and 266) are never taken:
\* whatever the input, every distance the decoder remembers lies inside what
\* it has written, although it checks a distance only when it first reads it.
NoDanglingReference == pc # "dangling"

\* "limit bounds the output", also in the middle of a copy.
OutputBounded == Len(out) <= Limit

\* A copy is periodic: each byte equals the one the distance before it, also
\* where source and destination overlap.
CopiesAtDistance ==
  [][pc = "copying" /\ out' # out => out'[Len(out')] = out'[Len(out') - (rep0 + 1)]]_vars

\* The four distances are a queue in order of last use: a distance used again
\* leaves its place for the front, a new one pushes out the oldest, and no
\* other loses its place.
RecentlyUsedFirst ==
  [][\E k \in 1 .. 4 :
       /\ reps' = <<rep0'>> \o SubSeq(reps, 1, k - 1) \o SubSeq(reps, k + 1, 4)
       /\ k < 4 => rep0' = reps[k]]_reps

\* The decoder writes like any LZ decoder: never beyond its limit, also in the
\* middle of a copy, and a copy reaches no further back than the dictionary (or
\* one byte, when the header declares none).
W == INSTANCE Window WITH Reach <- IF DictSize = 0 THEN 1 ELSE DictSize
ImplementsWindow == W!Spec

\* decode returns on every input, also on one that never ends: every turn of
\* the loop writes a byte or leaves.
Terminates == <>(pc \in {"done", "dangling"})
=============================================================================
