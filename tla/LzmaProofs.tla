----------------------------- MODULE LzmaProofs -----------------------------
(***************************************************************************)
(* The LZMA symbol loop, for every limit, dictionary size, set of lengths  *)
(* and set of distances. A distance is compared with the output only when  *)
(* it is first read; that every later use finds it inside is the inductive *)
(* invariant, Inside: the output only grows, and before anything is        *)
(* written no distance can be used.                                        *)
(***************************************************************************)
EXTENDS Lzma, TLAPS

Reach == IF DictSize = 0 THEN 1 ELSE DictSize

\* A distance (less one) that a copy may use.
Usable(r) == r < Len(out) /\ r < Reach

\* Nothing was written, or all four distances are usable.
Inside ==
  \/ /\ out = <<>> /\ pc = "symbol" /\ state = 0
     /\ rep0 = 0 /\ rep1 = 0 /\ rep2 = 0 /\ rep3 = 0
  \/ /\ Len(out) > 0
     /\ Usable(rep0) /\ Usable(rep1) /\ Usable(rep2) /\ Usable(rep3)

\* A copy reads at the last distance from where it writes.
Source == pc = "copying" => from = Len(out) - (rep0 + 1)

IInv ==
  /\ TypeOK
  /\ pc # "dangling"
  /\ Len(out) <= Limit
  /\ pc # "done" => Inside
  /\ Source

-----------------------------------------------------------------------------
\* Appending one element, in the terms of the proofs below.
LEMMA AppendFacts ==
  ASSUME NEW s \in Seq(Nat), NEW x \in Nat
  PROVE  /\ Append(s, x) \in Seq(Nat)
         /\ Len(Append(s, x)) = Len(s) + 1
         /\ Append(s, x) # <<>>
         /\ Append(s, x)[Len(s) + 1] = x
         /\ \A i \in 1 .. Len(s) : Append(s, x)[i] = s[i]
OBVIOUS

LEMMA NotEmpty ==
  ASSUME NEW s \in Seq(Nat), s # <<>>
  PROVE  Len(s) \in Nat /\ Len(s) > 0
OBVIOUS

LEMMA LiteralKeepsIInv ==
  ASSUME IInv, Literal
  PROVE  IInv' /\ out' = Append(out, Len(out) + 1)
<1> USE LimitAssumption
<1>1. state >= 7 => InWindow(rep0)
  BY DEF IInv, TypeOK, Literal, Symbol, Inside, Usable, InWindow
<1>2. out' = Append(out, Len(out) + 1) /\ state' = StateLiteral(state) /\ pc' = "symbol"
  BY <1>1 DEF Literal, Symbol
<1>3. out' \in Seq(Nat) /\ Len(out') = Len(out) + 1 /\ Len(out) \in Nat
  BY <1>2, AppendFacts DEF IInv, TypeOK
<1>4. TypeOK'
  BY <1>2, <1>3 DEF IInv, TypeOK, Literal, Symbol, StateLiteral, reps
<1>5. Inside'
  <2>1. rep0' = rep0 /\ rep1' = rep1 /\ rep2' = rep2 /\ rep3' = rep3
    BY DEF Literal, reps
  <2>2. rep0 \in Nat /\ rep1 \in Nat /\ rep2 \in Nat /\ rep3 \in Nat
    BY DEF IInv, TypeOK, reps
  <2>3. CASE out = <<>>
    BY <1>3, <2>1, <2>3 DEF IInv, Literal, Symbol, Inside, Usable, Reach
  <2>4. CASE out # <<>>
    <3>1. Usable(rep0) /\ Usable(rep1) /\ Usable(rep2) /\ Usable(rep3)
      BY <2>4 DEF IInv, Literal, Symbol, Inside
    <3> QED
      BY <1>3, <2>1, <2>2, <3>1 DEF Inside, Usable, Reach
  <2> QED
    BY <2>3, <2>4
<1>6. Len(out') <= Limit
  BY <1>3 DEF Literal, Symbol
<1> QED
  BY <1>2, <1>4, <1>5, <1>6 DEF IInv, Source

LEMMA ShortRepKeepsIInv ==
  ASSUME IInv, ShortRep
  PROVE  IInv' /\ Usable(rep0) /\ out' = Append(out, out[Len(out) - rep0])
<1> USE LimitAssumption
<1>1. out \in Seq(Nat) /\ out # <<>> /\ pc = "symbol"
  BY DEF IInv, TypeOK, ShortRep, Symbol
<1>2. Len(out) \in Nat /\ Len(out) > 0
  BY <1>1, NotEmpty
<1>3. Usable(rep0) /\ Usable(rep1) /\ Usable(rep2) /\ Usable(rep3)
  BY <1>1 DEF IInv, Inside
<1>4. out' = Append(out, out[Len(out) - rep0]) /\ pc' = "symbol"
  BY <1>1, <1>3 DEF ShortRep, InWindow, Usable
<1>5. out[Len(out) - rep0] \in Nat
  BY <1>1, <1>2, <1>3 DEF IInv, TypeOK, Usable, reps
<1>6. out' \in Seq(Nat) /\ Len(out') = Len(out) + 1
  BY <1>1, <1>4, <1>5, AppendFacts
<1>7. TypeOK'
  BY <1>4, <1>6 DEF IInv, TypeOK, ShortRep, Symbol, After, reps
<1>8. Inside'
  <2>1. rep0' = rep0 /\ rep1' = rep1 /\ rep2' = rep2 /\ rep3' = rep3
    BY DEF ShortRep, reps
  <2>2. rep0 \in Nat /\ rep1 \in Nat /\ rep2 \in Nat /\ rep3 \in Nat
    BY DEF IInv, TypeOK, reps
  <2> QED
    BY <1>2, <1>3, <1>6, <2>1, <2>2 DEF Inside, Usable, Reach
<1>9. Len(out') <= Limit
  BY <1>6 DEF ShortRep, Symbol
<1> QED
  BY <1>3, <1>4, <1>7, <1>8, <1>9 DEF IInv, Source

\* The head of the copy loop, at a usable distance that is now the last one.
LEMMA BeginCopyFacts ==
  ASSUME TypeOK, NEW r \in Nat, NEW n \in Length, Usable(r), BeginCopy(r, n)
  PROVE  pc' = "copying" /\ from' = Len(out) - (r + 1) /\ from' \in Nat /\ left' \in Nat
<1>1. InWindow(r)
  BY DEF Usable, InWindow
<1>2. Len(out) \in Nat /\ n \in Nat
  BY SymbolAssumption DEF TypeOK
<1> QED
  BY <1>1, <1>2 DEF BeginCopy, InWindow, MatchMinLen

LEMMA RepMatchKeepsIInv ==
  ASSUME IInv, NEW k \in 0 .. 3, NEW n \in Length, RepMatch(k, n)
  PROVE  IInv' /\ out' = out
<1> USE LimitAssumption
<1>1. out \in Seq(Nat) /\ out # <<>> /\ pc = "symbol" /\ out' = out
  BY DEF IInv, TypeOK, RepMatch, Symbol
<1>2. Usable(rep0) /\ Usable(rep1) /\ Usable(rep2) /\ Usable(rep3)
  BY <1>1 DEF IInv, Inside
<1>3. rep0 \in Nat /\ rep1 \in Nat /\ rep2 \in Nat /\ rep3 \in Nat
  BY DEF IInv, TypeOK, reps
<1>4. reps[k + 1] \in {rep0, rep1, rep2, rep3}
  <2>1. k = 0 \/ k = 1 \/ k = 2 \/ k = 3
    OBVIOUS
  <2> QED
    BY <2>1 DEF reps
<1>5. /\ pc' = "copying" /\ from' = Len(out) - (reps[k + 1] + 1)
      /\ from' \in Nat /\ left' \in Nat
  BY <1>2, <1>3, <1>4, BeginCopyFacts DEF RepMatch, IInv
<1>6. /\ rep0' = reps[k + 1]
      /\ {rep0', rep1', rep2', rep3'} \subseteq {rep0, rep1, rep2, rep3}
  <2>1. k = 0 \/ k = 1 \/ k = 2 \/ k = 3
    OBVIOUS
  <2> QED
    BY <1>4, <2>1 DEF RepMatch, MoveToFront, reps
<1>7. TypeOK'
  <2>1. state' \in 0 .. 11 /\ exhausted' \in BOOLEAN
    BY DEF RepMatch, Symbol, After
  <2>2. rep0' \in Nat /\ rep1' \in Nat /\ rep2' \in Nat /\ rep3' \in Nat
    BY <1>3, <1>6
  <2> QED
    BY <1>1, <1>5, <2>1, <2>2 DEF TypeOK, reps
<1>8. Inside'
  <2>1. Len(out) > 0
    BY <1>1, NotEmpty
  <2> QED
    BY <1>1, <1>2, <1>6, <2>1 DEF Inside, Usable, Reach
<1> QED
  BY <1>1, <1>5, <1>6, <1>7, <1>8 DEF IInv, Source

LEMMA MatchKeepsIInv ==
  ASSUME IInv, NEW d \in Distance, NEW n \in Length, Match(d, n)
  PROVE  IInv' /\ out' = out
<1> USE LimitAssumption
<1>1. out \in Seq(Nat) /\ Len(out) \in Nat /\ pc = "symbol" /\ out' = out /\ d \in Nat
  BY SymbolAssumption DEF IInv, TypeOK, Match, Symbol
<1>2. rep0 \in Nat /\ rep1 \in Nat /\ rep2 \in Nat /\ rep3 \in Nat
  BY DEF IInv, TypeOK, reps
<1>3. rep0' = d /\ rep1' = rep0 /\ rep2' = rep1 /\ rep3' = rep2
  BY DEF Match
<1>4. state' \in 0 .. 11 /\ exhausted' \in BOOLEAN
  BY DEF Match, Symbol, After
<1>5. CASE ~Believable(d)
  <2>1. pc' = "done" /\ from' = from /\ left' = left
    BY <1>5 DEF Match
  <2> QED
    BY <1>1, <1>2, <1>3, <1>4, <2>1 DEF IInv, TypeOK, Source, reps
<1>6. CASE Believable(d)
  <2>1. Usable(d) /\ Len(out) > 0
    BY <1>1, <1>6 DEF Believable, Usable, Reach
  <2>2. pc' = "copying" /\ from' = Len(out) - (d + 1) /\ from' \in Nat /\ left' \in Nat
    BY <1>1, <1>6, <2>1, BeginCopyFacts DEF Match, IInv
  <2>3. TypeOK'
    BY <1>1, <1>2, <1>3, <1>4, <2>2 DEF IInv, TypeOK, reps
  <2>4. Usable(rep0) /\ Usable(rep1) /\ Usable(rep2)
    BY <1>1, <2>1 DEF IInv, Inside, Usable, Reach
  <2>5. Inside'
    BY <1>1, <1>3, <2>1, <2>4 DEF Inside, Usable, Reach
  <2> QED
    BY <1>1, <1>3, <2>2, <2>3, <2>5 DEF IInv, Source
<1> QED
  BY <1>5, <1>6

\* The copy loop never finds its source outside of the output.
LEMMA CopyByteKeepsIInv ==
  ASSUME IInv, CopyByte
  PROVE  IInv' /\ Usable(rep0) /\ out' = Append(out, out[Len(out) - rep0])
<1> USE LimitAssumption
<1>1. out \in Seq(Nat) /\ Len(out) \in Nat /\ from \in Nat /\ left \in Nat
  BY DEF IInv, TypeOK
<1>2. rep0 \in Nat /\ rep1 \in Nat /\ rep2 \in Nat /\ rep3 \in Nat
  BY DEF IInv, TypeOK, reps
<1>3. from = Len(out) - (rep0 + 1)
  BY DEF IInv, Source, CopyByte
<1>4. Len(out) > 0 /\ Usable(rep0) /\ Usable(rep1) /\ Usable(rep2) /\ Usable(rep3)
  BY <1>1 DEF IInv, Inside, CopyByte
<1>5. out' = Append(out, out[Len(out) - rep0])
  BY <1>1, <1>2, <1>3, <1>4 DEF CopyByte, Usable
<1>6. out[Len(out) - rep0] \in Nat
  BY <1>1, <1>2, <1>4 DEF Usable
<1>7. out' \in Seq(Nat) /\ Len(out') = Len(out) + 1
  BY <1>1, <1>5, <1>6, AppendFacts
<1>8. rep0' = rep0 /\ rep1' = rep1 /\ rep2' = rep2 /\ rep3' = rep3
  BY DEF CopyByte, reps
<1>9. TypeOK'
  BY <1>1, <1>2, <1>7, <1>8 DEF IInv, TypeOK, CopyByte, reps
<1>10. Inside'
  BY <1>1, <1>2, <1>4, <1>7, <1>8 DEF Inside, Usable, Reach
<1>11. Source'
  BY <1>1, <1>2, <1>3, <1>7, <1>8 DEF Source, CopyByte
<1>12. Len(out') <= Limit /\ pc' # "dangling"
  BY <1>1, <1>7 DEF CopyByte, IInv
<1> QED
  BY <1>4, <1>5, <1>9, <1>10, <1>11, <1>12 DEF IInv

LEMMA QuietStepKeepsIInv ==
  ASSUME IInv, Stop \/ RepFirst \/ EndCopy \/ UNCHANGED vars
  PROVE  IInv' /\ out' = out
<1>1. UNCHANGED <<out, state, rep0, rep1, rep2, rep3, from, left>>
  BY DEF Stop, RepFirst, EndCopy, vars, reps
<1>2. exhausted' = exhausted \/ exhausted' \in BOOLEAN
  BY DEF Stop, RepFirst, Symbol, EndCopy, vars
<1>3. \/ pc' = "done"
      \/ pc' = "symbol" /\ pc = "copying"
      \/ pc' = pc
  BY DEF Stop, RepFirst, EndCopy, vars
<1>4. TypeOK'
  BY <1>1, <1>2, <1>3 DEF IInv, TypeOK, reps
<1>5. (pc' # "done" => Inside')
  <2>1. CASE pc' = pc
    BY <1>1, <2>1 DEF IInv, Inside, Usable, Reach
  <2>2. CASE pc' = "symbol" /\ pc = "copying"
    BY <1>1, <2>2 DEF IInv, Inside, Usable, Reach
  <2> QED
    BY <1>3, <2>1, <2>2
<1> QED
  BY <1>1, <1>3, <1>4, <1>5 DEF IInv, Source

\* The symbol loop of decode keeps the invariant.
THEOREM DecoderInvariant == Spec => []IInv
<1>1. Init => IInv
  <2> SUFFICES ASSUME Init PROVE IInv
    OBVIOUS
  <2>1. out \in Seq(Nat) /\ Len(out) = 0
    BY DEF Init
  <2>2. reps \in Nat \X Nat \X Nat \X Nat
    BY DEF Init, reps
  <2>3. state \in 0 .. 11 /\ from \in Nat /\ left \in Nat
    BY DEF Init
  <2>4. exhausted \in BOOLEAN /\ pc \in {"symbol", "copying", "done", "dangling"}
    BY DEF Init
  <2>5. TypeOK
    BY <2>1, <2>2, <2>3, <2>4 DEF TypeOK
  <2> QED
    BY <2>1, <2>5, LimitAssumption DEF Init, IInv, Inside, Source
<1>2. IInv /\ [Next]_vars => IInv'
  BY LiteralKeepsIInv, ShortRepKeepsIInv, RepMatchKeepsIInv, MatchKeepsIInv,
     CopyByteKeepsIInv, QuietStepKeepsIInv DEF Next
<1> QED
  BY <1>1, <1>2, PTL DEF Spec

\* The three defensive exits of decode are dead code: no input leads a copy
\* or a matched literal outside of the output.
THEOREM ReferencesNeverDangle == Spec => []NoDanglingReference
<1>1. IInv => NoDanglingReference
  BY DEF IInv, NoDanglingReference
<1> QED
  BY <1>1, DecoderInvariant, PTL

\* "limit bounds the output", for every limit.
THEOREM OutputIsBounded == Spec => []OutputBounded
<1>1. IInv => OutputBounded
  BY DEF IInv, OutputBounded
<1> QED
  BY <1>1, DecoderInvariant, PTL

\* The types hold, of which the use is that state never leaves 0 .. 11 and
\* indexes the probability tables.
THEOREM TypesHold == Spec => []TypeOK
<1>1. IInv => TypeOK
  BY DEF IInv
<1> QED
  BY <1>1, DecoderInvariant, PTL

-----------------------------------------------------------------------------
\* A copy of the byte at a usable distance is a copy of the abstract window.
LEMMA CopyMaps ==
  ASSUME TypeOK, Len(out) < Limit, Usable(rep0), out' = Append(out, out[Len(out) - rep0])
  PROVE  W!Copy
<1>1. rep0 \in Nat /\ Len(out) \in Nat
  BY DEF TypeOK, reps
<1>2. rep0 + 1 \in 1 .. Len(out) /\ rep0 + 1 <= Reach
  BY <1>1, LimitAssumption DEF Usable, Reach
<1>3. Len(out) + 1 - (rep0 + 1) = Len(out) - rep0
  BY <1>1
<1> QED
  BY <1>2, <1>3 DEF W!Copy, Reach

\* Whatever the input, the output is written as an LZ decoder may write it:
\* fresh bytes and copies from inside the output and the dictionary, up to the limit.
THEOREM DecoderImplementsWindow == Spec => ImplementsWindow
<1>1. Init => W!Init
  BY DEF Init, W!Init
<1>2. IInv /\ [Next]_vars => [W!Literal \/ W!Copy]_out
  <2> SUFFICES ASSUME IInv, [Next]_vars PROVE [W!Literal \/ W!Copy]_out
    OBVIOUS
  <2>1. CASE Literal
    BY <2>1, LiteralKeepsIInv DEF W!Literal, Literal, Symbol
  <2>2. CASE ShortRep
    BY <2>2, ShortRepKeepsIInv, CopyMaps DEF IInv, ShortRep, Symbol
  <2>3. CASE CopyByte
    BY <2>3, CopyByteKeepsIInv, CopyMaps DEF IInv, CopyByte
  <2>4. ASSUME NEW k \in 0 .. 3, NEW n \in Length, RepMatch(k, n)
        PROVE  out' = out
    BY <2>4, RepMatchKeepsIInv
  <2>5. ASSUME NEW d \in Distance, NEW n \in Length, Match(d, n)
        PROVE  out' = out
    BY <2>5, MatchKeepsIInv
  <2>6. CASE Stop \/ RepFirst \/ EndCopy \/ UNCHANGED vars
    BY <2>6, QuietStepKeepsIInv
  <2> QED
    BY <2>1, <2>2, <2>3, <2>4, <2>5, <2>6 DEF Next
<1> QED
  BY <1>1, <1>2, DecoderInvariant, PTL DEF Spec, ImplementsWindow, W!Spec

\* A copy repeats with its distance, also when it overlaps itself.
THEOREM CopiesArePeriodic == Spec => CopiesAtDistance
<1>1. ASSUME IInv, [Next]_vars, pc = "copying", out' # out
      PROVE  out'[Len(out')] = out'[Len(out') - (rep0 + 1)]
  <2>1. CopyByte
    BY <1>1 DEF Next, vars, Literal, ShortRep, RepMatch, Match, Symbol, Stop, RepFirst, EndCopy
  <2>2. Usable(rep0) /\ out' = Append(out, out[Len(out) - rep0])
    BY <1>1, <2>1, CopyByteKeepsIInv
  <2>3. out \in Seq(Nat) /\ Len(out) \in Nat /\ rep0 \in Nat
    BY <1>1 DEF IInv, TypeOK, reps
  <2>4. Len(out) - rep0 \in 1 .. Len(out) /\ out[Len(out) - rep0] \in Nat
    BY <2>2, <2>3 DEF Usable
  <2>5. /\ Len(out') = Len(out) + 1
        /\ out'[Len(out) + 1] = out[Len(out) - rep0]
        /\ out'[Len(out) - rep0] = out[Len(out) - rep0]
    BY <2>2, <2>3, <2>4, AppendFacts
  <2>6. Len(out') - (rep0 + 1) = Len(out) - rep0
    BY <2>3, <2>5
  <2> QED
    BY <2>5, <2>6
<1>2. IInv /\ [Next]_vars =>
        [pc = "copying" /\ out' # out => out'[Len(out')] = out'[Len(out') - (rep0 + 1)]]_vars
  BY <1>1
<1> QED
  BY <1>2, DecoderInvariant, PTL DEF Spec, CopiesAtDistance

-----------------------------------------------------------------------------
\* Two sequences end to end.
LEMMA EndToEnd ==
  ASSUME NEW s \in Seq(Nat), NEW t \in Seq(Nat)
  PROVE  /\ s \o t \in Seq(Nat) /\ Len(s \o t) = Len(s) + Len(t)
         /\ \A i \in 1 .. Len(s) : (s \o t)[i] = s[i]
         /\ \A i \in 1 .. Len(t) : (s \o t)[Len(s) + i] = t[i]
OBVIOUS

\* A part of a sequence.
LEMMA PartOf ==
  ASSUME NEW s \in Seq(Nat), NEW m \in Nat \ {0}, NEW n \in Nat, n <= Len(s), m <= n + 1
  PROVE  /\ SubSeq(s, m, n) \in Seq(Nat) /\ Len(SubSeq(s, m, n)) = n + 1 - m
         /\ \A i \in 1 .. n + 1 - m : SubSeq(s, m, n)[i] = s[m + i - 1]
<1>1. SubSeq(s, m, n) = [i \in 1 .. n + 1 - m |-> s[m + i - 1]]
  OBVIOUS
<1>2. n + 1 - m \in Nat /\ \A i \in 1 .. n + 1 - m : s[m + i - 1] \in Nat
  OBVIOUS
<1> QED
  BY <1>1, <1>2

\* A sequence of four with its k-th element taken out and x put in front.
LEMMA Requeued ==
  ASSUME NEW s \in Seq(Nat), Len(s) = 4, NEW x \in Nat, NEW k \in 1 .. 4
  PROVE  <<x>> \o SubSeq(s, 1, k - 1) \o SubSeq(s, k + 1, 4)
           = <<x, IF k = 1 THEN s[2] ELSE s[1], IF k <= 2 THEN s[3] ELSE s[2],
               IF k <= 3 THEN s[4] ELSE s[3]>>
<1> DEFINE p == SubSeq(s, 1, k - 1)
           t == SubSeq(s, k + 1, 4)
           u == <<x>> \o p
           v == u \o t
<1>1. p \in Seq(Nat) /\ Len(p) = k - 1 /\ \A i \in 1 .. k - 1 : p[i] = s[i]
  <2>1. PICK m \in Nat \ {0}, n \in Nat : m = 1 /\ n = k - 1
    OBVIOUS
  <2>2. p = SubSeq(s, m, n) /\ n <= Len(s) /\ m <= n + 1
    BY <2>1
  <2>3. /\ p \in Seq(Nat) /\ Len(p) = n + 1 - m
        /\ \A i \in 1 .. n + 1 - m : p[i] = s[m + i - 1]
    <3> HIDE DEF p
    <3> QED
      BY <2>2, PartOf
  <2> QED
    BY <2>1, <2>3
<1>2. t \in Seq(Nat) /\ Len(t) = 4 - k /\ \A i \in 1 .. 4 - k : t[i] = s[k + i]
  <2>1. PICK m \in Nat \ {0}, n \in Nat : m = k + 1 /\ n = 4
    OBVIOUS
  <2>2. t = SubSeq(s, m, n) /\ n <= Len(s) /\ m <= n + 1
    BY <2>1
  <2>3. /\ t \in Seq(Nat) /\ Len(t) = n + 1 - m
        /\ \A i \in 1 .. n + 1 - m : t[i] = s[m + i - 1]
    <3> HIDE DEF t
    <3> QED
      BY <2>2, PartOf
  <2> QED
    BY <2>1, <2>3
<1>3. <<x>> \in Seq(Nat) /\ Len(<<x>>) = 1 /\ <<x>>[1] = x
  OBVIOUS
<1> HIDE DEF p, t
<1>4. u \in Seq(Nat) /\ Len(u) = k /\ u[1] = x /\ \A i \in 1 .. k - 1 : u[i + 1] = s[i]
  BY <1>1, <1>3, EndToEnd
<1> HIDE DEF u
<1>5. /\ v \in Seq(Nat) /\ Len(v) = 4 /\ v[1] = x
      /\ \A i \in 1 .. k - 1 : v[i + 1] = s[i]
      /\ \A i \in 1 .. 4 - k : v[k + i] = s[k + i]
  <2>1. /\ v \in Seq(Nat) /\ Len(v) = Len(u) + Len(t)
        /\ \A i \in 1 .. Len(u) : v[i] = u[i]
        /\ \A i \in 1 .. Len(t) : v[Len(u) + i] = t[i]
    BY <1>2, <1>4, EndToEnd
  <2> HIDE DEF v
  <2>2. Len(v) = 4
    BY <1>2, <1>4, <2>1
  <2>3. v[1] = x
    BY <1>4, <2>1
  <2>4. \A i \in 1 .. k - 1 : v[i + 1] = s[i]
    BY <1>4, <2>1
  <2>5. \A i \in 1 .. 4 - k : v[k + i] = s[k + i]
    BY <1>2, <1>4, <2>1
  <2> QED
    BY <2>1, <2>2, <2>3, <2>4, <2>5
<1> HIDE DEF v
<1>6. v[2] = IF k = 1 THEN s[2] ELSE s[1]
  <2>1. CASE k = 1
    <3>1. 1 \in 1 .. 4 - k
      BY <2>1
    <3> QED
      BY <1>5, <2>1, <3>1
  <2>2. CASE k # 1
    <3>1. 1 \in 1 .. k - 1
      BY <2>2
    <3> QED
      BY <1>5, <2>2, <3>1
  <2> QED
    BY <2>1, <2>2
<1>7. v[3] = IF k <= 2 THEN s[3] ELSE s[2]
  <2>1. CASE k <= 2
    <3>1. 3 - k \in 1 .. 4 - k /\ k + (3 - k) = 3
      BY <2>1
    <3> QED
      BY <1>5, <2>1, <3>1
  <2>2. CASE ~(k <= 2)
    <3>1. 2 \in 1 .. k - 1
      BY <2>2
    <3> QED
      BY <1>5, <2>2, <3>1
  <2> QED
    BY <2>1, <2>2
<1>8. v[4] = IF k <= 3 THEN s[4] ELSE s[3]
  <2>1. CASE k <= 3
    <3>1. 4 - k \in 1 .. 4 - k /\ k + (4 - k) = 4
      BY <2>1
    <3> QED
      BY <1>5, <2>1, <3>1
  <2>2. CASE ~(k <= 3)
    <3>1. 3 \in 1 .. k - 1
      BY <2>2
    <3> QED
      BY <1>5, <2>2, <3>1
  <2> QED
    BY <2>1, <2>2
<1>9. v = <<v[1], v[2], v[3], v[4]>>
  BY <1>5
<1> QED
  BY <1>5, <1>6, <1>7, <1>8, <1>9 DEF v, u, p, t

\* The queue of the last four distances is in order of their last use, whatever
\* the length codes and distances of a stream are.
THEOREM DistancesAreQueued == Spec => RecentlyUsedFirst
<1>1. ASSUME IInv, [Next]_vars
      PROVE  [\E k \in 1 .. 4 :
                /\ reps' = <<rep0'>> \o SubSeq(reps, 1, k - 1) \o SubSeq(reps, k + 1, 4)
                /\ k < 4 => rep0' = reps[k]]_reps
  <2>1. rep0 \in Nat /\ rep1 \in Nat /\ rep2 \in Nat /\ rep3 \in Nat
    BY <1>1 DEF IInv, TypeOK, reps
  <2>2. reps \in Seq(Nat) /\ Len(reps) = 4
    BY <2>1 DEF reps
  <2>3. reps[1] = rep0 /\ reps[2] = rep1 /\ reps[3] = rep2 /\ reps[4] = rep3
    BY DEF reps
  <2>4. ASSUME NEW j \in 0 .. 3, NEW n \in Length, RepMatch(j, n)
        PROVE  \E k \in 1 .. 4 :
                 /\ reps' = <<rep0'>> \o SubSeq(reps, 1, k - 1) \o SubSeq(reps, k + 1, 4)
                 /\ k < 4 => rep0' = reps[k]
    <3>1. PICK k \in 1 .. 4 : k = j + 1
      OBVIOUS
    <3>2. rep0' = reps[k] /\ rep0' \in Nat
      <4>1. rep0' = reps[k]
        BY <2>4, <3>1, Zenon DEF RepMatch, MoveToFront
      <4>2. reps[k] \in Nat
        BY <2>1, <2>3
      <4> QED
        BY <4>1, <4>2
    <3>3. /\ rep1' = IF k = 1 THEN reps[2] ELSE reps[1]
          /\ rep2' = IF k <= 2 THEN reps[3] ELSE reps[2]
          /\ rep3' = IF k <= 3 THEN reps[4] ELSE reps[3]
      BY <2>3, <2>4, <3>1 DEF RepMatch, MoveToFront
    <3>4. reps' = <<rep0'>> \o SubSeq(reps, 1, k - 1) \o SubSeq(reps, k + 1, 4)
      <4>1. PICK s : s = reps
        OBVIOUS
      <4>2. <<rep0'>> \o SubSeq(s, 1, k - 1) \o SubSeq(s, k + 1, 4) = <<rep0', rep1', rep2', rep3'>>
        BY <2>2, <3>2, <3>3, <4>1, Requeued
      <4> QED
        BY <4>1, <4>2 DEF reps
    <3> QED
      BY <3>2, <3>4
  <2>5. ASSUME NEW d \in Distance, NEW n \in Length, Match(d, n)
        PROVE  \E k \in 1 .. 4 :
                 /\ reps' = <<rep0'>> \o SubSeq(reps, 1, k - 1) \o SubSeq(reps, k + 1, 4)
                 /\ k < 4 => rep0' = reps[k]
    <3>1. PICK k \in 1 .. 4 : k = 4
      OBVIOUS
    <3>2. rep0' \in Nat /\ rep1' = reps[1] /\ rep2' = reps[2] /\ rep3' = reps[3]
      BY <2>3, <2>5, SymbolAssumption DEF Match
    <3>4. reps' = <<rep0'>> \o SubSeq(reps, 1, k - 1) \o SubSeq(reps, k + 1, 4)
      <4>1. PICK s : s = reps
        OBVIOUS
      <4>2. <<rep0'>> \o SubSeq(s, 1, k - 1) \o SubSeq(s, k + 1, 4) = <<rep0', rep1', rep2', rep3'>>
        BY <2>2, <3>1, <3>2, <4>1, Requeued
      <4> QED
        BY <4>1, <4>2 DEF reps
    <3> QED
      BY <3>1, <3>4
  <2>6. CASE UNCHANGED reps
    BY <2>6
  <2> QED
    BY <1>1, <2>4, <2>5, <2>6
       DEF Next, vars, Stop, Literal, RepFirst, ShortRep, CopyByte, EndCopy
<1> QED
  BY <1>1, DecoderInvariant, PTL DEF Spec, RecentlyUsedFirst
=============================================================================
