---------------------------- MODULE ArchiveProofs ---------------------------
(***************************************************************************)
(* The archive readers, for every set of entries, of other bytes and of    *)
(* cuts. The reader only goes forward (Ahead), so that members lie apart;  *)
(* and as long as the headers give the sizes of their bodies, it stands    *)
(* where the writer began an entry (OnTrack), so that it meets the header  *)
(* of each, and takes what the writer put behind it.                       *)
(***************************************************************************)
EXTENDS Archive, WellFoundedInduction, TLAPS

LEMMA Least ==
  ASSUME NEW S \in SUBSET Nat, S # {}
  PROVE  \E n \in S : \A m \in S : ~(m < n)
<1> DEFINE R == OpToRel(<, Nat)
<1>1. PICK n \in S : \A m \in S : ~(<<m, n>> \in R)
  BY NatLessThanWellFounded, WFMin
<1> QED
  BY <1>1 DEF OpToRel

\* Induction, over a set instead of a formula.
LEMMA EveryNumber ==
  ASSUME NEW S, 0 \in S, \A n \in Nat : n \in S => n + 1 \in S
  PROVE  Nat \subseteq S
<1> SUFFICES ASSUME Nat \ S # {}
             PROVE  FALSE
  OBVIOUS
<1>1. PICK n \in Nat \ S : \A m \in Nat \ S : ~(m < n)
  BY Least
<1>2. n # 0 /\ n - 1 \in Nat /\ n - 1 < n
  BY <1>1
<1>3. n - 1 + 1 \in S
  BY <1>1, <1>2
<1> QED
  BY <1>1, <1>2, <1>3

-----------------------------------------------------------------------------
\* A body lies behind its header, and what follows it behind the body.
LEMMA BodyFacts ==
  ASSUME NEW f \in Format, NEW p \in Nat, NEW e \in EntrySet
  PROVE  Body(f, p, e) \in Nat /\ Body(f, p, e) >= p + HeaderLength(f)
<1>1. e.name \in Nat
  BY DEF EntrySet
<1>2. CASE f = "zip"
  BY <1>1, <1>2 DEF Body, HeaderLength
<1>3. CASE f = "tar"
  BY <1>1, <1>3 DEF Body, HeaderLength
<1>4. CASE f = "cpio"
  <2>1. Body(f, p, e) = Align(p + 110 + e.name, 4) /\ HeaderLength(f) = 110
    BY <1>4 DEF Body, HeaderLength
  <2> QED
    BY <1>1, <2>1 DEF Align
<1> QED
  BY <1>2, <1>3, <1>4 DEF Format

LEMMA AfterFacts ==
  ASSUME NEW f \in Format, NEW body \in Nat, NEW size \in Nat
  PROVE  After(f, body, size) \in Nat /\ After(f, body, size) >= body + size
BY DEF Format, After, Align

LEMMA HeaderFacts ==
  ASSUME NEW f \in Format
  PROVE  HeaderLength(f) \in Nat /\ HeaderLength(f) > 0
BY DEF Format, HeaderLength

\* The reader skips what the writer put behind the body.
LEMMA BehindIsAfter ==
  ASSUME NEW f \in Format, NEW p \in Nat, NEW e \in EntrySet
  PROVE  Behind(f, p, e) = After(f, Body(f, p, e), e.size)
<1>1. Body(f, p, e) \in Nat /\ e.size \in Nat
  BY BodyFacts DEF EntrySet
<1> QED
  BY <1>1 DEF Format, Behind, After, Align

\* The first bytes of the entries, from the one before.
StartStep(f, es, s, i) == IF i = 1 THEN 0 ELSE Behind(f, s[i - 1], es[i - 1])

LEMMA StartDefined ==
  ASSUME NEW f, NEW es, NEW N \in Nat
  PROVE  \E s : s = [i \in 1 .. N |-> StartStep(f, es, s, i)]
<1> DEFINE S == {n \in Nat : \E s : s = [i \in 1 .. n |-> StartStep(f, es, s, i)]}
<1>1. 0 \in S
  <2> DEFINE s == [i \in 1 .. 0 |-> 0]
  <2>1. s = [i \in 1 .. 0 |-> StartStep(f, es, s, i)]
    OBVIOUS
  <2> QED
    BY <2>1
<1>2. ASSUME NEW n \in Nat, n \in S
      PROVE  n + 1 \in S
  <2>1. PICK s : s = [i \in 1 .. n |-> StartStep(f, es, s, i)]
    BY <1>2
  <2> DEFINE g == [i \in 1 .. n + 1 |-> IF i = n + 1 THEN StartStep(f, es, s, i) ELSE s[i]]
  <2>2. ASSUME NEW i \in 1 .. n + 1
        PROVE  g[i] = StartStep(f, es, g, i)
    <3>1. CASE i = 1
      BY <2>1, <3>1 DEF StartStep
    <3>2. CASE i # 1
      <4>1. i - 1 \in 1 .. n /\ g[i - 1] = s[i - 1]
        BY <3>2
      <4>2. StartStep(f, es, g, i) = StartStep(f, es, s, i)
        <5> HIDE DEF g
        <5> QED
          BY <4>1, <3>2 DEF StartStep
      <4> QED
        BY <4>2, <2>1
    <3> QED
      BY <3>1, <3>2
  <2>3. g = [i \in 1 .. n + 1 |-> StartStep(f, es, g, i)]
    BY <2>2
  <2> HIDE DEF g
  <2>4. \E h : h = [i \in 1 .. n + 1 |-> StartStep(f, es, h, i)]
    BY <2>3
  <2> QED
    BY <2>4
<1> HIDE DEF S
<1>3. Nat \subseteq S
  BY <1>1, <1>2, EveryNumber
<1> QED
  BY <1>3 DEF S

LEMMA StartSteps ==
  ASSUME NEW f \in Format, NEW es \in Seq(Entries)
  PROVE  /\ Start(f, es)[1] = 0
         /\ \A i \in 1 .. Len(es) : Start(f, es)[i + 1] = Behind(f, Start(f, es)[i], es[i])
<1> DEFINE N == Len(es) + 1
           s == CHOOSE g : g = [i \in 1 .. N |->
                  IF i = 1 THEN 0 ELSE Behind(f, g[i - 1], es[i - 1])]
<1>1. Start(f, es) = s
  BY DEF Start
<1>2. N \in Nat /\ N = Len(es) + 1
  OBVIOUS
<1>3. s = [i \in 1 .. N |-> StartStep(f, es, s, i)]
  <2> HIDE DEF N
  <2>1. \E g : g = [i \in 1 .. N |->
                  IF i = 1 THEN 0 ELSE Behind(f, g[i - 1], es[i - 1])]
    <3>1. \E g : g = [i \in 1 .. N |-> StartStep(f, es, g, i)]
      BY <1>2, StartDefined
    <3> QED
      BY <3>1 DEF StartStep
  <2> QED
    BY <2>1 DEF StartStep
<1> HIDE DEF s, N
<1>4. \A i \in 1 .. Len(es) : i + 1 \in 1 .. N /\ i + 1 # 1 /\ i + 1 - 1 = i
  BY <1>2
<1>5. s[1] = 0
  BY <1>2, <1>3 DEF StartStep
<1>6. ASSUME NEW i \in 1 .. Len(es)
      PROVE  s[i + 1] = Behind(f, s[i], es[i])
  <2>1. s[i + 1] = StartStep(f, es, s, i + 1)
    BY <1>3, <1>4
  <2> QED
    BY <1>4, <2>1 DEF StartStep
<1> QED
  BY <1>1, <1>5, <1>6

\* The writer only goes forward.
LEMMA StartsAreOrdered ==
  ASSUME NEW f \in Format, NEW es \in Seq(Entries)
  PROVE  /\ \A i \in 1 .. Len(es) + 1 : Start(f, es)[i] \in Nat
         /\ \A i, j \in 1 .. Len(es) + 1 : i <= j => Start(f, es)[i] <= Start(f, es)[j]
         /\ \A i \in 1 .. Len(es) :
              Start(f, es)[i + 1] >= Body(f, Start(f, es)[i], es[i]) + es[i].size
<1> DEFINE N == Len(es) + 1
           s == Start(f, es)
<1>1. N \in Nat /\ N >= 1 /\ \A i \in 1 .. N - 1 : es[i] \in EntrySet /\ es[i].size \in Nat
  <2>1. \A i \in 1 .. Len(es) : es[i] \in EntrySet
    BY ArchiveAssumption
  <2> QED
    BY <2>1 DEF EntrySet
<1>2. s[1] = 0 /\ \A i \in 1 .. N - 1 : s[i + 1] = Behind(f, s[i], es[i])
  BY StartSteps
<1> HIDE DEF N, s
<1>3. ASSUME NEW i \in 1 .. N - 1, s[i] \in Nat
      PROVE  s[i + 1] \in Nat /\ s[i + 1] >= Body(f, s[i], es[i]) + es[i].size /\ s[i + 1] >= s[i]
  <2>1. Body(f, s[i], es[i]) \in Nat /\ Body(f, s[i], es[i]) >= s[i] + HeaderLength(f)
    BY <1>1, <1>3, BodyFacts
  <2>2. s[i + 1] = After(f, Body(f, s[i], es[i]), es[i].size)
    BY <1>1, <1>2, <1>3, BehindIsAfter
  <2>3. s[i + 1] \in Nat /\ s[i + 1] >= Body(f, s[i], es[i]) + es[i].size
    BY <1>1, <2>1, <2>2, AfterFacts
  <2> QED
    BY <1>1, <1>3, <2>1, <2>3, HeaderFacts
<1> DEFINE S == {n \in Nat : n + 1 \in 1 .. N =>
                    \A i \in 1 .. n + 1 : s[i] \in Nat /\ s[i] <= s[n + 1]}
<1>4. 0 \in S
  BY <1>2
<1>5. ASSUME NEW n \in Nat, n \in S
      PROVE  n + 1 \in S
  <2> SUFFICES ASSUME n + 1 + 1 \in 1 .. N
               PROVE  \A i \in 1 .. n + 1 + 1 : s[i] \in Nat /\ s[i] <= s[n + 1 + 1]
    OBVIOUS
  <2>1. PICK k \in 1 .. N - 1 : k = n + 1
    BY <1>1
  <2>2. \A i \in 1 .. k : s[i] \in Nat /\ s[i] <= s[k]
    BY <1>1, <1>5, <2>1
  <2>3. s[k + 1] \in Nat /\ s[k + 1] >= s[k]
    BY <1>3, <2>2
  <2> QED
    BY <2>1, <2>2, <2>3
<1> HIDE DEF S
<1>6. Nat \subseteq S
  BY <1>4, <1>5, EveryNumber
<1>7. \A j \in 1 .. N : s[j] \in Nat /\ \A i \in 1 .. j : s[i] <= s[j]
  <2> SUFFICES ASSUME NEW j \in 1 .. N
               PROVE  s[j] \in Nat /\ \A i \in 1 .. j : s[i] <= s[j]
    OBVIOUS
  <2>1. j - 1 \in Nat /\ j - 1 + 1 = j
    OBVIOUS
  <2>2. j - 1 \in S
    BY <1>6, <2>1
  <2> QED
    BY <2>1, <2>2 DEF S
<1>8. \A i \in 1 .. Len(es) : i \in 1 .. N - 1 /\ i \in 1 .. N
  BY DEF N
<1> QED
  BY <1>3, <1>7, <1>8 DEF N, s

-----------------------------------------------------------------------------
\* The members taken lie before the position, and the reader goes forward.
Ahead == \A i \in DOMAIN out : out[i].to <= pos

HonestBefore(k) == \A j \in DOMAIN entries : j < k => entries[j].declared = entries[j].size

StartOf(i) == Start(format, entries)[i]

BodyAt(i) == Body(format, StartOf(i), entries[i])

\* Entry i is in the archive with all of its bytes, and is for the reader.
Due(i) == Whole(i) /\ Kept(entries[i]) /\ entries[i].size # 0

Taken(i) ==
  \E m \in DOMAIN out : out[m] = [from |-> BodyAt(i), to |-> BodyAt(i) + entries[i].size]

\* The walk has come to entry k, and all entries before that were due are taken.
At(k) ==
  /\ k \in 1 .. Len(entries) + 1
  /\ HonestBefore(k)
  /\ \A i \in 1 .. k - 1 : Due(i) => Taken(i)

Misled(k) == k \in DOMAIN entries /\ entries[k].declared # entries[k].size

\* The reader stands where the writer began entry k, unless the header of k has
\* misled it.
OnTrack == \E k : At(k) /\ (pos = StartOf(k) \/ Misled(k))

\* Members are apart, and stay behind the position.
Apart == TypeOK /\ MembersApart /\ Ahead

IInv ==
  /\ Apart
  /\ pc = "reading" => OnTrack
  /\ WholeMembersRead
  /\ NothingInvented

\* An entry is of the declared shape.
LEMMA EntryFacts ==
  ASSUME NEW e \in Entries \cup Junk
  PROVE  e \in EntrySet /\ e.declared \in Nat /\ e.size \in Nat
BY ArchiveAssumption DEF EntrySet

\* What one turn of the loop does, whatever the header is taken for.
LEMMA TurnIsForward ==
  ASSUME TypeOK, NEW e \in Entries \cup Junk
  PROVE  LET body == Body(format, pos, e) IN
         /\ body \in Nat /\ body > pos
         /\ After(format, body, e.declared) \in Nat
         /\ After(format, body, e.declared) >= body + e.declared
<1>1. format \in Format /\ pos \in Nat
  BY DEF TypeOK
<1> DEFINE body == Body(format, pos, e)
<1>2. e \in EntrySet /\ e.declared \in Nat
  BY EntryFacts
<1>3. body \in Nat /\ body >= pos + HeaderLength(format)
  BY <1>1, <1>2, BodyFacts
<1>4. HeaderLength(format) \in Nat /\ HeaderLength(format) > 0
  BY <1>1, HeaderFacts
<1> HIDE DEF body
<1>5. body > pos
  BY <1>1, <1>3, <1>4
<1>6. After(format, body, e.declared) \in Nat /\ After(format, body, e.declared) >= body + e.declared
  BY <1>1, <1>2, <1>3, AfterFacts
<1> QED
  BY <1>3, <1>5, <1>6 DEF body

MemberSet == [from : Nat, to : Nat]

LEMMA MemberFacts ==
  ASSUME TypeOK
  PROVE  /\ out \in Seq(MemberSet) /\ Len(out) \in Nat /\ DOMAIN out = 1 .. Len(out)
         /\ \A i \in DOMAIN out : out[i].from \in Nat /\ out[i].to \in Nat
<1>1. out \in Seq(MemberSet)
  BY DEF TypeOK, MemberSet
<1>2. Len(out) \in Nat /\ DOMAIN out = 1 .. Len(out) /\ \A i \in DOMAIN out : out[i] \in MemberSet
  BY <1>1
<1>3. \A m \in MemberSet : m.from \in Nat /\ m.to \in Nat
  BY DEF MemberSet
<1> QED
  BY <1>1, <1>2, <1>3

LEMMA PassKeepsApart ==
  ASSUME Apart, NEW e \in Entries \cup Junk, PassEmpty(e)
  PROVE  Apart'
<1>1. /\ pos' = After(format, Body(format, pos, e), 0) /\ e.declared = 0
      /\ UNCHANGED <<format, entries, length, out, pc>>
  BY DEF PassEmpty
<1>2. pos' \in Nat /\ pos' >= pos
  BY <1>1, TurnIsForward DEF Apart, TypeOK
<1>3. TypeOK'
  BY <1>1, <1>2 DEF Apart, TypeOK
<1>4. \A i \in DOMAIN out : out[i].to \in Nat
  BY MemberFacts DEF Apart
<1>5. Ahead'
  <2>1. \A i \in DOMAIN out : out[i].to \in Nat /\ out[i].to <= pos /\ pos \in Nat
    BY <1>4 DEF Apart, Ahead, TypeOK
  <2> QED
    BY <1>1, <1>2, <2>1 DEF Ahead
<1> QED
  BY <1>1, <1>3, <1>5 DEF Apart, MembersApart

LEMMA ReadKeepsApart ==
  ASSUME Apart, NEW e \in Entries \cup Junk, ReadMember(e)
  PROVE  Apart'
<1> DEFINE body == Body(format, pos, e)
           member == [from |-> body, to |-> body + e.declared]
<1>1. /\ pos' = After(format, body, e.declared) /\ e.declared # 0
      /\ out' = IF Kept(e) THEN Append(out, member) ELSE out
      /\ body + e.declared <= length
      /\ UNCHANGED <<format, entries, length, pc>>
  BY DEF ReadMember, Fits, Member
<1>2. /\ body \in Nat /\ body > pos /\ pos' \in Nat /\ pos' >= body + e.declared
      /\ e.declared \in Nat /\ pos \in Nat /\ length \in Nat
  BY <1>1, TurnIsForward, EntryFacts DEF Apart, TypeOK
<1>3. /\ member \in MemberSet
      /\ member.from = body /\ member.from < member.to /\ member.to <= length
      /\ member.to <= pos' /\ pos <= member.from /\ pos <= pos'
  BY <1>1, <1>2 DEF MemberSet
<1>4. /\ out \in Seq(MemberSet) /\ Len(out) \in Nat /\ DOMAIN out = 1 .. Len(out)
      /\ \A i \in DOMAIN out : out[i].from \in Nat /\ out[i].to \in Nat
  BY MemberFacts DEF Apart
<1>5. /\ \A i \in DOMAIN out : out[i].to <= pos
      /\ \A i \in DOMAIN out : out[i].from < out[i].to /\ out[i].to <= length
      /\ \A i, j \in DOMAIN out : i < j => out[i].to <= out[j].from
  BY DEF Apart, Ahead, MembersApart
<1> HIDE DEF member, body
<1>6. CASE ~Kept(e)
  <2>1. out' = out
    BY <1>1, <1>6
  <2>2. \A i \in DOMAIN out : out[i].to <= pos'
    BY <1>2, <1>4, <1>5
  <2> QED
    BY <1>1, <1>2, <2>1, <2>2 DEF Apart, TypeOK, MembersApart, Ahead
<1>7. CASE Kept(e)
  <2> DEFINE n == Len(out)
  <2>1. /\ out' = Append(out, member)
        /\ n \in Nat /\ DOMAIN out = 1 .. n
    BY <1>1, <1>4, <1>7
  <2>2. out' \in Seq(MemberSet)
    BY <1>3, <1>4, <2>1
  <2>3. DOMAIN out' = 1 .. n + 1
    BY <1>3, <1>4, <2>1
  <2>4. /\ \A i \in 1 .. n : out'[i] = out[i]
        /\ out'[n + 1] = member
    BY <1>3, <1>4, <2>1
  <2> HIDE DEF n
  <2>5. \A i \in 1 .. n + 1 : i \in 1 .. n \/ i = n + 1
    BY <2>1
  <2>6. TypeOK'
    BY <1>1, <1>2, <2>2 DEF Apart, TypeOK, MemberSet
  <2>7. Ahead'
    <3>1. ASSUME NEW i \in 1 .. n + 1
          PROVE  out'[i].to <= pos'
      <4>1. CASE i \in 1 .. n
        <5>1. out'[i] = out[i] /\ out[i].to \in Nat /\ out[i].to <= pos
          BY <1>4, <1>5, <2>1, <2>4, <4>1
        <5> QED
          BY <1>2, <1>3, <5>1
      <4>2. CASE i = n + 1
        BY <1>2, <1>3, <2>4, <4>2
      <4> QED
        BY <2>5, <4>1, <4>2
    <3> QED
      BY <2>3, <3>1 DEF Ahead
  <2>8. ASSUME NEW i \in 1 .. n + 1
        PROVE  out'[i].from < out'[i].to /\ out'[i].to <= length
    <3>1. CASE i \in 1 .. n
      BY <1>5, <2>1, <2>4, <3>1
    <3>2. CASE i = n + 1
      BY <1>3, <2>4, <3>2
    <3> QED
      BY <2>5, <3>1, <3>2
  <2>9. ASSUME NEW i \in 1 .. n + 1, NEW j \in 1 .. n + 1, i < j
        PROVE  out'[i].to <= out'[j].from
    <3>1. i \in 1 .. n
      BY <2>1, <2>9
    <3>2. CASE j \in 1 .. n
      BY <1>5, <2>1, <2>4, <2>9, <3>1, <3>2
    <3>3. CASE j = n + 1
      <4>1. out'[i] = out[i] /\ out[i].to \in Nat /\ out[i].to <= pos
        BY <1>4, <1>5, <2>1, <2>4, <3>1
      <4>2. out'[j] = member /\ pos <= member.from /\ member.from \in Nat
        BY <1>2, <1>3, <2>4, <3>3
      <4> QED
        BY <1>2, <4>1, <4>2
    <3> QED
      BY <2>5, <3>2, <3>3
  <2>10. MembersApart'
    BY <1>1, <2>3, <2>6, <2>8, <2>9 DEF MembersApart
  <2> QED
    BY <2>6, <2>7, <2>10 DEF Apart
<1> QED
  BY <1>6, <1>7

-----------------------------------------------------------------------------
\* The layout of the archive at hand.
LEMMA Layout ==
  ASSUME TypeOK
  PROVE  /\ Len(entries) \in Nat /\ DOMAIN entries = 1 .. Len(entries)
         /\ \A i \in DOMAIN entries : entries[i] \in Entries \cup Junk
         /\ StartOf(1) = 0
         /\ \A i \in 1 .. Len(entries) + 1 : StartOf(i) \in Nat
         /\ \A i, j \in 1 .. Len(entries) + 1 : i <= j => StartOf(i) <= StartOf(j)
         /\ \A i \in DOMAIN entries :
              /\ BodyAt(i) \in Nat /\ BodyAt(i) >= StartOf(i) + HeaderLength(format)
              /\ StartOf(i + 1) >= BodyAt(i) + entries[i].size
              /\ StartOf(i + 1) = After(format, BodyAt(i), entries[i].size)
<1>1. format \in Format /\ entries \in Seq(Entries)
  BY DEF TypeOK
<1>2. /\ Len(entries) \in Nat /\ DOMAIN entries = 1 .. Len(entries)
      /\ \A i \in DOMAIN entries : entries[i] \in Entries \cup Junk
  BY <1>1
<1>3. /\ StartOf(1) = 0
      /\ \A i \in 1 .. Len(entries) : StartOf(i + 1) = Behind(format, StartOf(i), entries[i])
  BY <1>1, StartSteps DEF StartOf
<1>4. /\ \A i \in 1 .. Len(entries) + 1 : StartOf(i) \in Nat
      /\ \A i, j \in 1 .. Len(entries) + 1 : i <= j => StartOf(i) <= StartOf(j)
      /\ \A i \in 1 .. Len(entries) : StartOf(i + 1) >= BodyAt(i) + entries[i].size
  BY <1>1, StartsAreOrdered DEF StartOf, BodyAt
<1>5. ASSUME NEW i \in DOMAIN entries
      PROVE  /\ BodyAt(i) \in Nat /\ BodyAt(i) >= StartOf(i) + HeaderLength(format)
             /\ StartOf(i + 1) = After(format, BodyAt(i), entries[i].size)
  <2>1. entries[i] \in EntrySet /\ StartOf(i) \in Nat /\ i \in 1 .. Len(entries)
    BY <1>2, <1>4, EntryFacts
  <2> QED
    BY <1>1, <1>3, <2>1, BodyFacts, BehindIsAfter DEF BodyAt
<1> QED
  BY <1>2, <1>3, <1>4, <1>5

\* Where one entry begins no other one does.
LEMMA StartsDiffer ==
  ASSUME TypeOK, NEW i \in 1 .. Len(entries) + 1, NEW j \in 1 .. Len(entries) + 1, i < j
  PROVE  /\ i \in DOMAIN entries
         /\ StartOf(i) < StartOf(j)
         /\ BodyAt(i) + entries[i].size <= StartOf(j)
<1>1. i \in DOMAIN entries /\ i + 1 \in 1 .. Len(entries) + 1 /\ i + 1 <= j
  BY Layout
<1>2. StartOf(i + 1) <= StartOf(j) /\ StartOf(i + 1) \in Nat /\ StartOf(j) \in Nat
  BY <1>1, Layout
<1>3. /\ BodyAt(i) \in Nat /\ BodyAt(i) >= StartOf(i) + HeaderLength(format)
      /\ StartOf(i + 1) >= BodyAt(i) + entries[i].size /\ StartOf(i) \in Nat
  BY <1>1, Layout
<1>4. /\ HeaderLength(format) \in Nat /\ HeaderLength(format) > 0
      /\ entries[i].size \in Nat
  BY <1>1, HeaderFacts, EntryFacts, Layout DEF TypeOK
<1> QED
  BY <1>1, <1>2, <1>3, <1>4

\* The header the reader meets is the one the writer put there.
LEMMA HeaderIsWritten ==
  ASSUME TypeOK, NEW k \in 1 .. Len(entries) + 1, pos = StartOf(k), NEW e, Header(e)
  PROVE  k \in DOMAIN entries /\ e = entries[k]
<1>1. Index \subseteq {k}
  <2> SUFFICES ASSUME NEW i \in Index
               PROVE  i = k
    OBVIOUS
  <2>1. i \in 1 .. Len(entries) + 1 /\ StartOf(i) = StartOf(k) /\ Len(entries) \in Nat
    BY Layout DEF Index, StartOf
  <2>2. ~(i < k) /\ ~(k < i)
    BY <2>1, StartsDiffer, Layout
  <2> QED
    BY <2>1, <2>2
<1>2. CASE k = Len(entries) + 1
  <2>1. AtTrailer
    BY <1>2 DEF AtTrailer, StartOf
  <2>2. k \notin Index
    BY <1>2, Layout DEF Index
  <2> QED
    BY <1>1, <2>1, <2>2 DEF Header
<1>3. CASE k # Len(entries) + 1
  <2>1. k \in DOMAIN entries /\ k \in 1 .. Len(entries)
    BY <1>3, Layout
  <2>2. k \in Index
    BY <2>1 DEF Index, StartOf
  <2> QED
    BY <1>1, <2>1, <2>2 DEF Header
<1> QED
  BY <1>2, <1>3

\* What was taken stays taken.
LEMMA SameTaken ==
  ASSUME UNCHANGED <<format, entries, length>>,
         \A m \in DOMAIN out : m \in DOMAIN out' /\ out'[m] = out[m]
  PROVE  /\ \A i : Taken(i) => Taken(i)'
         /\ \A i : Due(i)' <=> Due(i)
         /\ \A k : At(k) => At(k)'
         /\ \A k : Misled(k) => Misled(k)'
<1>1. \A i : Taken(i) => Taken(i)'
  BY DEF Taken, BodyAt, StartOf
<1>2. \A i : Due(i)' <=> Due(i)
  BY DEF Due, Whole, Kept
<1> QED
  BY <1>1, <1>2 DEF At, HonestBefore, Misled

\* A turn of the loop, of either kind.
Turn(e) ==
  /\ Header(e)
  /\ Body(format, pos, e) + e.declared <= length
  /\ pos' = After(format, Body(format, pos, e), e.declared)
  /\ out' = IF e.declared # 0 /\ Kept(e) THEN Append(out, Member(e)) ELSE out
  /\ UNCHANGED <<format, entries, length, pc>>

LEMMA TurnsOfTheLoop ==
  ASSUME NEW e, PassEmpty(e) \/ ReadMember(e)
  PROVE  Turn(e) /\ pc = "reading"
BY DEF PassEmpty, ReadMember, Turn, Reading, Fits

\* The members after a turn.
LEMMA TurnOut ==
  ASSUME TypeOK, NEW e \in Entries \cup Junk, Turn(e)
  PROVE  /\ \A m \in DOMAIN out : m \in DOMAIN out' /\ out'[m] = out[m]
         /\ \A m \in DOMAIN out' :
              m \in DOMAIN out \/ (e.declared # 0 /\ Kept(e) /\ out'[m] = Member(e))
         /\ e.declared # 0 /\ Kept(e) => \E m \in DOMAIN out' : out'[m] = Member(e)
<1>1. CASE e.declared # 0 /\ Kept(e)
  <2> DEFINE x == Member(e)
  <2>1. out \in Seq(MemberSet) /\ Len(out) \in Nat /\ DOMAIN out = 1 .. Len(out)
    BY MemberFacts
  <2>2. x \in MemberSet
    BY TurnIsForward, EntryFacts DEF Member, MemberSet
  <2>3. out' = Append(out, x)
    BY <1>1 DEF Turn
  <2> HIDE DEF x
  <2>4. DOMAIN out' = 1 .. Len(out) + 1
    BY <2>1, <2>2, <2>3
  <2>5. (\A m \in 1 .. Len(out) : out'[m] = out[m]) /\ out'[Len(out) + 1] = x
    BY <2>1, <2>2, <2>3
  <2> QED
    BY <1>1, <2>1, <2>4, <2>5 DEF x
<1>2. CASE ~(e.declared # 0 /\ Kept(e))
  BY <1>2 DEF Turn
<1> QED
  BY <1>1, <1>2

\* On track, the reader takes entry k and comes to the next one, or is misled.
LEMMA TurnFromStart ==
  ASSUME TypeOK, NEW e \in Entries \cup Junk, Turn(e), NEW k, At(k), pos = StartOf(k)
  PROVE  /\ k \in DOMAIN entries /\ e = entries[k]
         /\ OnTrack'
<1>1. k \in DOMAIN entries /\ e = entries[k]
  BY HeaderIsWritten DEF Turn, At
<1>2. /\ \A i : Taken(i) => Taken(i)'
      /\ \A i : Due(i)' <=> Due(i)
      /\ At(k)' /\ (Misled(k) => Misled(k)')
  BY SameTaken, TurnOut DEF Turn
<1>3. CASE e.declared # e.size
  BY <1>1, <1>2, <1>3 DEF OnTrack, Misled
<1>4. CASE e.declared = e.size
  <2>1. UNCHANGED <<format, entries, length>>
    BY DEF Turn
  <2>2. k + 1 \in 1 .. Len(entries) + 1 /\ k \in Nat
    BY <1>1, Layout
  <2>3. HonestBefore(k + 1)
    BY <1>1, <1>4, <2>2, Layout DEF At, HonestBefore
  <2>4. Due(k) => Taken(k)'
    <3> SUFFICES ASSUME Due(k) PROVE Taken(k)'
      OBVIOUS
    <3>1. e.declared # 0 /\ Kept(e)
      BY <1>1, <1>4 DEF Due
    <3>2. PICK m \in DOMAIN out' : out'[m] = Member(e)
      BY <3>1, TurnOut
    <3>3. Member(e) = [from |-> BodyAt(k), to |-> BodyAt(k) + entries[k].size]
      BY <1>1, <1>4 DEF Member, BodyAt
    <3> QED
      BY <2>1, <3>2, <3>3 DEF Taken, BodyAt, StartOf
  <2>5. At(k + 1)'
    <3>1. \A i \in 1 .. k : i \in 1 .. k - 1 \/ i = k
      BY <2>2
    <3>2. \A i \in 1 .. k : Due(i)' => Taken(i)'
      BY <1>2, <2>4, <3>1 DEF At
    <3>3. k + 1 - 1 = k
      BY <2>2
    <3> QED
      BY <2>1, <2>2, <2>3, <3>2, <3>3 DEF At, HonestBefore
  <2>6. pos' = StartOf(k + 1)'
    <3>1. pos' = After(format, BodyAt(k), entries[k].size)
      BY <1>1, <1>4 DEF Turn, BodyAt
    <3> QED
      BY <1>1, <2>1, <3>1, Layout DEF StartOf
  <2> QED
    BY <1>1, <2>5, <2>6 DEF OnTrack
<1> QED
  BY <1>1, <1>3, <1>4

LEMMA TurnKeepsTrack ==
  ASSUME TypeOK, OnTrack, NEW e \in Entries \cup Junk, Turn(e)
  PROVE  OnTrack'
<1>1. PICK k : At(k) /\ (pos = StartOf(k) \/ Misled(k))
  BY DEF OnTrack
<1>2. CASE pos = StartOf(k)
  BY <1>1, <1>2, TurnFromStart
<1>3. CASE Misled(k)
  <2>1. At(k)' /\ Misled(k)'
    BY <1>1, <1>3, SameTaken, TurnOut DEF Turn
  <2> QED
    BY <2>1 DEF OnTrack
<1> QED
  BY <1>1, <1>2, <1>3

LEMMA TurnInventsNothing ==
  ASSUME TypeOK, OnTrack, NothingInvented, NEW e \in Entries \cup Junk, Turn(e)
  PROVE  NothingInvented'
<1> DEFINE Written(m, i) ==
             /\ m.from = Body(format, Start(format, entries)[i], entries[i])
             /\ m.to = m.from + entries[i].size
<1>1. UNCHANGED <<format, entries>>
  BY DEF Turn
<1>2. SUFFICES ASSUME \A i \in DOMAIN entries : entries[i].declared = entries[i].size,
                      NEW m \in DOMAIN out'
               PROVE  \E i \in DOMAIN entries : Written(out'[m], i)
  BY <1>1 DEF NothingInvented
<1>3. CASE m \in DOMAIN out
  <2>1. out'[m] = out[m]
    BY <1>3, TurnOut
  <2> QED
    BY <1>2, <1>3, <2>1 DEF NothingInvented
<1>4. CASE out'[m] = Member(e)
  <2>1. PICK k : At(k) /\ (pos = StartOf(k) \/ Misled(k))
    BY DEF OnTrack
  <2>2. pos = StartOf(k)
    BY <1>2, <2>1 DEF Misled
  <2>3. k \in DOMAIN entries /\ e = entries[k] /\ e.declared = entries[k].size
    BY <1>2, <2>1, <2>2, TurnFromStart
  <2>4. Written(out'[m], k)
    BY <1>4, <2>2, <2>3 DEF Member, StartOf
  <2> QED
    BY <2>3, <2>4
<1> QED
  BY <1>3, <1>4, TurnOut

\* The walk does not stop before an entry that is whole, if the headers up to
\* that one are true.
LEMMA NoStopBeforeWhole ==
  ASSUME TypeOK, NEW k, At(k), pos = StartOf(k),
         NEW i \in DOMAIN entries, k <= i, Whole(i),
         \A j \in 1 .. i : entries[j].declared = entries[j].size
  PROVE  ~StopAtEnd /\ ~StopAtTrailer
<1>1. /\ k \in DOMAIN entries /\ k \in 1 .. Len(entries) + 1 /\ i \in 1 .. Len(entries) + 1
      /\ k \in Nat /\ i \in Nat /\ k \in 1 .. i
  BY Layout DEF At
<1>2. /\ BodyAt(i) \in Nat /\ BodyAt(i) >= StartOf(i) + HeaderLength(format)
      /\ BodyAt(k) \in Nat /\ StartOf(i) \in Nat /\ StartOf(k) \in Nat
      /\ StartOf(k) <= StartOf(i)
  BY <1>1, Layout
<1>3. /\ HeaderLength(format) \in Nat /\ length \in Nat
      /\ entries[i].size \in Nat /\ entries[k].size \in Nat
  BY <1>1, HeaderFacts, EntryFacts, Layout DEF TypeOK
<1>4. BodyAt(i) + entries[i].size <= length
  BY DEF Whole, BodyAt, StartOf
<1>5. pos + HeaderLength(format) <= length
  BY <1>2, <1>3, <1>4
<1>6. BodyAt(k) + entries[k].size <= length
  <2>1. CASE k = i
    BY <1>4, <2>1
  <2>2. CASE k < i
    <3>1. BodyAt(k) + entries[k].size <= StartOf(i)
      BY <1>1, <2>2, StartsDiffer
    <3> QED
      BY <1>2, <1>3, <1>4, <3>1
  <2> QED
    BY <1>1, <2>1, <2>2
<1>7. ASSUME NEW e, Header(e)
      PROVE  Fits(e)
  <2>1. e = entries[k]
    BY <1>1, <1>7, HeaderIsWritten
  <2>2. e.declared = entries[k].size
    BY <1>1, <2>1
  <2> QED
    BY <1>6, <2>1, <2>2 DEF Fits, BodyAt
<1>8. k \in Index
  BY <1>1, Layout DEF Index, StartOf
<1>9. ~(pos + HeaderLength(format) > length)
  BY <1>2, <1>3, <1>5
<1> QED
  BY <1>7, <1>8, <1>9 DEF StopAtEnd, StopAtTrailer

LEMMA StopsAreLate ==
  ASSUME TypeOK, OnTrack, StopAtEnd \/ StopAtTrailer
  PROVE  WholeMembersRead'
<1>1. UNCHANGED <<format, entries, length, out>>
  BY DEF StopAtEnd, StopAtTrailer, Done
<1>2. PICK k : At(k) /\ (pos = StartOf(k) \/ Misled(k))
  BY DEF OnTrack
<1>3. ASSUME NEW i \in DOMAIN entries, Due(i),
             \A j \in 1 .. i : entries[j].declared = entries[j].size
      PROVE  Taken(i)
  <2>1. k \in Nat /\ k >= 1 /\ i \in Nat
    BY <1>2, <1>3, Layout DEF At
  <2>2. CASE i < k
    <3>1. i \in 1 .. k - 1
      BY <1>3, <2>1, <2>2, Layout
    <3> QED
      BY <1>2, <1>3, <3>1 DEF At
  <2>3. CASE k <= i
    <3>1. k \in 1 .. i
      BY <2>1, <2>3
    <3>2. pos = StartOf(k)
      BY <1>2, <1>3, <3>1 DEF Misled
    <3> QED
      BY <1>2, <1>3, <2>3, <3>2, NoStopBeforeWhole DEF Due
  <2> QED
    BY <2>1, <2>2, <2>3
<1>4. WholeMembersRead
  BY <1>3 DEF WholeMembersRead, Due, Taken, BodyAt, StartOf
<1>5. \A i \in DOMAIN entries :
        (/\ \A j \in 1 .. i : entries[j].declared = entries[j].size
         /\ Whole(i) /\ Kept(entries[i]) /\ entries[i].size # 0)
        => Taken(i)
  BY <1>3 DEF Due
<1> QED
  BY <1>1, <1>5 DEF WholeMembersRead, Whole, Kept, Taken, BodyAt, StartOf

-----------------------------------------------------------------------------
\* An archive before the first turn of the loop: the reader stands at entry 1.
THEOREM InitIInv == Init => IInv
<1> SUFFICES ASSUME Init PROVE IInv
  OBVIOUS
<1>1. entries \in Seq(Entries)
  BY DEF Init
<1>2. format \in Format /\ pos = 0 /\ out = <<>> /\ pc = "reading"
  BY DEF Init
<1>3. length \in Nat
  <2>1. PICK i \in 1 .. Len(entries) + 1, c \in Cuts : length = Start(format, entries)[i] + c
    BY DEF Init
  <2>2. Start(format, entries)[i] \in Nat
    BY <1>1, <1>2, StartsAreOrdered
  <2> QED
    BY <2>1, <2>2, ArchiveAssumption
<1>4. out \in Seq(MemberSet) /\ DOMAIN out = {}
  BY <1>2
<1>5. TypeOK
  BY <1>1, <1>2, <1>3, <1>4 DEF TypeOK, MemberSet
<1>6. At(1) /\ pos = StartOf(1)
  BY <1>2, <1>5, Layout DEF At, HonestBefore
<1> QED
  BY <1>2, <1>4, <1>5, <1>6
  DEF IInv, Apart, MembersApart, Ahead, OnTrack, WholeMembersRead, NothingInvented

\* A turn of the loop goes forward and keeps to the writer's entries; the walk
\* stops behind the last entry that is whole.
THEOREM NextIInv == IInv /\ [Next]_vars => IInv'
<1> SUFFICES ASSUME IInv, [Next]_vars PROVE IInv'
  OBVIOUS
<1>1. TypeOK
  BY DEF IInv, Apart
<1>2. ASSUME NEW e \in Entries \cup Junk, PassEmpty(e) \/ ReadMember(e)
      PROVE  IInv'
  <2>1. Turn(e) /\ pc = "reading" /\ pc' = "reading"
    BY <1>2, TurnsOfTheLoop DEF Turn
  <2>2. Apart'
    BY <1>2, PassKeepsApart, ReadKeepsApart DEF IInv
  <2>3. OnTrack' /\ NothingInvented'
    BY <1>1, <2>1, TurnKeepsTrack, TurnInventsNothing DEF IInv
  <2>4. WholeMembersRead'
    BY <2>1 DEF WholeMembersRead
  <2> QED
    BY <2>2, <2>3, <2>4 DEF IInv
<1>3. ASSUME StopAtEnd \/ StopAtTrailer
      PROVE  IInv'
  <2>1. /\ pc = "reading" /\ pc' = "done"
        /\ UNCHANGED <<format, entries, length, pos, out>>
    BY <1>3 DEF StopAtEnd, StopAtTrailer, Reading, Done
  <2>2. WholeMembersRead'
    BY <1>1, <1>3, <2>1, StopsAreLate DEF IInv
  <2>3. Apart'
    BY <2>1 DEF IInv, Apart, TypeOK, MembersApart, Ahead
  <2>4. NothingInvented'
    BY <2>1 DEF IInv, NothingInvented
  <2> QED
    BY <2>1, <2>2, <2>3, <2>4 DEF IInv
<1>4. CASE UNCHANGED vars
  <2>1. OnTrack => OnTrack'
    BY <1>4 DEF vars, OnTrack, At, HonestBefore, Due, Whole, Kept, Taken, BodyAt, StartOf, Misled
  <2> QED
    BY <1>4, <2>1 DEF vars, IInv, Apart, TypeOK, MembersApart, Ahead,
                      WholeMembersRead, NothingInvented, Whole, Kept
<1> QED
  BY <1>2, <1>3, <1>4 DEF Next

\* The walks of unzip, untar and uncpio keep the invariant.
THEOREM ArchiveInvariant == Spec => []IInv
BY InitIInv, NextIInv, PTL DEF Spec

\* Whatever an archive says of itself, the members the reader returns are runs
\* of bytes inside the data, in order, and no two share a byte.
THEOREM MembersAreApart == Spec => []MembersApart
<1>1. IInv => MembersApart
  BY DEF IInv, Apart
<1> QED
  BY <1>1, ArchiveInvariant, PTL

\* Of an archive cut off anywhere, untar, unzip and uncpio return every member
\* that is whole as far as the headers give the sizes, and when all of them do,
\* nothing but what the writer put there.
THEOREM MembersAreTheWriters == Spec => []MembersAreExact
<1>1. IInv => MembersAreExact
  BY DEF IInv, MembersAreExact
<1> QED
  BY <1>1, ArchiveInvariant, PTL
=============================================================================
