-------------------------- MODULE AppendLogRecords --------------------------
(* Lemmas about the contents of a log file: cuts, survivors, torn tails,   *)
(* prefixes and the records a content avoids.                              *)
EXTENDS AppendLogInvariant, SequenceTheorems, TLAPS

-----------------------------------------------------------------------------
(* What a cut, a survivor and the removal of a torn tail are. *)

\* The empty file is a content, and the length of a content is a number.
LEMMA RecordsBasic ==
    /\ <<>> \in Records
    /\ \A c \in Records : Len(c) \in Nat
  BY DEF Records

\* A cut of a content is a content.
LEMMA CutType ==
    ASSUME NEW c \in Records, NEW n \in Nat
    PROVE  Cut(c, n) \subseteq Records
<1>1. CASE n < Len(c)
  <2>1. SubSeq(c, 1, n) \in Seq(Nat)
    BY <1>1 DEF Records
  <2>2. Append(SubSeq(c, 1, n), Torn) \in Seq(Nat)
    BY <2>1 DEF Torn
  <2> QED BY <1>1, <2>1, <2>2 DEF Cut, Records
<1>2. CASE ~(n < Len(c))
  BY <1>2 DEF Cut
<1> QED BY <1>1, <1>2

\* A cut after n records keeps them, and one torn record more at most.
LEMMA CutRecords ==
    ASSUME NEW c \in Records, NEW n \in 0..Len(c), NEW x \in Cut(c, n)
    PROVE  /\ Len(x) \in n..(n + 1)
           /\ \A i \in 1..n : x[i] = c[i]
           /\ Len(x) > n => x[n + 1] = Torn \/ x = c
<1>1. CASE n < Len(c)
  <2> DEFINE s == SubSeq(c, 1, n)
  <2>1. s \in Seq(Nat) /\ Len(s) = n /\ \A i \in 1..n : s[i] = c[i]
    BY <1>1 DEF Records
  <2>2. /\ Len(Append(s, Torn)) = n + 1
        /\ \A i \in 1..n : Append(s, Torn)[i] = s[i]
        /\ Append(s, Torn)[n + 1] = Torn
    BY <2>1 DEF Torn
  <2>3. x = s \/ x = Append(s, Torn)
    BY <1>1 DEF Cut
  <2>4. CASE x = s
    BY <2>1, <2>4
  <2>5. CASE x = Append(s, Torn)
    <3> HIDE DEF s
    <3> QED BY <2>1, <2>2, <2>5
  <2> QED BY <2>3, <2>4, <2>5
<1>2. CASE n = Len(c)
  BY <1>2 DEF Cut, Records
<1> QED BY <1>1, <1>2 DEF Records

\* What survives a crash is a content.
LEMMA SurvivorsType ==
    ASSUME NEW c \in Records, NEW low \in Nat
    PROVE  Survivors(c, low) \subseteq Records
<1>1. \A n \in low..Len(c) : n \in Nat
  BY DEF Records
<1> QED BY <1>1, CutType DEF Survivors

\* What survives a crash has the records that were certain.
LEMMA SurvivorsLen ==
    ASSUME NEW c \in Records, NEW low \in Nat, NEW x \in Survivors(c, low)
    PROVE  Len(x) >= low
<1>1. PICK n \in low..Len(c) : x \in Cut(c, n)
  BY DEF Survivors
<1>2. n \in 0..Len(c)
  BY DEF Records
<1>3. Len(x) \in n..(n + 1)
  BY <1>1, <1>2, CutRecords
<1> QED BY <1>3 DEF Records

\* A content without its torn tail is a content.
LEMMA CompleteType ==
    ASSUME NEW c \in Records
    PROVE  Complete(c) \in Records
<1>1. CASE c = <<>>
  BY <1>1 DEF Complete, EndsTorn
<1>2. CASE c # <<>>
  <2>1. Len(c) - 1 \in Nat /\ Len(c) - 1 <= Len(c)
    BY <1>2, EmptySeq DEF Records
  <2>2. SubSeq(c, 1, Len(c) - 1) \in Seq(Nat)
    BY <2>1 DEF Records
  <2> QED BY <2>2 DEF Complete, Front, Records
<1> QED BY <1>1, <1>2

\* What a flush that fails leaves is a content.
LEMMA PartlyFlushedType ==
    ASSUME TypeOK
    PROVE  PartlyFlushed \subseteq Records
<1>1. data \in Records /\ buf \in Records /\ Complete(data) \in Records
  BY CompleteType DEF TypeOK
<1>2. Complete(data) \o buf \in Records /\ Len(Complete(data)) \in Nat
  BY <1>1, RecordsBasic DEF Records
<1>3. Survivors(Complete(data) \o buf, Len(Complete(data))) \subseteq Records
  BY <1>2, SurvivorsType
<1> QED BY <1>1, <1>3 DEF PartlyFlushed, Flushed

\* The possible contents after a power loss are contents.
LEMMA ImagesType ==
    ASSUME TypeOK
    PROVE  Images \subseteq Records
<1>1. Written \in Records
  BY DEF TypeOK, Written, Records
<1>2. \A c \in {Written} \cup ghosts : Survivors(c, synced) \subseteq Records
  BY <1>1, SurvivorsType DEF TypeOK
<1> QED BY <1>2 DEF Images, TypeOK


-----------------------------------------------------------------------------
(* Prefixes. *)

\* A prefix agrees with the whole on each of its records.
LEMMA PrefixDef ==
    ASSUME NEW s \in Records, NEW t \in Records
    PROVE  IsPrefix(s, t) <=>
               Len(s) <= Len(t) /\ \A i \in 1..Len(s) : s[i] = t[i]
<1> USE DEF Records
<1>1. CASE Len(s) <= Len(t)
  <2> DEFINE u == SubSeq(s, 1, Len(s))
             v == SubSeq(t, 1, Len(s))
  <2>1. u \in Seq(Nat) /\ Len(u) = Len(s) /\ \A i \in 1..Len(s) : u[i] = s[i]
    OBVIOUS
  <2>2. v \in Seq(Nat) /\ Len(v) = Len(s) /\ \A i \in 1..Len(s) : v[i] = t[i]
    BY <1>1
  <2>3. u = v <=> \A i \in 1..Len(s) : s[i] = t[i]
    <3> HIDE DEF u, v
    <3>1. ASSUME \A i \in 1..Len(s) : s[i] = t[i] PROVE u = v
      BY <2>1, <2>2, <3>1, SeqEqual
    <3> QED BY <2>1, <2>2, <3>1
  <2> QED BY <1>1, <2>3 DEF IsPrefix
<1>2. CASE ~(Len(s) <= Len(t))
  BY <1>2 DEF IsPrefix
<1> QED BY <1>1, <1>2

\* Prefixes are transitive and reflexive, and the empty content is one of all.
LEMMA PrefixOrder ==
    /\ \A s \in Records : IsPrefix(s, s) /\ IsPrefix(<<>>, s)
    /\ \A s, t, u \in Records : IsPrefix(s, t) /\ IsPrefix(t, u) => IsPrefix(s, u)
<1>1. ASSUME NEW s \in Records PROVE IsPrefix(s, s) /\ IsPrefix(<<>>, s)
  <2>1. IsPrefix(s, s)
    BY PrefixDef, RecordsBasic
  <2>2. IsPrefix(<<>>, s)
    <3>1. Len(<<>>) = 0 /\ Len(s) \in Nat
      BY RecordsBasic
    <3>2. Len(<<>>) <= Len(s) /\ \A i \in 1..Len(<<>>) : <<>>[i] = s[i]
      BY <3>1
    <3> QED BY <3>2, PrefixDef, RecordsBasic
  <2> QED BY <2>1, <2>2
<1>2. ASSUME NEW s \in Records, NEW t \in Records, NEW u \in Records,
             IsPrefix(s, t), IsPrefix(t, u)
      PROVE  IsPrefix(s, u)
  <2>1. Len(s) <= Len(t) /\ \A i \in 1..Len(s) : s[i] = t[i]
    BY <1>2, PrefixDef
  <2>2. Len(t) <= Len(u) /\ \A i \in 1..Len(t) : t[i] = u[i]
    BY <1>2, PrefixDef
  <2>3. Len(s) \in Nat /\ Len(t) \in Nat /\ Len(u) \in Nat
    BY RecordsBasic
  <2>4. Len(s) <= Len(u) /\ \A i \in 1..Len(s) : s[i] = u[i]
    BY <2>1, <2>2, <2>3
  <2> QED BY <2>4, PrefixDef
<1> QED BY <1>1, <1>2

\* A content is a prefix of its extensions.
LEMMA PrefixConcat ==
    ASSUME NEW s \in Records, NEW t \in Records
    PROVE  s \o t \in Records /\ IsPrefix(s, s \o t) /\ Len(s) <= Len(s \o t)
<1>1. /\ s \o t \in Seq(Nat) /\ Len(s \o t) = Len(s) + Len(t)
      /\ \A i \in 1..Len(s) : (s \o t)[i] = s[i]
  BY DEF Records
<1>2. Len(s) \in Nat /\ Len(t) \in Nat
  BY RecordsBasic
<1>3. s \o t \in Records
  BY <1>1 DEF Records
<1>4. Len(s) <= Len(s \o t) /\ \A i \in 1..Len(s) : s[i] = (s \o t)[i]
  BY <1>1, <1>2
<1> QED BY Zenon, <1>3, <1>4, PrefixDef

\* A prefix within the certain records is a prefix of every survivor.
LEMMA PrefixSurvives ==
    ASSUME NEW s \in Records, NEW c \in Records, IsPrefix(s, c),
           NEW low \in Nat, Len(s) <= low, NEW x \in Survivors(c, low)
    PROVE  x \in Records /\ IsPrefix(s, x)
<1>1. PICK n \in low..Len(c) : x \in Cut(c, n)
  BY DEF Survivors
<1>2. Len(s) \in Nat /\ Len(c) \in Nat
  BY RecordsBasic
<1>3. n \in 0..Len(c) /\ Len(s) <= n
  BY <1>2
<1>4. Len(x) \in n..(n + 1) /\ \A i \in 1..n : x[i] = c[i]
  BY <1>1, <1>3, CutRecords
<1>5. x \in Records
  BY SurvivorsType
<1>6. \A i \in 1..Len(s) : s[i] = c[i]
  BY PrefixDef
<1>7. Len(s) <= Len(x) /\ \A i \in 1..Len(s) : s[i] = x[i]
  BY <1>2, <1>3, <1>4, <1>6
<1> QED BY <1>5, <1>7, PrefixDef

\* Truncating to the length of a prefix leaves that prefix.
LEMMA TruncateToPrefix ==
    ASSUME NEW s \in Records, NEW c \in Records, IsPrefix(s, c)
    PROVE  SubSeq(c, 1, Len(s)) = s
<1>1. Len(s) <= Len(c) /\ \A i \in 1..Len(s) : s[i] = c[i]
  BY PrefixDef
<1> DEFINE v == SubSeq(c, 1, Len(s))
<1>2. v \in Seq(Nat) /\ Len(v) = Len(s) /\ \A i \in 1..Len(s) : v[i] = c[i]
  BY <1>1 DEF Records
<1> HIDE DEF v
<1>3. v = s
  BY <1>1, <1>2, SeqEqual DEF Records
<1> QED BY <1>3 DEF v

\* A content that ends torn, without its last record.
LEMMA CompleteOfTorn ==
    ASSUME NEW c \in Records, EndsTorn(c)
    PROVE  /\ Complete(c) \in Records /\ Len(Complete(c)) = Len(c) - 1
           /\ \A i \in 1..(Len(c) - 1) : Complete(c)[i] = c[i]
           /\ Len(c) > 0 /\ c[Len(c)] = Torn
<1>1. Len(c) \in Nat /\ Len(c) > 0
  BY EmptySeq DEF EndsTorn, Records
<1> DEFINE n == Len(c) - 1
<1>2. n \in Nat /\ n <= Len(c)
  BY <1>1
<1> HIDE DEF n
<1>3. /\ SubSeq(c, 1, n) \in Seq(Nat) /\ Len(SubSeq(c, 1, n)) = n
      /\ \A i \in 1..n : SubSeq(c, 1, n)[i] = c[i]
  BY <1>2 DEF Records
<1>4. Complete(c) = SubSeq(c, 1, n)
  BY DEF Complete, Front, n
<1>5. c[Len(c)] = Torn
  BY DEF EndsTorn, Last
<1>6. \A i \in 1..n : Complete(c)[i] = c[i]
  BY <1>3, <1>4
<1>7. Complete(c) \in Records /\ Len(Complete(c)) = n
  BY <1>3, <1>4 DEF Records
<1> QED BY <1>1, <1>5, <1>6, <1>7 DEF n

-----------------------------------------------------------------------------
(* Records a content avoids. *)

\* An extension avoids what both parts avoid.
LEMMA AvoidsConcat ==
    ASSUME NEW s \in Records, NEW t \in Records, NEW R, Avoids(s, R), Avoids(t, R)
    PROVE  Avoids(s \o t, R)
<1> SUFFICES ASSUME NEW i \in 1..Len(s \o t) PROVE (s \o t)[i] \notin R
  BY DEF Avoids
<1>1. Len(s) \in Nat /\ Len(t) \in Nat /\ Len(s \o t) = Len(s) + Len(t)
  BY DEF Records
<1>2. CASE i <= Len(s)
  <2>1. (s \o t)[i] = s[i] /\ i \in 1..Len(s)
    BY <1>1, <1>2 DEF Records
  <2> QED BY <2>1 DEF Avoids
<1>3. CASE i > Len(s)
  <2>1. (s \o t)[i] = t[i - Len(s)] /\ i - Len(s) \in 1..Len(t)
    BY <1>1, <1>3 DEF Records
  <2> QED BY <2>1 DEF Avoids
<1> QED BY <1>1, <1>2, <1>3

\* A part of a content avoids what the content avoids.
LEMMA AvoidsSubSeq ==
    ASSUME NEW c \in Records, NEW m \in Nat \ {0}, NEW n \in Nat, n <= Len(c),
           NEW R, Avoids(c, R)
    PROVE  SubSeq(c, m, n) \in Records /\ Avoids(SubSeq(c, m, n), R)
<1> DEFINE s == SubSeq(c, m, n)
<1>1. s \in Seq(Nat) /\ Len(s) = IF m <= n THEN n - m + 1 ELSE 0
  BY DEF Records
<1>2. \A i \in 1..Len(s) : s[i] = c[i + m - 1] /\ i + m - 1 \in 1..Len(c)
  BY <1>1 DEF Records
<1> QED BY <1>1, <1>2 DEF Avoids, Records

\* A cut avoids what the content avoids, the torn record apart.
LEMMA AvoidsCut ==
    ASSUME NEW c \in Records, NEW n \in 0..Len(c), NEW R, Torn \notin R,
           Avoids(c, R), NEW x \in Cut(c, n)
    PROVE  Avoids(x, R)
<1>1. /\ Len(x) \in n..(n + 1)
      /\ \A i \in 1..n : x[i] = c[i]
      /\ Len(x) > n => x[n + 1] = Torn \/ x = c
  BY CutRecords
<1>2. Len(c) \in Nat
  BY RecordsBasic
<1>3. ASSUME NEW i \in 1..Len(x) PROVE x[i] \notin R
  <2>1. CASE i <= n
    <3>1. i \in 1..n /\ i \in 1..Len(c)
      BY <1>1, <1>2, <2>1
    <3> QED BY <1>1, <3>1 DEF Avoids
  <2>2. CASE i > n
    <3>1. i = n + 1 /\ Len(x) > n
      BY <1>1, <1>2, <2>2
    <3> QED BY <1>1, <3>1 DEF Avoids
  <2> QED BY <1>1, <1>2, <2>1, <2>2
<1> QED BY <1>3 DEF Avoids

\* So does what survives a crash.
LEMMA AvoidsSurvivors ==
    ASSUME NEW c \in Records, NEW low \in Nat, NEW R, Torn \notin R,
           Avoids(c, R), NEW x \in Survivors(c, low)
    PROVE  Avoids(x, R)
<1>1. PICK n \in low..Len(c) : x \in Cut(c, n)
  BY DEF Survivors
<1>2. n \in 0..Len(c)
  BY RecordsBasic
<1> QED BY <1>1, <1>2, AvoidsCut

\* So does a content without its torn tail, and it has no torn record when the
\* content had one at most, at its end.
LEMMA CompleteAvoids ==
    ASSUME NEW c \in Records, NEW R
    PROVE  /\ Avoids(c, R) => Avoids(Complete(c), R)
           /\ TornOnlyLast(c) => NoTorn(Complete(c))
           /\ Len(Complete(c)) <= Len(c)
           /\ IsPrefix(Complete(c), c)
           /\ ~EndsTorn(c) => Complete(c) = c
<1>1. CASE EndsTorn(c)
  <2> DEFINE s == Complete(c)
  <2>1. /\ s \in Records /\ Len(s) = Len(c) - 1
        /\ \A i \in 1..(Len(c) - 1) : s[i] = c[i]
    BY <1>1, CompleteOfTorn
  <2> HIDE DEF s
  <2>2. Len(c) \in Nat
    BY RecordsBasic
  <2>3. \A i \in 1..Len(s) : s[i] = c[i] /\ i \in 1..Len(c) /\ i \in 1..(Len(c) - 1)
    BY <2>1, <2>2
  <2>4. Len(s) <= Len(c)
    BY <2>1, <2>2
  <2>5. IsPrefix(s, c)
    BY <2>1, <2>3, <2>4, PrefixDef
  <2>6. Avoids(c, R) => Avoids(s, R)
    BY <2>3 DEF Avoids
  <2>7. TornOnlyLast(c) => NoTorn(s)
    BY <2>3 DEF Avoids, NoTorn, TornOnlyLast
  <2> QED BY <1>1, <2>4, <2>5, <2>6, <2>7 DEF s
<1>2. CASE ~EndsTorn(c)
  <2>1. Complete(c) = c /\ IsPrefix(c, c) /\ Len(c) \in Nat
    BY <1>2, PrefixOrder, RecordsBasic DEF Complete
  <2>2. ASSUME TornOnlyLast(c), NEW i \in 1..Len(c) PROVE c[i] # Torn
    <3>1. CASE i <= Len(c) - 1
      BY <2>1, <2>2, <3>1 DEF TornOnlyLast
    <3>2. CASE i = Len(c)
      <4>1. c # <<>>
        BY <3>2, <2>1
      <4> QED BY <1>2, <3>2, <4>1 DEF EndsTorn, Last
    <3> QED BY <2>1, <3>1, <3>2
  <2> QED BY <2>1, <2>2 DEF Avoids, NoTorn
<1> QED BY <1>1, <1>2

\* A prefix without a torn record is a prefix of what recovery keeps.
LEMMA PrefixComplete ==
    ASSUME NEW s \in Records, NEW c \in Records, IsPrefix(s, c), NoTorn(s)
    PROVE  Complete(c) \in Records /\ IsPrefix(s, Complete(c))
<1>1. Complete(c) \in Records
  BY CompleteType
<1>2. CASE EndsTorn(c)
  <2> DEFINE f == Complete(c)
  <2>1. /\ f \in Records /\ Len(f) = Len(c) - 1
        /\ \A i \in 1..(Len(c) - 1) : f[i] = c[i]
        /\ Len(c) > 0 /\ c[Len(c)] = Torn
    BY <1>2, CompleteOfTorn
  <2> HIDE DEF f
  <2>2. Len(s) \in Nat /\ Len(c) \in Nat
    BY RecordsBasic
  <2>3. Len(s) <= Len(c) /\ \A i \in 1..Len(s) : s[i] = c[i] /\ s[i] # Torn
    BY PrefixDef DEF NoTorn, Avoids
  <2>4. Len(s) # Len(c)
    BY <2>1, <2>2, <2>3
  <2>5. Len(s) <= Len(f) /\ \A i \in 1..Len(s) : s[i] = f[i]
    BY <2>1, <2>2, <2>3, <2>4
  <2>6. IsPrefix(s, f)
    BY <2>1, <2>5, PrefixDef
  <2> QED BY <1>1, <2>6 DEF f
<1>3. CASE ~EndsTorn(c)
  BY <1>1, <1>3 DEF Complete
<1> QED BY <1>2, <1>3

\* A content without a torn record has none before the last.
LEMMA NoTornOnlyLast ==
    ASSUME NEW c \in Records, NoTorn(c)
    PROVE  TornOnlyLast(c)
  BY RecordsBasic DEF NoTorn, Avoids, TornOnlyLast

\* Cutting a content tears its last record at most.
LEMMA TornSurvivors ==
    ASSUME NEW c \in Records, NEW low \in Nat, TornOnlyLast(c), NEW x \in Survivors(c, low)
    PROVE  TornOnlyLast(x)
<1>1. PICK n \in low..Len(c) : x \in Cut(c, n)
  BY DEF Survivors
<1>2. n \in 0..Len(c) /\ Len(c) \in Nat
  BY RecordsBasic
<1>3. /\ Len(x) \in n..(n + 1)
      /\ \A i \in 1..n : x[i] = c[i]
      /\ Len(x) > n => x[n + 1] = Torn \/ x = c
  BY <1>1, <1>2, CutRecords
<1>4. CASE n = Len(c)
  BY <1>1, <1>4 DEF Cut
<1>5. CASE n < Len(c)
  <2>1. ASSUME NEW i \in 1..(Len(x) - 1) PROVE x[i] # Torn
    <3>1. i \in 1..n /\ i \in 1..(Len(c) - 1)
      BY <1>2, <1>3, <1>5
    <3> QED BY <1>3, <3>1 DEF TornOnlyLast
  <2> QED BY <2>1 DEF TornOnlyLast
<1> QED BY <1>2, <1>4, <1>5

=============================================================================
