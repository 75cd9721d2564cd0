--------------------------- MODULE EnvFileProofs ---------------------------
(***************************************************************************)
(* What Set, GetRaw and Restore do to a file, for every file: the facts    *)
(* the crash safety of a run rests on.                                     *)
(***************************************************************************)
EXTENDS EnvFile, SequenceTheorems, WellFoundedInduction, TLAPS

\* Sequences of lines with the same length and the same lines are equal.
LEMMA SameLines ==
  ASSUME NEW l \in Seq(Line), NEW m \in Seq(Line),
         DOMAIN l = DOMAIN m,
         \A i \in DOMAIN l : l[i] = m[i]
  PROVE  l = m
  BY SMT

\* A line is its key and its raw text.
LEMMA LineFields ==
  ASSUME NEW line \in Line
  PROVE  line = [key |-> line.key, raw |-> line.raw]
  BY DEF Line

\* Only one line is the first that assigns a key.
LEMMA FirstUnique ==
  ASSUME NEW l \in Seq(Line), NEW key, NEW i, NEW j,
         IsFirst(l, key, i), IsFirst(l, key, j)
  PROVE  i = j
  BY DEF IsFirst

\* If any line assigns a key, one of them is the first.
LEMMA FirstExists ==
  ASSUME NEW l \in Seq(Line), NEW key, HasKey(l, key)
  PROVE  \E i \in DOMAIN l : IsFirst(l, key, i)
<1> DEFINE T == {i \in DOMAIN l : l[i].key = key}
<1>1. T \subseteq Nat /\ T # {}
  BY DEF HasKey
<1>2. PICK i \in T : \A j \in T : ~ (<<j, i>> \in OpToRel(<, Nat))
  BY <1>1, NatLessThanWellFounded, WFMin
<1>3. i \in DOMAIN l /\ l[i].key = key
  OBVIOUS
<1>4. DOMAIN l = 1 .. Len(l) /\ Len(l) \in Nat
  BY LenProperties
<1>5. \A j \in 1 .. i - 1 : j \in DOMAIN l /\ j \in Nat /\ i \in Nat /\ j < i
  BY <1>3, <1>4, SMT
<1>6. \A j \in T : ~ (j < i)
  BY <1>1, <1>2 DEF OpToRel
<1>7. \A j \in 1 .. i - 1 : l[j].key # key
  BY <1>5, <1>6
<1> HIDE DEF T
<1>8. IsFirst(l, key, i)
  BY <1>3, <1>7 DEF IsFirst
<1> QED
  BY <1>3, <1>8

\* Set keeps the length and the keys, and changes the first line only.
LEMMA SetShape ==
  ASSUME NEW l \in Seq(Line), NEW key, NEW raw
  PROVE  /\ DOMAIN Set(l, key, raw) = DOMAIN l
         /\ \A i \in DOMAIN l :
              /\ Set(l, key, raw)[i].key = l[i].key
              /\ IsFirst(l, key, i) => Set(l, key, raw)[i] = [key |-> key, raw |-> raw]
              /\ ~ IsFirst(l, key, i) => Set(l, key, raw)[i] = l[i]
  BY DEF Set, IsFirst

\* What Set makes of lines are lines.
LEMMA SetType ==
  ASSUME NEW S, NEW l \in Seq(Line), NEW key, NEW raw,
         l \in Seq(S), [key |-> key, raw |-> raw] \in S
  PROVE  Set(l, key, raw) \in Seq(S)
<1>1. DOMAIN l = 1 .. Len(l) /\ Len(l) \in Nat /\ \A i \in DOMAIN l : l[i] \in S
  BY LenProperties, ElementOfSeq
<1> DEFINE n == Len(l)
           f == [i \in 1 .. n |-> IF IsFirst(l, key, i)
                                  THEN [key |-> key, raw |-> raw] ELSE l[i]]
<1>2. Set(l, key, raw) = f
  BY <1>1 DEF Set
<1>3. f \in [1 .. n -> S]
  BY <1>1
<1>4. f \in Seq(S)
  <2> HIDE DEF f, n
  <2>1. n \in Nat
    BY <1>1 DEF n
  <2> QED
    BY <1>3, <2>1, SMT
<1> QED
  BY <1>2, <1>4

\* Which line is the first to assign a key does not change by Set, of that key
\* or of another.
LEMMA SetFirst ==
  ASSUME NEW l \in Seq(Line), NEW key, NEW raw, NEW other, NEW i
  PROVE  /\ IsFirst(Set(l, key, raw), other, i) <=> IsFirst(l, other, i)
         /\ HasKey(Set(l, key, raw), other) <=> HasKey(l, other)
<1>1. DOMAIN l = 1 .. Len(l) /\ Len(l) \in Nat
  BY LenProperties
<1>2. /\ DOMAIN Set(l, key, raw) = DOMAIN l
      /\ \A j \in DOMAIN l : Set(l, key, raw)[j].key = l[j].key
  BY DEF Set, IsFirst
<1>3. i \in DOMAIN l => \A j \in 1 .. i - 1 : j \in DOMAIN l
  BY <1>1, SMT
<1> QED
  BY <1>2, <1>3 DEF IsFirst, HasKey

\* GetRaw answers the value of the first line, or Absent.
LEMMA GetRawFirst ==
  ASSUME NEW l \in Seq(Line), NEW key
  PROVE  /\ HasKey(l, key) => \E i \in DOMAIN l :
                                /\ IsFirst(l, key, i)
                                /\ GetRaw(l, key) = l[i].raw
                                /\ l[i] = [key |-> key, raw |-> GetRaw(l, key)]
                                /\ GetRaw(l, key) \in Raw
         /\ ~ HasKey(l, key) => GetRaw(l, key) = Absent
<1>1. SUFFICES ASSUME HasKey(l, key)
               PROVE  \E i \in DOMAIN l :
                        /\ IsFirst(l, key, i)
                        /\ GetRaw(l, key) = l[i].raw
                        /\ l[i] = [key |-> key, raw |-> GetRaw(l, key)]
                        /\ GetRaw(l, key) \in Raw
  BY DEF GetRaw
<1> DEFINE i == CHOOSE i \in DOMAIN l : IsFirst(l, key, i)
<1>2. i \in DOMAIN l /\ IsFirst(l, key, i)
  BY <1>1, FirstExists
<1>3. GetRaw(l, key) = l[i].raw
  BY <1>1 DEF GetRaw
<1> HIDE DEF i
<1>4. l[i] \in Line
  BY <1>2, LenProperties, ElementOfSeq
<1>5. l[i] = [key |-> l[i].key, raw |-> l[i].raw] /\ l[i].raw \in Raw
  BY <1>4, LineFields DEF Line
<1>6. l[i].key = key
  BY <1>2 DEF IsFirst
<1> QED
  BY <1>2, <1>3, <1>5, <1>6

\* A key Set does not name keeps its value, and one it names has the new one.
LEMMA SetGet ==
  ASSUME NEW l \in Seq(Line), NEW key, NEW raw,
         [key |-> key, raw |-> raw] \in Line
  PROVE  /\ HasKey(l, key) => GetRaw(Set(l, key, raw), key) = raw
         /\ \A other : other # key =>
              GetRaw(Set(l, key, raw), other) = GetRaw(l, other)
<1> DEFINE m == Set(l, key, raw)
<1>1. m \in Seq(Line) /\ DOMAIN m = DOMAIN l
  BY SetType DEF Set
<1>2. \A k, i : (IsFirst(m, k, i) <=> IsFirst(l, k, i)) /\ (HasKey(m, k) <=> HasKey(l, k))
  BY SetFirst
<1>3. \A i \in DOMAIN l : m[i] = IF IsFirst(l, key, i) THEN [key |-> key, raw |-> raw] ELSE l[i]
  BY DEF Set
<1> HIDE DEF m
<1>4. ASSUME HasKey(l, key) PROVE GetRaw(m, key) = raw
  <2>1. PICK i \in DOMAIN m : IsFirst(m, key, i) /\ GetRaw(m, key) = m[i].raw
    BY <1>1, <1>2, <1>4, GetRawFirst
  <2>2. m[i] = [key |-> key, raw |-> raw]
    BY <2>1, <1>1, <1>2, <1>3
  <2> QED
    BY <2>1, <2>2
<1>5. ASSUME NEW other, other # key PROVE GetRaw(m, other) = GetRaw(l, other)
  <2>1. CASE ~ HasKey(l, other)
    BY <2>1, <1>2 DEF GetRaw
  <2>2. CASE HasKey(l, other)
    <3>1. PICK i \in DOMAIN m : IsFirst(m, other, i) /\ GetRaw(m, other) = m[i].raw
      BY <1>1, <1>2, <2>2, GetRawFirst
    <3>2. PICK j \in DOMAIN l : IsFirst(l, other, j) /\ GetRaw(l, other) = l[j].raw
      BY <2>2, GetRawFirst
    <3>3. i = j
      BY <3>1, <3>2, <1>2, FirstUnique
    <3>4. ~ IsFirst(l, key, j)
      BY <3>2, <1>5 DEF IsFirst
    <3>5. m[j] = l[j]
      BY <3>4, <1>3, <3>2
    <3> QED
      BY <3>1, <3>2, <3>3, <3>5
  <2> QED
    BY <2>1, <2>2
<1> QED
  BY <1>4, <1>5 DEF m

\* What Reinstate makes of lines are lines.
LEMMA ReinstateType ==
  ASSUME NEW S, NEW l \in Seq(Line), NEW key, NEW o,
         l \in Seq(S), o # Absent => [key |-> key, raw |-> o] \in S
  PROVE  Reinstate(l, key, o) \in Seq(S)
  BY SetType DEF Reinstate

\* Reinstating the value a key has changes nothing: the snapshot of an
\* unpatched file.
LEMMA ReinstateSame ==
  ASSUME NEW l \in Seq(Line), NEW key
  PROVE  Reinstate(l, key, GetRaw(l, key)) = l
<1>1. CASE ~ HasKey(l, key)
  BY <1>1 DEF GetRaw, Reinstate
<1>2. CASE HasKey(l, key)
  <2>1. PICK f \in DOMAIN l : /\ IsFirst(l, key, f)
                             /\ l[f] = [key |-> key, raw |-> GetRaw(l, key)]
                             /\ GetRaw(l, key) \in Raw
    BY <1>2, GetRawFirst
  <2> DEFINE v == GetRaw(l, key)
             m == Set(l, key, v)
  <2>2. Reinstate(l, key, v) = m
    BY <2>1, AbsentAssumption DEF Reinstate
  <2>3. \A i \in DOMAIN l : m[i] = IF IsFirst(l, key, i) THEN [key |-> key, raw |-> v] ELSE l[i]
    BY DEF Set
  <2>4. DOMAIN m = DOMAIN l
    BY DEF Set
  <2>5. l[f] \in Line
    BY <2>1, LenProperties, ElementOfSeq
  <2>6. m \in Seq(Line)
    BY <2>1, <2>5, SetType
  <2> HIDE DEF m, v
  <2>7. \A i \in DOMAIN l : m[i] = l[i]
    BY <2>1, <2>3, FirstUnique DEF v
  <2>8. m = l
    BY <2>4, <2>6, <2>7, SameLines
  <2> QED
    BY <2>2, <2>8 DEF v
<1> QED
  BY <1>1, <1>2

\* Restore undoes a patch: with the value the key had before, the first line
\* gets its old text back, quotes included, and every other line was never
\* touched.
LEMMA ReinstateUndoesSet ==
  ASSUME NEW l \in Seq(Line), NEW key, NEW raw,
         [key |-> key, raw |-> raw] \in Line
  PROVE  Reinstate(Set(l, key, raw), key, GetRaw(l, key)) = l
<1> DEFINE m == Set(l, key, raw)
<1>1. m \in Seq(Line) /\ DOMAIN m = DOMAIN l
  BY SetType DEF Set
<1>2. \A i : IsFirst(m, key, i) <=> IsFirst(l, key, i)
  BY SetFirst
<1>3. \A i \in DOMAIN l : ~ IsFirst(l, key, i) => m[i] = l[i]
  BY DEF Set
<1>4. HasKey(m, key) <=> HasKey(l, key)
  BY SetFirst
<1> HIDE DEF m
<1>5. CASE ~ HasKey(l, key)
  <2>1. \A i \in DOMAIN l : ~ IsFirst(l, key, i)
    BY <1>5 DEF IsFirst, HasKey
  <2>2. m = l
    BY <2>1, <1>1, <1>3, SameLines
  <2> QED
    BY <2>2, <1>5 DEF m, GetRaw, Reinstate
<1>6. CASE HasKey(l, key)
  <2>1. PICK f \in DOMAIN l : /\ IsFirst(l, key, f)
                             /\ l[f] = [key |-> key, raw |-> GetRaw(l, key)]
                             /\ GetRaw(l, key) \in Raw
    BY <1>6, GetRawFirst
  <2> DEFINE v == GetRaw(l, key)
             n == Set(m, key, v)
  <2>2. Reinstate(m, key, v) = n
    BY <2>1, AbsentAssumption DEF Reinstate
  <2>3. \A i \in DOMAIN m : n[i] = IF IsFirst(m, key, i) THEN [key |-> key, raw |-> v] ELSE m[i]
    BY DEF Set
  <2>4. DOMAIN n = DOMAIN m
    BY DEF Set
  <2>5. l[f] \in Line
    BY <2>1, LenProperties, ElementOfSeq
  <2>6. n \in Seq(Line)
    BY <1>1, <2>1, <2>5, SetType
  <2> HIDE DEF n, v
  <2>7. \A i \in DOMAIN l : n[i] = l[i]
    <3> TAKE i \in DOMAIN l
    <3>1. CASE IsFirst(l, key, i)
      BY <3>1, <1>1, <1>2, <2>1, <2>3, FirstUnique DEF v
    <3>2. CASE ~ IsFirst(l, key, i)
      BY <3>2, <1>1, <1>2, <1>3, <2>3
    <3> QED
      BY <3>1, <3>2
  <2>8. n = l
    BY <1>1, <2>4, <2>6, <2>7, SameLines
  <2> QED
    BY <2>2, <2>8 DEF v, m
<1> QED
  BY <1>5, <1>6

\* Restoring twice is restoring once: a recovery that crashes may run again.
LEMMA ReinstateTwice ==
  ASSUME NEW l \in Seq(Line), NEW key, NEW o,
         o # Absent => [key |-> key, raw |-> o] \in Line
  PROVE  Reinstate(Reinstate(l, key, o), key, o) = Reinstate(l, key, o)
<1>1. CASE o = Absent
  BY <1>1 DEF Reinstate
<1>2. CASE o # Absent
  <2> DEFINE m == Set(l, key, o)
             n == Set(m, key, o)
  <2>1. m \in Seq(Line) /\ n \in Seq(Line)
    BY <1>2, SetType
  <2>2. \A i : IsFirst(m, key, i) <=> IsFirst(l, key, i)
    BY SetFirst
  <2>3. \A i \in DOMAIN l : IsFirst(l, key, i) => m[i] = [key |-> key, raw |-> o]
    BY DEF Set
  <2>4. DOMAIN m = DOMAIN l /\ DOMAIN n = DOMAIN m
    BY DEF Set
  <2>5. \A i \in DOMAIN m : n[i] = IF IsFirst(m, key, i) THEN [key |-> key, raw |-> o] ELSE m[i]
    BY DEF Set
  <2> HIDE DEF m, n
  <2>6. \A i \in DOMAIN m : n[i] = m[i]
    BY <2>2, <2>3, <2>4, <2>5
  <2>7. n = m
    BY <2>1, <2>4, <2>6, SameLines
  <2> QED
    BY <1>2, <2>7 DEF m, n, Reinstate
<1> QED
  BY <1>1, <1>2

\* The user may edit another key while .env is patched: editing and restoring
\* commute.
LEMMA ReinstateCommutes ==
  ASSUME NEW l \in Seq(Line), NEW key, NEW o, NEW other, NEW raw,
         o # Absent => [key |-> key, raw |-> o] \in Line,
         [key |-> other, raw |-> raw] \in Line, other # key
  PROVE  Reinstate(Set(l, other, raw), key, o) = Set(Reinstate(l, key, o), other, raw)
<1>1. CASE o = Absent
  BY <1>1 DEF Reinstate
<1>2. CASE o # Absent
  <2> DEFINE a == Set(l, other, raw)
             ab == Set(a, key, o)
             b == Set(l, key, o)
             ba == Set(b, other, raw)
  <2>1. a \in Seq(Line) /\ b \in Seq(Line)
    BY <1>2, SetType
  <2>2. ab \in Seq(Line) /\ ba \in Seq(Line)
    BY <1>2, <2>1, SetType
  <2>3. \A i : /\ IsFirst(a, key, i) <=> IsFirst(l, key, i)
               /\ IsFirst(b, other, i) <=> IsFirst(l, other, i)
    BY SetFirst
  <2>4. DOMAIN a = DOMAIN l /\ DOMAIN b = DOMAIN l /\ DOMAIN ab = DOMAIN l /\ DOMAIN ba = DOMAIN l
    BY DEF Set
  <2>5. \A i \in DOMAIN l :
          /\ a[i] = IF IsFirst(l, other, i) THEN [key |-> other, raw |-> raw] ELSE l[i]
          /\ b[i] = IF IsFirst(l, key, i) THEN [key |-> key, raw |-> o] ELSE l[i]
    BY DEF Set
  <2>6. \A i \in DOMAIN l :
          /\ ab[i] = IF IsFirst(a, key, i) THEN [key |-> key, raw |-> o] ELSE a[i]
          /\ ba[i] = IF IsFirst(b, other, i) THEN [key |-> other, raw |-> raw] ELSE b[i]
    BY <2>4 DEF Set
  <2>7. \A i \in DOMAIN l : ~ (IsFirst(l, key, i) /\ IsFirst(l, other, i))
    BY DEF IsFirst
  <2> HIDE DEF a, b, ab, ba
  <2>8. \A i \in DOMAIN l : ab[i] = ba[i]
    BY <2>3, <2>5, <2>6, <2>7
  <2>9. ab = ba
    BY <2>2, <2>4, <2>8, SameLines
  <2> QED
    BY <1>2, <2>9 DEF a, b, ab, ba, Reinstate
<1> QED
  BY <1>1, <1>2

----------------------------------------------------------------------------
(* Files that agree but for the values of some keys.                       *)

\* The lines two files have to share to be equal once masked.
Alike(l, m, keys) ==
  /\ DOMAIN l = DOMAIN m
  /\ \A i \in DOMAIN l : /\ l[i].key = m[i].key
                         /\ l[i] = m[i] \/ \E key \in keys : IsFirst(l, key, i)

\* Files that assign the same keys have the same first lines.
LEMMA SameFirst ==
  ASSUME NEW l \in Seq(Line), NEW m \in Seq(Line), DOMAIN l = DOMAIN m,
         \A i \in DOMAIN l : l[i].key = m[i].key
  PROVE  \A key, i : /\ IsFirst(l, key, i) <=> IsFirst(m, key, i)
                     /\ HasKey(l, key) <=> HasKey(m, key)
<1>1. DOMAIN l = 1 .. Len(l) /\ Len(l) \in Nat
  BY LenProperties
<1>2. \A i \in DOMAIN l : \A j \in 1 .. i - 1 : j \in DOMAIN l
  BY <1>1, SMT
<1> QED
  BY <1>2 DEF IsFirst, HasKey

\* A masked line has no value, so it differs from any line that is not masked.
LEMMA MaskedAlike ==
  ASSUME NEW l \in Seq(Line), NEW m \in Seq(Line), NEW keys
  PROVE  Masked(l, keys) = Masked(m, keys) <=> Alike(l, m, keys)
<1> DEFINE Hid(f, i) == \E key \in keys : IsFirst(f, key, i)
           Blank(f, i) == [key |-> f[i].key, raw |-> Absent]
<1>1. \A i \in DOMAIN l : l[i] \in Line
  BY LenProperties, ElementOfSeq
<1>2. \A i \in DOMAIN m : m[i] \in Line
  BY LenProperties, ElementOfSeq
<1>3. /\ DOMAIN Masked(l, keys) = DOMAIN l /\ DOMAIN Masked(m, keys) = DOMAIN m
      /\ \A i \in DOMAIN l : /\ Hid(l, i) => Masked(l, keys)[i] = Blank(l, i)
                             /\ ~ Hid(l, i) => Masked(l, keys)[i] = l[i]
      /\ \A i \in DOMAIN m : /\ Hid(m, i) => Masked(m, keys)[i] = Blank(m, i)
                             /\ ~ Hid(m, i) => Masked(m, keys)[i] = m[i]
  BY DEF Masked
<1>4. ASSUME Masked(l, keys) = Masked(m, keys)
      PROVE  Alike(l, m, keys)
  <2>1. DOMAIN l = DOMAIN m
    BY <1>3, <1>4
  <2>2. ASSUME NEW i \in DOMAIN l
        PROVE  l[i].key = m[i].key /\ (l[i] = m[i] \/ Hid(l, i))
    <3>1. l[i].raw # Absent /\ m[i].raw # Absent
      BY <1>1, <1>2, <2>1, AbsentAssumption DEF Line
    <3>2. Masked(l, keys)[i].key = l[i].key /\ Masked(m, keys)[i].key = m[i].key
      BY <1>3, <2>1
    <3>3. Hid(l, i) <=> Masked(l, keys)[i].raw = Absent
      BY <1>3, <3>1
    <3>4. Hid(m, i) <=> Masked(m, keys)[i].raw = Absent
      BY <1>3, <2>1, <3>1
    <3>5. ~ Hid(l, i) => l[i] = m[i]
      <4> SUFFICES ASSUME ~ Hid(l, i) PROVE l[i] = m[i]
        OBVIOUS
      <4>1. ~ Hid(m, i)
        BY <1>4, <3>3, <3>4
      <4>2. Masked(l, keys)[i] = l[i]
        BY <1>3
      <4>3. Masked(m, keys)[i] = m[i]
        BY <1>3, <2>1, <4>1
      <4> QED
        BY <1>4, <4>2, <4>3
    <3> QED
      BY <1>4, <3>2, <3>5
  <2> QED
    BY <2>1, <2>2 DEF Alike
<1>5. ASSUME Alike(l, m, keys)
      PROVE  Masked(l, keys) = Masked(m, keys)
  <2>1. /\ DOMAIN l = DOMAIN m
        /\ \A i \in DOMAIN l : l[i].key = m[i].key /\ (l[i] = m[i] \/ Hid(l, i))
    BY <1>5 DEF Alike
  <2>2. \A i : Hid(l, i) <=> Hid(m, i)
    BY <2>1, SameFirst
  <2>3. \A i \in DOMAIN l :
          (IF Hid(l, i) THEN Blank(l, i) ELSE l[i])
            = (IF Hid(m, i) THEN Blank(m, i) ELSE m[i])
    BY <2>1, <2>2
  <2> HIDE DEF Hid, Blank
  <2>4. [i \in DOMAIN l |-> IF Hid(l, i) THEN Blank(l, i) ELSE l[i]]
          = [i \in DOMAIN m |-> IF Hid(m, i) THEN Blank(m, i) ELSE m[i]]
    BY <2>1, <2>3
  <2> QED
    BY <2>4 DEF Masked, Hid, Blank
<1> QED
  BY <1>4, <1>5

\* With nothing masked a file is itself.
LEMMA MaskedNone ==
  ASSUME NEW l \in Seq(Line)
  PROVE  Masked(l, {}) = l
<1>1. Masked(l, {}) = [i \in DOMAIN l |-> l[i]]
  BY DEF Masked
<1>2. l = [i \in 1 .. Len(l) |-> l[i]] /\ DOMAIN l = 1 .. Len(l)
  BY LenProperties
<1> QED
  BY <1>1, <1>2

\* An edit of a masked key does not show.
LEMMA SetMasked ==
  ASSUME NEW l \in Seq(Line), NEW keys, NEW key \in keys, NEW raw,
         [key |-> key, raw |-> raw] \in Line
  PROVE  Masked(Set(l, key, raw), keys) = Masked(l, keys)
<1> DEFINE m == Set(l, key, raw)
<1>1. m \in Seq(Line) /\ DOMAIN m = DOMAIN l
  BY SetType DEF Set
<1>2. \A i \in DOMAIN l : /\ m[i].key = l[i].key
                          /\ ~ IsFirst(l, key, i) => m[i] = l[i]
  BY SetShape
<1> HIDE DEF m
<1>3. Alike(l, m, keys)
  BY <1>1, <1>2 DEF Alike
<1>4. Masked(l, keys) = Masked(m, keys)
  BY <1>1, <1>3, MaskedAlike
<1> QED
  BY <1>4 DEF m

\* Files that agree agree after the same Set.
LEMMA SetAlike ==
  ASSUME NEW l \in Seq(Line), NEW m \in Seq(Line), NEW keys, NEW key, NEW raw,
         [key |-> key, raw |-> raw] \in Line, Masked(l, keys) = Masked(m, keys)
  PROVE  Masked(Set(l, key, raw), keys) = Masked(Set(m, key, raw), keys)
<1> DEFINE a == Set(l, key, raw)
           b == Set(m, key, raw)
<1>1. a \in Seq(Line) /\ b \in Seq(Line) /\ DOMAIN a = DOMAIN l /\ DOMAIN b = DOMAIN m
  BY SetType DEF Set
<1>2. \A i \in DOMAIN l : /\ a[i].key = l[i].key
                          /\ IsFirst(l, key, i) => a[i] = [key |-> key, raw |-> raw]
                          /\ ~ IsFirst(l, key, i) => a[i] = l[i]
  BY SetShape
<1>3. \A i \in DOMAIN m : /\ b[i].key = m[i].key
                          /\ IsFirst(m, key, i) => b[i] = [key |-> key, raw |-> raw]
                          /\ ~ IsFirst(m, key, i) => b[i] = m[i]
  BY SetShape
<1>4. \A k, i : IsFirst(a, k, i) <=> IsFirst(l, k, i)
  BY SetFirst
<1>5. Alike(l, m, keys)
  BY MaskedAlike
<1>6. \A i : IsFirst(l, key, i) <=> IsFirst(m, key, i)
  BY <1>5, SameFirst DEF Alike
<1> HIDE DEF a, b
<1>7. Alike(a, b, keys)
  BY <1>1, <1>2, <1>3, <1>4, <1>5, <1>6 DEF Alike
<1>8. Masked(a, keys) = Masked(b, keys)
  BY <1>1, <1>7, MaskedAlike
<1> QED
  BY <1>8 DEF a, b

\* ... and after the same Restore.
LEMMA ReinstateAlike ==
  ASSUME NEW l \in Seq(Line), NEW m \in Seq(Line), NEW keys, NEW key, NEW o,
         o # Absent => [key |-> key, raw |-> o] \in Line,
         Masked(l, keys) = Masked(m, keys)
  PROVE  Masked(Reinstate(l, key, o), keys) = Masked(Reinstate(m, key, o), keys)
<1>1. CASE o = Absent
  BY <1>1 DEF Reinstate
<1>2. CASE o # Absent
  BY <1>2, SetAlike DEF Reinstate
<1> QED
  BY <1>1, <1>2

\* Files that agree but for other keys give a key the same value.
LEMMA GetAlike ==
  ASSUME NEW l \in Seq(Line), NEW m \in Seq(Line), NEW keys, NEW key, key \notin keys,
         Masked(l, keys) = Masked(m, keys)
  PROVE  GetRaw(l, key) = GetRaw(m, key) /\ (HasKey(l, key) <=> HasKey(m, key))
<1>1. Alike(l, m, keys)
  BY MaskedAlike
<1>2. /\ HasKey(l, key) <=> HasKey(m, key)
      /\ \A i : IsFirst(l, key, i) <=> IsFirst(m, key, i)
  BY <1>1, SameFirst DEF Alike
<1>3. CASE ~ HasKey(l, key)
  BY <1>2, <1>3 DEF GetRaw
<1>4. CASE HasKey(l, key)
  <2>1. PICK i \in DOMAIN l : IsFirst(l, key, i) /\ GetRaw(l, key) = l[i].raw
    BY <1>4, GetRawFirst
  <2>2. PICK j \in DOMAIN m : IsFirst(m, key, j) /\ GetRaw(m, key) = m[j].raw
    BY <1>2, <1>4, GetRawFirst
  <2>3. i = j
    BY <1>2, <2>1, <2>2, FirstUnique
  <2>4. ~ \E k \in keys : IsFirst(l, k, i)
    BY <2>1 DEF IsFirst
  <2>5. l[i] = m[i]
    BY <1>1, <2>1, <2>4 DEF Alike
  <2> QED
    BY <1>2, <2>1, <2>2, <2>3, <2>5
<1> QED
  BY <1>3, <1>4
============================================================================
