--------------------------- MODULE RoutingProofs ---------------------------
(***************************************************************************)
(* The routing table, searched from the front by prefix, says what the     *)
(* README says of the first segment of a path: for every request that      *)
(* net/http lets through, however long its path.                           *)
(***************************************************************************)
EXTENDS Routing, TLAPS, SequenceTheorems, WellFoundedInduction

LEMMA MinIsLeast ==
  ASSUME NEW S \in SUBSET Nat, S # {}
  PROVE  Min(S) \in S /\ \A y \in S : Min(S) <= y
<1>1. PICK x \in S : \A y \in S : <<y, x>> \notin OpToRel(<, Nat)
  BY NatLessThanWellFounded, WFMin, Zenon
<1>2. ASSUME NEW y \in S
      PROVE  x <= y
  <2>1. <<y, x>> \notin OpToRel(<, Nat)
    BY <1>1
  <2>2. x \in Nat /\ y \in Nat
    OBVIOUS
  <2>3. ~(y < x)
    BY <2>1, <2>2 DEF OpToRel
  <2> QED
    BY <2>2, <2>3
<1> QED
  BY <1>2 DEF Min

----------------------------------------------------------------------------
(* Short sequences.                                                        *)

LEMMA OnePiece ==
  ASSUME NEW S, NEW s \in Seq(S), NEW piece
  PROVE  s = <<piece>> <=> Len(s) = 1 /\ s[1] = piece
<1>1. Len(<<piece>>) = 1 /\ <<piece>>[1] = piece
  OBVIOUS
<1>2. ASSUME Len(s) = 1, s[1] = piece
      PROVE  s = <<piece>>
  <2>1. piece \in S
    BY <1>2, ElementOfSeq
  <2>2. <<piece>> \in Seq(S)
    BY <2>1
  <2>3. \A i \in 1 .. Len(s) : s[i] = <<piece>>[i]
    BY <1>1, <1>2
  <2> QED
    BY <1>1, <1>2, <2>2, <2>3, SeqEqual
<1> QED
  BY <1>1, <1>2

LEMMA NoPiece ==
  ASSUME NEW S, NEW s \in Seq(S)
  PROVE  Len(s) \in Nat /\ (s = << >> <=> Len(s) = 0)
  BY EmptySeq, LenProperties

\* A sequence with an element added in front, or at the end.
Preceded(t, first, s) ==
  /\ Len(t) = Len(s) + 1 /\ t[1] = first
  /\ \A i \in 1 .. Len(s) : t[i + 1] = s[i]

Followed(t, s, last) ==
  /\ Len(t) = Len(s) + 1 /\ DOMAIN t = 1 .. Len(s) + 1
  /\ t[Len(s) + 1] = last /\ \A i \in 1 .. Len(s) : t[i] = s[i]

LEMMA InFront ==
  ASSUME NEW S, NEW s \in Seq(S), NEW first \in S
  PROVE  << first >> \o s \in Seq(S) /\ Preceded(<< first >> \o s, first, s)
  BY DEF Preceded

LEMMA AtTheEnd ==
  ASSUME NEW S, NEW s \in Seq(S), NEW last \in S
  PROVE  Followed(s \o << last >>, s, last)
  BY DEF Followed

----------------------------------------------------------------------------
(* The first segment of a path, piece by piece.                            *)

LEMMA NoSegment ==
  ASSUME NEW S, NEW path \in Seq(S), Len(path) < 2 \/ path[2] = "/"
  PROVE  FirstSegment(path) = << >>
<1> DEFINE ends == {i \in 2 .. Len(path) : path[i] = "/"}
<1> USE NoPiece
<1>1. CASE Len(path) < 2
  <2>1. ends = {}
    BY <1>1
  <2> QED
    BY <1>1, <2>1 DEF FirstSegment
<1>2. CASE Len(path) >= 2 /\ path[2] = "/"
  <2>1. 2 \in ends /\ ends \in SUBSET Nat
    BY <1>2
  <2>2. Min(ends) \in ends /\ Min(ends) <= 2
    BY <2>1, MinIsLeast
  <2>3. Min(ends) = 2
    BY <2>2
  <2>4. FirstSegment(path) = SubSeq(path, 2, Min(ends) - 1)
    BY <2>1 DEF FirstSegment
  <2> HIDE DEF ends
  <2> QED
    BY <2>3, <2>4
<1> QED
  BY <1>1, <1>2

\* It ends where the path does, or before the next slash.
LEMMA Segment ==
  ASSUME NEW S, NEW path \in Seq(S), Len(path) >= 2, path[2] # "/"
  PROVE  \E last \in 2 .. Len(path) :
           /\ FirstSegment(path) = SubSeq(path, 2, last)
           /\ last = 2 <=> Len(path) = 2 \/ path[3] = "/"
<1> DEFINE ends == {i \in 2 .. Len(path) : path[i] = "/"}
<1>0. PICK n \in Nat : n = Len(path) /\ n >= 2
  BY NoPiece
<1>1. CASE ends = {}
  <2>1. FirstSegment(path) = SubSeq(path, 2, n)
    BY <1>0, <1>1 DEF FirstSegment
  <2>2. \A i \in 2 .. n : path[i] # "/"
    BY <1>0, <1>1
  <2>3. n = 2 \/ path[3] # "/"
    BY <1>0, <2>2
  <2> QED
    BY <1>0, <2>1, <2>3
<1>2. CASE ends # {}
  <2>1. ends \in SUBSET Nat
    OBVIOUS
  <2>2. Min(ends) \in ends /\ \A y \in ends : Min(ends) <= y
    BY <1>2, <2>1, MinIsLeast
  <2>3. FirstSegment(path) = SubSeq(path, 2, Min(ends) - 1)
    BY <1>2 DEF FirstSegment
  <2>4. Min(ends) \in 2 .. n /\ path[Min(ends)] = "/"
    BY <1>0, <2>2
  <2>5. path[3] = "/" /\ n >= 3 => 3 \in ends
    BY <1>0
  <2> HIDE DEF ends
  <2>6. Min(ends) # 2 /\ (path[3] = "/" /\ n >= 3 => Min(ends) <= 3)
    BY <2>2, <2>4, <2>5
  <2>7. PICK m \in 2 .. n : m = Min(ends) /\ path[m] = "/"
    BY <2>4
  <2>8. m - 1 \in 2 .. n /\ (m - 1 = 2 <=> n = 2 \/ path[3] = "/")
    BY <1>0, <2>6, <2>7
  <2> QED
    BY <1>0, <2>3, <2>7, <2>8
<1> QED
  BY <1>1, <1>2

\* A segment of one piece, and one that begins with a piece.
LEMMA SegmentPieces ==
  ASSUME NEW S, NEW path \in Seq(S), NEW piece, piece # "/"
  PROVE  /\ FirstSegment(path) = <<piece>> <=>
              /\ Len(path) >= 2 /\ path[2] = piece
              /\ Len(path) = 2 \/ path[3] = "/"
         /\ (FirstSegment(path) # << >> /\ Head(FirstSegment(path)) = piece) <=>
              (Len(path) >= 2 /\ path[2] = piece)
<1>0. PICK n \in Nat : n = Len(path)
  BY NoPiece
<1>1. CASE n < 2 \/ path[2] = "/"
  <2>1. FirstSegment(path) = << >>
    BY <1>0, <1>1, NoSegment
  <2>2. << >> # <<piece>>
    OBVIOUS
  <2> QED
    BY <1>0, <1>1, <2>1, <2>2
<1>2. CASE n >= 2 /\ path[2] # "/"
  <2>1. PICK last \in 2 .. n :
          /\ FirstSegment(path) = SubSeq(path, 2, last)
          /\ last = 2 <=> n = 2 \/ path[3] = "/"
    BY <1>0, <1>2, Segment
  <2>2. \A i \in 2 .. last : path[i] \in S
    BY <1>0
  <2>3. /\ SubSeq(path, 2, last) \in Seq(S)
        /\ Len(SubSeq(path, 2, last)) = last - 1
        /\ SubSeq(path, 2, last)[1] = path[2]
    BY <2>2, SubSeqProperties
  <2>4. PICK segment \in Seq(S) :
          /\ segment = SubSeq(path, 2, last) /\ segment = FirstSegment(path)
          /\ Len(segment) = last - 1 /\ segment[1] = path[2]
    BY <2>1, <2>3
  <2>5. segment # << >> /\ Head(segment) = path[2]
    <3>1. Len(segment) # 0
      BY <2>4
    <3> QED
      BY <2>4, <3>1, NoPiece, HeadTailOfSubSeq, <1>0
  <2>6. segment = <<piece>> <=> Len(segment) = 1 /\ segment[1] = piece
    BY OnePiece, Zenon
  <2> HIDE <2>3
  <2> QED
    BY <1>0, <1>2, <2>1, <2>4, <2>5, <2>6
<1> QED
  BY <1>0, <1>1, <1>2

----------------------------------------------------------------------------
(* What the prefixes match.                                                *)

LEMMA FromTheRoot ==
  ASSUME NEW S, NEW path \in Seq(S), IsTarget(path), Len(path) >= 2
  PROVE  path[1] = "/"
<1>1. path # << >>
  BY NoPiece
<1>2. path # <<"*">>
  <2>1. path = <<"*">> => Len(path) = 1
    BY OnePiece, Zenon
  <2>2. Len(path) # 1
    <3>1. PICK n \in Nat : n = Len(path)
      BY NoPiece
    <3>2. n >= 2
      BY <3>1, Zenon
    <3>3. n # 1
      BY <3>2
    <3> QED
      BY <3>1, <3>3, Zenon
  <2> QED
    BY <2>1, <2>2, Zenon
<1> QED
  BY <1>1, <1>2 DEF IsTarget

\* Prefixes of two and of three pieces.
LEMMA TwoPieces ==
  ASSUME NEW S, NEW path \in Seq(S), NEW x, NEW y
  PROVE  path = <<x, y>> <=> Len(path) = 2 /\ path[1] = x /\ path[2] = y
  BY NoPiece

LEMMA PrefixOfTwo ==
  ASSUME NEW S, NEW path \in Seq(S), NEW x, NEW y
  PROVE  IsPrefix(<<x, y>>, path) <=> Len(path) >= 2 /\ path[1] = x /\ path[2] = y
  BY NoPiece DEF IsPrefix

LEMMA PrefixOfThree ==
  ASSUME NEW S, NEW path \in Seq(S), NEW x, NEW y, NEW z
  PROVE  IsPrefix(<<x, y, z>>, path) <=>
           Len(path) >= 3 /\ path[1] = x /\ path[2] = y /\ path[3] = z
  BY NoPiece DEF IsPrefix

LEMMA FrontOfThree ==
  ASSUME NEW x, NEW y, NEW z
  PROVE  Last(<<x, y, z>>) = z /\ Front(<<x, y, z>>) = <<x, y>>
<1> DEFINE s == <<x, y, z>>
<1>1. s \in Seq({x, y, z}) /\ Len(s) = 3 /\ s[1] = x /\ s[2] = y /\ s[3] = z
  OBVIOUS
<1> HIDE DEF s
<1>2. \A i \in 1 .. 2 : s[i] \in {x, y, z}
  BY <1>1
<1>3. /\ SubSeq(s, 1, 2) \in Seq({x, y, z}) /\ Len(SubSeq(s, 1, 2)) = 2
      /\ \A i \in 1 .. 2 : SubSeq(s, 1, 2)[i] = s[i]
  <2>1. /\ SubSeq(s, 1, 2) \in Seq({x, y, z})
        /\ Len(SubSeq(s, 1, 2)) = IF 1 <= 2 THEN 2 - 1 + 1 ELSE 0
        /\ \A i \in 1 .. 2 - 1 + 1 : SubSeq(s, 1, 2)[i] = s[1 + i - 1]
    BY <1>2, SubSeqProperties
  <2> QED
    BY <2>1
<1>4. SubSeq(s, 1, 2)[1] = x /\ SubSeq(s, 1, 2)[2] = y
  BY <1>1, <1>3
<1>5. SubSeq(s, 1, 2) = <<x, y>>
  <2>1. PICK t \in Seq({x, y, z}) : t = SubSeq(s, 1, 2)
    BY <1>3, Zenon
  <2>2. Len(t) = 2 /\ t[1] = x /\ t[2] = y
    BY <1>3, <1>4, <2>1, Zenon
  <2>3. t = <<x, y>>
    BY <2>2, TwoPieces
  <2> QED
    BY <2>1, <2>3, Zenon
<1>6. Last(s) = z /\ Front(s) = SubSeq(s, 1, 2)
  BY <1>1 DEF Last, Front
<1> QED
  BY <1>5, <1>6 DEF s

LEMMA SubtreeMatches ==
  ASSUME NEW S, NEW path \in Seq(S), IsTarget(path), NEW name, name # "/"
  PROVE  Matches(path, Subtree(name)) <=> FirstSegment(path) = <<name>>
<1>0. PICK n \in Nat : n = Len(path)
  BY NoPiece
<1>1. Last(Subtree(name)) = "/" /\ Front(Subtree(name)) = <<"/", name>>
  BY FrontOfThree, Zenon DEF Subtree
<1>2. IsPrefix(Subtree(name), path) <=>
        Len(path) >= 3 /\ path[1] = "/" /\ path[2] = name /\ path[3] = "/"
  BY PrefixOfThree, Zenon DEF Subtree
<1>3. path = <<"/", name>> <=> Len(path) = 2 /\ path[1] = "/" /\ path[2] = name
  BY TwoPieces
<1>4. n >= 2 => path[1] = "/"
  BY <1>0, FromTheRoot
<1>5. FirstSegment(path) = <<name>> <=>
        n >= 2 /\ path[2] = name /\ (n = 2 \/ path[3] = "/")
  BY <1>0, SegmentPieces
<1>6. Matches(path, Subtree(name)) <=>
        IsPrefix(Subtree(name), path) \/ path = <<"/", name>>
  BY <1>1 DEF Matches
<1> QED
  BY <1>0, <1>2, <1>3, <1>4, <1>5, <1>6

LEMMA StemMatches ==
  ASSUME NEW S, NEW path \in Seq(S), IsTarget(path), NEW stem, stem # "/"
  PROVE  Matches(path, <<"/", stem>>) <=>
           FirstSegment(path) # << >> /\ Head(FirstSegment(path)) = stem
<1>1. Last(<<"/", stem>>) # "/"
  BY DEF Last
<1>2. IsPrefix(<<"/", stem>>, path) <=> Len(path) >= 2 /\ path[1] = "/" /\ path[2] = stem
  BY PrefixOfTwo, Zenon
<1>3. Len(path) >= 2 => path[1] = "/"
  BY FromTheRoot
<1>4. (FirstSegment(path) # << >> /\ Head(FirstSegment(path)) = stem) <=>
        (Len(path) >= 2 /\ path[2] = stem)
  BY SegmentPieces
<1> QED
  BY <1>1, <1>2, <1>3, <1>4 DEF Matches

----------------------------------------------------------------------------
(* The table, spelled out.                                                 *)

App == [prefix |-> <<"/">>, name |-> "app"]
ToReverb == [prefix |-> Subtree("app"), name |-> "reverb"]
ToVite(i) == [prefix |-> VitePrefixes[i], name |-> "vite"]

LEMMA EightPrefixes == DOMAIN VitePrefixes = 1 .. 8 /\ Len(VitePrefixes) = 8
  BY DEF VitePrefixes

LEMMA TheTable ==
  /\ Reverb => /\ Len(Routes) = 10 /\ DOMAIN Routes = 1 .. 10
               /\ Routes[1] = ToReverb /\ Routes[10] = App
               /\ \A i \in 1 .. 8 : Routes[i + 1] = ToVite(i)
  /\ ~Reverb => /\ Len(Routes) = 9 /\ DOMAIN Routes = 1 .. 9
                /\ Routes[9] = App
                /\ \A i \in 1 .. 8 : Routes[i] = ToVite(i)
<1> DEFINE to == [i \in 1 .. 8 |-> ToVite(i)]
           records == [prefix : {VitePrefixes[i] : i \in 1 .. 8} \cup {Subtree("app"), <<"/">>},
                       name : Upstreams]
<1>1. to \in Seq(records) /\ Len(to) = 8
  BY DEF ToVite, Upstreams
<1>2. Routes = (IF Reverb THEN << ToReverb >> ELSE << >>) \o to \o << App >>
  BY EightPrefixes DEF Routes, ToReverb, ToVite, App
<1>3. ToReverb \in records /\ App \in records
  BY DEF ToReverb, App, Upstreams
<1>4. (\A i \in 1 .. 8 : to[i] = ToVite(i)) /\ 8 \in Nat /\ 9 \in Nat
  OBVIOUS
<1> HIDE DEF to, records
<1>5. CASE Reverb
  <2>1. Routes = (<< ToReverb >> \o to) \o << App >>
    BY <1>2, <1>5
  <2>2. PICK front \in Seq(records) :
          front = << ToReverb >> \o to /\ Preceded(front, ToReverb, to)
    BY <1>1, <1>3, InFront, Zenon
  <2>3. Followed(front \o << App >>, front, App)
    BY <1>3, AtTheEnd, Zenon
  <2>4. Followed(Routes, front, App)
    BY <2>1, <2>2, <2>3, Zenon
  <2>5. /\ Len(front) = 8 + 1 /\ front[1] = ToReverb
        /\ \A i \in 1 .. 8 : front[i + 1] = to[i]
    BY <1>1, <2>2, Zenon DEF Preceded
  <2>6. Len(front) = 9
    BY <2>5
  <2>7. /\ Len(Routes) = 9 + 1 /\ DOMAIN Routes = 1 .. 9 + 1
        /\ Routes[9 + 1] = App /\ \A i \in 1 .. 9 : Routes[i] = front[i]
    BY <2>4, <2>6, Zenon DEF Followed
  <2>8. Routes[1] = ToReverb /\ \A i \in 1 .. 8 : Routes[i + 1] = ToVite(i)
    BY <2>5, <2>7, <1>4
  <2> QED
    BY <1>5, <2>7, <2>8
<1>6. CASE ~Reverb
  <2>1. Routes = to \o << App >>
    BY <1>1, <1>2, <1>6
  <2>2. Followed(to \o << App >>, to, App)
    BY <1>1, <1>3, AtTheEnd, Zenon
  <2>3. /\ Len(Routes) = 8 + 1 /\ DOMAIN Routes = 1 .. 8 + 1
        /\ Routes[8 + 1] = App /\ \A i \in 1 .. 8 : Routes[i] = to[i]
    BY <1>1, <2>1, <2>2, Zenon DEF Followed
  <2> QED
    BY <1>6, <2>3, <1>4
<1> QED
  BY <1>5, <1>6

----------------------------------------------------------------------------
(* The search.                                                             *)

\* The first segment is one of those the dev server serves.
IsVitePath(path) ==
  \/ FirstSegment(path) \in {<<"@vite">>, <<"@id">>, <<"@fs">>, <<"resources">>,
       <<"node_modules">>, <<"vendor">>, <<"__laravel_vite_plugin__">>}
  \/ FirstSegment(path) # << >> /\ Head(FirstSegment(path)) = "__vite_hmr"

LEMMA ViteMatches ==
  ASSUME NEW S, NEW path \in Seq(S), IsTarget(path)
  PROVE  IsVitePath(path) <=> \E i \in 1 .. 8 : Matches(path, VitePrefixes[i])
<1>1. /\ Matches(path, VitePrefixes[1]) <=> FirstSegment(path) = <<"@vite">>
      /\ Matches(path, VitePrefixes[2]) <=> FirstSegment(path) = <<"@id">>
      /\ Matches(path, VitePrefixes[3]) <=> FirstSegment(path) = <<"@fs">>
      /\ Matches(path, VitePrefixes[4]) <=> FirstSegment(path) = <<"resources">>
      /\ Matches(path, VitePrefixes[5]) <=> FirstSegment(path) = <<"node_modules">>
      /\ Matches(path, VitePrefixes[6]) <=> FirstSegment(path) = <<"vendor">>
      /\ Matches(path, VitePrefixes[8]) <=>
           FirstSegment(path) = <<"__laravel_vite_plugin__">>
  BY SubtreeMatches DEF VitePrefixes
<1>2. Matches(path, VitePrefixes[7]) <=>
        FirstSegment(path) # << >> /\ Head(FirstSegment(path)) = "__vite_hmr"
  BY StemMatches DEF VitePrefixes
<1> HIDE DEF VitePrefixes
<1>3. (\E i \in 1 .. 8 : Matches(path, VitePrefixes[i])) <=>
        \/ Matches(path, VitePrefixes[1]) \/ Matches(path, VitePrefixes[2])
        \/ Matches(path, VitePrefixes[3]) \/ Matches(path, VitePrefixes[4])
        \/ Matches(path, VitePrefixes[5]) \/ Matches(path, VitePrefixes[6])
        \/ Matches(path, VitePrefixes[7]) \/ Matches(path, VitePrefixes[8])
  <2>1. \A i \in 1 .. 8 : i \in {1, 2, 3, 4, 5, 6, 7, 8}
    OBVIOUS
  <2>2. \A i \in {1, 2, 3, 4, 5, 6, 7, 8} : i \in 1 .. 8
    OBVIOUS
  <2> QED
    BY <2>1, <2>2
<1> QED
  BY <1>1, <1>2, <1>3 DEF IsVitePath

LEMMA ReverbMatches ==
  ASSUME NEW S, NEW path \in Seq(S), IsTarget(path)
  PROVE  Matches(path, ToReverb.prefix) <=> FirstSegment(path) = <<"app">>
  BY SubtreeMatches DEF ToReverb

\* Any entry that matches stops the search there, or earlier.
LEMMA SearchStops ==
  ASSUME NEW path, NEW hits, hits = {i \in DOMAIN Routes : Matches(path, Routes[i].prefix)},
         NEW k \in DOMAIN Routes, Matches(path, Routes[k].prefix)
  PROVE  /\ hits # {} /\ Min(hits) \in DOMAIN Routes /\ Min(hits) <= k
         /\ Matches(path, Routes[Min(hits)].prefix)
<1>1. k \in hits
  OBVIOUS
<1>2. hits \in SUBSET Nat
  BY TheTable, ReverbAssumption
<1>3. Min(hits) \in hits /\ Min(hits) <= k
  BY <1>1, <1>2, MinIsLeast
<1> QED
  BY <1>1, <1>3

\* With or without Reverb's entry, Vite's eight come before the last.
LEMMA FirstHit ==
  ASSUME NEW S, NEW path \in Seq(S), IsTarget(path),
         NEW hits, hits = {i \in DOMAIN Routes : Matches(path, Routes[i].prefix)}
  PROVE  (IF hits = {} THEN Last(Routes).name ELSE Routes[Min(hits)].name) =
           IF Reverb /\ FirstSegment(path) = <<"app">> THEN "reverb"
           ELSE IF IsVitePath(path) THEN "vite" ELSE "app"
<1> DEFINE found == IF hits = {} THEN Last(Routes).name ELSE Routes[Min(hits)].name
           toReverb == Reverb /\ FirstSegment(path) = <<"app">>
<1>1. PICK shift \in {0, 1} :
        /\ shift = 1 <=> Reverb
        /\ DOMAIN Routes = 1 .. 9 + shift /\ Len(Routes) = 9 + shift
        /\ Routes[9 + shift] = App
        /\ \A i \in 1 .. 8 : Routes[i + shift] = ToVite(i)
        /\ shift = 1 => Routes[1] = ToReverb
  <2>1. CASE Reverb
    BY <2>1, TheTable
  <2>2. CASE ~Reverb
    BY <2>2, TheTable
  <2> QED
    BY <2>1, <2>2
<1>2. /\ App.name = "app" /\ ToReverb.name = "reverb"
      /\ \A i : ToVite(i).name = "vite" /\ ToVite(i).prefix = VitePrefixes[i]
  BY DEF App, ToReverb, ToVite
<1>3. \A i \in DOMAIN Routes :
        \/ i = 1 /\ Reverb /\ Routes[i] = ToReverb
        \/ i = 9 + shift /\ Routes[i] = App
        \/ /\ i - shift \in 1 .. 8 /\ i < 9 + shift
           /\ Routes[i] = ToVite(i - shift)
  <2> SUFFICES ASSUME NEW i \in 1 .. 9 + shift, ~(i = 1 /\ Reverb), i # 9 + shift
               PROVE  /\ i - shift \in 1 .. 8 /\ i < 9 + shift
                      /\ Routes[i] = ToVite(i - shift)
    BY <1>1
  <2>1. i - shift \in 1 .. 8 /\ i < 9 + shift /\ i = (i - shift) + shift
    BY <1>1
  <2> QED
    BY <1>1, <2>1
<1>4. CASE toReverb
  <2>1. 1 \in DOMAIN Routes /\ Routes[1] = ToReverb /\ Matches(path, Routes[1].prefix)
    BY <1>1, <1>4, ReverbMatches
  <2>2. hits # {} /\ Min(hits) \in DOMAIN Routes /\ Min(hits) <= 1
    BY <2>1, SearchStops
  <2>3. Min(hits) = 1
    BY <2>2, <1>1
  <2>4. found = "reverb"
    BY <1>2, <2>1, <2>2, <2>3
  <2> QED
    BY <1>4, <2>4
<1>5. CASE ~toReverb /\ IsVitePath(path)
  <2>1. PICK i \in 1 .. 8 : Matches(path, VitePrefixes[i])
    BY <1>5, ViteMatches
  <2>2. PICK k \in DOMAIN Routes : k = i + shift /\ Routes[k] = ToVite(i)
    <3>1. i + shift \in 1 .. 9 + shift
      BY <1>1
    <3> QED
      BY <1>1, <3>1
  <2>3. Matches(path, Routes[k].prefix)
    BY <1>2, <2>1, <2>2
  <2>4. /\ hits # {} /\ Min(hits) \in DOMAIN Routes /\ Min(hits) <= k
        /\ Matches(path, Routes[Min(hits)].prefix)
    BY <2>3, SearchStops
  <2>5. ~(Reverb /\ Routes[Min(hits)] = ToReverb)
    BY <1>5, <2>4, ReverbMatches
  <2>6. Min(hits) # 9 + shift
    BY <2>2, <2>4
  <2>7. Routes[Min(hits)] = ToVite(Min(hits) - shift)
    BY <1>3, <2>4, <2>5, <2>6
  <2>8. found = "vite"
    BY <1>2, <2>4, <2>7
  <2> QED
    BY <1>5, <2>8
<1>6. CASE ~toReverb /\ ~IsVitePath(path)
  <2>1. \A k \in DOMAIN Routes : Matches(path, Routes[k].prefix) => Routes[k] = App
    <3> SUFFICES ASSUME NEW k \in DOMAIN Routes, Matches(path, Routes[k].prefix)
                 PROVE  Routes[k] = App
      OBVIOUS
    <3>1. ~(Reverb /\ Routes[k] = ToReverb)
      BY <1>6, ReverbMatches
    <3>2. ~(k - shift \in 1 .. 8 /\ Routes[k] = ToVite(k - shift))
      BY <1>2, <1>6, ViteMatches
    <3> QED
      BY <1>3, <3>1, <3>2
  <2>2. hits # {} => Routes[Min(hits)] = App
    <3> SUFFICES ASSUME hits # {}
                 PROVE  Routes[Min(hits)] = App
      OBVIOUS
    <3>1. PICK k \in DOMAIN Routes : Matches(path, Routes[k].prefix)
      OBVIOUS
    <3>2. Min(hits) \in DOMAIN Routes /\ Matches(path, Routes[Min(hits)].prefix)
      BY <3>1, SearchStops
    <3> QED
      BY <2>1, <3>2
  <2>3. Last(Routes) = App
    BY <1>1 DEF Last
  <2>4. found = "app"
    BY <1>2, <2>2, <2>3
  <2> QED
    BY <1>6, <2>4
<1> QED
  BY <1>4, <1>5, <1>6

\* A request goes to the upstream its first segment, or its subprotocol, names.
THEOREM RouteIsOwner ==
  ASSUME NEW S, NEW r, r.path \in Seq(S), IsTarget(r.path)
  PROVE  Route(r) = Owner(r)
<1> DEFINE hits == {i \in DOMAIN Routes : Matches(r.path, Routes[i].prefix)}
           found == IF hits = {} THEN Last(Routes).name ELSE Routes[Min(hits)].name
           named == IF Reverb /\ FirstSegment(r.path) = <<"app">> THEN "reverb"
                    ELSE IF IsVitePath(r.path) THEN "vite" ELSE "app"
<1>1. found = named
  BY FirstHit
<1>2. Route(r) = IF IsViteWebsocket(r) THEN "vite" ELSE found
  BY DEF Route
<1>3. Owner(r) = IF IsViteWebsocket(r) THEN "vite" ELSE named
  BY DEF Owner, IsViteWebsocket, IsVitePath
<1> HIDE DEF found, named
<1> QED
  BY <1>1, <1>2, <1>3
============================================================================
