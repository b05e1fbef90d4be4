------------------------- MODULE NormalizationProofs -------------------------
(***************************************************************************)
(* Proofs about the processing of one record: which decoder is chosen,     *)
(* what the event of a record holds, and what is kept of its source        *)
(* fields, for every list of packs and every content a record may have.    *)
(***************************************************************************)
EXTENDS Normalization, FiniteSetTheorems, TLAPS

-----------------------------------------------------------------------------
(* The ranking of the decoders *)

Decoders == {"syslog", "json", "xml", "csv", "cef", "leef", "text"}

\* The decoders of DefaultRegistry.
LEMMA RegistryIs == Range(DefaultRegistry) = Decoders
<1>1. DOMAIN DefaultRegistry = 1..7
  BY DEF DefaultRegistry
<1>2. \A i \in 1..7 : i = 1 \/ i = 2 \/ i = 3 \/ i = 4 \/ i = 5 \/ i = 6 \/ i = 7
  OBVIOUS
<1>3. QED
  BY <1>1, <1>2 DEF Range, DefaultRegistry, Decoders

\* A confidence is a number below one hundred.
LEMMA DetectType == \A p : \A d \in Decoders : Detect(d, p) \in 0..99
  BY DEF Decoders, Detect, DetectSyslog, DetectJSON, DetectXML, DetectCSV, DetectCEF, DetectLEEF, DetectText

\* Where the alphabet has the decoders.
LEMMA PlaceIs == /\ Place("cef") = 1 /\ Place("csv") = 2 /\ Place("json") = 3 /\ Place("leef") = 4
                 /\ Place("syslog") = 5 /\ Place("text") = 6 /\ Place("xml") = 7
<1>1. DOMAIN Alphabetical = 1..7
  BY DEF Alphabetical
<1>2. \A i \in 1..7 : i = 1 \/ i = 2 \/ i = 3 \/ i = 4 \/ i = 5 \/ i = 6 \/ i = 7
  OBVIOUS
<1>3. /\ Alphabetical[1] = "cef" /\ Alphabetical[2] = "csv" /\ Alphabetical[3] = "json"
      /\ Alphabetical[4] = "leef" /\ Alphabetical[5] = "syslog" /\ Alphabetical[6] = "text"
      /\ Alphabetical[7] = "xml"
  BY DEF Alphabetical
<1>4. QED
  BY <1>1, <1>2, <1>3 DEF Place

\* A number that orders the decoders as Before does.
Weight(d) == IF d = "text" THEN 0 ELSE IF d = "syslog" THEN 9 ELSE 8 - Place(d)
Key(d, p) == 10 * Detect(d, p) + Weight(d)

LEMMA WeightType == \A d \in Decoders : Weight(d) \in 0..9
  BY PlaceIs DEF Weight, Decoders

LEMMA KeyType == \A p : \A d \in Decoders : Key(d, p) \in 0..999
  BY DetectType, WeightType DEF Key

LEMMA BeforeByKey ==
  ASSUME NEW p, NEW c \in Decoders, NEW d \in Decoders
  PROVE  /\ Before(c, d, p) <=> Key(c, p) > Key(d, p)
         /\ Key(c, p) = Key(d, p) => c = d
<1>1. Weight(c) \in 0..9 /\ Weight(d) \in 0..9 /\ Detect(c, p) \in 0..99 /\ Detect(d, p) \in 0..99
  BY WeightType, DetectType
<1>2. Weight(c) = Weight(d) => c = d
  BY PlaceIs DEF Weight, Decoders
<1>3. c # d => (Weight(c) > Weight(d) <=> \/ d = "text"
                             \/ /\ c # "text"
                                /\ c = "syslog" \/ (d # "syslog" /\ Place(c) < Place(d)))
  BY PlaceIs DEF Weight, Decoders
<1>4. Before(c, d, p) <=> \/ Detect(c, p) > Detect(d, p)
                          \/ Detect(c, p) = Detect(d, p) /\ Weight(c) > Weight(d)
  BY <1>1, <1>3 DEF Before
<1>5. /\ Key(c, p) = 10 * Detect(c, p) + Weight(c)
      /\ Key(d, p) = 10 * Detect(d, p) + Weight(d)
  BY DEF Key
<1>6. PICK a \in 0..99 : a = Detect(c, p)
  BY <1>1
<1>7. PICK b \in 0..99 : b = Detect(d, p)
  BY <1>1
<1>8. PICK x \in 0..9 : x = Weight(c)
  BY <1>1
<1>9. PICK y \in 0..9 : y = Weight(d)
  BY <1>1
<1>10. /\ 10 * a + x > 10 * b + y <=> a > b \/ (a = b /\ x > y)
       /\ 10 * a + x = 10 * b + y => x = y
  OBVIOUS
<1>11. Before(c, d, p) <=> 10 * a + x > 10 * b + y
  BY <1>4, <1>6, <1>7, <1>8, <1>9, <1>10
<1>12. Key(c, p) = 10 * a + x /\ Key(d, p) = 10 * b + y
  BY <1>5, <1>6, <1>7, <1>8, <1>9
<1>13. 10 * a + x = 10 * b + y => c = d
  BY <1>10, <1>8, <1>9, <1>2
<1>14. QED
  BY <1>11, <1>12, <1>13

\* Of two decoders at most one comes before the other.
LEMMA BeforeOnce ==
  ASSUME NEW p, NEW c \in Decoders, NEW d \in Decoders, Before(c, d, p)
  PROVE  ~Before(d, c, p)
<1>1. PICK a \in 0..999 : a = Key(c, p)
  BY KeyType
<1>2. PICK b \in 0..999 : b = Key(d, p)
  BY KeyType
<1>3. a > b
  BY <1>1, <1>2, BeforeByKey
<1>4. ~(b > a)
  BY <1>3
<1>5. QED
  BY <1>1, <1>2, <1>4, BeforeByKey

\* Of any decoders, one comes before all the others.
LEMMA FirstExists ==
  ASSUME NEW p, NEW S \in SUBSET Decoders, S # {}
  PROVE  \E d \in S : \A c \in S : c # d => Before(d, c, p) /\ ~Before(c, d, p)
<1> DEFINE T == { 1000 - Key(d, p) : d \in S }
           Less == { ss \in Nat \X Nat : ss[1] < ss[2] }
<1>1. T \subseteq Nat /\ T # {}
  BY KeyType
<1>2. IsWellFoundedOn(Less, Nat)
  BY NatLessThanWellFounded DEF OpToRel
<1>3. PICK x \in T : \A y \in T : <<y, x>> \notin Less
  <2> HIDE DEF T, Less
  <2> QED BY <1>1, <1>2, WFMin
<1>4. PICK d \in S : x = 1000 - Key(d, p)
  BY <1>3
<1>5. SUFFICES ASSUME NEW c \in S, c # d PROVE Before(d, c, p) /\ ~Before(c, d, p)
  BY <1>4
<1>6. PICK a \in 0..999 : a = Key(c, p)
  BY KeyType
<1>7. PICK b \in 0..999 : b = Key(d, p)
  BY KeyType
<1>8. 1000 - a \in T /\ x = 1000 - b
  BY <1>4, <1>6, <1>7
<1>9. <<1000 - a, x>> \notin Less
  <2> HIDE DEF T, Less
  <2> QED BY <1>3, <1>8
<1>10. ~(1000 - a < 1000 - b)
  <2>1. 1000 - a \in Nat /\ 1000 - b \in Nat
    OBVIOUS
  <2>2. QED
    BY <1>8, <1>9, <2>1
<1>11. c \in Decoders /\ d \in Decoders
  OBVIOUS
<1>12. a # b
  BY <1>5, <1>6, <1>7, <1>11, BeforeByKey
<1>13. b > a /\ ~(a > b)
  BY <1>10, <1>12
<1>14. QED
  BY <1>6, <1>7, <1>11, <1>13, BeforeByKey

Results(p) == { d \in Decoders : Detect(d, p) >= 50 }

LEMMA ResultsFinite == \A p : IsFiniteSet(Results(p))
<1>1. Decoders = {"syslog"} \cup {"json"} \cup {"xml"} \cup {"csv"} \cup {"cef"} \cup {"leef"} \cup {"text"}
  BY DEF Decoders
<1>2. IsFiniteSet(Decoders)
  BY <1>1, FS_Singleton, FS_Union
<1>3. QED
  BY <1>2, FS_Subset DEF Results

\* The first of the ranked decoders, if there is one.
LEMMA RankedFirst ==
  ASSUME NEW p
  PROVE  /\ DetectRanked(p) = <<>> <=> Results(p) = {}
         /\ Results(p) # {} => 
              /\ DetectRanked(p)[1] \in Results(p)
              /\ \A c \in Results(p) : c # DetectRanked(p)[1] => Before(DetectRanked(p)[1], c, p)
<1> DEFINE S == Results(p)
           C(d) == { c \in S : Before(c, d, p) }
           R == [ n \in 1..Cardinality(S) |-> CHOOSE d \in S : Cardinality(C(d)) = n - 1 ]
<1>1. DetectRanked(p) = R
  BY RegistryIs DEF DetectRanked, Results
<1>2. IsFiniteSet(S) /\ Cardinality(S) \in Nat /\ (S = {} <=> Cardinality(S) = 0)
  BY ResultsFinite, FS_CardinalityType, FS_EmptySet
<1>3. R = <<>> <=> S = {}
  <2> HIDE DEF S, C
  <2>1. DOMAIN R = 1..Cardinality(S)
    OBVIOUS
  <2>2. CASE S = {}
    BY <1>2, <2>2
  <2>3. CASE S # {}
    <3>1. 1 \in DOMAIN R
      BY <1>2, <2>3, <2>1
    <3>2. QED
      BY <3>1, <2>3
  <2>4. QED
    BY <2>2, <2>3
<1>4. ASSUME S # {} PROVE R[1] \in S /\ \A c \in S : c # R[1] => Before(R[1], c, p)
  <2>1. PICK d \in S : \A c \in S : c # d => Before(d, c, p) /\ ~Before(c, d, p)
    BY FirstExists, <1>4 DEF Results
  <2>2. \A e \in S : ~Before(e, e, p)
    BY BeforeOnce DEF Results
  <2>3. C(d) = {}
    BY <2>1, <2>2
  <2>4. Cardinality(C(d)) = 0
    BY <2>3, FS_EmptySet
  <2>5. \A e \in S : IsFiniteSet(C(e))
    BY <1>2, FS_Subset
  <2>6. \A e \in S : Cardinality(C(e)) = 0 => C(e) = {}
    BY <2>5, FS_EmptySet
  <2>7. \A e \in S : Cardinality(C(e)) = 0 => e = d
    BY <2>6, <2>1
  <2>8. 1 \in 1..Cardinality(S) /\ 1 - 1 = 0
    BY <1>2, <1>4
  <2>9. R[1] = CHOOSE e \in S : Cardinality(C(e)) = 0
    <3> HIDE DEF S, C
    <3> QED BY <2>8
  <2>10. R[1] = d
    <3> HIDE DEF S, C, R
    <3> QED BY <2>9, <2>4, <2>7
  <2>11. QED
    BY <2>10, <2>1
<1>5. QED
  BY <1>1, <1>3, <1>4

\* Of two elements of a finite set, one is not all there is.
LEMMA TwoElements ==
  ASSUME NEW S, IsFiniteSet(S), NEW x \in S, NEW y \in S, x # y
  PROVE  Cardinality(S) > 1
<1>1. /\ IsFiniteSet(S \ {x}) /\ Cardinality(S \ {x}) = Cardinality(S) - 1
      /\ Cardinality(S) \in Nat
  BY FS_RemoveElement, FS_CardinalityType
<1>2. S \ {x} # {}
  OBVIOUS
<1>3. Cardinality(S \ {x}) # 0 /\ Cardinality(S \ {x}) \in Nat
  BY <1>1, <1>2, FS_EmptySet, FS_CardinalityType
<1>4. QED
  BY <1>1, <1>3

\* The second of the ranked decoders, if there is one.
LEMMA RankedSecond ==
  ASSUME NEW p
  PROVE  /\ Len(DetectRanked(p)) = Cardinality(Results(p))
         /\ Cardinality(Results(p)) > 1 =>
              /\ DetectRanked(p)[2] \in Results(p) \ {DetectRanked(p)[1]}
              /\ \A c \in Results(p) \ {DetectRanked(p)[1]} :
                   c # DetectRanked(p)[2] => Before(DetectRanked(p)[2], c, p)
<1> DEFINE S == Results(p)
           C(d) == { c \in S : Before(c, d, p) }
           R == [ n \in 1..Cardinality(S) |-> CHOOSE d \in S : Cardinality(C(d)) = n - 1 ]
<1>1. DetectRanked(p) = R
  BY RegistryIs DEF DetectRanked, Results
<1>2. IsFiniteSet(S) /\ Cardinality(S) \in Nat /\ (S = {} <=> Cardinality(S) = 0)
  BY ResultsFinite, FS_CardinalityType, FS_EmptySet
<1>3. Len(R) = Cardinality(S)
  <2> HIDE DEF S, C
  <2> QED BY <1>2
<1>4. ASSUME Cardinality(S) > 1
      PROVE  R[2] \in S \ {R[1]} /\ \A c \in S \ {R[1]} : c # R[2] => Before(R[2], c, p)
  <2> DEFINE r == R[1]
  <2>1. r \in S /\ \A c \in S : c # r => Before(r, c, p)
    <3>1. S # {}
      <4> HIDE DEF S
      <4> QED BY <1>2, <1>4
    <3>2. DetectRanked(p)[1] \in S /\ \A c \in S : c # DetectRanked(p)[1] => Before(DetectRanked(p)[1], c, p)
      BY RankedFirst, <3>1
    <3> HIDE DEF S, R
    <3>3. QED
      BY <3>2, <1>1
  <2> HIDE DEF r
  <2>2. S \ {r} # {}
    BY <1>2, <1>4, <2>1, FS_Singleton
  <2>3. S \ {r} \in SUBSET Decoders
    BY DEF Results
  <2>4. PICK d \in S \ {r} : \A c \in S \ {r} : c # d => Before(d, c, p) /\ ~Before(c, d, p)
    BY <2>2, <2>3, FirstExists
  <2>5. \A e \in S : ~Before(e, e, p)
    BY BeforeOnce DEF Results
  <2>6. C(d) = {r}
    BY <2>1, <2>4, <2>5
  <2>7. Cardinality(C(d)) = 1
    BY <2>6, FS_Singleton
  <2>8. \A e \in S : IsFiniteSet(C(e))
    BY <1>2, FS_Subset
  <2>9. \A e \in S : Cardinality(C(e)) = 1 => e = d
    <3> SUFFICES ASSUME NEW e \in S, Cardinality(C(e)) = 1, e # d PROVE FALSE
      OBVIOUS
    <3>1. CASE e = r
      <4>1. r \in C(r) \/ \E c \in S \ {r} : Before(c, r, p)
        BY <2>8, FS_Singleton, <3>1
      <4>2. PICK c \in S \ {r} : Before(c, r, p)
        BY <4>1, <2>5
      <4>3. Before(r, c, p)
        BY <2>1
      <4>4. QED
        BY <4>2, <4>3, <2>1, BeforeOnce DEF Results
    <3>2. CASE e # r
      <4>1. r \in C(e) /\ d \in C(e) /\ r # d
        BY <3>2, <2>1, <2>4
      <4>2. QED
        BY <4>1, <2>8, FS_Singleton
    <3>3. QED
      BY <3>1, <3>2
  <2>10. 2 \in 1..Cardinality(S) /\ 2 - 1 = 1
    BY <1>2, <1>4
  <2>11. R[2] = CHOOSE e \in S : Cardinality(C(e)) = 1
    <3> HIDE DEF S, C
    <3> QED BY <2>10
  <2>12. R[2] = d
    <3> HIDE DEF S, C, R
    <3> QED BY <2>11, <2>7, <2>9, <2>4
  <2>13. QED
    BY <2>12, <2>4 DEF r
<1>5. QED
  BY <1>1, <1>3, <1>4

\* A decoder before another one scores at least as much, and the rule for equal scores.
LEMMA BeforeScores ==
  ASSUME NEW p, NEW c \in Decoders, NEW d \in Decoders, Before(c, d, p)
  PROVE  /\ Detect(d, p) <= Detect(c, p)
         /\ Detect(c, p) = Detect(d, p) => d = "text" \/ (c # "text" /\ (c = "syslog" \/ d # "syslog"))
  BY DetectType DEF Before

Best(p) == { d \in Decoders : \A c \in Decoders : Detect(c, p) <= Detect(d, p) }
Structured(p) == Best(p) \ {"text"}

\* The first of the ranked decoders has the best score.
LEMMA FirstIsBest ==
  ASSUME NEW p, Results(p) # {}
  PROVE  DetectRanked(p)[1] \in Best(p) /\ Best(p) \subseteq Results(p)
<1> DEFINE r == DetectRanked(p)[1]
<1>1. r \in Results(p) /\ \A c \in Results(p) : c # r => Before(r, c, p)
  BY RankedFirst
<1> HIDE DEF r
<1>2. r \in Decoders /\ Detect(r, p) >= 50 /\ Detect(r, p) \in 0..99
  BY <1>1, DetectType DEF Results
<1>3. ASSUME NEW c \in Decoders PROVE Detect(c, p) <= Detect(r, p)
  <2>1. Detect(c, p) \in 0..99
    BY DetectType
  <2>2. CASE c \in Results(p)
    BY <1>1, <1>2, <2>1, <2>2, BeforeScores
  <2>3. CASE c \notin Results(p)
    <3>1. Detect(c, p) < 50
      BY <2>1, <2>3 DEF Results
    <3>2. QED
      BY <1>2, <2>1, <3>1
  <2>4. QED
    BY <2>2, <2>3
<1>4. ASSUME NEW d \in Best(p) PROVE d \in Results(p)
  <2>1. d \in Decoders /\ Detect(d, p) \in 0..99 /\ Detect(r, p) <= Detect(d, p)
    BY <1>2, DetectType DEF Best
  <2>2. QED
    BY <1>2, <2>1 DEF Results
<1>5. QED
  BY <1>2, <1>3, <1>4 DEF Best, r

\* Decoders with the best score have the same one.
LEMMA BestEqual == \A p : \A c, d \in Best(p) : Detect(c, p) = Detect(d, p)
<1> TAKE p
<1> TAKE c, d \in Best(p)
<1>1. Detect(c, p) \in 0..99 /\ Detect(d, p) \in 0..99
  BY DetectType DEF Best
<1>2. Detect(c, p) <= Detect(d, p) /\ Detect(d, p) <= Detect(c, p)
  BY DEF Best
<1>3. QED
  BY <1>1, <1>2

\* The decoder that DetectAndDecode calls.
LEMMA ChosenDecoder ==
  ASSUME NEW p, DetectRanked(p) # <<>>, ~Ambiguous(DetectRanked(p), p)
  PROVE  LET d == DetectRanked(p)[1]
         IN  /\ d \in Best(p) /\ Detect(d, p) >= 50
             /\ d = "text" => Structured(p) = {}
             /\ d # "text" => Structured(p) = {d} \/ d = "syslog"
<1> DEFINE r == DetectRanked(p)[1]
           e == DetectRanked(p)[2]
<1>1. Results(p) # {}
  BY RankedFirst
<1>2. r \in Results(p) /\ \A c \in Results(p) : c # r => Before(r, c, p)
  BY <1>1, RankedFirst
<1>3. r \in Best(p) /\ Best(p) \subseteq Results(p)
  BY <1>1, FirstIsBest
<1>4. Cardinality(Results(p)) > 1 =>
        /\ Len(DetectRanked(p)) > 1
        /\ e \in Results(p) /\ e # r
        /\ \A c \in Results(p) \ {r} : c # e => Before(e, c, p)
  BY RankedSecond
<1>5. Cardinality(Results(p)) > 1 /\ Detect(r, p) = Detect(e, p) => r \in {"text", "syslog"} \/ e = "text"
  BY <1>4 DEF Ambiguous
<1> HIDE DEF r, e
<1>6. ASSUME r = "text", NEW c \in Structured(p) PROVE FALSE
  <2>1. c \in Best(p) /\ c # "text" /\ c \in Results(p) /\ c \in Decoders
    BY <1>6, <1>3 DEF Structured, Best
  <2>2. Before(r, c, p) /\ Detect(r, p) = Detect(c, p)
    BY <2>1, <1>2, <1>3, <1>6, BestEqual
  <2>3. r \in Decoders
    BY <1>3 DEF Best
  <2>4. QED
    BY <2>1, <2>2, <2>3, <1>6, BeforeScores
<1>7. ASSUME r # "text", r # "syslog", NEW c \in Structured(p), c # r PROVE FALSE
  <2>1. c \in Best(p) /\ c # "text" /\ c \in Results(p) /\ c \in Decoders /\ r \in Decoders
    BY <1>7, <1>3 DEF Structured, Best
  <2>2. Cardinality(Results(p)) > 1
    BY <2>1, <1>2, <1>7, ResultsFinite, TwoElements
  <2>3. e \in Decoders /\ Detect(e, p) \in 0..99 /\ Detect(c, p) \in 0..99 /\ Detect(r, p) \in 0..99
    BY <1>4, <2>2, <2>1, DetectType DEF Results
  <2>4. Detect(r, p) = Detect(c, p)
    BY <2>1, <1>3, BestEqual
  <2>5. Detect(e, p) <= Detect(r, p)
    BY <1>3, <2>3 DEF Best
  <2>6. Detect(c, p) <= Detect(e, p)
    <3>1. CASE c = e
      <4>1. \A n \in 0..99 : n <= n
        OBVIOUS
      <4>2. QED
        BY <3>1, <4>1, <2>3
    <3>2. CASE c # e
      BY <1>4, <2>2, <2>1, <1>7, <2>3, <3>2, BeforeScores
    <3>3. QED
      BY <3>1, <3>2
  <2>7. Detect(r, p) = Detect(e, p)
    <3>1. \A a, b \in 0..99 : a <= b /\ b <= a => a = b
      OBVIOUS
    <3>2. QED
      BY <2>3, <2>4, <2>5, <2>6, <3>1
  <2>8. e = "text"
    BY <1>5, <2>2, <2>7, <1>7
  <2>9. Before(e, c, p)
    BY <1>4, <2>1, <2>2, <2>8, <1>7
  <2>10. QED
    BY <2>9, <2>3, <2>1, <2>4, <2>7, <2>8, BeforeScores
<1>8. Detect(r, p) >= 50
  BY <1>2 DEF Results
<1>9. r # "text" /\ r # "syslog" => Structured(p) = {r}
  BY <1>3, <1>7 DEF Structured
<1>10. QED
  BY <1>3, <1>6, <1>8, <1>9 DEF r

\* A payload that DetectAndDecode refuses.
LEMMA RefusedPayload ==
  ASSUME NEW p, DetectRanked(p) = <<>> \/ Ambiguous(DetectRanked(p), p)
  PROVE  \/ \A d \in Best(p) : Detect(d, p) < 50
         \/ Cardinality(Structured(p)) > 1 /\ "syslog" \notin Structured(p)
<1>1. CASE DetectRanked(p) = <<>>
  <2>1. Results(p) = {}
    BY <1>1, RankedFirst
  <2>2. ASSUME NEW d \in Best(p) PROVE Detect(d, p) < 50
    <3>1. d \in Decoders /\ Detect(d, p) \in 0..99 /\ ~(Detect(d, p) >= 50)
      BY <2>1, DetectType DEF Results, Best
    <3>2. PICK n \in 0..99 : n = Detect(d, p)
      BY <3>1
    <3>3. QED
      BY <3>1, <3>2
  <2>3. QED
    BY <2>2
<1>2. CASE Ambiguous(DetectRanked(p), p) /\ DetectRanked(p) # <<>>
  <2> DEFINE r == DetectRanked(p)[1]
             e == DetectRanked(p)[2]
  <2>1. Results(p) # {}
    BY <1>2, RankedFirst
  <2>2. r \in Results(p) /\ \A c \in Results(p) : c # r => Before(r, c, p)
    BY <2>1, RankedFirst
  <2>3. r \in Best(p) /\ Best(p) \subseteq Results(p)
    BY <2>1, FirstIsBest
  <2>4. /\ Len(DetectRanked(p)) > 1 /\ Detect(r, p) = Detect(e, p)
        /\ r # "text" /\ r # "syslog" /\ e # "text"
    BY <1>2 DEF Ambiguous
  <2>5. e \in Results(p) /\ e # r
    BY <2>4, RankedSecond
  <2> HIDE DEF r, e
  <2>6. e \in Best(p)
    BY <2>3, <2>4, <2>5 DEF Best, Results
  <2>7. IsFiniteSet(Structured(p))
    BY <2>3, ResultsFinite, FS_Subset DEF Structured
  <2>8. Cardinality(Structured(p)) > 1
    BY <2>3, <2>4, <2>5, <2>6, <2>7, TwoElements DEF Structured
  <2>9. ASSUME "syslog" \in Structured(p) PROVE FALSE
    <3>1. "syslog" \in Best(p) /\ "syslog" \in Results(p) /\ "syslog" \in Decoders /\ r \in Decoders
      BY <2>9, <2>3 DEF Structured, Best
    <3>2. Before(r, "syslog", p) /\ Detect(r, p) = Detect("syslog", p)
      BY <3>1, <2>2, <2>3, <2>4, BestEqual
    <3>3. QED
      BY <3>1, <3>2, <2>4, BeforeScores
  <2>10. QED
    BY <2>8, <2>9
<1>3. QED
  BY <1>1, <1>2

-----------------------------------------------------------------------------
(* The invariant *)

\* The stages before the match, and the ones a matched record goes through.
Early == {"detect", "match"} \cup Decoders
Late == {"extract", "map", "validate"}

\* Where the record stands, and what no stage has filled in yet.
StageOK ==
    /\ stage \in Early \cup Late \cup {"done"}
    /\ managed \in BOOLEAN /\ (managed => snap \in Snapshots)
    /\ stage # "done" => outcome = Pending
    /\ stage \in {"detect"} \cup Decoders => rec = NoRecord
    /\ stage \in {"match"} \cup Late => rec # NoRecord
    /\ stage \in Early => extracted = <<>> /\ consumed = {} /\ event = <<>>
    /\ stage \in {"extract", "map"} => managed
    /\ stage = "extract" => todo \subseteq DOMAIN pack.fields
    /\ stage = "map" => todo \subseteq DOMAIN pack.map

\* The pack is the one of the snapshot that matches.
OnlyMatch(p) ==
    /\ p \in Range(snap) /\ Matches(p, rec)
    /\ \A q \in Range(snap) : Matches(q, rec) => q = p

\* The record has a value for a field.
Has(f) == LookupField(rec, pack.fields[f].from).type # "nil"

\* The fields that the loop of Extract has visited, and the entries that the one of Map has.
FieldsSeen == IF stage = "extract" THEN DOMAIN pack.fields \ todo ELSE DOMAIN pack.fields
MapSeen == IF stage = "map" THEN DOMAIN pack.map \ todo ELSE {}

\* What extraction has done with the fields it has visited.
ExtractOK ==
    stage \in Late /\ managed =>
      /\ OnlyMatch(pack)
      /\ DOMAIN extracted = { f \in FieldsSeen : Has(f) }
      /\ \A f \in FieldsSeen : ~Rejects(pack.fields[f])
      /\ \A f \in DOMAIN extracted : extracted[f] = Extracted(pack.fields[f])
      /\ consumed \subseteq UNION { ConsumedBy(pack.fields[f]) : f \in DOMAIN pack.fields }

\* What the mapping has written to the event.
MapOK ==
    stage \in {"extract", "map"} =>
      /\ DOMAIN event = { pack.map[f] : f \in MapSeen \cap DOMAIN extracted }
      /\ \A q \in DOMAIN event : \E f \in MapSeen \cap DOMAIN extracted :
           pack.map[f] = q /\ event[q] = extracted[f]

\* The event that is validated is the one the pack declares.
EventOK == stage = "validate" /\ managed => EventAsDeclared(pack)

\* The source fields of the record that are in no rule are still there.
KeptOK ==
    managed /\ (stage \in {"map", "validate"} \/ outcome = Normalized) /\ pack.preserve =>
      \A k \in TopLevel(rec) \ unmapped : \E f \in DOMAIN pack.fields : Trimmed(pack.fields[f].from) = <<k>>

NormInv ==
    /\ StageOK /\ ExtractOK /\ MapOK /\ EventOK /\ KeptOK
    /\ BestDecoderWins /\ OutcomeAsDeclared

-----------------------------------------------------------------------------
(* The decoder that wins *)

LEMMA BestInit == Init => BestDecoderWins
  BY RegistryIs DEF Init, BestDecoderWins, Decoding, Decoders, Pending

\* The two steps that detection ends with.
LEMMA BestDetected ==
  ASSUME StageOK, NotDetected \/ Detected PROVE BestDecoderWins'
<1>1. CASE NotDetected
  <2>1. payload' = payload /\ stage' = "done" /\ outcome' = <<"format_detect", "parse_error">>
    BY <1>1 DEF NotDetected, Quarantine
  <2>2. ~Decoding'
    BY <2>1, RegistryIs DEF Decoding, Decoders
  <2>3. \/ \A d \in Best(payload) : Detect(d, payload) < 50
        \/ Cardinality(Structured(payload)) > 1 /\ "syslog" \notin Structured(payload)
    BY <1>1, RefusedPayload DEF NotDetected
  <2>4. QED
    BY <2>1, <2>2, <2>3, RegistryIs DEF BestDecoderWins, Best, Structured
<1>2. CASE Detected
  <2>1. payload' = payload /\ outcome' = outcome /\ stage' = DetectRanked(payload)[1]
    BY <1>2 DEF Detected
  <2>2. DetectRanked(payload) # <<>> /\ ~Ambiguous(DetectRanked(payload), payload) /\ stage = "detect"
    BY <1>2 DEF Detected
  <2>3. /\ stage' \in Best(payload) /\ Detect(stage', payload) >= 50
        /\ stage' = "text" => Structured(payload) = {}
        /\ stage' # "text" => Structured(payload) = {stage'} \/ stage' = "syslog"
    BY <2>1, <2>2, ChosenDecoder
  <2>4. outcome = Pending
    BY <2>2 DEF StageOK
  <2>5. outcome'[1] # "format_detect"
    BY <2>1, <2>4 DEF Pending
  <2>6. QED
    BY <2>1, <2>3, <2>5, RegistryIs DEF BestDecoderWins, Best, Structured
<1>3. QED
  BY <1>1, <1>2

\* The other steps do not choose a decoder.
LEMMA BestElsewhere ==
  ASSUME stage' \notin Decoders, outcome'[1] # "format_detect" PROVE BestDecoderWins'
  BY RegistryIs DEF BestDecoderWins, Decoding

-----------------------------------------------------------------------------
(* The targets of a mapping *)

LEMMA SamePrefix ==
  ASSUME NEW s, NEW t, NEW n \in Nat, SubSeq(s, 1, n) = SubSeq(t, 1, n), NEW i \in 1..n
  PROVE  s[i] = t[i]
  OBVIOUS

\* No target is a prefix of another one.
LEMMA TargetsApart == \A a, b \in Target : IsPrefix(a, b) => a = b
<1> SUFFICES ASSUME NEW a \in Target, NEW b \in Target, Len(a) <= Len(b),
                    SubSeq(a, 1, Len(a)) = SubSeq(b, 1, Len(a))
             PROVE  a = b
  BY DEF IsPrefix
<1>1. Len(a) \in Nat
  BY DEF Target
<1>2. \A i \in 1..Len(a) : a[i] = b[i]
  BY <1>1, SamePrefix
<1>3. Len(a) \in 1..3 /\ Len(b) \in 1..3
  BY DEF Target
<1>4. CASE Len(a) = 1
  <2>1. a[1] = b[1]
    BY <1>2, <1>4
  <2>2. a \in { <<"time">>, <<"category_name">>, <<"class_name">>, <<"severity_id">>, <<"message">> }
    <3>1. /\ Len(<<"src_endpoint", "ip">>) # 1 /\ Len(<<"src_endpoint", "port">>) # 1
          /\ Len(<<"dst_endpoint", "ip">>) # 1 /\ Len(<<"dst_endpoint", "port">>) # 1
          /\ Len(<<"actor", "user", "name">>) # 1
      OBVIOUS
    <3>2. QED
      BY <1>4, <3>1, Zenon DEF Target
  <2>3. /\ b[1] = "time" => b = <<"time">>
        /\ b[1] = "category_name" => b = <<"category_name">>
        /\ b[1] = "class_name" => b = <<"class_name">>
        /\ b[1] = "severity_id" => b = <<"severity_id">>
        /\ b[1] = "message" => b = <<"message">>
    BY DEF Target
  <2>4. QED
    BY <2>1, <2>2, <2>3
<1>5. CASE Len(a) = 2
  BY <1>2, <1>5 DEF Target
<1>6. CASE Len(a) = 3
  BY <1>2, <1>6 DEF Target
<1>7. QED
  BY <1>3, <1>4, <1>5, <1>6

DefaultNames == {"time", "category_name", "class_name", "type_name"}

\* A target that starts with the name of a default is that default's path.
LEMMA TargetsOfDefaults == \A t \in Target : \A k \in DefaultNames : t[1] = k => t = <<k>>
  BY DEF Target, DefaultNames

\* The pack of a record that matched was validated.
LEMMA MatchedPackValid ==
  ASSUME StageOK, ExtractOK, stage \in Late, managed
  PROVE  \A f \in DOMAIN pack.map : f \in DOMAIN pack.fields /\ pack.map[f] \in Target
<1>1. snap \in Snapshots /\ pack \in Range(snap)
  BY DEF StageOK, ExtractOK, OnlyMatch
<1>2. ValidPack(pack)
  BY <1>1, NormalizationAssumption DEF ValidSnapshot, Range
<1>3. QED
  BY <1>2 DEF ValidPack

\* What SetNestedValue leaves alone, and what it sets.
OnTargets(e) == DOMAIN e \subseteq Target

LEMMA SetNestedValueIs ==
  ASSUME NEW e, OnTargets(e), NEW path \in Target, NEW v
  PROVE  /\ DOMAIN SetNestedValue(e, path, v) = DOMAIN e \cup {path}
         /\ \A q \in DOMAIN e \cup {path} :
              SetNestedValue(e, path, v)[q] = IF q = path THEN v ELSE e[q]
<1> DEFINE K == { q \in DOMAIN e : ~IsPrefix(q, path) /\ ~IsPrefix(path, q) }
           g == [ q \in K |-> e[q] ]
<1>1. SetNestedValue(e, path, v) = [ y \in K \cup {path} |-> IF y = path THEN v ELSE g[y] ]
  BY DEF SetNestedValue, Put, Restrict
<1>2. K \cup {path} = DOMAIN e \cup {path}
  BY TargetsApart DEF OnTargets
<1>3. \A q \in DOMAIN e \cup {path} : q # path => q \in K
  BY <1>2
<1> HIDE DEF K
<1>4. QED
  BY <1>1, <1>2, <1>3

-----------------------------------------------------------------------------
(* The steps up to the match *)

LEMMA NormInit == Init => NormInv
<1> SUFFICES ASSUME Init PROVE NormInv
  OBVIOUS
<1>1. StageOK
  BY DEF Init, StageOK, Early, Late, Decoders
<1>2. BestDecoderWins
  BY BestInit
<1>3. QED
  BY <1>1, <1>2 DEF Init, NormInv, ExtractOK, MapOK, EventOK, KeptOK, OutcomeAsDeclared, Late, Pending, Normalized

\* A step that ends in quarantine and not at detection: only what it says of the outcome is new.
LEMMA SetAside ==
  ASSUME StageOK, stage' = "done", UNCHANGED <<managed, snap>>,
         outcome'[1] # "format_detect", outcome' # Normalized, OutcomeAsDeclared'
  PROVE  NormInv'
<1>1. StageOK'
  BY DEF StageOK, Early, Late, Decoders
<1>2. stage' \notin Decoders
  BY DEF Decoders
<1>3. BestDecoderWins'
  BY <1>2, BestElsewhere
<1>4. QED
  BY <1>1, <1>3 DEF NormInv, ExtractOK, MapOK, EventOK, KeptOK, Late

LEMMA DetectSteps ==
  ASSUME NormInv, NotDetected \/ Detected PROVE NormInv'
<1>1. StageOK /\ stage = "detect" /\ rec = NoRecord /\ outcome = Pending
  BY DEF NormInv, StageOK, NotDetected, Detected, Decoders
<1>2. BestDecoderWins'
  BY <1>1, BestDetected
<1>3. CASE NotDetected
  <2>1. /\ stage' = "done" /\ outcome' = <<"format_detect", "parse_error">>
        /\ UNCHANGED <<managed, snap, rec, pack, extracted, consumed, event>>
    BY <1>3 DEF NotDetected, Quarantine
  <2>2. StageOK'
    BY <1>1, <2>1 DEF StageOK, Early, Late, Decoders
  <2>3. QED
    BY <1>1, <1>2, <2>1, <2>2
    DEF NormInv, ExtractOK, MapOK, EventOK, KeptOK, OutcomeAsDeclared, Late, Normalized
<1>4. CASE Detected
  <2>1. UNCHANGED <<managed, snap, rec, pack, extracted, consumed, event, outcome>>
    BY <1>4 DEF Detected
  <2>2. stage' \in Decoders
    <3>1. stage' = DetectRanked(payload)[1] /\ DetectRanked(payload) # <<>>
      BY <1>4 DEF Detected
    <3>2. QED
      BY <3>1, RankedFirst DEF Results
  <2>3. stage' \notin Late \cup {"match", "done", "detect"}
    BY <2>2 DEF Decoders, Late
  <2>4. StageOK'
    BY <1>1, <2>1, <2>2, <2>3 DEF StageOK, Early, Late
  <2>5. QED
    BY <1>1, <1>2, <2>1, <2>3, <2>4
    DEF NormInv, ExtractOK, MapOK, EventOK, KeptOK, OutcomeAsDeclared, Late, Normalized, Pending
<1>5. QED
  BY <1>3, <1>4

\* Every format of a record has a name.
LEMMA FormatsNamed == \A d \in Decoders : \A p : "none" \notin Formats(d, p)
  BY DEF Decoders, Formats, SyslogFormats, JSONFormats, TextFormats

LEMMA DecodeSteps ==
  ASSUME NormInv, DecodeFails \/ Decode PROVE NormInv'
<1>1. StageOK /\ stage \in Decoders /\ rec = NoRecord /\ outcome = Pending
  BY RegistryIs DEF NormInv, StageOK, DecodeFails, Decode, Decoding, Decoders
<1>2. CASE DecodeFails
  <2>1. /\ stage' = "done" /\ outcome' = <<"decode", "parse_error">>
        /\ UNCHANGED <<managed, snap, rec>>
    BY <1>2 DEF DecodeFails, Quarantine
  <2>2. OutcomeAsDeclared'
    BY <1>1, <2>1 DEF OutcomeAsDeclared
  <2>3. outcome'[1] # "format_detect" /\ outcome' # Normalized
    BY <2>1 DEF Normalized
  <2>4. QED
    BY <1>1, <2>1, <2>2, <2>3, SetAside
<1>3. CASE Decode
  <2>1. /\ stage' = "match"
        /\ UNCHANGED <<managed, snap, pack, extracted, consumed, event, outcome>>
    BY <1>3 DEF Decode
  <2>2. rec' # NoRecord
    <3>1. PICK f \in Formats(stage, payload), c \in Contents :
            rec' = [format |-> f, fields |-> c.fields, headers |-> c.headers, raw |-> c.raw]
      BY <1>3 DEF Decode
    <3>2. f # "none"
      BY <1>1, <3>1, FormatsNamed
    <3>3. rec'.format = f
      BY <3>1
    <3>4. NoRecord.format = "none"
      BY DEF NoRecord
    <3>5. QED
      BY <3>2, <3>3, <3>4
  <2>3. StageOK'
    BY <1>1, <2>1, <2>2 DEF StageOK, Early, Late, Decoders
  <2>4. BestDecoderWins'
    BY <1>1, <2>1, BestElsewhere DEF Decoders, Pending
  <2>5. QED
    BY <1>1, <2>1, <2>3, <2>4
    DEF NormInv, ExtractOK, MapOK, EventOK, KeptOK, OutcomeAsDeclared, Late, Normalized, Pending
<1>4. QED
  BY <1>2, <1>3

\* The packs that match, as a set of packs and as a set of places in the snapshot.
LEMMA MatchFacts ==
  ASSUME StageOK, managed
  PROVE  LET M == { p \in Range(snap) : Matches(p, rec) }
         IN  /\ IsFiniteSet(Match)
             /\ M = { snap[i] : i \in Match }
             /\ \A i, j \in Match : snap[i] = snap[j] => i = j
<1>1. ValidSnapshot(snap)
  BY NormalizationAssumption DEF StageOK
<1>2. snap \in Seq(Range(snap)) /\ \A i, j \in DOMAIN snap : snap[i].name = snap[j].name => i = j
  BY <1>1 DEF ValidSnapshot
<1>3. DOMAIN snap = 1..Len(snap) /\ Len(snap) \in Nat
  BY <1>2
<1>4. IsFiniteSet(1..Len(snap))
  BY <1>3, FS_Interval
<1>5. IsFiniteSet(Match)
  BY <1>3, <1>4, FS_Subset DEF Match
<1>6. QED
  BY <1>2, <1>5 DEF Match, Range

LEMMA MatchSteps ==
  ASSUME NormInv, NoMatch \/ MatchOne PROVE NormInv'
<1> DEFINE M == { p \in Range(snap) : Matches(p, rec) }
<1>1. StageOK /\ stage = "match" /\ managed /\ rec # NoRecord /\ outcome = Pending
  BY DEF NormInv, StageOK, NoMatch, MatchOne
<1>2. /\ IsFiniteSet(Match) /\ M = { snap[i] : i \in Match }
      /\ \A i, j \in Match : snap[i] = snap[j] => i = j
  BY <1>1, MatchFacts
<1> HIDE DEF M
<1>3. CASE NoMatch
  <2>1. /\ stage' = "done" /\ UNCHANGED <<managed, snap, rec>>
        /\ outcome' = <<"parser_match", IF Match = {} THEN "unknown_source" ELSE "ambiguous_source">>
        /\ Cardinality(Match) # 1
    BY <1>3 DEF NoMatch, Quarantine
  <2>2. M = {} <=> Match = {}
    BY <1>2
  <2>3. ASSUME NEW p \in M, M = {p} PROVE FALSE
    <3>1. PICK i \in Match : p = snap[i]
      BY <1>2, <2>3
    <3>2. \A j \in Match : j = i
      BY <1>2, <2>3, <3>1
    <3>3. Match = {i}
      BY <3>2
    <3>4. QED
      BY <3>3, <2>1, FS_Singleton
  <2>4. ASSUME Cardinality(M) > 1 PROVE M # {}
    BY <2>4, FS_EmptySet
  <2>5. OutcomeAsDeclared'
    BY <1>1, <2>1, <2>2, <2>3, <2>4 DEF OutcomeAsDeclared, M
  <2>6. outcome'[1] # "format_detect" /\ outcome' # Normalized
    BY <2>1 DEF Normalized
  <2>7. QED
    BY <1>1, <2>1, <2>5, <2>6, SetAside
<1>4. CASE MatchOne
  <2>1. PICK i \in Match : Match = {i} /\ pack' = snap[i] /\ todo' = DOMAIN snap[i].fields
    BY <1>4 DEF MatchOne
  <2>2. stage' = "extract" /\ UNCHANGED <<managed, snap, rec, extracted, consumed, event, unmapped, outcome>>
    BY <1>4 DEF MatchOne
  <2>3. extracted = <<>> /\ consumed = {} /\ event = <<>>
    BY <1>1 DEF StageOK, Early
  <2>4. StageOK'
    BY <1>1, <2>1, <2>2 DEF StageOK, Early, Late, Decoders
  <2>5. OnlyMatch(pack)'
    <3>1. pack' \in Range(snap) /\ Matches(pack', rec)
      BY <2>1 DEF Match, Range
    <3>2. M = {pack'}
      BY <2>1, <1>2
    <3>3. QED
      BY <3>1, <3>2, <2>2 DEF OnlyMatch, M
  <2>6. FieldsSeen' = {}
    BY <2>1, <2>2 DEF FieldsSeen
  <2>7. ExtractOK'
    BY <2>2, <2>3, <2>5, <2>6 DEF ExtractOK
  <2>8. MapOK'
    BY <2>2, <2>3 DEF MapOK, MapSeen
  <2>9. BestDecoderWins'
    BY <1>1, <2>2, BestElsewhere DEF Decoders, Pending
  <2>10. QED
    BY <1>1, <2>2, <2>4, <2>7, <2>8, <2>9
    DEF NormInv, EventOK, KeptOK, OutcomeAsDeclared, Normalized, Pending
<1>5. QED
  BY <1>3, <1>4

\* Without a pack manager nothing is promised of the event.
LEMMA UnmanagedSteps ==
  ASSUME NormInv, Unclassified \/ PassThrough PROVE NormInv'
<1>1. StageOK /\ stage = "match" /\ ~managed /\ rec # NoRecord /\ outcome = Pending
  BY DEF NormInv, StageOK, Unclassified, PassThrough
<1>2. CASE Unclassified
  <2>1. /\ stage' = "done" /\ UNCHANGED <<managed, snap, rec>>
        /\ outcome' = <<"parser_match", "unknown_source">>
    BY <1>2 DEF Unclassified, Quarantine
  <2>2. OutcomeAsDeclared'
    BY <1>1, <2>1 DEF OutcomeAsDeclared
  <2>3. outcome'[1] # "format_detect" /\ outcome' # Normalized
    BY <2>1 DEF Normalized
  <2>4. QED
    BY <1>1, <2>1, <2>2, <2>3, SetAside
<1>3. CASE PassThrough
  <2>1. stage' = "validate" /\ UNCHANGED <<managed, snap, rec, outcome>>
    BY <1>3 DEF PassThrough
  <2>2. StageOK'
    BY <1>1, <2>1 DEF StageOK, Early, Late, Decoders
  <2>3. BestDecoderWins'
    BY <1>1, <2>1, BestElsewhere DEF Decoders, Pending
  <2>4. QED
    BY <1>1, <2>1, <2>2, <2>3 DEF NormInv, ExtractOK, MapOK, EventOK, KeptOK, OutcomeAsDeclared
<1>4. QED
  BY <1>2, <1>3

-----------------------------------------------------------------------------
(* Extraction *)

\* What a matched record ends as.
LEMMA MatchedOutcome ==
  ASSUME OnlyMatch(pack), UNCHANGED <<managed, snap, rec, pack>>,
         IF \E f \in DOMAIN pack.fields : Rejects(pack.fields[f])
           THEN outcome' = <<"normalize", "schema_error">>
           ELSE /\ EventAsDeclared(pack)'
                /\ outcome' = IF Conforms(event)' THEN Normalized ELSE <<"validate", "schema_error">>
  PROVE  OutcomeAsDeclared'
<1> DEFINE M == { p \in Range(snap) : Matches(p, rec) }
<1>1. M = {pack} /\ M # {} /\ pack' = pack
  BY DEF OnlyMatch
<1>2. ~(Cardinality(M) > 1)
  <2> HIDE DEF M
  <2>1. Cardinality(M) = 1
    BY <1>1, FS_Singleton
  <2>2. QED
    BY <2>1
<1>3. { p \in Range(snap') : Matches(p, rec') } = M
  OBVIOUS
<1>4. \A rule : Rejects(rule)' <=> Rejects(rule)
  BY DEF Rejects
<1>5. ASSUME NEW p \in M
      PROVE  IF \E f \in DOMAIN p.fields : Rejects(p.fields[f])'
               THEN outcome' = <<"normalize", "schema_error">>
               ELSE /\ EventAsDeclared(p)'
                    /\ outcome' = IF Conforms(event)' THEN Normalized ELSE <<"validate", "schema_error">>
  <2>1. p = pack /\ p = pack'
    BY <1>1, <1>5
  <2>2. EventAsDeclared(p)' <=> EventAsDeclared(pack)'
    BY <2>1 DEF EventAsDeclared
  <2>3. QED
    BY <2>1, <2>2, <1>4
<1> HIDE DEF M
<1>6. QED
  BY <1>1, <1>2, <1>3, <1>5 DEF OutcomeAsDeclared

LEMMA RejectStep ==
  ASSUME NormInv, NEW f \in todo, RejectField(f) PROVE NormInv'
<1>1. /\ stage = "extract" /\ Rejects(pack.fields[f]) /\ stage' = "done"
      /\ outcome' = <<"normalize", "schema_error">>
      /\ UNCHANGED <<managed, snap, rec, pack>>
  BY DEF RejectField, Quarantine
<1>2. StageOK /\ managed /\ OnlyMatch(pack) /\ f \in DOMAIN pack.fields
  BY <1>1 DEF NormInv, StageOK, ExtractOK, Late
<1>3. OutcomeAsDeclared'
  BY <1>1, <1>2, MatchedOutcome
<1>4. outcome'[1] # "format_detect" /\ outcome' # Normalized
  BY <1>1 DEF Normalized
<1>5. QED
  BY <1>1, <1>2, <1>3, <1>4, SetAside

LEMMA ExtractStep ==
  ASSUME NormInv, NEW f \in todo, ExtractField(f) PROVE NormInv'
<1>1. /\ stage = "extract" /\ ~Rejects(pack.fields[f]) /\ todo' = todo \ {f}
      /\ UNCHANGED <<managed, snap, stage, rec, pack, event, unmapped, outcome>>
      /\ IF ~Has(f) THEN UNCHANGED <<extracted, consumed>>
         ELSE /\ extracted' = Put(extracted, f, Extracted(pack.fields[f]))
              /\ consumed' = consumed \cup ConsumedBy(pack.fields[f])
  BY DEF ExtractField, Has
<1>2. StageOK /\ managed /\ ExtractOK /\ MapOK /\ outcome = Pending
  BY <1>1 DEF NormInv, StageOK
<1>3. StageOK'
  BY <1>1, <1>2 DEF StageOK, Early, Decoders
<1>4. OnlyMatch(pack)' /\ f \in DOMAIN pack.fields
  BY <1>1, <1>2 DEF ExtractOK, OnlyMatch, Late, StageOK
<1>5. FieldsSeen' = FieldsSeen \cup {f} /\ f \notin FieldsSeen
  BY <1>1, <1>4 DEF FieldsSeen
<1>6. /\ DOMAIN extracted = { g \in FieldsSeen : Has(g) }
      /\ \A g \in FieldsSeen : ~Rejects(pack.fields[g])
      /\ \A g \in DOMAIN extracted : extracted[g] = Extracted(pack.fields[g])
      /\ consumed \subseteq UNION { ConsumedBy(pack.fields[g]) : g \in DOMAIN pack.fields }
  BY <1>1, <1>2 DEF ExtractOK, Late
<1>7. /\ \A g : Has(g)' <=> Has(g)
      /\ \A rule : Rejects(rule)' <=> Rejects(rule)
      /\ \A rule : Extracted(rule)' = Extracted(rule)
  BY <1>1 DEF Has, Rejects, Extracted
<1>8. /\ DOMAIN extracted' = { g \in FieldsSeen' : Has(g) }
      /\ \A g \in DOMAIN extracted' : extracted'[g] = Extracted(pack.fields[g])
  BY <1>1, <1>5, <1>6 DEF Put
<1>9. consumed' \subseteq UNION { ConsumedBy(pack.fields[g]) : g \in DOMAIN pack.fields }
  BY <1>1, <1>4, <1>6
<1>10. ExtractOK'
  <2>1. \A g \in FieldsSeen' : ~Rejects(pack.fields[g])
    BY <1>1, <1>5, <1>6
  <2>2. DOMAIN extracted' = { g \in FieldsSeen' : Has(g)' }
    BY <1>7, <1>8
  <2>3. pack' = pack
    BY <1>1
  <2>4. QED
    BY <1>4, <1>7, <1>8, <1>9, <2>1, <2>2, <2>3 DEF ExtractOK
<1>11. MapOK'
  BY <1>1, <1>2 DEF MapOK, MapSeen
<1>12. BestDecoderWins'
  BY <1>1, <1>2, BestElsewhere DEF Decoders, Pending
<1>13. QED
  BY <1>1, <1>2, <1>3, <1>10, <1>11, <1>12
  DEF NormInv, EventOK, KeptOK, OutcomeAsDeclared, Normalized, Pending

\* A source field that is marked is named by a rule.
LEMMA ConsumedNamed ==
  ASSUME NEW rule, NEW k, <<k>> \in ConsumedBy(rule) PROVE Trimmed(rule.from) = <<k>>
<1>1. CASE rule.from = <<k>>
  BY <1>1 DEF Trimmed
<1>2. CASE rule.from # <<k>>
  BY <1>2 DEF ConsumedBy
<1>3. QED
  BY <1>1, <1>2

LEMMA PreserveStep ==
  ASSUME NormInv, PreserveUnmapped PROVE NormInv'
<1>1. /\ stage = "extract" /\ todo = {} /\ stage' = "map" /\ todo' = DOMAIN pack.map
      /\ unmapped' = IF pack.preserve THEN { k \in TopLevel(rec) : <<k>> \notin consumed } ELSE {}
      /\ UNCHANGED <<managed, snap, rec, pack, extracted, consumed, event, outcome>>
  BY DEF PreserveUnmapped
<1>2. StageOK /\ managed /\ ExtractOK /\ MapOK /\ outcome = Pending
  BY <1>1 DEF NormInv, StageOK
<1>3. StageOK'
  BY <1>1, <1>2 DEF StageOK, Early, Late, Decoders
<1>4. FieldsSeen' = FieldsSeen /\ MapSeen' = {} /\ MapSeen = {}
  BY <1>1 DEF FieldsSeen, MapSeen
<1>5. ExtractOK'
  BY <1>1, <1>2, <1>4 DEF ExtractOK, OnlyMatch, Has, Rejects, Extracted, Late
<1>6. MapOK'
  BY <1>1, <1>2, <1>4 DEF MapOK
<1>7. ASSUME pack.preserve, NEW k \in TopLevel(rec), k \notin unmapped'
      PROVE  \E f \in DOMAIN pack.fields : Trimmed(pack.fields[f].from) = <<k>>
  <2>1. <<k>> \in consumed
    BY <1>1, <1>7
  <2>2. PICK f \in DOMAIN pack.fields : <<k>> \in ConsumedBy(pack.fields[f])
    BY <1>1, <1>2, <2>1 DEF ExtractOK, Late
  <2>3. QED
    BY <2>2, ConsumedNamed
<1>8. KeptOK'
  BY <1>1, <1>7 DEF KeptOK, TopLevel
<1>9. BestDecoderWins'
  BY <1>1, <1>2, BestElsewhere DEF Decoders, Pending
<1>10. QED
  BY <1>1, <1>3, <1>5, <1>6, <1>8, <1>9 DEF NormInv, EventOK, OutcomeAsDeclared

-----------------------------------------------------------------------------
(* The event *)

LEMMA MapStep ==
  ASSUME NormInv, NEW f \in todo, MapField(f) PROVE NormInv'
<1>1. /\ stage = "map" /\ todo' = todo \ {f}
      /\ event' = IF f \in DOMAIN extracted THEN SetNestedValue(event, pack.map[f], extracted[f]) ELSE event
      /\ UNCHANGED <<managed, snap, stage, rec, pack, extracted, consumed, unmapped, outcome>>
  BY DEF MapField
<1>2. StageOK /\ managed /\ ExtractOK /\ MapOK /\ KeptOK /\ outcome = Pending /\ f \in DOMAIN pack.map
  BY <1>1 DEF NormInv, StageOK
<1>3. StageOK'
  BY <1>1, <1>2 DEF StageOK, Early, Late, Decoders
<1>4. \A g \in DOMAIN pack.map : pack.map[g] \in Target
  BY <1>1, <1>2, MatchedPackValid DEF Late
<1>5. MapSeen' = MapSeen \cup {f} /\ MapSeen \subseteq DOMAIN pack.map
  BY <1>1, <1>2 DEF MapSeen
<1>6. /\ DOMAIN event = { pack.map[g] : g \in MapSeen \cap DOMAIN extracted }
      /\ \A q \in DOMAIN event : \E g \in MapSeen \cap DOMAIN extracted :
           pack.map[g] = q /\ event[q] = extracted[g]
  BY <1>1, <1>2 DEF MapOK
<1>7. OnTargets(event)
  BY <1>4, <1>5, <1>6 DEF OnTargets
<1>8. MapOK'
  <2>1. CASE f \notin DOMAIN extracted
    <3>1. MapSeen' \cap DOMAIN extracted' = MapSeen \cap DOMAIN extracted
      BY <1>1, <1>5, <2>1
    <3>2. QED
      BY <1>1, <1>6, <2>1, <3>1 DEF MapOK
  <2>2. CASE f \in DOMAIN extracted
    <3> DEFINE t == pack.map[f]
    <3>1. /\ DOMAIN event' = DOMAIN event \cup {t}
          /\ \A q \in DOMAIN event \cup {t} : event'[q] = IF q = t THEN extracted[f] ELSE event[q]
      <4>1. t \in Target /\ event' = SetNestedValue(event, t, extracted[f])
        BY <1>1, <1>2, <1>4, <2>2
      <4> HIDE DEF t
      <4>2. /\ DOMAIN SetNestedValue(event, t, extracted[f]) = DOMAIN event \cup {t}
            /\ \A q \in DOMAIN event \cup {t} :
                 SetNestedValue(event, t, extracted[f])[q] = IF q = t THEN extracted[f] ELSE event[q]
        BY <4>1, <1>7, SetNestedValueIs
      <4>3. QED
        BY <4>1, <4>2
    <3>2. DOMAIN event' = { pack.map[g] : g \in MapSeen' \cap DOMAIN extracted }
      BY <3>1, <1>5, <1>6, <2>2
    <3>3. ASSUME NEW q \in DOMAIN event'
          PROVE  \E g \in MapSeen' \cap DOMAIN extracted : pack.map[g] = q /\ event'[q] = extracted[g]
      <4>1. CASE q = t
        BY <4>1, <3>1, <1>5, <2>2
      <4>2. CASE q # t
        BY <4>2, <3>1, <1>5, <1>6
      <4>3. QED
        BY <4>1, <4>2
    <3>4. QED
      BY <1>1, <3>2, <3>3 DEF MapOK
  <2>3. QED
    BY <2>1, <2>2
<1>9. ExtractOK'
  BY <1>1, <1>2 DEF ExtractOK, OnlyMatch, FieldsSeen, Has, Rejects, Extracted, Late
<1>10. KeptOK'
  BY <1>1, <1>2 DEF KeptOK, TopLevel
<1>11. BestDecoderWins'
  BY <1>1, <1>2, BestElsewhere DEF Decoders, Pending
<1>12. QED
  BY <1>1, <1>3, <1>8, <1>9, <1>10, <1>11 DEF NormInv, EventOK, OutcomeAsDeclared

\* The defaults are added where the mapping left nothing, and only there.
LEMMA EnrichStep ==
  ASSUME NormInv, Enrich PROVE NormInv'
<1>1. /\ stage = "map" /\ todo = {} /\ stage' = "validate"
      /\ event' = WithDefaults(event, DefaultNames)
      /\ UNCHANGED <<managed, snap, rec, pack, extracted, consumed, unmapped, outcome>>
  BY DEF Enrich, DefaultNames
<1>2. StageOK /\ managed /\ ExtractOK /\ MapOK /\ KeptOK /\ outcome = Pending
  BY <1>1 DEF NormInv, StageOK
<1>3. StageOK'
  BY <1>1, <1>2 DEF StageOK, Early, Late, Decoders
<1>4. \A g \in DOMAIN pack.map : g \in DOMAIN pack.fields /\ pack.map[g] \in Target
  BY <1>1, <1>2, MatchedPackValid DEF Late
<1>5. /\ DOMAIN extracted = { g \in DOMAIN pack.fields : Has(g) }
      /\ \A g \in DOMAIN extracted : extracted[g] = Extracted(pack.fields[g])
  BY <1>1, <1>2 DEF ExtractOK, FieldsSeen, Late
<1> DEFINE Present == { g \in DOMAIN pack.map : Has(g) }
           Lacking == { n \in DefaultNames : \A q \in DOMAIN event : q[1] # n }
<1>6. MapSeen \cap DOMAIN extracted = Present
  BY <1>1, <1>4, <1>5 DEF MapSeen
<1>7. /\ DOMAIN event = { pack.map[g] : g \in Present }
      /\ \A q \in DOMAIN event : \E g \in Present : pack.map[g] = q /\ event[q] = Extracted(pack.fields[g])
  BY <1>1, <1>2, <1>4, <1>5, <1>6 DEF MapOK
<1>8. DOMAIN event \subseteq Target
  BY <1>4, <1>7
<1>9. /\ DOMAIN event' = DOMAIN event \cup { <<k>> : k \in Lacking }
      /\ \A q \in DOMAIN event' : event'[q] = IF q \in DOMAIN event THEN event[q] ELSE Default(q[1])
  BY <1>1 DEF WithDefaults
<1>10. DOMAIN event' = DOMAIN event \cup { <<k>> : k \in DefaultNames }
  <2>1. ASSUME NEW k \in DefaultNames, k \notin Lacking PROVE <<k>> \in DOMAIN event
    BY <2>1, <1>8, TargetsOfDefaults
  <2>2. QED
    BY <1>9, <2>1
<1>11. EventAsDeclared(pack)'
  <2>1. { <<k>> : k \in DefaultNames } = { <<"time">>, <<"category_name">>, <<"class_name">>, <<"type_name">> }
    BY DEF DefaultNames
  <2>2. \A q \in DOMAIN event' :
          IF { g \in Present : pack.map[g] = q } = {} THEN event'[q] = Default(q[1])
          ELSE \E g \in { h \in Present : pack.map[h] = q } : event'[q] = Extracted(pack.fields[g])
    <3> SUFFICES ASSUME NEW q \in DOMAIN event'
                 PROVE  IF { g \in Present : pack.map[g] = q } = {} THEN event'[q] = Default(q[1])
                        ELSE \E g \in { h \in Present : pack.map[h] = q } : event'[q] = Extracted(pack.fields[g])
      OBVIOUS
    <3>1. CASE q \in DOMAIN event
      BY <3>1, <1>7, <1>9
    <3>2. CASE q \notin DOMAIN event
      BY <3>2, <1>7, <1>9
    <3>3. QED
      BY <3>1, <3>2
  <2>3. DOMAIN event' = { pack.map[g] : g \in Present } \cup
          { <<"time">>, <<"category_name">>, <<"class_name">>, <<"type_name">> }
    BY <1>7, <1>10, <2>1
  <2>4. Present = { g \in DOMAIN pack.map : LookupField(rec, pack.fields[g].from).type # "nil" }
    BY DEF Has
  <2>5. \A rule : Extracted(rule)' = Extracted(rule)
    BY <1>1 DEF Extracted
  <2>6. pack' = pack /\ rec' = rec
    BY <1>1
  <2> HIDE DEF Present, Lacking
  <2>7. QED
    BY <2>2, <2>3, <2>4, <2>5, <2>6 DEF EventAsDeclared
<1>12. ExtractOK'
  BY <1>1, <1>2 DEF ExtractOK, OnlyMatch, FieldsSeen, Has, Rejects, Extracted, Late
<1>13. KeptOK'
  BY <1>1, <1>2 DEF KeptOK, TopLevel
<1>14. BestDecoderWins'
  BY <1>1, <1>2, BestElsewhere DEF Decoders, Pending
<1>15. QED
  BY <1>1, <1>3, <1>11, <1>12, <1>13, <1>14 DEF NormInv, MapOK, EventOK, OutcomeAsDeclared

LEMMA ValidateSteps ==
  ASSUME NormInv, Validate \/ ValidateFails PROVE NormInv'
<1>1. /\ stage = "validate" /\ stage' = "done"
      /\ outcome' = IF Conforms(event) THEN Normalized ELSE <<"validate", "schema_error">>
      /\ UNCHANGED <<managed, snap, rec, pack, extracted, consumed, event, unmapped>>
  BY DEF Validate, ValidateFails, Quarantine
<1>2. StageOK /\ ExtractOK /\ EventOK /\ KeptOK
  BY DEF NormInv
<1>3. StageOK'
  BY <1>1, <1>2 DEF StageOK, Early, Late, Decoders
<1>4. outcome'[1] # "format_detect"
  BY <1>1 DEF Normalized
<1>5. BestDecoderWins'
  BY <1>1, <1>4, BestElsewhere DEF Decoders
<1>6. KeptOK'
  BY <1>1, <1>2 DEF KeptOK, TopLevel
<1>7. OutcomeAsDeclared'
  <2>1. CASE ~managed
    BY <1>1, <2>1 DEF OutcomeAsDeclared
  <2>2. CASE managed
    <3>1. OnlyMatch(pack) /\ \A f \in DOMAIN pack.fields : ~Rejects(pack.fields[f])
      BY <1>1, <1>2, <2>2 DEF ExtractOK, FieldsSeen, Late
    <3>2. EventAsDeclared(pack)'
      BY <1>1, <1>2, <2>2 DEF EventOK, EventAsDeclared, Extracted
    <3>3. Conforms(event)' <=> Conforms(event)
      BY <1>1 DEF Conforms, EndpointConforms, At
    <3>4. QED
      BY <1>1, <3>1, <3>2, <3>3, MatchedOutcome
  <2>3. QED
    BY <1>2, <2>1, <2>2 DEF StageOK
<1>8. QED
  BY <1>1, <1>3, <1>5, <1>6, <1>7 DEF NormInv, ExtractOK, MapOK, EventOK, Late

-----------------------------------------------------------------------------
(* The theorems *)

LEMMA NormNext == NormInv /\ [Next]_vars => NormInv'
<1> SUFFICES ASSUME NormInv, [Next]_vars PROVE NormInv'
  OBVIOUS
<1>1. CASE UNCHANGED vars
  <2>1. UNCHANGED <<payload, managed, snap, stage, rec, pack, todo, extracted, consumed, event, unmapped, outcome>>
    BY <1>1 DEF vars
  <2>2. StageOK' /\ MapOK' /\ KeptOK'
    BY <2>1 DEF NormInv, StageOK, MapOK, KeptOK, MapSeen, TopLevel
  <2>3. ExtractOK'
    BY <2>1 DEF NormInv, ExtractOK, OnlyMatch, FieldsSeen, Has, Rejects, Extracted
  <2>4. \A p : EventAsDeclared(p)' <=> EventAsDeclared(p)
    BY <2>1 DEF EventAsDeclared, Extracted
  <2>5. EventOK'
    BY <2>1, <2>4 DEF NormInv, EventOK
  <2>6. BestDecoderWins'
    BY <2>1 DEF NormInv, BestDecoderWins, Decoding
  <2>7. OutcomeAsDeclared'
    <3>1. \A rule : Rejects(rule)' <=> Rejects(rule)
      BY <2>1 DEF Rejects
    <3>2. Conforms(event)' <=> Conforms(event)
      BY <2>1 DEF Conforms, EndpointConforms, At
    <3>3. QED
      BY <2>1, <2>4, <3>1, <3>2 DEF NormInv, OutcomeAsDeclared
  <2>8. QED
    BY <2>2, <2>3, <2>5, <2>6, <2>7 DEF NormInv
<1>2. CASE NotDetected \/ Detected
  BY <1>2, DetectSteps
<1>3. CASE DecodeFails \/ Decode
  BY <1>3, DecodeSteps
<1>4. CASE NoMatch \/ MatchOne
  BY <1>4, MatchSteps
<1>5. CASE Unclassified \/ PassThrough
  BY <1>5, UnmanagedSteps
<1>6. CASE \E f \in todo : RejectField(f) \/ ExtractField(f) \/ MapField(f)
  BY <1>6, RejectStep, ExtractStep, MapStep
<1>7. CASE PreserveUnmapped
  BY <1>7, PreserveStep
<1>8. CASE Enrich
  BY <1>8, EnrichStep
<1>9. CASE Validate \/ ValidateFails
  BY <1>9, ValidateSteps
<1>10. QED
  BY <1>1, <1>2, <1>3, <1>4, <1>5, <1>6, <1>7, <1>8, <1>9 DEF Next

LEMMA NormAlways == Spec => []NormInv
<1>1. QED
  BY NormInit, NormNext, PTL DEF Spec

\* For every payload, DetectAndDecode hands it to a decoder with the best score, text last and syslog
\* first among equals, and refuses it only for want of a score or for a tie.
THEOREM DecoderChosen == Spec => []BestDecoderWins
<1>1. NormInv => BestDecoderWins
  BY DEF NormInv
<1>2. QED
  BY NormAlways, <1>1, PTL

\* For every snapshot and every content, the outcome of processEvent and the event it hands on are the
\* ones the packs declare, in whatever order Go visits the fields and the mapping.
THEOREM OutcomeDeclared == Spec => []OutcomeAsDeclared
<1>1. NormInv => OutcomeAsDeclared
  BY DEF NormInv
<1>2. QED
  BY NormAlways, <1>1, PTL

\* With preserveUnmapped, Extract drops no source field that no rule of the pack names.
THEOREM SourceFieldsKept == Spec => []NothingElseDropped
<1>1. NormInv => NothingElseDropped
  BY DEF NormInv, KeptOK, NothingElseDropped
<1>2. QED
  BY NormAlways, <1>1, PTL

=============================================================================
