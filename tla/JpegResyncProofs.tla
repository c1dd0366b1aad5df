-------------------------- MODULE JpegResyncProofs --------------------------
(***************************************************************************)
(* What JpegReader saves of a file of which up to two segments of a scan   *)
(* are lost, or repeated whole, for every file, every such stretch and     *)
(* any calls before.                                                       *)
(*                                                                         *)
(* The marker behind what is lost is at most two ahead of the expected     *)
(* one, so jpeg_resync_to_restart() leaves it; the markers of a copy are   *)
(* at most two behind, so it skips them.  LandInv says where the decoder   *)
(* is meanwhile: in order, or it leaves one marker until its MCUs have     *)
(* been made up, or it skips the copy from marker to marker; what it has   *)
(* passed and is intact is decoded where it belongs.                       *)
(***************************************************************************)
EXTENDS JpegReaderProofs, FiniteSetTheorems

\* The number of the restart marker behind the segment that ends with MCU e.
Number(e) == (e \div Interval - 1) % 8
NextNumber(e) ==
    (e + Interval) % Interval = 0 /\ Number(e) \in 0 .. 7 /\ Number(e + Interval) = (Number(e) + 1) % 8
LEMMA NumbersGoOn ==
    ASSUME Interval \in Nat \ {0}, NEW e \in Nat \ {0}, e % Interval = 0
    PROVE  NextNumber(e)
<1> DEFINE b == Interval
           q == e \div b
           r == (e + b) \div b
<1>1. q \in Nat /\ r \in Nat /\ e = b * q + (e % b)
  OBVIOUS
<1>2. e = b * q /\ b \in Nat \ {0} /\ q \in Nat
  BY <1>1
<1>3. q > 0
  <2>1. SUFFICES ASSUME q = 0 PROVE FALSE
    BY <1>1
  <2>2. b * 0 = 0
    BY <1>2
  <2> HIDE DEF b, q
  <2>3. QED
    BY <1>2, <2>1, <2>2
<1>4. (e + b) % b = 0
  <2>1. b % b = 0 /\ e \in Int /\ b \in Int /\ e % b = 0 /\ b \in Nat \ {0}
    BY MultipleOfItself
  <2> HIDE DEF b, q, r
  <2>2. QED
    BY <2>1, MultiplesAdd
<1>5. r = q + 1
  <2>1. b * (q + 1) = e + b /\ e + b < b * (q + 2)
    <3> HIDE DEF b, q
    <3>1. b * (q + 1) = b * q + b /\ b * (q + 2) = b * q + b + b /\ b * q \in Nat
      BY <1>2
    <3>2. QED
      BY <1>2, <3>1
  <2>2. q + 1 \in Nat /\ q + 2 \in Nat /\ e + b \in Nat /\ b * (q + 1) <= e + b
    BY <1>2, <2>1
  <2>3. q + 1 <= r
    BY <1>2, <2>1, <2>2, QuotientAtLeast
  <2>4. r < q + 2
    BY <1>2, <2>1, <2>2, QuotientBelow
  <2> HIDE DEF r, q
  <2>5. QED
    BY <1>1, <2>3, <2>4
<1>6. Number(e) = (q - 1) % 8 /\ Number(e + Interval) = (r - 1) % 8
  BY DEF Number
<1> HIDE DEF b, q, r
<1>7. r - 1 = q
  BY <1>2, <1>5
<1>8. q % 8 = (((q - 1) % 8) + 1) % 8 /\ (q - 1) % 8 \in 0 .. 7
  BY <1>2, <1>3
<1>9. QED
  BY <1>4, <1>6, <1>7, <1>8 DEF NextNumber, b

\* Less than the divisor only 0 is a multiple.
LEMMA SmallMultiple ==
    ASSUME NEW b \in Nat \ {0}, NEW a \in 0 .. b - 1, a % b = 0
    PROVE  a = 0
<1>1. PICK k \in Int : a = b * k
  BY MultipleHasFactor
<1>2. CASE k <= 0
  <2>1. PICK e \in Nat : k = 0 - e
    <3>1. 0 - k \in Nat /\ k = 0 - (0 - k)
      BY <1>2
    <3>2. QED
      BY <3>1
  <2>2. b * k = 0 - b * e /\ b * e \in Nat
    BY <2>1
  <2>3. QED
    BY <1>1, <2>2
<1>3. CASE k > 0
  <2>1. PICK e \in Nat : k = 1 + e
    <3>1. k - 1 \in Nat /\ k = 1 + (k - 1)
      BY <1>3
    <3>2. QED
      BY <3>1
  <2>2. b * k = b + b * e /\ b * e \in Nat
    BY <2>1
  <2>3. QED
    BY <1>1, <2>2
<1>4. QED
  BY <1>2, <1>3

\* The segment of place p ends with MCU e.
Ends(p, e) ==
    /\ e \in Nat \ {0} /\ e % Interval = 0 /\ Coded(p) \in Nat
    /\ IF Tokens[p].k = "data" THEN Coded(p) <= e /\ e < Coded(p) + Interval
                               ELSE e = Coded(p) + Interval

LEMMA EndsOnce ==
    ASSUME Interval \in Nat \ {0}, NEW p, NEW e, NEW f, Ends(p, e), Ends(p, f)
    PROVE  e = f
<1>1. /\ e \in Nat /\ f \in Nat /\ Coded(p) \in Nat /\ e % Interval = 0 /\ f % Interval = 0
      /\ e \in Int /\ f \in Int
  BY DEF Ends
<1>11. (f - e) % Interval = 0 /\ (e - f) % Interval = 0
  BY <1>1, MultiplesAdd
<1>2. CASE Tokens[p].k = "data" /\ e <= f
  <2>1. f - e \in 0 .. Interval - 1
    BY <1>1, <1>2 DEF Ends
  <2>3. f - e = 0
    BY <1>11, <2>1, SmallMultiple
  <2>4. QED
    BY <1>1, <2>3
<1>3. CASE Tokens[p].k = "data" /\ f <= e
  <2>1. e - f \in 0 .. Interval - 1
    BY <1>1, <1>3 DEF Ends
  <2>3. e - f = 0
    BY <1>11, <2>1, SmallMultiple
  <2>4. QED
    BY <1>1, <2>3
<1>4. QED
  BY <1>1, <1>2, <1>3 DEF Ends

\* With each restart marker the end goes on by an interval.
NextEnd(p, e) == Ends(p, IF Tokens[p].k = "RST" THEN e + Interval ELSE e)
LEMMA EndsGoOn ==
    ASSUME Torn, Interval > 0, NEW p \in 2 .. Len(Tokens), Tokens[p].k \in {"RST", "data"},
           NEW e, Ends(p - 1, e)
    PROVE  NextEnd(p, e)
<1>1. Continues(p) /\ OpensInPlace(p) /\ RestartsInPlace(p) /\ Interval \in Nat \ {0}
  BY AllContinue DEF Torn
<1>2. /\ Coded(p - 1) \in Nat /\ Coded(p) = IF Tokens[p].k = "data" THEN Coded(p - 1) + 1 ELSE Coded(p - 1)
      /\ e \in Nat \ {0} /\ e % Interval = 0
  BY <1>1 DEF Continues, Ends
<1>3. CASE Tokens[p].k = "data" /\ Tokens[p - 1].k = "data"
  <2>1. Coded(p - 1) # e /\ Coded(p - 1) <= e /\ e < Coded(p - 1) + Interval
    BY <1>1, <1>2, <1>3 DEF Ends, OpensInPlace
  <2>2. Coded(p) = Coded(p - 1) + 1
    BY <1>2, <1>3
  <2>3. Coded(p) <= e /\ e < Coded(p) + Interval /\ Coded(p) \in Nat
    BY <1>1, <1>2, <2>1, <2>2
  <2>4. QED
    BY <1>2, <1>3, <2>3 DEF NextEnd, Ends
<1>4. CASE Tokens[p].k = "data" /\ Tokens[p - 1].k # "data"
  <2>1. e = Coded(p - 1) + Interval /\ Coded(p) = Coded(p - 1) + 1
    BY <1>2, <1>4 DEF Ends
  <2>2. Coded(p) <= e /\ e < Coded(p) + Interval /\ Coded(p) \in Nat
    BY <1>1, <1>2, <2>1
  <2>3. QED
    BY <1>2, <1>4, <2>2 DEF NextEnd, Ends
<1>5. CASE Tokens[p].k = "RST"
  <2>1. Tokens[p - 1].k = "data" /\ Coded(p) % Interval = 0 /\ Coded(p) = Coded(p - 1)
    BY <1>1, <1>2, <1>5 DEF RestartsInPlace
  <2>2. Coded(p - 1) <= e /\ e < Coded(p - 1) + Interval
    BY <2>1 DEF Ends
  <2>3. e - Coded(p) \in 0 .. Interval - 1
    BY <1>1, <1>2, <2>1, <2>2
  <2>4. (e - Coded(p)) % Interval = 0
    BY <1>1, <1>2, <2>1, MultiplesAdd
  <2>5. e - Coded(p) = 0
    BY <1>1, <2>3, <2>4, SmallMultiple
  <2>6. e = Coded(p)
    BY <1>2, <2>1, <2>5
  <2>7. NextNumber(e)
    BY <1>1, <1>2, NumbersGoOn
  <2>8. e + Interval \in Nat \ {0}
    BY <1>1, <1>2
  <2>9. QED
    BY <1>2, <1>5, <2>1, <2>6, <2>7, <2>8 DEF NextEnd, Ends, NextNumber
<1>6. QED
  BY <1>3, <1>4, <1>5

\* Along a stretch of a scan the end goes on by as many intervals as there are markers.
Restarts(a, p) == {i \in a .. p : Tokens[i].k = "RST"}
EndAlong(a, p, e) ==
    /\ IsFiniteSet(Restarts(a, p)) /\ Cardinality(Restarts(a, p)) \in Nat
    /\ Ends(p, e + Interval * Cardinality(Restarts(a, p)))
LEMMA EndsAreCounted ==
    ASSUME Torn, Interval > 0, NEW a \in 2 .. Len(Tokens), NEW b \in a .. Len(Tokens), Stretch(a, b),
           NEW e, Ends(a - 1, e)
    PROVE  \A p \in a - 1 .. b : EndAlong(a, p, e)
<1> DEFINE S == {i \in Nat : EndAlong(a, (a - 1) + i, e)}
           m == b - (a - 1)
<1>1. /\ a \in Nat /\ b \in Nat /\ m \in Nat /\ Len(Tokens) \in Nat /\ Interval \in Nat \ {0}
      /\ e \in Nat
  BY TornPlaces DEF Torn, Ends
<1>2. 0 \in S
  <2>1. a .. a - 1 = {} /\ (a - 1) + 0 = a - 1
    BY <1>1
  <2>2. Restarts(a, a - 1) = {}
    BY <2>1 DEF Restarts
  <2>3. IsFiniteSet({}) /\ Cardinality({}) = 0
    BY FS_EmptySet
  <2>4. e + Interval * 0 = e
    BY <1>1
  <2>5. IsFiniteSet(Restarts(a, a - 1)) /\ Cardinality(Restarts(a, a - 1)) = 0
    BY <2>2, <2>3, Zenon
  <2>6. e + Interval * Cardinality(Restarts(a, a - 1)) = e
    BY <2>4, <2>5
  <2>7. EndAlong(a, a - 1, e)
    BY <2>5, <2>6 DEF EndAlong
  <2>8. QED
    BY <2>1, <2>7
<1>3. ASSUME NEW i \in 0 .. m - 1, i \in S PROVE i + 1 \in S
  <2> DEFINE p == (a - 1) + i
             q == (a - 1) + (i + 1)
             R == Restarts(a, p)
             n == Cardinality(R)
  <2>1. /\ q \in a .. b /\ q - 1 = p /\ i + 1 \in Nat /\ q \in 2 .. Len(Tokens)
        /\ a .. q = (a .. p) \cup {q} /\ q \notin a .. p
    BY <1>1
  <2>2. EndAlong(a, p, e)
    BY <1>3
  <2> SUFFICES EndAlong(a, q, e)
    BY <2>1
  <2> HIDE DEF p, q, S, m
  <2>3. Tokens[q].k \in {"RST", "data"} /\ IsFiniteSet(R) /\ n \in Nat /\ Ends(q - 1, e + Interval * n)
    BY <2>1, <2>2 DEF Stretch, EndAlong
  <2>4. NextEnd(q, e + Interval * n)
    BY <2>1, <2>3, EndsGoOn
  <2>5. CASE Tokens[q].k = "data"
    <3>1. Restarts(a, q) = R
      BY <2>1, <2>5 DEF Restarts
    <3>2. Ends(q, e + Interval * n)
      BY <2>4, <2>5 DEF NextEnd
    <3> HIDE DEF R
    <3>3. QED
      BY <2>3, <3>1, <3>2 DEF EndAlong
  <2>6. CASE Tokens[q].k = "RST"
    <3>1. Restarts(a, q) = R \cup {q} /\ q \notin R
      BY <2>1, <2>6 DEF Restarts
    <3>2. Ends(q, e + Interval * n + Interval)
      BY <2>4, <2>6 DEF NextEnd
    <3> HIDE DEF R
    <3>3. IsFiniteSet(R \cup {q}) /\ Cardinality(R \cup {q}) = n + 1
      BY <2>3, <3>1, FS_AddElement
    <3>4. e + Interval * (n + 1) = e + Interval * n + Interval /\ n + 1 \in Nat
      <4> HIDE DEF n
      <4>1. Interval * (n + 1) = Interval * n + Interval /\ Interval * n \in Nat
        BY <1>1, <2>3
      <4>2. QED
        BY <1>1, <2>3, <4>1
    <3>5. QED
      BY <3>1, <3>2, <3>3, <3>4 DEF EndAlong
  <2>7. QED
    BY <2>3, <2>5, <2>6
<1>4. 0 .. m \subseteq S
  <2> HIDE DEF S, m
  <2>1. QED
    BY <1>1, <1>2, <1>3, BoundedInduction
<1>5. TAKE p \in a - 1 .. b
<1>6. p - (a - 1) \in 0 .. m /\ (a - 1) + (p - (a - 1)) = p
  BY <1>1
<1>7. QED
  BY <1>4, <1>6

\* With at most two markers it goes on by two intervals at most, and if there is one by one at least.
Reaches(e, f) == f = e \/ f = e + Interval \/ f = e + Interval + Interval
EndWithin(a, b, e) ==
    \E f : /\ Ends(b, f) /\ Reaches(e, f)
           /\ (\E i \in a .. b : Tokens[i].k = "RST") => f # e
LEMMA TwoMarkersAtMost ==
    ASSUME Torn, Interval > 0, NEW a \in 2 .. Len(Tokens), NEW b \in a .. Len(Tokens), Stretch(a, b),
           Cardinality(Restarts(a, b)) <= 2, NEW e, Ends(a - 1, e)
    PROVE  EndWithin(a, b, e)
<1> DEFINE R == Restarts(a, b)
           n == Cardinality(R)
           f == e + Interval * n
<1>1. a \in Nat /\ b \in Nat /\ Len(Tokens) \in Nat /\ Interval \in Nat \ {0} /\ e \in Nat
  BY TornPlaces DEF Torn, Ends
<1>2. b \in a - 1 .. b
  BY <1>1
<1>3. IsFiniteSet(R) /\ n \in Nat /\ Ends(b, f)
  BY <1>2, EndsAreCounted DEF EndAlong
<1>4. n <= 2
  OBVIOUS
<1>5. (\E i \in a .. b : Tokens[i].k = "RST") => n # 0
  <2>1. SUFFICES ASSUME NEW i \in a .. b, Tokens[i].k = "RST" PROVE n # 0
    OBVIOUS
  <2>2. i \in R
    BY <2>1 DEF Restarts
  <2> HIDE DEF R
  <2>3. QED
    BY <1>3, <2>2, FS_EmptySet
<1> HIDE DEF R
<1>6. f = IF n = 0 THEN e ELSE IF n = 1 THEN e + Interval ELSE e + Interval + Interval
  <2> HIDE DEF n
  <2>1. n = 0 \/ n = 1 \/ n = 2
    BY <1>3, <1>4
  <2>2. Interval * 0 = 0 /\ Interval * 1 = Interval /\ Interval * 2 = Interval + Interval
    BY <1>1
  <2>3. QED
    BY <1>1, <2>1, <2>2
<1>7. Reaches(e, f) /\ (n # 0 => f # e)
  BY <1>1, <1>6 DEF Reaches
<1> HIDE DEF f, n
<1>8. QED
  BY <1>3, <1>5, <1>7 DEF EndWithin

\* Up to two segments of a scan are lost, or repeated whole with their markers.
Mild ==
    LET stretch  == source.from..source.to
        restarts == {i \in stretch : Tokens[i].k = "RST"}
    IN  /\ source.damage \in {"lost", "repeated"}
        /\ \A i \in stretch : Tokens[i].k \in {"RST", "data"}
        /\ Cardinality(restarts) <= 2
        /\ source.damage = "repeated" =>
               Tokens[source.from].k = "RST" /\ Tokens[source.to + 1].k # "data"
Lost == source.damage = "lost"
\* Where the file is in order again: at the first marker behind what is lost, or where
\* the file goes on behind what is repeated.
Back == IF Lost THEN NextMarker(Cut) ELSE Cut + Width

\* The file of the call has such a damage.
Worn == Torn /\ FileInv /\ Mild
LEMMA WornStretch ==
    ASSUME Worn
    PROVE  /\ source.from \in Nat /\ source.to \in Nat /\ source.from <= source.to
           /\ First < source.from /\ source.to < Len(Tokens) /\ source.from \in 2 .. Len(Tokens)
           /\ source.to \in source.from .. Len(Tokens)
           /\ Stretch(source.from, source.to)
           /\ Cardinality(Restarts(source.from, source.to)) <= 2
           /\ Width \in Nat /\ Width > 0 /\ Width = source.to - source.from + 1
           /\ Rest = Cut /\ Len(Tokens) \in Nat /\ First \in Nat /\ First > 2
           /\ IF Lost THEN Cut = source.from /\ Shift = Width ELSE Cut = source.to + 1 /\ Shift = -Width
           /\ ~Lost => Tokens[source.from].k = "RST" /\ Tokens[source.to + 1].k # "data"
<1>1. /\ source.damage \in {"lost", "repeated"}
      /\ \A i \in source.from..source.to : Tokens[i].k \in {"RST", "data"}
      /\ Cardinality({i \in source.from..source.to : Tokens[i].k = "RST"}) <= 2
      /\ source.damage = "repeated" =>
               Tokens[source.from].k = "RST" /\ Tokens[source.to + 1].k # "data"
  BY DEF Worn, Mild
<1>2. /\ Torn /\ source.from \in 1 .. Len(Tokens) /\ source.to \in source.from .. Len(Tokens)
      /\ Len(Tokens) \in Nat /\ First \in Nat /\ First > 2
  <2>1. Torn /\ source.damage # None
    BY <1>1 DEF Worn, None
  <2>2. source.from \in 1 .. Len(Tokens) /\ source.to \in source.from .. Len(Tokens)
    BY <2>1 DEF Worn, FileInv
  <2>3. QED
    BY <2>1, <2>2, TornPlaces DEF Torn
<1>3. /\ source.from \in Nat /\ source.to \in Nat /\ source.from <= source.to
      /\ source.from \in source.from .. source.to /\ source.to \in source.from .. source.to
      /\ source.to \in 1 .. Len(Tokens)
  BY <1>2
<1>4. source.from \in First .. Len(Tokens) - 1 /\ source.to \in First .. Len(Tokens) - 1
  BY <1>1, <1>2, <1>3, TornPlaces
<1>5. source.from # First
  BY <1>1, <1>2, <1>3, TornPlaces
<1>6. First < source.from /\ source.to < Len(Tokens) /\ source.from \in 2 .. Len(Tokens)
  BY <1>2, <1>3, <1>4, <1>5
<1>7. Stretch(source.from, source.to) /\ Cardinality(Restarts(source.from, source.to)) <= 2
  BY <1>1 DEF Stretch, Restarts
<1>8. Width \in Nat /\ Width > 0 /\ Width = source.to - source.from + 1
  BY <1>3 DEF Width
<1>9. /\ Cut = IF Lost THEN source.from ELSE source.to + 1
      /\ Size = IF Lost THEN Len(Tokens) - Width ELSE Len(Tokens) + Width
  BY <1>1 DEF Lost, Cut, Size, None
<1>10. Shift = IF Lost THEN Width ELSE -Width
  BY <1>2, <1>8, <1>9 DEF Shift
<1>11. Rest = Cut
  BY <1>1 DEF Rest
<1>12. QED
  BY <1>1, <1>2, <1>3, <1>6, <1>7, <1>8, <1>9, <1>10, <1>11 DEF Lost

\* The tokens of the damaged file, and where they come from.
Origin(i) == IF i < Cut THEN i ELSE i + Shift
LEMMA WornTokens ==
    ASSUME Worn
    PROVE  /\ \A i \in 1 .. Size : At(i) = Tokens[Origin(i)] /\ Origin(i) \in 1 .. Len(Tokens)
           /\ Cut \in First + 1 .. Size /\ Size \in Nat /\ Cut \in Nat /\ Size + Shift = Len(Tokens)
           /\ At(Size).k = "EOI" /\ Shift \in Int
           /\ \A i \in 1 .. Size - 1 : At(i).k # "EOI"
<1>1. /\ Rest = Cut /\ Len(Tokens) \in Nat /\ First \in Nat /\ Torn /\ FileInv
      /\ source.from \in Nat /\ source.to \in Nat /\ source.from <= source.to
      /\ First < source.from /\ source.to < Len(Tokens)
      /\ Width \in Nat /\ Width > 0 /\ Width = source.to - source.from + 1
      /\ IF Lost THEN Cut = source.from /\ Shift = Width ELSE Cut = source.to + 1 /\ Shift = -Width
  BY WornStretch DEF Worn
<1>2. Size \in Nat /\ Cut \in Nat /\ Shift \in Int /\ Size + Shift = Len(Tokens)
  BY <1>1 DEF Torn
<1>3. Cut \in First + 1 .. Size
  BY <1>1, <1>2
<1>4. ASSUME NEW i \in 1 .. Size PROVE At(i) = Tokens[Origin(i)] /\ Origin(i) \in 1 .. Len(Tokens)
  <2>1. i < Cut \/ i >= Rest
    BY <1>1, <1>2
  <2>2. QED
    BY <1>1, <1>2, <2>1 DEF Torn, Origin, InTokens
<1>5. At(Size).k = "EOI"
  <2>1. Size \in 1 .. Size /\ Origin(Size) = Len(Tokens)
    BY <1>1, <1>2, <1>3 DEF Origin
  <2>2. QED
    BY <1>1, <1>4, <2>1, TornPlaces
<1>6. ASSUME NEW p \in 1 .. Len(Tokens), p # Len(Tokens) PROVE Tokens[p].k # "EOI"
  <2>1. /\ Tokens[1].k = "SOI"
        /\ \A i \in 2..(First - 1) : Tokens[i].k \in {"APP", "DQT", "DHT", "DRI", "SOF"}
        /\ \A i \in First..(Len(Tokens) - 1) : Tokens[i].k \in {"APP", "DHT", "SOS", "RST", "data"}
    BY <1>1 DEF Torn, Layout
  <2>2. p = 1 \/ p \in 2..(First - 1) \/ p \in First..(Len(Tokens) - 1)
    BY <1>1, <1>6
  <2>3. QED
    BY <2>1, <2>2
<1>7. ASSUME NEW i \in 1 .. Size - 1 PROVE At(i).k # "EOI"
  <2>1. i \in 1 .. Size /\ Origin(i) \in 1 .. Len(Tokens) /\ Origin(i) # Len(Tokens)
    <3>1. i \in 1 .. Size
      BY <1>2
    <3>2. Origin(i) # Len(Tokens)
      BY <1>1, <1>2, <3>1 DEF Origin
    <3>3. QED
      BY <1>4, <3>1, <3>2
  <2>2. QED
    BY <1>4, <1>6, <2>1
<1>8. QED
  BY <1>2, <1>3, <1>4, <1>5, <1>7

LEMMA BackPlaces ==
    ASSUME Worn
    PROVE  /\ Back \in Cut .. Size /\ Back \in Nat /\ Cut \in Nat /\ Size \in Nat
           /\ At(Back).k # "data" /\ At(Back) = Tokens[Origin(Back)] /\ Origin(Back) = Back + Shift
           /\ Origin(Back) \in 1 .. Len(Tokens)
           /\ Lost => \A l \in Cut .. Back - 1 : At(l).k = "data"
           /\ ~Lost => Back = Cut + Width /\ Origin(Back) = Cut
<1>1. /\ Cut \in First + 1 .. Size /\ Size \in Nat /\ Cut \in Nat /\ Size + Shift = Len(Tokens)
      /\ At(Size).k = "EOI" /\ Shift \in Int
      /\ \A i \in 1 .. Size : At(i) = Tokens[Origin(i)] /\ Origin(i) \in 1 .. Len(Tokens)
  BY WornTokens
<1>2. /\ First \in Nat /\ First > 2 /\ Len(Tokens) \in Nat /\ Width \in Nat /\ Width > 0
      /\ source.to \in Nat /\ source.to < Len(Tokens) /\ FileInv
      /\ IF Lost THEN Cut = source.from /\ Shift = Width ELSE Cut = source.to + 1 /\ Shift = -Width
      /\ ~Lost => Tokens[source.to + 1].k # "data"
  BY WornStretch DEF Worn
<1>3. CASE Lost
  <2>1. Cut \in 1 .. Size + 1 /\ Cut \in Nat \ {0}
    BY <1>1, <1>2
  <2>2. /\ Back \in Cut .. Size + 1 /\ At(Back).k # "data"
        /\ \A l \in Cut .. Back - 1 : At(l).k = "data"
    BY <1>2, <1>3, <2>1, MarkerIsFound DEF Back
  <2>3. Back <= Size
    <3>1. SUFFICES ASSUME Back = Size + 1 PROVE FALSE
      BY <1>1, <2>2
    <3>2. Size \in Cut .. Back - 1
      BY <1>1, <3>1
    <3>3. QED
      BY <1>1, <2>2, <3>2
  <2>4. Back \in Cut .. Size /\ Back \in Nat /\ Back \in 1 .. Size
    BY <1>1, <1>2, <2>2, <2>3
  <2>5. At(Back) = Tokens[Origin(Back)] /\ Origin(Back) = Back + Shift
    BY <1>1, <2>4 DEF Origin
  <2>6. QED
    BY <1>1, <1>3, <2>2, <2>4, <2>5
<1>4. CASE ~Lost
  <2>1. Back = Cut + Width
    BY <1>4 DEF Back
  <2>2. Back \in Cut .. Size /\ Back \in Nat /\ Back \in 1 .. Size
    BY <1>1, <1>2, <1>4, <2>1
  <2>3. Origin(Back) = Cut /\ Origin(Back) = Back + Shift /\ At(Back) = Tokens[Cut] /\ At(Back) = Tokens[Origin(Back)]
    BY <1>1, <1>2, <1>4, <2>1, <2>2 DEF Origin
  <2>4. At(Back).k # "data"
    BY <1>2, <1>4, <2>3
  <2>5. QED
    BY <1>1, <1>4, <2>1, <2>2, <2>3, <2>4
<1>5. QED
  BY <1>3, <1>4

\* What is repeated is what was there before.
LEMMA RepeatedTokens ==
    ASSUME Worn, ~Lost, NEW i \in Cut .. Back - 1
    PROVE  /\ i - Width \in source.from .. source.to /\ i - Width < Cut /\ i - Width \in 1 .. Size
           /\ i \in Nat /\ i - Width < i
           /\ At(i) = At(i - Width) /\ At(i) = Tokens[i - Width] /\ Tokens[i - Width].k \in {"RST", "data"}
<1>1. /\ Cut \in Nat /\ Back \in Nat /\ Size \in Nat /\ Back = Cut + Width /\ Back \in Cut .. Size
      /\ Width \in Nat /\ Width > 0 /\ Cut = source.to + 1 /\ Shift = -Width /\ Width = source.to - source.from + 1
      /\ source.to \in Nat /\ source.from \in Nat /\ First < source.from /\ First > 2 /\ First \in Nat
      /\ Stretch(source.from, source.to)
  BY WornStretch, BackPlaces
<1>2. /\ i - Width \in source.from .. source.to /\ i - Width < Cut /\ i - Width \in 1 .. Size
      /\ i \in Nat /\ i \in 1 .. Size /\ i - Width < i /\ ~(i < Cut) /\ i + Shift = i - Width
  BY <1>1
<1>3. At(i) = Tokens[i - Width] /\ At(i - Width) = Tokens[i - Width]
  BY <1>2, WornTokens DEF Origin
<1>4. QED
  BY <1>1, <1>2, <1>3 DEF Stretch

\* The headers of the scans have different components.
LEMMA ScansApart ==
    ASSUME Worn, NEW i \in 1 .. Size, NEW j \in 1 .. Size, i # j, At(i).k = "SOS", At(j).k = "SOS"
    PROVE  At(i).comps \cap At(j).comps = {}
<1>1. /\ Cut \in Nat /\ Size \in Nat /\ Width \in Nat /\ source.from \in Nat /\ source.to \in Nat /\ Shift \in Int
      /\ IF Lost THEN Cut = source.from /\ Shift = Width ELSE Cut = source.to + 1 /\ Shift = -Width
      /\ Width = source.to - source.from + 1 /\ Width > 0
      /\ Stretch(source.from, source.to)
  BY WornStretch, WornTokens
<1>2. /\ At(i) = Tokens[Origin(i)] /\ Origin(i) \in 1 .. Len(Tokens)
      /\ At(j) = Tokens[Origin(j)] /\ Origin(j) \in 1 .. Len(Tokens)
  BY WornTokens
<1>3. Origin(i) \notin source.from .. source.to /\ Origin(j) \notin source.from .. source.to
  BY <1>1, <1>2 DEF Stretch
<1>4. Origin(i) # Origin(j)
  BY <1>1, <1>3 DEF Origin
<1>5. OneScan(Tokens) /\ DOMAIN Tokens = 1 .. Len(Tokens)
  BY TornPlaces DEF Worn, Torn
<1>6. QED
  BY <1>2, <1>4, <1>5 DEF OneScan

\* Where a stretch is lost, data is left of a segment whose beginning is lost.
LEMMA AtTheGap ==
    ASSUME Worn, Lost, At(Cut).k = "data"
    PROVE  /\ At(Cut) = Tokens[source.to + 1] /\ At(Cut - 1) = Tokens[source.from - 1]
           /\ Continues(source.to + 1) /\ OpensInPlace(source.to + 1)
           /\ Coded(source.from - 1) \in Nat /\ Coded(source.to) \in Nat
           /\ Coded(source.to + 1) = Coded(source.to) + 1
           /\ Tokens[source.to].k \in {"RST", "data"}
           /\ (Tokens[source.from].k = "data" \/ Tokens[source.to].k = "data") =>
                  Coded(source.from - 1) < Coded(source.to)
<1> DEFINE x == source.from - 1
           y == source.to + 1
<1>1. /\ Torn /\ source.from \in Nat /\ source.to \in Nat /\ source.from <= source.to /\ source.to < Len(Tokens)
      /\ source.from \in 2 .. Len(Tokens) /\ source.to \in source.from .. Len(Tokens) /\ Cut = source.from
      /\ Stretch(source.from, source.to) /\ Shift = Width /\ Width = source.to - source.from + 1
      /\ Len(Tokens) \in Nat /\ First < source.from /\ First \in Nat
  BY WornStretch DEF Worn
<1>2. At(Cut) = Tokens[y] /\ At(Cut - 1) = Tokens[x]
  <2>1. First > 2 /\ First \in Nat /\ Cut \in First + 1 .. Size /\ Size \in Nat /\ Cut \in Nat
    BY WornStretch, WornTokens
  <2>2. Cut \in 1 .. Size /\ Cut - 1 \in 1 .. Size /\ Cut - 1 < Cut /\ ~(Cut < Cut)
    BY <2>1
  <2>3. Cut + Shift = y
    BY <1>1
  <2>4. QED
    BY <1>1, <2>2, <2>3, WornTokens DEF Origin
<1>3. y \in 2 .. Len(Tokens) /\ y - 1 = source.to
  <2>1. source.to \in Nat /\ source.from \in Nat /\ source.from <= source.to /\ 2 <= source.from
        /\ source.to < Len(Tokens) /\ Len(Tokens) \in Nat
    BY <1>1
  <2>2. QED
    BY <2>1
<1>4. Continues(y) /\ OpensInPlace(y)
  BY <1>1, <1>2, <1>3, AllContinue
<1>5. Coded(source.to) \in Nat /\ Coded(y) = Coded(source.to) + 1
  BY <1>2, <1>3, <1>4 DEF Continues
<1>6. source.to \in source.from .. source.to /\ source.from \in source.from .. source.to
  BY <1>1
<1>7. Along(source.from, source.to)
  BY <1>1, <1>6, WalksOn
<1>8. QED
  BY <1>1, <1>2, <1>4, <1>5, <1>6, <1>7 DEF Along, Stretch

\* The components of a scan.
LEMMA ScanIsOfSomething ==
    ASSUME Torn, NEW p \in 1 .. Len(Tokens), Tokens[p].k \in {"SOS", "RST", "data"}
    PROVE  Scanned(p) # {}
<1>1. PICK s \in First .. p : BeginsAt(s, p)
  BY AllBegun DEF Begun
<1>2. s \in 1 .. Len(Tokens)
  BY TornPlaces DEF Torn
<1>3. IsToken(Tokens[s]) /\ Tokens[s].k = "SOS" /\ Tokens[s].comps = Scanned(p)
  BY <1>1, <1>2, TornPlaces DEF BeginsAt
<1>4. QED
  BY <1>3 DEF IsToken

\* Neither the marker of another segment nor the header of the scan makes it one.
LEMMA OpensNoOther ==
    ASSUME Worn, Lost, At(Cut).k = "data", At(Cut).opens = TRUE,
           At(Cut - 1).k = "SOS" => At(Cut).n = 1,
           At(Cut - 1).k = "RST" =>
               \E q \in 1 .. Len(Tokens) - 1 : Tokens[q] = At(Cut - 1) /\ Tokens[q + 1] = At(Cut),
           At(Cut - 1).k \in {"SOS", "RST"}
    PROVE  FALSE
<1> DEFINE a == source.from
           x == source.from - 1
           b == source.to
           y == source.to + 1
<1>1. /\ Torn /\ a \in Nat /\ b \in Nat /\ a <= b /\ b < Len(Tokens)
      /\ a \in 2 .. Len(Tokens) /\ b \in a .. Len(Tokens) /\ Len(Tokens) \in Nat /\ Stretch(a, b)
      /\ First \in Nat /\ First > 2 /\ First < a /\ Cardinality(Restarts(a, b)) <= 2
  BY WornStretch DEF Worn
<1>2. /\ At(Cut) = Tokens[y] /\ At(Cut - 1) = Tokens[x]
      /\ Continues(y) /\ OpensInPlace(y) /\ Coded(x) \in Nat /\ Coded(b) \in Nat /\ Coded(y) = Coded(b) + 1
      /\ Tokens[b].k \in {"RST", "data"}
      /\ Tokens[a].k = "data" => Coded(x) < Coded(b)
  BY AtTheGap
<1>3. /\ a \in a .. b /\ y \in 1 .. Len(Tokens) /\ x \in 2 .. Len(Tokens) /\ x \in 1 .. Len(Tokens) /\ y - 1 = b
      /\ b \in 2 .. Len(Tokens) /\ b # x /\ a - 1 = x
  BY <1>1
<1>4. Tokens[b].k = "RST"
  BY <1>2, <1>3 DEF OpensInPlace
<1>5. Tokens[a].k = "data"
  <2>1. SUFFICES ASSUME Tokens[a].k = "RST" PROVE FALSE
    BY <1>1, <1>3 DEF Stretch
  <2>2. RestartsInPlace(a)
    BY <1>1, <2>1, AllContinue
  <2>3. QED
    BY <1>2, <1>3, <2>1, <2>2 DEF RestartsInPlace
<1>6. Coded(x) < Coded(b) /\ Coded(y) = Tokens[y].n
  BY <1>2, <1>5 DEF Coded
<1>7. CASE Tokens[x].k = "SOS"
  <2>1. Coded(y) = 1
    BY <1>2, <1>6, <1>7
  <2>2. QED
    BY <1>2, <1>6, <2>1
<1>8. CASE Tokens[x].k = "RST"
  <2>1. PICK q \in 1 .. Len(Tokens) - 1 : Tokens[q] = Tokens[x] /\ Tokens[q + 1] = Tokens[y]
    BY <1>2, <1>8
  <2>2. q \in Nat /\ q + 1 \in 1 .. Len(Tokens)
    BY <1>1
  <2>3. Tokens[y].comps # {} /\ Tokens[y].k = "data"
    <3>1. Scanned(y) = Tokens[y].comps
      BY <1>2 DEF Scanned
    <3>2. Scanned(y) # {}
      BY <1>1, <1>2, <1>3, ScanIsOfSomething
    <3>3. QED
      BY <1>2, <3>1, <3>2
  <2>4. q + 1 = y
    BY <1>1, <1>3, <2>1, <2>2, <2>3, DataDiffers
  <2>5. Tokens[b] = Tokens[x]
    BY <1>1, <2>1, <2>2, <2>4
  <2>6. RestartsInPlace(x) /\ RestartsInPlace(b) /\ Continues(x)
    BY <1>1, <1>3, <1>4, <1>8, AllContinue
  <2>7. /\ Interval > 0 /\ Interval \in Nat \ {0}
        /\ Coded(x) % Interval = 0 /\ Tokens[x].n = Number(Coded(x)) /\ Tokens[b].n = Number(Coded(b))
    BY <1>1, <1>4, <1>8, <2>6 DEF RestartsInPlace, Number, Torn
  <2>8. Coded(x) # 0
    <3>1. Tokens[x - 1].k = "data" /\ x - 1 \in 2 .. Len(Tokens) /\ Coded(x) = Coded(x - 1)
      <4>1. x - 1 \in 2 .. Len(Tokens)
        <5>1. x - 1 \in First .. Len(Tokens) - 1
          BY <1>1, <1>3, <1>8, AllContinue
        <5>2. QED
          BY <1>1, <5>1
      <4>2. QED
        BY <1>8, <2>6, <4>1 DEF RestartsInPlace, Continues
    <3>2. Continues(x - 1)
      BY <1>1, <3>1, AllContinue
    <3>3. QED
      BY <1>2, <3>1, <3>2 DEF Continues
  <2> DEFINE e == Coded(x)
             e1 == e + Interval
             e2 == e + Interval + Interval
  <2>9. NextNumber(e)
    BY <1>2, <2>7, <2>8, NumbersGoOn
  <2>10. e1 \in Nat \ {0} /\ e1 % Interval = 0 /\ e2 = e1 + Interval
    <3>1. e \in Nat /\ Interval \in Nat /\ Interval > 0
      BY <1>2, <2>7
    <3>2. e1 % Interval = 0
      BY <2>9 DEF NextNumber
    <3> HIDE DEF e
    <3>3. e1 \in Nat \ {0} /\ e2 = e1 + Interval
      BY <3>1
    <3>4. QED
      BY <3>2, <3>3
  <2>11. NextNumber(e1)
    BY <2>7, <2>10, NumbersGoOn
  <2>12. Ends(x, e1)
    BY <1>2, <1>8, <2>10 DEF Ends
  <2>13. PICK f : /\ Ends(b, f) /\ Reaches(e1, f)
                  /\ (\E i \in a .. b : Tokens[i].k = "RST") => f # e1
    BY <1>1, <1>3, <2>7, <2>12, TwoMarkersAtMost DEF EndWithin
  <2>14. f # e1 /\ f = Coded(b) + Interval
    <3>1. b \in a .. b
      BY <1>1
    <3>2. QED
      BY <1>4, <2>13, <3>1 DEF Ends
  <2>15. Coded(b) = e1 \/ Coded(b) = e2
    <3>0. Interval \in Nat /\ e1 \in Nat /\ e2 = e1 + Interval /\ Coded(b) \in Nat
      BY <1>2, <2>7, <2>10
    <3> DEFINE g == Coded(b)
    <3> HIDE DEF e, e1, e2, g
    <3>1. f = e2 \/ f = e2 + Interval
      BY <2>10, <2>13, <2>14, <3>0 DEF Reaches
    <3>3. g \in Nat /\ f = g + Interval
      BY <2>14, <3>0 DEF g
    <3>4. g = e1 \/ g = e2
      BY <3>0, <3>1, <3>3
    <3>2. QED
      BY <3>4 DEF g
  <2>16. Number(e) = Number(Coded(b))
    BY <2>5, <2>7
  <2>17. Number(e) \in 0 .. 7 /\ Number(e1) = (Number(e) + 1) % 8 /\ Number(e2) = (Number(e1) + 1) % 8
    BY <2>9, <2>10, <2>11 DEF NextNumber
  <2> HIDE DEF e, e1, e2
  <2>18. QED
    BY <2>15, <2>16, <2>17
<1>9. QED
  BY <1>2, <1>7, <1>8

\* So it is not intact.
LEMMA LeftoversAreNotIntact ==
    ASSUME Worn, Lost, NEW i \in Cut .. Back - 1
    PROVE  ~Intact(i)
<1>1. /\ Cut \in Nat /\ Back \in Nat /\ i \in Nat /\ First \in Nat /\ First > 2 /\ Cut \in First + 1 .. Size
      /\ \A l \in Cut .. Back - 1 : At(l).k = "data"
  BY WornStretch, WornTokens, BackPlaces
<1>2. At(Cut).k = "data" /\ Cut \in Cut .. i
  BY <1>1
<1>3. SUFFICES ASSUME HasOwnSegment(i) PROVE FALSE
  BY IntactParts DEF IntactInParts
<1>4. PICK j \in 1 .. i - 1 : OpensAt(j, i)
  BY <1>3 DEF HasOwnSegment
<1>5. j < Cut /\ j \in Nat
  <2>1. At(j).k # "data"
    BY <1>4 DEF OpensAt
  <2>2. j \notin Cut .. Back - 1
    BY <1>1, <2>1
  <2>3. QED
    BY <1>1, <2>2
<1>6. Cut \in j + 1 .. i /\ (j # Cut - 1 => Cut - 1 \in j + 1 .. i)
  BY <1>1, <1>2, <1>5
<1>7. /\ At(Cut).n = At(i).n - (i - Cut) /\ (At(Cut).opens = (Cut = j + 1))
      /\ j # Cut - 1 => At(Cut - 1).k = "data" /\ At(Cut - 1).n = At(i).n - (i - (Cut - 1))
  BY <1>4, <1>6 DEF OpensAt
<1>8. CASE j = Cut - 1
  <2>0. Cut = j + 1
    BY <1>1, <1>5, <1>8
  <2>1. j + 1 = Cut /\ At(Cut).opens = TRUE
    BY <1>7, <2>0, Zenon
  <2>2. /\ At(Cut - 1).k \in {"SOS", "RST"}
        /\ At(Cut - 1).k = "SOS" => At(Cut).n = 1
        /\ At(Cut - 1).k = "RST" =>
               \E q \in 1 .. Len(Tokens) - 1 : Tokens[q] = At(Cut - 1) /\ Tokens[q + 1] = At(Cut)
    BY <1>4, <1>8, <2>1 DEF OpensAt
  <2>3. QED
    BY <1>2, <2>1, <2>2, OpensNoOther
<1>9. CASE j # Cut - 1
  <2> DEFINE x == source.from - 1
             b == source.to
             y == source.to + 1
  <2>1. /\ At(Cut) = Tokens[y] /\ At(Cut - 1) = Tokens[x]
        /\ OpensInPlace(y) /\ Coded(x) \in Nat /\ Coded(b) \in Nat /\ Coded(y) = Coded(b) + 1
        /\ Tokens[b].k = "data" => Coded(x) < Coded(b)
    BY <1>2, AtTheGap
  <2>2. ~Tokens[y].opens /\ y - 1 = b
    <3>0. Cut # j + 1
      BY <1>1, <1>5, <1>9
    <3>1. At(Cut).opens = FALSE
      BY <1>7, <3>0, Zenon
    <3>2. QED
      BY <2>1, <3>1, WornStretch
  <2>3. Tokens[b].k = "data"
    BY <1>2, <2>1, <2>2 DEF OpensInPlace
  <2>4. Coded(y) = Tokens[y].n /\ Coded(x) = Tokens[x].n
    BY <1>2, <1>7, <1>9, <2>1 DEF Coded
  <2>5. Tokens[y].n = At(i).n - (i - Cut) /\ Tokens[x].n = At(i).n - (i - (Cut - 1)) /\ At(i).n \in Int
    <3>1. i \in 1 .. Size + 1
      BY <1>1, BackPlaces
    <3>2. IsToken(At(i))
      BY <3>1, AtIsToken DEF Worn
    <3>3. QED
      BY <1>7, <1>9, <2>1, <3>2 DEF IsToken
  <2>6. Coded(y) = Coded(x) + 1
    BY <1>1, <2>4, <2>5
  <2>7. QED
    BY <2>1, <2>3, <2>6
<1>10. QED
  BY <1>8, <1>9

\* The decoder is at place p of the file, which is data that it has just decoded or opens
\* a segment.
Here(d, p) ==
    /\ p \in First .. Len(Tokens) - 1 /\ Tokens[p].k \in {"SOS", "RST", "data"}
    /\ Scanned(p) = d.scan /\ Coded(p) = d.mcu
    /\ IF Tokens[p].k = "data" THEN d.last = d.mcu /\ (Interval > 0 => d.toGo < Interval)
                               ELSE d.last = 0 /\ d.toGo = Interval
\* It knows which restart marker comes next.
Numbered(d) ==
    Interval > 0 => /\ d.toGo \in 0 .. Interval
                    /\ (d.mcu + d.toGo) % Interval = 0 /\ d.mcu + d.toGo > 0
                    /\ d.expected = Number(d.mcu + d.toGo)

\* What follows in the file.
GoesOn(d, q) ==
    /\ q \in 2 .. Len(Tokens) /\ q \in First + 1 .. Len(Tokens) - 1 /\ Tokens[q].k \in {"RST", "data"}
    /\ Scanned(q) = d.scan
    /\ Coded(q) = IF Tokens[q].k = "data" THEN d.mcu + 1 ELSE d.mcu
    /\ OpensInPlace(q) /\ RestartsInPlace(q)
    /\ Tokens[q - 1].k # "data" => Tokens[q].k = "data"
LEMMA HereGoesOn ==
    ASSUME Torn, NEW d, NEW p, Here(d, p), d.mcu \in Nat, d.mcu < Many
    PROVE  GoesOn(d, p + 1)
<1> DEFINE q == p + 1
<1>1. /\ p \in Nat /\ Len(Tokens) \in Nat /\ First \in Nat /\ First > 2 /\ q \in 2 .. Len(Tokens) /\ q - 1 = p
      /\ p \in 1 .. Len(Tokens) /\ Many \in Nat
  BY TornPlaces DEF Here, Torn
<1>2. SideBySide(Tokens[p], Tokens[q])
  BY <1>1, NeighboursFit
<1> HIDE DEF q
<1>3. Tokens[p].k = "data" => Tokens[p].n # Many
  BY DEF Here, Coded
<1>4. Tokens[q].k \in {"RST", "data"} /\ (Tokens[p].k # "data" => Tokens[q].k = "data")
  BY <1>2, <1>3 DEF SideBySide, IsMcu, Here
<1>5. Continues(q) /\ OpensInPlace(q) /\ RestartsInPlace(q)
  BY <1>1, <1>4, AllContinue
<1>6. q # Len(Tokens)
  <2>1. Tokens[Len(Tokens)].k = "EOI"
    BY TornPlaces
  <2>2. QED
    BY <1>4, <2>1
<1>7. q \in First + 1 .. Len(Tokens) - 1
  BY <1>1, <1>6 DEF Here
<1>8. Scanned(q) = d.scan /\ Coded(q) = IF Tokens[q].k = "data" THEN d.mcu + 1 ELSE d.mcu
  BY <1>1, <1>5 DEF Continues, Here
<1>9. QED
  BY <1>1, <1>4, <1>5, <1>7, <1>8 DEF GoesOn, q

\* An MCU that is due is there.
McuAt(d, q) ==
    /\ q \in First + 1 .. Len(Tokens) - 1
    /\ Tokens[q].k = "data" /\ Tokens[q].n = d.mcu + 1 /\ Tokens[q].comps = d.scan /\ Matches(d, Tokens[q])
LEMMA McuAhead ==
    ASSUME Torn, NEW d, NEW p, Here(d, p), Numbered(d), d.mcu \in Nat, d.mcu < Many, d.tables = Tables,
           Interval = 0 \/ d.toGo > 0
    PROVE  McuAt(d, p + 1)
<1> DEFINE q == p + 1
<1>1. GoesOn(d, q)
  BY HereGoesOn
<1>2. p \in Nat /\ Len(Tokens) \in Nat /\ First \in Nat /\ q - 1 = p /\ Interval \in Nat /\ q \in 1 .. Len(Tokens)
  BY <1>1, TornPlaces DEF Here, Torn, GoesOn
<1>3. Tokens[q].k = "data"
  <2>1. SUFFICES ASSUME Tokens[q].k = "RST" PROVE FALSE
    BY <1>1 DEF GoesOn
  <2>2. Tokens[p].k = "data" /\ Interval > 0 /\ Coded(q) % Interval = 0 /\ Coded(q) = d.mcu
    BY <1>1, <1>2, <2>1 DEF GoesOn, RestartsInPlace
  <2>3. d.toGo \in 1 .. Interval - 1 /\ (d.mcu + d.toGo) % Interval = 0 /\ d.mcu % Interval = 0
    BY <1>2, <2>2 DEF Numbered, Here
  <2>4. d.toGo \in Int /\ Interval \in Nat \ {0} /\ d.mcu + d.toGo \in Int
    BY <1>2, <2>2, <2>3
  <2>5. ((d.mcu + d.toGo) - d.mcu) % Interval = 0
    BY <2>3, <2>4, MultiplesAdd
  <2>6. d.toGo % Interval = 0
    BY <2>4, <2>5
  <2>7. d.toGo \in 0 .. Interval - 1
    BY <1>2, <2>3
  <2>8. d.toGo = 0
    BY <2>4, <2>6, <2>7, SmallMultiple
  <2>9. QED
    BY <2>3, <2>8
<1>4. Tokens[q].n = d.mcu + 1 /\ Tokens[q].comps = d.scan /\ Tokens[q].name = Tables
  BY <1>1, <1>2, <1>3, TornPlaces DEF GoesOn, Coded, Scanned
<1>5. (Tokens[q].opens <=> Tokens[p].k # "data")
  BY <1>1, <1>2, <1>3 DEF GoesOn, OpensInPlace
<1>6. IF Tokens[q].opens THEN d.last = 0 ELSE d.last > 0 /\ Tokens[q].n = d.last + 1
  <2>1. CASE Tokens[p].k # "data"
    BY <1>5, <2>1 DEF Here
  <2>2. CASE Tokens[p].k = "data"
    <3>1. d.last = d.mcu /\ Tokens[p].n = d.mcu
      BY <2>2 DEF Here, Coded
    <3>2. Tokens[p].n \in 1 .. Many /\ Many \in Nat
      <4>1. p \in 1 .. Len(Tokens)
        BY <1>2, TornPlaces DEF Here
      <4>2. QED
        BY <2>2, <4>1, AllAreShaped, TornPlaces DEF Shaped, IsDataOf
    <3>3. d.last > 0
      BY <3>1, <3>2
    <3>4. QED
      BY <1>4, <1>5, <2>2, <3>1, <3>3
  <2>3. QED
    BY <2>1, <2>2
<1>7. QED
  BY <1>1, <1>3, <1>4, <1>6 DEF McuAt, Matches, GoesOn

\* A restart marker that is due is there.
RestartAt(d, q) ==
    /\ q \in First + 1 .. Len(Tokens) - 1
    /\ Tokens[q] = Counting("RST", d.expected) /\ Tokens[q].k = "RST"
    /\ Scanned(q) = d.scan /\ Coded(q) = d.mcu
LEMMA RestartAhead ==
    ASSUME Torn, NEW d, NEW p, Here(d, p), Numbered(d), d.mcu \in Nat, d.mcu < Many,
           Interval > 0, d.toGo = 0
    PROVE  RestartAt(d, p + 1)
<1> DEFINE q == p + 1
<1>1. GoesOn(d, q)
  BY HereGoesOn
<1>2. p \in Nat /\ Len(Tokens) \in Nat /\ First \in Nat /\ q - 1 = p /\ Interval \in Nat
  BY TornPlaces DEF Here, Torn
<1>3. Tokens[p].k = "data" /\ Tokens[p].n = d.mcu
  BY DEF Here, Coded
<1>4. d.mcu + d.toGo = d.mcu
  OBVIOUS
<1>5. d.mcu % Interval = 0 /\ d.expected = Number(d.mcu)
  BY <1>2, <1>4 DEF Numbered
<1>6. Follows(Tokens, p, Many, Interval)
  BY TornPlaces DEF Here
<1>7. Tokens[q] = Counting("RST", d.expected)
  <2>1. Many \in Nat /\ Tokens[p].n # Many
    BY <1>3, TornPlaces
  <2>2. Interval > 0 /\ Tokens[p].n % Interval = 0
    BY <1>3, <1>5
  <2>3. Tokens[q] = Counting("RST", (Tokens[p].n \div Interval - 1) % 8)
    BY <1>3, <1>6, <2>1, <2>2 DEF Follows
  <2>4. QED
    BY <1>3, <1>5, <2>3 DEF Number
<1>8. Tokens[q].k = "RST"
  BY <1>7 DEF Counting, Marker
<1>9. QED
  BY <1>1, <1>7, <1>8 DEF RestartAt, GoesOn

\* Behind the last MCU the scan ends.
LEMMA ScanEnds ==
    ASSUME Torn, NEW d, NEW p, Here(d, p), d.mcu = Many
    PROVE  Tokens[p + 1].k \notin {"data", "RST"}
<1>0. /\ Len(Tokens) \in Nat /\ First \in Nat /\ First > 2 /\ Many \in Nat /\ Many > 0
      /\ p \in First .. Len(Tokens) - 1
  BY TornPlaces DEF Here, Torn
<1>1. /\ p \in Nat /\ Len(Tokens) \in Nat /\ First \in Nat /\ First > 2 /\ p + 1 \in 2 .. Len(Tokens) /\ (p + 1) - 1 = p
      /\ p \in 1 .. Len(Tokens) /\ Many \in Nat /\ Many > 0
  BY <1>0
<1>2. SideBySide(Tokens[p], Tokens[p + 1])
  BY <1>1, NeighboursFit
<1>3. Tokens[p].k # "SOS"
  BY <1>1 DEF Here, Coded
<1>4. Tokens[p].k # "RST"
  <2>1. SUFFICES ASSUME Tokens[p].k = "RST" PROVE FALSE
    OBVIOUS
  <2>2. p \in 2 .. Len(Tokens)
    BY <1>1 DEF Here
  <2>3. RestartsInPlace(p)
    BY <2>1, <2>2, AllContinue
  <2>4. QED
    BY <1>1, <2>1, <2>3 DEF RestartsInPlace, Here
<1>5. Tokens[p].k = "data" /\ Tokens[p].n = Many
  BY <1>3, <1>4 DEF Here, Coded
<1>6. QED
  BY <1>2, <1>5 DEF SideBySide

\* Where the segment ends in which the decoder is.
LEMMA HereEnds ==
    ASSUME Torn, NEW d, NEW p, Here(d, p), Numbered(d), d.mcu \in Nat, Interval > 0
    PROVE  Ends(p, d.mcu + d.toGo)
<1>1. Interval \in Nat /\ d.toGo \in Nat /\ d.mcu + d.toGo \in Nat \ {0} /\ (d.mcu + d.toGo) % Interval = 0
  BY DEF Numbered, Torn
<1> DEFINE e == d.mcu + d.toGo
<1>2. e = d.mcu + d.toGo /\ e \in Nat \ {0} /\ e % Interval = 0
  BY <1>1
<1> SUFFICES Ends(p, e)
  OBVIOUS
<1> HIDE DEF e
<1>3. IF Tokens[p].k = "data" THEN Coded(p) <= e /\ e < Coded(p) + Interval ELSE e = Coded(p) + Interval
  BY <1>1, <1>2 DEF Here
<1>4. QED
  BY <1>2, <1>3 DEF Ends, Here

\* Behind what is lost the next marker is a restart marker of a segment of the same scan,
\* the one that the decoder comes to or one or two intervals ahead.
Ahead(d) ==
    At(Back).k = "RST" => /\ Interval > 0 /\ Scanned(Back + Shift) = d.scan
                          /\ Reaches(d.mcu + d.toGo, Coded(Back + Shift))
LEMMA AheadOfTheGap ==
    ASSUME Worn, Lost, NEW d, Here(d, Cut - 1), Numbered(d), d.mcu \in Nat
    PROVE  Ahead(d)
<1> DEFINE a == source.from
           p == Back + Shift
           b == p - 1
           e == d.mcu + d.toGo
<1>1. SUFFICES ASSUME At(Back).k = "RST"
               PROVE  Interval > 0 /\ Scanned(p) = d.scan /\ Reaches(e, Coded(p))
  BY DEF Ahead
<1>2. /\ Torn /\ a \in Nat /\ source.to \in Nat /\ a <= source.to /\ source.to < Len(Tokens)
      /\ a \in 2 .. Len(Tokens) /\ Cut = a /\ Len(Tokens) \in Nat /\ Shift = source.to - a + 1
      /\ Stretch(a, source.to) /\ Cardinality(Restarts(a, source.to)) <= 2
      /\ Back \in Cut .. Size /\ Back \in Nat /\ Size \in Nat /\ p \in 1 .. Len(Tokens) /\ At(Back) = Tokens[p]
      /\ Origin(Back) = p
      /\ \A l \in Cut .. Back - 1 : At(l).k = "data"
  BY WornStretch, BackPlaces DEF Worn
<1>3. /\ b \in a .. Len(Tokens) /\ p \in a .. Len(Tokens) /\ p \in 2 .. Len(Tokens) /\ p \in a .. p
      /\ source.to <= b /\ p - 1 = b
  BY <1>2
<1>4. ASSUME NEW i \in a .. p
      PROVE  /\ Tokens[i].k \in {"RST", "data"}
             /\ i \in a .. source.to \/ i = p \/ Tokens[i].k = "data"
  <2>1. CASE i \in a .. source.to
    BY <1>2, <2>1 DEF Stretch
  <2>2. CASE i = p
    BY <1>1, <1>2, <2>2
  <2>3. CASE i \notin a .. source.to /\ i # p
    <3> DEFINE l == i - Shift
    <3> DEFINE u == source.to
               h == Shift
    <3>0. /\ a \in Nat /\ a >= 2 /\ u \in Nat /\ a <= u /\ Cut = a /\ h = u - a + 1
          /\ Back \in Nat /\ Back <= Size /\ Size \in Nat /\ p = Back + h /\ l = i - h /\ p \in Nat
      BY <1>2
    <3>4. i \in a .. p /\ i \notin a .. u /\ i # p
      BY <2>3
    <3> HIDE DEF u, h, a, p, l
    <3>5. i \in Nat /\ i > u /\ i < p
      BY <3>0, <3>4
    <3>6. l \in Cut .. Back - 1 /\ l \in 1 .. Size /\ ~(l < Cut) /\ l + h = i
      BY <3>0, <3>5
    <3>1. l \in Cut .. Back - 1 /\ l \in 1 .. Size /\ ~(l < Cut) /\ l + Shift = i
      BY <3>6 DEF h
    <3>2. At(l) = Tokens[i]
      BY <3>1, WornTokens DEF Origin
    <3>3. QED
      BY <1>2, <3>1, <3>2
  <2>4. QED
    BY <2>1, <2>2, <2>3
<1>5. Stretch(a, p) /\ Stretch(a, b)
  BY <1>2, <1>3, <1>4 DEF Stretch
<1>6. Restarts(a, b) = Restarts(a, source.to)
  <2>1. \A i \in a .. b : i \in a .. p /\ i # p
    BY <1>2, <1>3
  <2>2. \A i \in a .. source.to : i \in a .. b
    BY <1>2, <1>3
  <2>3. ASSUME NEW i \in a .. b, Tokens[i].k = "RST" PROVE i \in a .. source.to
    BY <1>4, <2>1, <2>3
  <2>4. QED
    BY <2>2, <2>3 DEF Restarts
<1>7. Scanned(p) = d.scan
  <2>1. Along(a, p)
    BY <1>2, <1>3, <1>5, WalksOn
  <2>2. QED
    BY <1>2, <2>1 DEF Along, Here
<1>8. Interval > 0 /\ Interval \in Nat \ {0}
  <2>1. RestartsInPlace(p)
    BY <1>1, <1>2, <1>3, AllContinue
  <2>2. Interval > 0 /\ Interval \in Nat
    BY <1>1, <1>2, <2>1 DEF RestartsInPlace, Torn
  <2>3. QED
    BY <2>2
<1>9. Ends(a - 1, e)
  BY <1>2, <1>8, HereEnds
<1>10. PICK f : Ends(b, f) /\ Reaches(e, f)
  <2>1. Cardinality(Restarts(a, b)) <= 2
    BY <1>2, <1>6
  <2>2. EndWithin(a, b, e)
    BY <1>2, <1>3, <1>5, <1>8, <1>9, <2>1, TwoMarkersAtMost
  <2>3. QED
    BY <2>2 DEF EndWithin
<1>11. NextEnd(p, f)
  BY <1>1, <1>2, <1>3, <1>8, <1>10, EndsGoOn
<1>12. f + Interval = Coded(p) + Interval /\ f \in Nat /\ Coded(p) \in Nat
  BY <1>1, <1>2, <1>10, <1>11 DEF NextEnd, Ends
<1>13. f = Coded(p)
  BY <1>8, <1>12
<1>14. QED
  BY <1>7, <1>8, <1>10, <1>13

\* Number x is one or two counts behind number y.
Behind(x, y) == x \in {(y + 7) % 8, (y + 6) % 8} /\ x \notin {y, (y + 1) % 8, (y + 2) % 8}
LEMMA OneOrTwoBehind ==
    ASSUME NEW x \in 0 .. 7, NEW y \in 0 .. 7, y = (x + 1) % 8 \/ y = (((x + 1) % 8) + 1) % 8
    PROVE  Behind(x, y)
BY DEF Behind

\* A part of the stretch has no more markers.
LEMMA FewerMarkers ==
    ASSUME NEW a \in Nat, NEW b \in Nat, NEW q \in a .. b, Cardinality(Restarts(a, b)) <= 2
    PROVE  Cardinality(Restarts(q, b)) <= 2
<1>1. a \in Int /\ b \in Int /\ q \in Nat
  OBVIOUS
<1>2. IsFiniteSet(a .. b)
  BY <1>1, FS_Interval
<1>3. Restarts(a, b) \subseteq a .. b
  BY DEF Restarts
<1>4. IsFiniteSet(Restarts(a, b))
  BY <1>2, <1>3, FS_Subset
<1>5. \A i \in q .. b : i \in a .. b
  BY <1>1
<1>6. Restarts(q, b) \subseteq Restarts(a, b)
  BY <1>5 DEF Restarts
<1>7. Cardinality(Restarts(q, b)) <= Cardinality(Restarts(a, b))
  BY <1>4, <1>6, FS_Subset
<1>8. IsFiniteSet(Restarts(q, b))
  BY <1>4, <1>6, FS_Subset
<1>9. Cardinality(Restarts(q, b)) \in Nat /\ Cardinality(Restarts(a, b)) \in Nat
  BY <1>4, <1>8, FS_CardinalityType
<1>10. QED
  BY <1>7, <1>9

\* The restart markers that are repeated are one or two counts behind.
LEMMA RepeatedAreBehind ==
    ASSUME Worn, ~Lost, NEW d, Here(d, Cut - 1), Numbered(d), d.mcu \in Nat, Interval > 0, d.toGo = 0,
           NEW i \in Cut .. Back - 1, At(i).k = "RST"
    PROVE  Behind(At(i).n, d.expected)
<1> DEFINE q == i - Width
           e == Coded(q)
           b == source.to
<1>1. /\ Torn /\ source.from \in Nat /\ b \in Nat /\ b < Len(Tokens) /\ Len(Tokens) \in Nat
      /\ source.from \in 2 .. Len(Tokens) /\ Cut = b + 1 /\ Cut - 1 = b
      /\ Stretch(source.from, b) /\ Cardinality(Restarts(source.from, b)) <= 2
  BY WornStretch DEF Worn
<1>2. q \in source.from .. b /\ At(i) = Tokens[q] /\ q < Cut
  BY RepeatedTokens
<1>3. /\ q \in 2 .. Len(Tokens) /\ b \in q .. Len(Tokens) /\ q \in q .. b /\ q - 1 \in Int
      /\ \A j \in q .. b : j \in source.from .. b
  BY <1>1, <1>2
<1>4. Stretch(q, b) /\ Cardinality(Restarts(q, b)) <= 2
  <2>1. Stretch(q, b)
    BY <1>1, <1>3 DEF Stretch
  <2>2. Cardinality(Restarts(q, b)) <= 2
    BY <1>1, <1>2, FewerMarkers
  <2>3. QED
    BY <2>1, <2>2
<1>5. Tokens[q].k = "RST"
  BY <1>2
<1>6. RestartsInPlace(q) /\ Continues(q) /\ q - 1 \in First .. Len(Tokens) - 1
  BY <1>1, <1>3, <1>5, AllContinue
<1>7. /\ Tokens[q - 1].k = "data" /\ e % Interval = 0 /\ Tokens[q].n = Number(e) /\ Coded(q - 1) = e
      /\ e \in Nat /\ Interval \in Nat \ {0}
  BY <1>1, <1>5, <1>6 DEF RestartsInPlace, Continues, Number, Torn
<1>8. e # 0
  <2>1. q - 1 \in 2 .. Len(Tokens)
    <3>1. First \in Nat /\ First > 2
      BY <1>1, TornPlaces
    <3>2. QED
      BY <1>1, <1>6, <3>1
  <2>2. Continues(q - 1)
    BY <1>1, <1>7, <2>1, AllContinue
  <2>3. QED
    BY <1>7, <2>2 DEF Continues
<1>9. Ends(q - 1, e)
  <2> HIDE DEF e
  <2>1. e <= e /\ e < e + Interval /\ e \in Nat \ {0}
    BY <1>7, <1>8
  <2>2. QED
    BY <1>7, <2>1 DEF Ends
<1>10. PICK f : Ends(b, f) /\ Reaches(e, f) /\ ((\E j \in q .. b : Tokens[j].k = "RST") => f # e)
  <2>1. EndWithin(q, b, e)
    BY <1>1, <1>3, <1>4, <1>9, TwoMarkersAtMost
  <2>2. QED
    BY <2>1 DEF EndWithin
<1>11. f # e
  BY <1>3, <1>5, <1>10
<1>12. f = d.mcu
  <2>1. Ends(b, d.mcu + d.toGo)
    BY <1>1, HereEnds
  <2>2. d.mcu + d.toGo = d.mcu
    OBVIOUS
  <2>3. Ends(b, d.mcu)
    BY <2>1, <2>2
  <2>4. QED
    BY <1>7, <1>10, <2>3, EndsOnce
<1>13. d.expected = Number(d.mcu)
  <2>1. d.mcu + d.toGo = d.mcu
    OBVIOUS
  <2>2. QED
    BY <2>1 DEF Numbered
<1> DEFINE e1 == e + Interval
<1>14. NextNumber(e)
  BY <1>7, <1>8, NumbersGoOn
<1>15. e1 \in Nat \ {0} /\ e1 % Interval = 0
  <2> HIDE DEF e
  <2>1. e1 \in Nat \ {0}
    BY <1>7
  <2>2. QED
    BY <1>14, <2>1 DEF NextNumber
<1>16. NextNumber(e1)
  BY <1>7, <1>15, NumbersGoOn
<1> HIDE DEF e
<1>17. d.mcu = e1 \/ d.mcu = e1 + Interval
  BY <1>10, <1>11, <1>12 DEF Reaches
<1>18. Number(e) \in 0 .. 7 /\ Number(e1) = (Number(e) + 1) % 8 /\ Number(e1 + Interval) = (Number(e1) + 1) % 8
  BY <1>14, <1>16 DEF NextNumber
<1>19. d.expected = (Number(e) + 1) % 8 \/ d.expected = (((Number(e) + 1) % 8) + 1) % 8
  BY <1>13, <1>17, <1>18
<1>20. (Number(e) + 1) % 8 \in 0 .. 7 /\ (((Number(e) + 1) % 8) + 1) % 8 \in 0 .. 7
  <2> DEFINE x == Number(e)
  <2>1. x \in 0 .. 7
    BY <1>18
  <2> HIDE DEF x
  <2>2. (x + 1) % 8 \in 0 .. 7 /\ (((x + 1) % 8) + 1) % 8 \in 0 .. 7
    BY <2>1
  <2>3. QED
    BY <2>2 DEF x
<1>21. Behind(Number(e), d.expected)
  BY <1>18, <1>19, <1>20, OneOrTwoBehind
<1>22. QED
  BY <1>2, <1>7, <1>21

\* The place of the file that the decoder has come to when it reads token n next.
Place(n) == IF n <= Cut THEN n - 1 ELSE n - 1 + Shift
\* It is in order there: in front of the damage, or behind it.
Ordered(d, n) ==
    /\ d.unread = NoMarker /\ ~d.insufficient
    /\ n < Cut \/ n > Back \/ (n = Cut /\ ~Lost)
    /\ Here(d, Place(n))
\* It is in what is left of a segment, or at the marker behind it.
Astray(d, n) ==
    /\ Lost /\ Ahead(d)
    /\ \/ d.unread = NoMarker /\ n \in Cut .. Back
       \/ d.unread = At(Back) /\ n = Back + 1
\* It skips what is repeated, from marker to marker.
Copying(d, n) ==
    /\ ~Lost /\ n - 1 \in Cut .. Back /\ d.unread = At(n - 1) /\ d.unread.k = "RST"
    /\ Here(d, Cut - 1) /\ ~d.insufficient
\* A marker is to be judged.
Restarting(d, n) ==
    /\ d.toGo = 0 /\ Interval > 0
    /\ Copying(d, n) \/ (Astray(d, n) /\ d.unread # NoMarker)

LEMMA InOrderHere ==
    ASSUME Worn, NEW d, NEW n \in 1 .. Size + 1, Ordered(d, n), n # Cut
    PROVE  /\ n \in 2 .. Size /\ n \in Nat /\ n + 1 \in 2 .. Size + 1
           /\ At(n) = Tokens[Place(n) + 1] /\ Place(n + 1) = Place(n) + 1
           /\ Place(n) \in First .. Len(Tokens) - 1 /\ Place(n) \in Nat
           /\ n < Cut \/ n > Back
<1>1. /\ First \in Nat /\ First > 2 /\ Cut \in Nat /\ Size \in Nat /\ Cut \in First + 1 .. Size /\ Shift \in Int
      /\ Size + Shift = Len(Tokens) /\ Back \in Cut .. Size /\ Back \in Nat /\ Len(Tokens) \in Nat
      /\ \A i \in 1 .. Size : At(i) = Tokens[Origin(i)]
  BY WornStretch, WornTokens, BackPlaces
<1>2. Place(n) \in First .. Len(Tokens) - 1 /\ (n < Cut \/ n > Back)
  BY <1>1 DEF Ordered, Here
<1>3. CASE n < Cut
  <2>1. Place(n) = n - 1 /\ Place(n + 1) = n /\ Origin(n) = n
    BY <1>1, <1>3 DEF Place, Origin
  <2>2. n \in 2 .. Size /\ n \in Nat /\ n + 1 \in 2 .. Size + 1
    BY <1>1, <1>2, <1>3, <2>1
  <2>3. n \in 1 .. Size /\ (n - 1) + 1 = n /\ n - 1 \in Nat
    BY <2>2
  <2>4. QED
    BY <1>1, <1>2, <2>1, <2>2, <2>3
<1>4. CASE n > Back
  <2>1. n \in Nat /\ ~(n <= Cut) /\ ~(n + 1 <= Cut) /\ ~(n < Cut) /\ n + 1 - 1 = n
    BY <1>1, <1>4
  <2>2. Place(n) = n - 1 + Shift /\ Place(n + 1) = n + Shift /\ Origin(n) = n + Shift
    BY <2>1 DEF Place, Origin
  <2>3. n \in 2 .. Size /\ n + 1 \in 2 .. Size + 1 /\ n \in 1 .. Size /\ Place(n) + 1 = n + Shift /\ Place(n) \in Nat
    BY <1>1, <1>2, <1>4, <2>1, <2>2
  <2>4. QED
    BY <1>1, <1>2, <2>1, <2>2, <2>3
<1>5. QED
  BY <1>2, <1>3, <1>4

\* Behind the next place it is in order again, or comes to the gap.
LEMMA InOrderOn ==
    ASSUME Worn, NEW d, NEW n \in 1 .. Size + 1, Ordered(d, n), n # Cut,
           NEW e, e.unread = NoMarker, ~e.insufficient, Here(e, Place(n) + 1), Numbered(e), e.mcu \in Nat
    PROVE  Ordered(e, n + 1) \/ Astray(e, n + 1)
<1>1. /\ n \in 2 .. Size /\ n \in Nat /\ Place(n + 1) = Place(n) + 1 /\ (n < Cut \/ n > Back)
      /\ Cut \in Nat /\ Back \in Nat /\ Back \in Cut .. Size
  BY InOrderHere, BackPlaces
<1>2. Here(e, Place(n + 1))
  BY <1>1
<1>3. CASE n + 1 = Cut /\ Lost
  <2>1. Place(n + 1) = Cut - 1
    BY <1>1, <1>3 DEF Place
  <2>2. Ahead(e)
    BY <1>2, <1>3, <2>1, AheadOfTheGap
  <2>3. n + 1 \in Cut .. Back
    BY <1>1, <1>3
  <2>4. QED
    BY <1>3, <2>2, <2>3 DEF Astray
<1>4. CASE ~(n + 1 = Cut /\ Lost)
  <2>1. n + 1 < Cut \/ n + 1 > Back \/ (n + 1 = Cut /\ ~Lost)
    BY <1>1, <1>4
  <2>2. QED
    BY <1>2, <2>1 DEF Ordered
<1>5. QED
  BY <1>3, <1>4

\* Where the file goes on behind what is repeated, there is no data.
LEMMA NoDataAtTheCut ==
    ASSUME Worn, ~Lost
    PROVE  /\ At(Cut) = Tokens[source.from] /\ At(Cut).k = "RST" /\ At(Back) = Tokens[Cut] /\ Tokens[Cut].k # "data"
           /\ Cut \in Cut .. Back - 1 /\ Back = Cut + Width
<1>1. /\ Cut \in Nat /\ Width \in Nat /\ Width > 0 /\ Back = Cut + Width /\ Cut = source.to + 1
      /\ Width = source.to - source.from + 1 /\ source.from \in Nat /\ source.to \in Nat
      /\ Tokens[source.from].k = "RST" /\ Tokens[source.to + 1].k # "data"
      /\ At(Back) = Tokens[Origin(Back)] /\ Origin(Back) = Cut
  BY WornStretch, BackPlaces
<1>2. Cut \in Cut .. Back - 1 /\ Cut - Width = source.from
  BY <1>1
<1>3. At(Cut) = Tokens[Cut - Width]
  BY <1>2, RepeatedTokens
<1>4. QED
  BY <1>1, <1>2, <1>3

\* Behind the last MCU of a scan there is no data and no restart marker, but for those
\* that are repeated.
ScanOver(i) ==
    /\ i \in 2 .. Size
    /\ At(i).k \notin {"data", "RST"} \/ (i \in Cut .. Back - 1 /\ At(Back).k # "RST")
LEMMA ScanIsOver ==
    ASSUME Worn, NEW d, NEW n \in 1 .. Size + 1, Ordered(d, n), n # Cut, NEW e, Here(e, Place(n) + 1), e.mcu = Many
    PROVE  ScanOver(n + 1) /\ At(n + 1).k # "data"
<1>1. /\ n \in 2 .. Size /\ n \in Nat /\ At(n) = Tokens[Place(n) + 1] /\ Place(n + 1) = Place(n) + 1
      /\ n < Cut \/ n > Back
      /\ Cut \in Nat /\ Back \in Nat /\ Back \in Cut .. Size /\ Size \in Nat /\ Cut \in First + 1 .. Size /\ Torn
      /\ Place(n) \in Nat /\ Len(Tokens) \in Nat /\ Shift \in Int /\ Size + Shift = Len(Tokens)
  BY InOrderHere, BackPlaces, WornTokens, WornStretch DEF Worn
<1> DEFINE p == Place(n) + 1
<1>2. p \in First .. Len(Tokens) - 1 /\ Tokens[p + 1].k \notin {"data", "RST"}
  BY <1>1, ScanEnds DEF Here
<1>3. CASE n + 1 # Cut
  <2>1. n + 1 <= Size
    <3>1. CASE n < Cut
      BY <1>1, <1>3, <3>1
    <3>2. CASE n > Back
      <4>1. Place(n) = n - 1 + Shift
        BY <1>1, <3>2 DEF Place
      <4>2. QED
        BY <1>1, <1>2, <4>1
    <3>3. QED
      BY <1>1, <3>1, <3>2
  <2>2. n + 1 \in 1 .. Size /\ Origin(n + 1) = p + 1
    <3>1. CASE n < Cut
      <4>1. Place(n) = n - 1 /\ n + 1 < Cut
        BY <1>1, <1>3, <3>1 DEF Place
      <4>2. QED
        BY <1>1, <2>1, <4>1 DEF Origin
    <3>2. CASE n > Back
      <4>1. Place(n) = n - 1 + Shift
        BY <1>1, <3>2 DEF Place
      <4>2. QED
        BY <1>1, <2>1, <3>2, <4>1 DEF Origin
    <3>3. QED
      BY <1>1, <3>1, <3>2
  <2>3. At(n + 1) = Tokens[p + 1]
    BY <2>2, WornTokens
  <2>4. n + 1 \in 2 .. Size
    BY <1>1, <2>1
  <2>5. QED
    BY <1>2, <2>3, <2>4 DEF ScanOver
<1>4. CASE n + 1 = Cut
  <2>1. n < Cut /\ Place(n) = n - 1 /\ p + 1 = Cut /\ n + 1 \in 2 .. Size
    BY <1>1, <1>4 DEF Place
  <2>2. Tokens[Cut].k \notin {"data", "RST"}
    BY <1>2, <2>1
  <2>3. ~Lost
    <3>1. SUFFICES ASSUME Lost PROVE FALSE
      OBVIOUS
    <3>2. Cut \in source.from .. source.to /\ Stretch(source.from, source.to)
      BY <3>1, WornStretch
    <3>3. QED
      BY <2>2, <3>2 DEF Stretch
  <2>4. At(Cut).k = "RST" /\ At(Back) = Tokens[Cut] /\ Cut \in Cut .. Back - 1
    BY <2>3, NoDataAtTheCut
  <2>5. QED
    BY <1>4, <2>1, <2>2, <2>4 DEF ScanOver
<1>5. QED
  BY <1>3, <1>4

\* In front of what is repeated no MCU is due.
LEMMA NoMcuAtTheCut ==
    ASSUME Worn, ~Lost, NEW d, Here(d, Cut - 1), Numbered(d), d.mcu \in Nat, d.mcu < Many, d.tables = Tables,
           Interval = 0 \/ d.toGo > 0
    PROVE  FALSE
<1>1. McuAt(d, (Cut - 1) + 1) /\ Cut \in Nat
  BY McuAhead, BackPlaces DEF Worn
<1>2. (Cut - 1) + 1 = Cut
  BY <1>1
<1>3. Tokens[Cut].k = "data"
  BY <1>1, <1>2 DEF McuAt
<1>4. QED
  BY <1>3, NoDataAtTheCut

\* There the marker of the file is due.
LEMMA RestartAtTheCut ==
    ASSUME Worn, ~Lost, NEW d, Here(d, Cut - 1), Numbered(d), d.mcu \in Nat, d.mcu < Many,
           Interval > 0, d.toGo = 0
    PROVE  RestartAt(d, Cut) /\ At(Back) = Tokens[Cut]
<1>1. RestartAt(d, (Cut - 1) + 1) /\ Cut \in Nat
  BY RestartAhead, BackPlaces DEF Worn
<1>2. (Cut - 1) + 1 = Cut
  BY <1>1
<1>3. QED
  BY <1>1, <1>2, NoDataAtTheCut

\* Data that is in front of the damage, or intact, is due: it has been decoded where it
\* belongs when the decoder is behind it.
Due(i) == At(i).k = "data" /\ (i < Cut \/ Intact(i))
DueIn(d, i) ==
    Due(i) => \A c \in At(i).comps : /\ d.coefs[c][At(i).n] = At(i).v[c]
                                     /\ c \in d.scan => At(i).n <= d.mcu
Landed(d, s) == \A i \in 1 .. s : DueIn(d, i)
\* What has not been decoded yet is blank.
Unsent(c, s) == \A j \in 1 .. s : At(j).k = "SOS" => c \notin At(j).comps
BlankIn(d, s, c) ==
    /\ DOMAIN d.coefs[c] = 1 .. Many
    /\ \A m \in 1 .. Many : (c \in d.scan /\ m > d.mcu) \/ Unsent(c, s) => d.coefs[c][m] = Blank
Blanks(d, s) == \A c \in Tokens[FrameAt].comps : BlankIn(d, s, c)
\* The scan of the pass has begun.
HasBegun(d, s) == \A c \in d.scan : ~Unsent(c, s)
Kept(d, s) == Landed(d, s) /\ Blanks(d, s) /\ HasBegun(d, s)

\* What is due is data of the file, of a scan that has begun.
DueFacts(i) ==
    /\ At(i).n \in 1 .. Many /\ At(i).comps \subseteq Tokens[FrameAt].comps
    /\ \E l \in 1 .. i - 1 : At(l).k = "SOS" /\ At(l).comps = At(i).comps
LEMMA DueHasScan ==
    ASSUME Worn, NEW i \in 1 .. Size, Due(i)
    PROVE  DueFacts(i)
<1>1. /\ At(i) = Tokens[Origin(i)] /\ Origin(i) \in 1 .. Len(Tokens) /\ At(i).k = "data" /\ Torn
      /\ Cut \in Nat /\ Size \in Nat /\ Cut \in First + 1 .. Size /\ First \in Nat /\ First > 2
      /\ \A j \in 1 .. Size : At(j) = Tokens[Origin(j)]
  BY WornTokens, WornStretch DEF Worn, Due
<1>2. At(i).n \in 1 .. Many /\ At(i).comps \subseteq Tokens[FrameAt].comps
  BY <1>1, AllAreShaped DEF Shaped, IsDataOf
<1>3. \E l \in 1 .. i - 1 : At(l).k = "SOS" /\ At(l).comps = At(i).comps
  <2>1. CASE i < Cut
    <3>1. Origin(i) = i /\ i \in Nat /\ Tokens[i].k = "data" /\ At(i) = Tokens[i]
      BY <1>1, <2>1 DEF Origin
    <3>2. PICK s \in First .. i : BeginsAt(s, i)
      BY <1>1, <3>1, AllBegun DEF Begun
    <3>3. Tokens[s].k = "SOS" /\ Tokens[s].comps = Tokens[i].comps
      BY <3>1, <3>2 DEF BeginsAt, Scanned
    <3>4. s # i
      BY <3>1, <3>3
    <3>5. s \in 1 .. i - 1 /\ s \in 1 .. Size /\ s < Cut
      BY <1>1, <2>1, <3>1, <3>4
    <3>6. At(s) = Tokens[s]
      BY <1>1, <3>5 DEF Origin
    <3>7. QED
      BY <3>1, <3>3, <3>5, <3>6
  <2>2. CASE Intact(i)
    <3>1. HasOwnScan(i)
      BY <2>2, IntactParts DEF IntactInParts
    <3>2. QED
      BY <3>1 DEF HasOwnScan
  <2>3. QED
    BY <2>1, <2>2 DEF Due
<1>4. QED
  BY <1>2, <1>3 DEF DueFacts

\* Tokens that begin no scan and are due only if they were before add nothing.
Repeats(i, s) == \E j \in 1 .. s : At(j) = At(i) /\ Due(j)
AddsNothing(i, s) == At(i).k # "SOS" /\ (Due(i) => Repeats(i, s))
LEMMA KeptOn ==
    ASSUME NEW d, NEW e, NEW s \in Nat, NEW t \in Nat, s <= t, Kept(d, s),
           e.coefs = d.coefs, e.scan = d.scan, d.mcu \in Nat, e.mcu \in Nat, e.mcu >= d.mcu, Many \in Nat,
           \A i \in s + 1 .. t : AddsNothing(i, s),
           \A i \in 1 .. Size : Due(i) => DueFacts(i), t <= Size, Size \in Nat
    PROVE  Kept(e, t)
<1>1. ASSUME NEW i \in 1 .. s PROVE DueIn(e, i)
  <2>1. SUFFICES ASSUME Due(i), NEW c \in At(i).comps
                 PROVE  /\ e.coefs[c][At(i).n] = At(i).v[c]
                        /\ c \in e.scan => At(i).n <= e.mcu
    BY DEF DueIn
  <2>2. DueIn(d, i)
    BY DEF Kept, Landed
  <2>3. d.coefs[c][At(i).n] = At(i).v[c] /\ (c \in d.scan => At(i).n <= d.mcu)
    BY <2>1, <2>2 DEF DueIn
  <2>4. At(i).n \in Nat
    <3>1. i \in 1 .. Size
      OBVIOUS
    <3>2. QED
      BY <2>1, <3>1 DEF DueFacts
  <2>5. QED
    BY <2>3, <2>4
<1>2. ASSUME NEW i \in s + 1 .. t PROVE DueIn(e, i)
  <2>1. CASE Due(i)
    <3>1. PICK j \in 1 .. s : At(j) = At(i) /\ Due(j)
      BY <2>1 DEF AddsNothing, Repeats
    <3>2. DueIn(e, j)
      BY <1>1
    <3>3. QED
      BY <2>1, <3>1, <3>2 DEF DueIn
  <2>2. CASE ~Due(i)
    BY <2>2 DEF DueIn
  <2>3. QED
    BY <2>1, <2>2
<1>3. Landed(e, t)
  <2>1. \A i \in 1 .. t : i \in 1 .. s \/ i \in s + 1 .. t
    OBVIOUS
  <2>2. QED
    BY <1>1, <1>2, <2>1 DEF Landed
<1>4. ASSUME NEW c \in Tokens[FrameAt].comps PROVE BlankIn(e, t, c)
  <2>1. BlankIn(d, s, c)
    BY DEF Kept, Blanks
  <2>2. Unsent(c, t) => Unsent(c, s)
    <3>1. \A j \in 1 .. s : j \in 1 .. t
      OBVIOUS
    <3>2. QED
      BY <3>1 DEF Unsent
  <2>3. ASSUME NEW m \in 1 .. Many, m > e.mcu PROVE m > d.mcu
    BY <2>3
  <2>4. QED
    BY <2>1, <2>2, <2>3 DEF BlankIn
<1>5. HasBegun(e, t)
  <2>1. \A j \in 1 .. s : j \in 1 .. t
    OBVIOUS
  <2>2. QED
    BY <2>1 DEF Kept, HasBegun, Unsent
<1>6. QED
  BY <1>3, <1>4, <1>5 DEF Kept, Blanks

\* An MCU that is stored: what is due is it.
Stores(d, value, i) ==
    At(i).comps = d.scan /\ At(i).n = d.mcu + 1 /\ \A c \in At(i).comps : At(i).v[c] = value[c]
LEMMA KeptStored ==
    ASSUME NEW d, NEW e, NEW value, NEW s \in Nat, NEW t \in Nat, s <= t, t <= Size, Size \in Nat, Kept(d, s),
           e.coefs = Stored(d, value), e.scan = d.scan, d.mcu \in Nat, e.mcu = d.mcu + 1,
           Many \in Nat, d.mcu < Many, DOMAIN d.coefs = Tokens[FrameAt].comps, d.scan \subseteq Tokens[FrameAt].comps,
           \A i \in s + 1 .. t : At(i).k # "SOS" /\ (Due(i) => Stores(d, value, i)),
           \A i \in 1 .. Size : Due(i) => DueFacts(i)
    PROVE  Kept(e, t)
<1> DEFINE m0 == d.mcu + 1
<1>0. m0 \in 1 .. Many /\ m0 \in Nat /\ e.mcu = m0
  OBVIOUS
<1>1. ASSUME NEW c \in Tokens[FrameAt].comps, c \notin d.scan PROVE e.coefs[c] = d.coefs[c]
  BY <1>1 DEF Stored
<1>2. ASSUME NEW c \in d.scan
      PROVE  /\ DOMAIN e.coefs[c] = 1 .. Many
             /\ e.coefs[c][m0] = value[c]
             /\ \A m \in 1 .. Many : m # m0 => e.coefs[c][m] = d.coefs[c][m]
  <2>1. BlankIn(d, s, c)
    BY DEF Kept, Blanks
  <2>2. DOMAIN d.coefs[c] = 1 .. Many /\ d.coefs[c][m0] = Blank
    <3>1. m0 > d.mcu
      BY <1>0
    <3>2. QED
      BY <1>0, <2>1, <3>1 DEF BlankIn
  <2>3. Over(d.coefs[c][m0], value[c]) = value[c]
    BY <2>2 DEF Over
  <2>4. e.coefs[c] = [d.coefs[c] EXCEPT ![m0] = Over(d.coefs[c][m0], value[c])]
    BY DEF Stored
  <2> HIDE DEF m0
  <2>5. QED
    BY <1>0, <2>2, <2>3, <2>4
<1> HIDE DEF m0
<1>3. ASSUME NEW i \in 1 .. s PROVE DueIn(e, i)
  <2>1. SUFFICES ASSUME Due(i), NEW c \in At(i).comps
                 PROVE  /\ e.coefs[c][At(i).n] = At(i).v[c]
                        /\ c \in e.scan => At(i).n <= e.mcu
    BY DEF DueIn
  <2>2. DueIn(d, i)
    BY DEF Kept, Landed
  <2>3. d.coefs[c][At(i).n] = At(i).v[c] /\ (c \in d.scan => At(i).n <= d.mcu)
    BY <2>1, <2>2 DEF DueIn
  <2>4. At(i).n \in 1 .. Many /\ c \in Tokens[FrameAt].comps
    <3>1. i \in 1 .. Size
      OBVIOUS
    <3>2. QED
      BY <2>1, <3>1 DEF DueFacts
  <2>5. CASE c \in d.scan
    <3>1. At(i).n # m0 /\ At(i).n <= m0
      BY <1>0, <2>3, <2>4, <2>5 DEF m0
    <3>2. QED
      BY <1>0, <1>2, <2>3, <2>4, <2>5, <3>1
  <2>6. CASE c \notin d.scan
    BY <1>1, <2>3, <2>4, <2>6
  <2>7. QED
    BY <2>5, <2>6
<1>4. ASSUME NEW i \in s + 1 .. t PROVE DueIn(e, i)
  <2>1. SUFFICES ASSUME Due(i), NEW c \in At(i).comps
                 PROVE  /\ e.coefs[c][At(i).n] = At(i).v[c]
                        /\ c \in e.scan => At(i).n <= e.mcu
    BY DEF DueIn
  <2>2. At(i).comps = d.scan /\ At(i).n = m0 /\ At(i).v[c] = value[c]
    BY <2>1 DEF Stores, m0
  <2>3. QED
    BY <1>0, <1>2, <2>2
<1>5. Landed(e, t)
  <2>1. \A i \in 1 .. t : i \in 1 .. s \/ i \in s + 1 .. t
    OBVIOUS
  <2>2. QED
    BY <1>3, <1>4, <2>1 DEF Landed
<1>6. ASSUME NEW c \in Tokens[FrameAt].comps PROVE BlankIn(e, t, c)
  <2>1. BlankIn(d, s, c)
    BY DEF Kept, Blanks
  <2>2. Unsent(c, t) => Unsent(c, s)
    <3>1. \A j \in 1 .. s : j \in 1 .. t
      OBVIOUS
    <3>2. QED
      BY <3>1 DEF Unsent
  <2>3. CASE c \in d.scan
    <3>1. ~Unsent(c, t)
      BY <2>2, <2>3 DEF Kept, HasBegun
    <3>2. ASSUME NEW m \in 1 .. Many, m > e.mcu PROVE e.coefs[c][m] = Blank
      <4>1. m # m0 /\ m > d.mcu
        BY <1>0, <3>2 DEF m0
      <4>2. QED
        BY <1>2, <2>1, <2>3, <4>1 DEF BlankIn
    <3>3. QED
      BY <1>2, <2>3, <3>1, <3>2 DEF BlankIn
  <2>4. CASE c \notin d.scan
    BY <1>1, <2>1, <2>2, <2>4 DEF BlankIn
  <2>5. QED
    BY <2>3, <2>4
<1>7. HasBegun(e, t)
  <2>1. \A j \in 1 .. s : j \in 1 .. t
    OBVIOUS
  <2>2. QED
    BY <2>1 DEF Kept, HasBegun, Unsent
<1>8. QED
  BY <1>5, <1>6, <1>7 DEF Kept, Blanks

\* A scan begins: its components have not been decoded yet.
LEMMA KeptAtScan ==
    ASSUME Worn, NEW d, NEW e, NEW s \in Nat, s + 1 \in 1 .. Size, Kept(d, s),
           At(s + 1).k = "SOS", e.scan = At(s + 1).comps, e.coefs = d.coefs, e.mcu = 0
    PROVE  Kept(e, s + 1)
<1> DEFINE t == s + 1
<1>0. Size \in Nat /\ \A i \in 1 .. s : i \in 1 .. Size /\ i # t
  BY WornTokens
<1>1. ASSUME NEW l \in 1 .. s, At(l).k = "SOS" PROVE At(l).comps \cap e.scan = {}
  BY <1>0, <1>1, ScansApart
<1>2. ASSUME NEW i \in 1 .. s PROVE DueIn(e, i)
  <2>1. SUFFICES ASSUME Due(i), NEW c \in At(i).comps
                 PROVE  /\ e.coefs[c][At(i).n] = At(i).v[c]
                        /\ c \notin e.scan
    BY DEF DueIn
  <2>2. DueIn(d, i)
    BY DEF Kept, Landed
  <2>3. PICK l \in 1 .. i - 1 : At(l).k = "SOS" /\ At(l).comps = At(i).comps
    BY <1>0, <2>1, DueHasScan DEF DueFacts
  <2>4. l \in 1 .. s
    BY <2>3
  <2>5. At(i).comps \cap e.scan = {}
    BY <1>1, <2>3, <2>4
  <2>6. QED
    BY <2>1, <2>2, <2>5 DEF DueIn
<1>3. DueIn(e, t)
  BY DEF DueIn, Due
<1>4. Landed(e, t)
  <2>1. \A i \in 1 .. t : i \in 1 .. s \/ i = t
    OBVIOUS
  <2>2. QED
    BY <1>2, <1>3, <2>1 DEF Landed
<1>5. ASSUME NEW c \in Tokens[FrameAt].comps PROVE BlankIn(e, t, c)
  <2>1. BlankIn(d, s, c)
    BY DEF Kept, Blanks
  <2>2. Unsent(c, t) => Unsent(c, s)
    <3>1. \A j \in 1 .. s : j \in 1 .. t
      OBVIOUS
    <3>2. QED
      BY <3>1 DEF Unsent
  <2>3. c \in e.scan => Unsent(c, s)
    BY <1>1 DEF Unsent
  <2>4. QED
    BY <2>1, <2>2, <2>3 DEF BlankIn
<1>6. HasBegun(e, t)
  <2>1. t \in 1 .. t
    OBVIOUS
  <2>2. QED
    BY <2>1 DEF HasBegun, Unsent
<1>7. QED
  BY <1>4, <1>5, <1>6 DEF Kept, Blanks

\* With the first scan nothing has been decoded.
LEMMA KeptAtFirst ==
    ASSUME Worn, NEW e, e.scan = At(First).comps, e.mcu = 0,
           e.coefs = [c \in Tokens[FrameAt].comps |-> [i \in 1 .. Many |-> Blank]]
    PROVE  Kept(e, First)
<1>1. /\ First \in Nat /\ First > 2 /\ Size \in Nat /\ Cut \in Nat /\ Cut \in First + 1 .. Size
      /\ \A i \in 1 .. Size : At(i) = Tokens[Origin(i)]
      /\ Tokens[First].k = "SOS" /\ First < Len(Tokens) /\ Len(Tokens) \in Nat
      /\ \A p \in 1 .. Len(Tokens) : Tokens[p].k = "SOS" => p \in First .. Len(Tokens) - 1
  BY WornStretch, WornTokens, TornPlaces DEF Worn
<1>2. ASSUME NEW i \in 1 .. First PROVE At(i) = Tokens[i] /\ i \in 1 .. Size /\ i \in 1 .. Len(Tokens) /\ i \in Nat
  <2>1. i \in 1 .. Size /\ i < Cut /\ i \in 1 .. Len(Tokens)
    BY <1>1
  <2>2. QED
    BY <1>1, <2>1 DEF Origin
<1>3. First \in 1 .. First /\ At(First).k = "SOS"
  <2>1. First \in 1 .. First
    BY <1>1
  <2>2. QED
    BY <1>1, <1>2, <2>1
<1>4. ASSUME NEW i \in 1 .. First, Due(i) PROVE FALSE
  <2>1. PICK l \in 1 .. i - 1 : At(l).k = "SOS"
    BY <1>2, <1>4, DueHasScan DEF DueFacts
  <2>2. l \in 1 .. First /\ l < First
    BY <1>1, <1>2
  <2>3. l \in First .. Len(Tokens) - 1
    BY <1>1, <1>2, <2>1, <2>2
  <2>4. QED
    BY <1>1, <2>2, <2>3
<1>5. Landed(e, First)
  BY <1>4 DEF Landed, DueIn
<1>6. ASSUME NEW c \in Tokens[FrameAt].comps PROVE BlankIn(e, First, c)
  <2>1. e.coefs[c] = [i \in 1 .. Many |-> Blank]
    OBVIOUS
  <2>2. QED
    BY <2>1 DEF BlankIn
<1>7. HasBegun(e, First)
  BY <1>3 DEF HasBegun, Unsent
<1>8. QED
  BY <1>5, <1>6, <1>7 DEF Kept, Blanks

\* Nor does what is left, or repeated, between the cut and the place where the file is in
\* order again.
LEMMA GapAddsNothing ==
    ASSUME Worn, NEW i \in Cut .. Back - 1, NEW s \in Nat, s >= Cut - 1
    PROVE  AddsNothing(i, s) /\ (Lost => ~Due(i))
<1>1. Cut \in Nat /\ Back \in Nat /\ i \in Nat /\ ~(i < Cut) /\ (Lost => At(i).k = "data")
  BY BackPlaces
<1>2. CASE Lost
  <2>1. ~Due(i)
    BY <1>1, <1>2, LeftoversAreNotIntact DEF Due
  <2>2. QED
    BY <1>1, <1>2, <2>1 DEF AddsNothing
<1>3. CASE ~Lost
  <2>1. /\ i - Width < Cut /\ i - Width \in 1 .. Size /\ At(i) = At(i - Width)
        /\ At(i) = Tokens[i - Width] /\ Tokens[i - Width].k \in {"RST", "data"}
    BY <1>3, RepeatedTokens
  <2>2. i - Width \in 1 .. s
    BY <1>1, <2>1
  <2>3. Due(i) => Due(i - Width)
    BY <2>1 DEF Due
  <2>4. At(i).k # "SOS"
    BY <2>1
  <2>5. QED
    BY <1>3, <2>1, <2>2, <2>3, <2>4 DEF AddsNothing, Repeats
<1>4. QED
  BY <1>2, <1>3

\* The call has what the header says, and what it has passed is decoded.
Steady(d) == ~d.inheaders /\ d.interval = Interval /\ d.tables = Tables /\ d.frame = Tokens[FrameAt]
Sitting(d, n) == Steady(d) /\ Kept(d, Seen(d, n))
\* It reads the header.
Heading(d, n, w) ==
    /\ d.inheaders /\ ~w
    /\ n = 1 \/ (Seen(d, n) < First /\ (d.unread # NoMarker => d.unread = At(n - 1)))
\* It is between two scans, or behind the last one.
Between(d, n) ==
    /\ d.mcu = Many /\ ScanOver(Seen(d, n) + 1)
    /\ d.unread # NoMarker => d.unread = At(n - 1)
\* It is in a scan: in order, or where a stretch is lost.
Within(d, n) == Numbered(d) /\ (Ordered(d, n) \/ Astray(d, n))
\* The places of a call to a file of which segments are lost or repeated.
LandsAt(d, l, n, w) ==
    \/ l = "reading" /\ Heading(d, n, w)
    \/ l = "reading" /\ Sitting(d, n) /\ Between(d, n)
    \/ l = "coefficients" /\ Sitting(d, n) /\ Within(d, n)
    \/ l = "resync" /\ Sitting(d, n) /\ Numbered(d) /\ Restarting(d, n)
    \/ l = "finish" /\ Kept(d, Size)
LandInv ==
    call = "transform" /\ pc # "idle" /\ Mild => Borrowing(dinfo) \/ LandsAt(dinfo, pc, next, warning)

\* What depends only on the file stays while the file does.
SameGap ==
    /\ Back' = Back /\ (Lost' <=> Lost) /\ (Mild' <=> Mild) /\ Shift' = Shift /\ Many' = Many
    /\ \A i : Due(i)' <=> Due(i)
    /\ \A p : Coded(p)' = Coded(p) /\ Scanned(p)' = Scanned(p)
    /\ \A e : Number(e)' = Number(e)
LEMMA GapStays ==
    ASSUME UNCHANGED <<source, written>>
    PROVE  SameGap
<1>1. /\ Cut' = Cut /\ FrameAt' = FrameAt /\ Interval' = Interval /\ Tokens' = Tokens /\ Size' = Size
      /\ \A i : At(i)' = At(i)
  BY SameDamage
<1>2. Lost' <=> Lost
  BY DEF Lost
<1>3. \A i : NextMarker(i)' = NextMarker(i)
  BY <1>1 DEF NextMarker
<1>4. Width' = Width
  BY DEF Width
<1>5. Back' = Back
  BY <1>1, <1>2, <1>3, <1>4 DEF Back
<1>6. Mild' <=> Mild
  BY <1>1 DEF Mild
<1>7. Shift' = Shift /\ Many' = Many
  BY <1>1 DEF Shift, Many
<1>8. ASSUME NEW i PROVE Due(i)' <=> Due(i)
  <2>1. HasOwnScan(i)' <=> HasOwnScan(i)
    BY <1>1 DEF HasOwnScan
  <2>2. HasOwnSegment(i)' <=> HasOwnSegment(i)
    BY <1>1 DEF HasOwnSegment, OpensAt
  <2>3. Has("DHT")' <=> Has("DHT")
    BY <1>1 DEF Has
  <2>4. (Has("DHT") => \E l \in 1 .. i - 1 : At(l).k = "DHT")'
        <=> (Has("DHT") => \E l \in 1 .. i - 1 : At(l).k = "DHT")
    BY <1>1, <2>3
  <2>5. IntactInParts /\ IntactInParts'
    BY IntactParts, PTL
  <2>6. (At(i).k = "data")' <=> At(i).k = "data"
    BY <1>1
  <2>7. Intact(i)' <=> Intact(i)
    BY <2>1, <2>2, <2>4, <2>5, <2>6 DEF IntactInParts
  <2>8. QED
    BY <1>1, <2>6, <2>7 DEF Due
<1>9. \A p : Coded(p)' = Coded(p) /\ Scanned(p)' = Scanned(p)
  BY <1>1 DEF Coded, Scanned
<1>10. \A e : Number(e)' = Number(e)
  BY <1>1 DEF Number
<1>11. QED
  BY <1>2, <1>5, <1>6, <1>7, <1>8, <1>9, <1>10 DEF SameGap

LEMMA SameLand ==
    ASSUME UNCHANGED <<source, written, call>>, NEW d, dinfo' = d, NEW l, pc' = l
    PROVE  LandsAt(dinfo, pc, next, warning)' <=> LandsAt(d, l, next', warning')
<1> DEFINE n == next'
<1>1. /\ Cut' = Cut /\ FrameAt' = FrameAt /\ First' = First /\ Interval' = Interval /\ Tables' = Tables
      /\ Tokens' = Tokens /\ Size' = Size
      /\ \A i : At(i)' = At(i)
  BY SameDamage
<1>2. /\ Back' = Back /\ (Lost' <=> Lost) /\ Shift' = Shift /\ Many' = Many
      /\ \A i : Due(i)' <=> Due(i)
      /\ \A p : Coded(p)' = Coded(p) /\ Scanned(p)' = Scanned(p)
      /\ \A e : Number(e)' = Number(e)
  BY GapStays DEF SameGap
<1>3. ASSUME NEW i PROVE DueIn(dinfo, i)' <=> DueIn(d, i)
  BY <1>1, <1>2 DEF DueIn
<1>4. ASSUME NEW s, NEW c PROVE (Unsent(c, s)' <=> Unsent(c, s)) /\ (BlankIn(dinfo, s, c)' <=> BlankIn(d, s, c))
  BY <1>1, <1>2 DEF BlankIn, Unsent
<1>5. ASSUME NEW s PROVE Kept(dinfo, s)' <=> Kept(d, s)
  BY <1>1, <1>3, <1>4 DEF Kept, Landed, Blanks, HasBegun
<1>6. Kept(dinfo, Seen(dinfo, next))' <=> Kept(d, Seen(d, n))
  <2>1. Seen(dinfo, next)' = Seen(d, n)
    BY DEF Seen
  <2> DEFINE s == Seen(dinfo, next)
             t == Seen(d, n)
  <2>2. s' = t
    BY <2>1
  <2>3. Kept(dinfo, s)' <=> Kept(d, t)
    <3> HIDE DEF s, t
    <3>1. QED
      BY <1>1, <1>3, <1>4, <2>2 DEF Kept, Landed, Blanks, HasBegun
  <2>4. QED
    BY <2>3
<1>7. Sitting(dinfo, next)' <=> Sitting(d, n)
  BY <1>1, <1>6 DEF Sitting, Steady
<1>8. Kept(dinfo, Size)' <=> Kept(d, Size)
  BY <1>1, <1>3, <1>4 DEF Kept, Landed, Blanks, HasBegun
<1>9. Heading(dinfo, next, warning)' <=> Heading(d, n, warning')
  BY <1>1 DEF Heading, Seen
<1>10. Between(dinfo, next)' <=> Between(d, n)
  BY <1>1, <1>2 DEF Between, ScanOver, Seen
<1>11. Numbered(dinfo)' <=> Numbered(d)
  BY <1>1, <1>2 DEF Numbered
<1>12. ASSUME NEW p PROVE Here(dinfo, p)' <=> Here(d, p)
  BY <1>1, <1>2 DEF Here
<1>13. Ahead(dinfo)' <=> Ahead(d)
  BY <1>1, <1>2 DEF Ahead, Reaches
<1>14. Astray(dinfo, next)' <=> Astray(d, n)
  BY <1>1, <1>2, <1>13 DEF Astray
<1>15. Here(dinfo, Cut - 1)' <=> Here(d, Cut - 1)
  BY <1>1, <1>2 DEF Here
<1>16. Here(dinfo, Place(next))' <=> Here(d, Place(n))
  BY <1>1, <1>2 DEF Here, Place
<1>17. Ordered(dinfo, next)' <=> Ordered(d, n)
  BY <1>1, <1>2, <1>16 DEF Ordered
<1>18. Restarting(dinfo, next)' <=> Restarting(d, n)
  BY <1>1, <1>2, <1>14, <1>15 DEF Restarting, Copying
<1>19. Within(dinfo, next)' <=> Within(d, n)
  BY <1>11, <1>14, <1>17 DEF Within
<1>20. QED
  BY <1>7, <1>8, <1>9, <1>10, <1>11, <1>18, <1>19 DEF LandsAt

\* The state of a transformation of such a file that has the right tables.
Landing == /\ call = "transform" /\ pc # "idle" /\ Mild /\ ~Borrowing(dinfo)
           /\ LandsAt(dinfo, pc, next, warning)

\* A step within a call keeps the invariant, if it lands.
LEMMA GoKeepsLandInv ==
    ASSUME LandInv, pc # "idle", NEW d, NEW l, Go(d, l),
           Borrowing(dinfo) => StillBorrows(d),
           Landing => Borrowing(d) \/ LandsAt(d, l, next', warning')
    PROVE  LandInv'
<1>1. dinfo' = d /\ pc' = l /\ UNCHANGED <<source, call, result, written, calls, inherited>>
  BY DEF Go
<1>2. Mild' <=> Mild
  BY <1>1, GapStays DEF SameGap
<1>3. SUFFICES ASSUME call = "transform", Mild
               PROVE  (Borrowing(dinfo) \/ LandsAt(dinfo, pc, next, warning))'
  BY <1>1, <1>2 DEF LandInv
<1>4. Borrowing(d) \/ LandsAt(d, l, next', warning')
  BY <1>3, BorrowingOn DEF LandInv, Landing
<1>5. Borrowing(dinfo)' <=> Borrowing(d)
  BY <1>1, SameBorrowing
<1>6. LandsAt(dinfo, pc, next, warning)' <=> LandsAt(d, l, next', warning')
  BY <1>1, SameLand
<1>7. QED
  BY <1>4, <1>5, <1>6

LEMMA FailKeepsLandInv ==
    ASSUME NEW d, Fail(d)
    PROVE  LandInv'
BY DEF Fail, LandInv

\* What holds then.
LEMMA WhileLanding ==
    ASSUME TypeInv, StrayInv, WrittenInv, Landing
    PROVE  /\ Worn /\ FileInv /\ Torn /\ next \in 1 .. Size + 1 /\ Size \in Nat /\ IsObject(dinfo)
           /\ call = "transform"
           /\ pc = "reading" => \/ Heading(dinfo, next, warning)
                                \/ Sitting(dinfo, next) /\ Between(dinfo, next)
           /\ pc = "coefficients" => Sitting(dinfo, next) /\ Within(dinfo, next)
           /\ pc = "resync" => Sitting(dinfo, next) /\ Numbered(dinfo) /\ Restarting(dinfo, next)
           /\ pc = "finish" => Kept(dinfo, Size)
<1>1. calls > 0 /\ FileInv /\ next \in 1 .. Size + 1 /\ IsObject(dinfo)
  BY DEF TypeInv, PlaceInv, Landing, ObjectOK
<1>2. Torn
  BY <1>1, FilesAreTorn
<1>3. Worn /\ Size \in Nat
  BY <1>1, <1>2 DEF Worn, Landing, Torn
<1>4. QED
  BY <1>1, <1>2, <1>3 DEF Landing, LandsAt

\* What has been passed where the decoder is.
LEMMA SeenInOrder ==
    ASSUME Worn, NEW d, NEW n \in 1 .. Size + 1, Ordered(d, n)
    PROVE  Seen(d, n) = n - 1 /\ n - 1 \in Nat /\ d.unread = NoMarker
BY WornTokens DEF Ordered, Seen

LEMMA SeenAstray ==
    ASSUME Worn, NEW d, NEW n \in 1 .. Size + 1, Astray(d, n)
    PROVE  /\ Lost /\ Ahead(d) /\ Seen(d, n) \in Cut - 1 .. Back - 1 /\ Seen(d, n) \in Nat
           /\ d.unread = NoMarker => n \in Cut .. Back /\ Seen(d, n) = n - 1
           /\ d.unread # NoMarker => d.unread = At(Back) /\ n = Back + 1 /\ Seen(d, n) = Back - 1
<1>1. Cut \in Nat /\ Back \in Cut .. Size /\ Back \in Nat /\ Size \in Nat /\ Cut >= 1
  BY BackPlaces, WornTokens DEF Worn, Torn
<1>2. At(Back) # NoMarker
  <2>1. FileInv /\ Back \in 1 .. Size + 1
    BY <1>1 DEF Worn
  <2>2. IsToken(At(Back))
    BY <2>1, AtIsToken
  <2>3. QED
    BY <2>2, TokenFacts
<1>3. QED
  BY <1>1, <1>2 DEF Astray, Seen

\* In front of the first scan the file is whole and has no data.
LEMMA HeaderPlaces ==
    ASSUME Worn, NEW n \in 1 .. First
    PROVE  /\ At(n) = Tokens[n] /\ n \in 1 .. Size /\ n \in 1 .. Len(Tokens) /\ n \in Nat /\ n < Cut /\ First < Cut
           /\ n + 1 <= Size /\ At(n).k \notin {"data", "EOI"} /\ (At(n).k = "SOS" => n = First)
<1>1. /\ First \in Nat /\ First > 2 /\ Size \in Nat /\ Cut \in Nat /\ Cut \in First + 1 .. Size
      /\ \A i \in 1 .. Size : At(i) = Tokens[Origin(i)]
      /\ \A i \in 1 .. Size - 1 : At(i).k # "EOI"
      /\ Tokens[First].k = "SOS" /\ First < Len(Tokens) /\ Len(Tokens) \in Nat
      /\ \A p \in 1 .. Len(Tokens) : Tokens[p].k \in {"data", "SOS", "RST"} => p \in First .. Len(Tokens) - 1
  BY WornStretch, WornTokens, TornPlaces DEF Worn
<1>2. n \in 1 .. Size /\ n < Cut /\ n \in 1 .. Len(Tokens) /\ n \in Nat /\ First < Cut /\ n + 1 <= Size
      /\ n \in 1 .. Size - 1
  BY <1>1
<1>3. At(n) = Tokens[n]
  BY <1>1, <1>2 DEF Origin
<1>4. At(n).k = "SOS" => n = First
  BY <1>1, <1>2, <1>3
<1>5. At(n).k # "data"
  BY <1>1, <1>2, <1>3
<1>6. QED
  BY <1>1, <1>2, <1>3, <1>4, <1>5

\* The next marker of the header is in its place.
LEMMA HeadingMeets ==
    ASSUME Worn, NEW d, NEW n \in 1 .. Size + 1, NEW w, Heading(d, n, w), d.unread = NoMarker,
           NEW e, e.inheaders, e.unread = At(n)
    PROVE  /\ n \in 1 .. Size /\ NextMarker(n) = n /\ After(n) = n + 1 /\ ~Starved(n)
           /\ Heading(e, n + 1, w)
<1>1. First \in Nat /\ First > 2 /\ FileInv /\ n \in Nat /\ Size \in Nat
  BY WornStretch, WornTokens DEF Worn
<1>2. n \in 1 .. First
  BY <1>1 DEF Heading, Seen
<1>3. n \in 1 .. Size /\ At(n).k \notin {"data", "EOI"}
  BY <1>2, HeaderPlaces
<1>4. NextMarker(n) = n
  BY <1>1, <1>3, MarkerHere
<1>5. ~Starved(n) /\ After(n) = n + 1
  BY <1>1, <1>3, InTheFile
<1>6. Seen(e, n + 1) < First /\ e.unread = At((n + 1) - 1)
  <2>1. (n + 1) - 1 = n /\ (n + 1) - 2 = n - 1
    BY <1>1
  <2>2. IsToken(At(n))
    BY <1>1, <1>3, AtIsToken
  <2>3. At(n) # NoMarker
    BY <2>2, TokenFacts
  <2>4. Seen(e, n + 1) = n - 1
    BY <2>1, <2>3 DEF Seen
  <2>5. QED
    BY <1>1, <1>2, <2>1, <2>4
<1>7. QED
  BY <1>3, <1>4, <1>5, <1>6 DEF Heading

\* A marker of the header is taken.
LEMMA HeadingGoesOn ==
    ASSUME Worn, NEW d, NEW n \in 1 .. Size + 1, NEW w, Heading(d, n, w), d.unread # NoMarker, d.unread.k # "SOS",
           NEW e, e.inheaders, e.unread = NoMarker
    PROVE  Heading(e, n, w)
<1>1. First \in Nat /\ First > 2 /\ n \in Nat /\ Size \in Nat
  BY WornStretch, WornTokens DEF Worn
<1>2. CASE n = 1
  BY <1>2 DEF Heading
<1>3. CASE n # 1
  <2>1. n - 2 < First /\ d.unread = At(n - 1) /\ n - 1 \in 1 .. First
    BY <1>1, <1>3 DEF Heading, Seen
  <2>2. At(First).k = "SOS"
    <3>1. First \in 1 .. First
      BY <1>1
    <3>2. At(First) = Tokens[First]
      BY <3>1, HeaderPlaces
    <3>3. QED
      BY <3>2, TornPlaces DEF Worn
  <2>3. n - 1 # First
    BY <2>1, <2>2
  <2>4. Seen(e, n) < First
    BY <1>1, <2>1, <2>3 DEF Seen
  <2>5. QED
    BY <2>4 DEF Heading
<1>4. QED
  BY <1>2, <1>3

\* Where SOS is taken, the decoder is at the first scan.
LEMMA HeadingAtFirst ==
    ASSUME Worn, NEW d, NEW n \in 1 .. Size + 1, NEW w, Heading(d, n, w), d.unread # NoMarker, d.unread.k = "SOS", n # 1
    PROVE  n - 1 = First /\ d.unread = At(First) /\ n = First + 1
<1>1. First \in Nat /\ First > 2 /\ n \in Nat /\ Size \in Nat
  BY WornStretch, WornTokens DEF Worn
<1>2. n - 2 < First /\ d.unread = At(n - 1) /\ n - 1 \in 1 .. First
  BY <1>1 DEF Heading, Seen
<1>3. n - 1 = First
  BY <1>2, HeaderPlaces
<1>4. QED
  BY <1>1, <1>2, <1>3

\* Behind a marker that begins no scan there is no data in the file.
NoDataAfter(p) == Tokens[p].k \notin {"data", "SOS", "RST", "EOI"} => Tokens[p + 1].k \notin {"data", "RST"}
LEMMA NoDataAnywhereBehind ==
    ASSUME Torn
    PROVE  \A p \in 1 .. Len(Tokens) - 1 : NoDataAfter(p)
<1>0. /\ First \in Nat /\ First < Len(Tokens) /\ First > 2
      /\ Tokens[First].k = "SOS"
  BY TornPlaces
<1>1. SUFFICES ASSUME NEW p \in 1 .. Len(Tokens) - 1, Tokens[p].k \notin {"data", "SOS", "RST", "EOI"}
               PROVE  Tokens[p + 1].k \notin {"data", "RST"}
  BY DEF NoDataAfter
<1>2. /\ Len(Tokens) \in Nat /\ p \in Nat /\ p + 1 \in 1 .. Len(Tokens)
  BY DEF Torn
<1>3. CASE p < First
  <2>1. p + 1 = First \/ p + 1 < First
    BY <1>0, <1>2, <1>3
  <2>2. Tokens[p + 1].k \in {"data", "SOS", "RST"} => p + 1 \in First .. Len(Tokens) - 1
    BY <1>2, TornPlaces
  <2>3. QED
    BY <1>0, <1>2, <2>1, <2>2
<1>4. CASE p >= First
  <2>1. p \in First .. Len(Tokens) - 1
    BY <1>0, <1>2, <1>4
  <2>2. Tokens[p].k \in {"APP", "DHT", "SOS", "RST", "data"} /\ Follows(Tokens, p, Many, Interval)
    BY <2>1, TornPlaces
  <2>3. Tokens[p].k \in {"APP", "DHT"}
    BY <1>1, <2>2
  <2>4. QED
    BY <2>2, <2>3 DEF Follows
<1>5. QED
  BY <1>0, <1>2, <1>3, <1>4

\* Where a stretch is lost or repeated, no scan begins or ends.
LEMMA GapKinds ==
    ASSUME Worn, NEW i \in Cut .. Back - 1
    PROVE  At(i).k \in {"data", "RST"} /\ i \in 2 .. Size
<1>1. /\ Back \in Cut .. Size /\ Back \in Nat /\ Cut \in Nat /\ Size \in Nat /\ First \in Nat /\ First > 2
      /\ Cut \in First + 1 .. Size
      /\ Lost => \A l \in Cut .. Back - 1 : At(l).k = "data"
  BY BackPlaces, WornTokens, WornStretch
<1>2. i \in 2 .. Size
  BY <1>1
<1>3. QED
  BY <1>1, <1>2, RepeatedTokens

\* Behind a scan one marker follows another.
LEMMA ScanOverOn ==
    ASSUME Worn, NEW i \in 1 .. Size, ScanOver(i), At(i).k \notin {"data", "SOS", "EOI"}
    PROVE  ScanOver(i + 1) /\ i + 1 \in 1 .. Size
<1>1. /\ Back \in Cut .. Size /\ Back \in Nat /\ Cut \in Nat /\ Size \in Nat /\ First \in Nat /\ First > 2
      /\ Cut \in First + 1 .. Size /\ At(Size).k = "EOI" /\ Size + Shift = Len(Tokens) /\ Shift \in Int
      /\ \A j \in 1 .. Size : At(j) = Tokens[Origin(j)] /\ Origin(j) \in 1 .. Len(Tokens)
      /\ At(Back).k # "data" /\ Torn /\ Len(Tokens) \in Nat
  BY BackPlaces, WornTokens, WornStretch DEF Worn
<1>2. i # Size /\ i + 1 \in 2 .. Size /\ i \in Nat /\ i \in 2 .. Size
  BY <1>1 DEF ScanOver
<1>3. CASE i \in Cut .. Back - 1
  <2>1. At(Back).k \notin {"data", "RST"}
    BY <1>1, <1>3, GapKinds DEF ScanOver
  <2>2. i + 1 \in Cut .. Back - 1 \/ i + 1 = Back
    BY <1>1, <1>2, <1>3
  <2>3. QED
    BY <1>2, <2>1, <2>2 DEF ScanOver
<1>4. CASE i \notin Cut .. Back - 1
  <2>1. At(i).k \notin {"data", "SOS", "RST", "EOI"}
    BY <1>4 DEF ScanOver
  <2>2. CASE i + 1 < Cut \/ i >= Back
    <3>1. Origin(i + 1) = Origin(i) + 1
      BY <1>1, <1>2, <2>2 DEF Origin
    <3>2. At(i) = Tokens[Origin(i)] /\ At(i + 1) = Tokens[Origin(i + 1)] /\ Origin(i) \in 1 .. Len(Tokens)
          /\ Origin(i + 1) \in 1 .. Len(Tokens)
      BY <1>1, <1>2
    <3>3. Origin(i) \in 1 .. Len(Tokens) - 1
      BY <1>1, <3>1, <3>2
    <3>4. At(i + 1).k \notin {"data", "RST"}
      <4> DEFINE p == Origin(i)
      <4>1. p \in 1 .. Len(Tokens) - 1 /\ Tokens[p].k \notin {"data", "SOS", "RST", "EOI"} /\ At(i + 1) = Tokens[p + 1]
        BY <2>1, <3>1, <3>2, <3>3
      <4> HIDE DEF p
      <4>2. Torn /\ NoDataAfter(p)
        BY <1>1, <4>1, NoDataAnywhereBehind
      <4>3. QED
        BY <4>1, <4>2 DEF NoDataAfter
    <3>5. QED
      BY <1>2, <3>4 DEF ScanOver
  <2>3. CASE i + 1 = Cut
    <3>1. Origin(i) = i /\ i \in 1 .. Len(Tokens)
      BY <1>1, <1>2, <2>3 DEF Origin
    <3>2. Cut \in 1 .. Len(Tokens)
      <4>1. source.to < Len(Tokens) /\ source.to \in Nat /\ source.from <= source.to /\ source.from \in Nat
            /\ Len(Tokens) \in Nat
        BY WornStretch
      <4>2. Cut = source.from \/ Cut = source.to + 1
        BY WornStretch
      <4>3. Cut <= Len(Tokens)
        BY <4>1, <4>2
      <4>4. Cut \in Nat /\ 1 <= Cut
        BY <1>1
      <4>5. QED
        BY <4>1, <4>3, <4>4
    <3>3. i \in 1 .. Len(Tokens) - 1
      BY <1>1, <1>2, <2>3, <3>2
    <3>4. Tokens[Cut].k \notin {"data", "RST"}
      <4>1. Tokens[i].k \notin {"data", "SOS", "RST", "EOI"}
        BY <1>1, <2>1, <3>1
      <4>2. Tokens[i + 1].k \notin {"data", "RST"}
        BY <1>1, <3>3, <4>1, NoDataAnywhereBehind DEF NoDataAfter
      <4>3. QED
        BY <2>3, <4>2
    <3>5. ~Lost
      <4>1. SUFFICES ASSUME Lost PROVE FALSE
        OBVIOUS
      <4>2. Cut \in source.from .. source.to /\ Stretch(source.from, source.to)
        BY <4>1, WornStretch
      <4>3. QED
        BY <3>4, <4>2 DEF Stretch
    <3>6. At(Back) = Tokens[Cut] /\ Cut \in Cut .. Back - 1
      BY <3>5, NoDataAtTheCut
    <3>7. QED
      BY <1>2, <2>3, <3>4, <3>6 DEF ScanOver
  <2>4. QED
    BY <1>1, <1>2, <1>4, <2>2, <2>3
<1>5. QED
  BY <1>2, <1>3, <1>4

\* The next marker is found there; what is skipped is what is left or repeated.
LEMMA ScanOverMeets ==
    ASSUME Worn, NEW i \in 1 .. Size, ScanOver(i), NEW m, m = NextMarker(i)
    PROVE  /\ m \in i .. Size /\ ScanOver(m) /\ At(m).k # "data"
           /\ \A j \in i .. m - 1 : j \in Cut .. Back - 1
<1>1. /\ Back \in Cut .. Size /\ Back \in Nat /\ Cut \in Nat /\ Size \in Nat /\ At(Back).k # "data"
      /\ FileInv /\ i \in Nat /\ i \in 1 .. Size + 1 /\ i \in 2 .. Size
  BY BackPlaces DEF Worn, ScanOver
<1>2. m \in i .. Size + 1 /\ At(m).k # "data" /\ \A l \in i .. m - 1 : At(l).k = "data"
  BY <1>1, MarkerIsFound
<1>3. CASE At(i).k # "data"
  <2>1. m = i
    BY <1>1, <1>3, MarkerHere
  <2>2. QED
    BY <1>1, <1>2, <2>1
<1>4. CASE At(i).k = "data"
  <2>1. i \in Cut .. Back - 1 /\ At(Back).k # "RST"
    BY <1>4 DEF ScanOver
  <2>2. m <= Back
    <3>1. ~(Back \in i .. m - 1)
      BY <1>1, <1>2
    <3>2. QED
      BY <1>1, <1>2, <2>1, <3>1
  <2>3. m \in i .. Size /\ m \in 2 .. Size /\ (m \in Cut .. Back - 1 \/ m = Back)
    BY <1>1, <1>2, <2>1, <2>2
  <2>4. ScanOver(m)
    BY <1>1, <2>1, <2>3 DEF ScanOver
  <2>5. \A j \in i .. m - 1 : j \in Cut .. Back - 1
    BY <1>1, <2>1, <2>2, <2>3
  <2>6. QED
    BY <1>2, <2>3, <2>4, <2>5
<1>5. QED
  BY <1>3, <1>4

\* What the tables and intervals of the file say.
LEMMA WornTables ==
    ASSUME Worn, NEW i \in 1 .. Size
    PROVE  /\ At(i).k = "DHT" => At(i).name = Tables
           /\ At(i).k = "DRI" => At(i).n = Interval
           /\ At(i).k = "SOS" => At(i).comps \subseteq Tokens[FrameAt].comps
           /\ IsToken(At(i)) /\ At(i) # NoMarker /\ NoMarker # At(i)
<1>1. At(i) = Tokens[Origin(i)] /\ Origin(i) \in 1 .. Len(Tokens) /\ Torn /\ FileInv
  BY WornTokens DEF Worn
<1>2. IsToken(Tokens[Origin(i)])
  BY <1>1, TornPlaces
<1>3. IsToken(At(i)) /\ At(i) # NoMarker
  BY <1>1, <1>2, TokenFacts
<1>4. /\ Tokens[Origin(i)].k = "DHT" => Tokens[Origin(i)].name = Tables
      /\ Tokens[Origin(i)].k = "DRI" => Tokens[Origin(i)].n = Interval
      /\ Tokens[Origin(i)].k = "SOS" => Tokens[Origin(i)].comps \subseteq Tokens[FrameAt].comps
  BY <1>1, TornPlaces
<1>5. QED
  BY <1>1, <1>3, <1>4

\* The decoder between two scans.
LEMMA BetweenPlaces ==
    ASSUME Worn, NEW d, NEW n \in 1 .. Size + 1, Between(d, n)
    PROVE  /\ n \in Nat /\ Size \in Nat /\ Many \in Nat /\ d.mcu = Many
           /\ d.unread = NoMarker => /\ Seen(d, n) = n - 1 /\ n - 1 \in Nat /\ ScanOver(n) /\ n \in 2 .. Size
           /\ d.unread # NoMarker =>
                 /\ Seen(d, n) = n - 2 /\ n - 2 \in Nat /\ (n - 2) + 1 = n - 1
                 /\ ScanOver(n - 1) /\ n - 1 \in 2 .. Size /\ d.unread = At(n - 1)
<1>1. n \in Nat /\ Size \in Nat /\ (n - 1) + 1 = n /\ (n - 2) + 1 = n - 1
  BY WornTokens
<1>2. Many \in Nat
  BY TornPlaces DEF Worn
<1>3. CASE d.unread = NoMarker
  <2>1. Seen(d, n) = n - 1 /\ ScanOver(n)
    BY <1>1, <1>3 DEF Between, Seen
  <2>2. n \in 2 .. Size
    BY <2>1 DEF ScanOver
  <2>3. QED
    BY <1>1, <1>2, <1>3, <2>1, <2>2 DEF Between
<1>4. CASE d.unread # NoMarker
  <2>1. Seen(d, n) = n - 2 /\ ScanOver(n - 1)
    BY <1>1, <1>4 DEF Between, Seen
  <2>2. n - 1 \in 2 .. Size
    BY <2>1 DEF ScanOver
  <2>3. n - 2 \in Nat
    BY <1>1, <2>2
  <2>4. QED
    BY <1>1, <1>2, <1>4, <2>1, <2>2, <2>3 DEF Between
<1>5. QED
  BY <1>3, <1>4

\* It meets the next marker.
LEMMA SittingMeets ==
    ASSUME Worn, NEW d, NEW n \in 1 .. Size + 1, Sitting(d, n), Between(d, n), d.unread = NoMarker,
           NEW e, Keeps(d, e, {"unread"}), e.unread = At(NextMarker(n))
    PROVE  Sitting(e, After(NextMarker(n))) /\ Between(e, After(NextMarker(n)))
<1> DEFINE m == NextMarker(n)
<1>1. n \in Nat /\ Size \in Nat /\ Many \in Nat /\ d.mcu = Many /\ Seen(d, n) = n - 1 /\ n - 1 \in Nat
      /\ ScanOver(n) /\ n \in 1 .. Size
  BY BetweenPlaces
<1>2. m \in n .. Size /\ ScanOver(m) /\ \A j \in n .. m - 1 : j \in Cut .. Back - 1
  BY <1>1, ScanOverMeets
<1> HIDE DEF m
<1>3. m \in Nat /\ m \in 1 .. Size /\ m - 1 \in Nat /\ m - 1 <= Size /\ n - 1 <= m - 1 /\ (m + 1) - 1 = m
      /\ (m + 1) - 2 = m - 1 /\ (m - 1) + 1 = m /\ (n - 1) + 1 = n
  BY <1>1, <1>2
<1>4. After(m) = m + 1
  BY <1>1, <1>3 DEF After, Starved
<1>5. Seen(e, m + 1) = m - 1
  <2>1. e.unread = At(m)
    BY DEF m
  <2>2. e.unread # NoMarker
    BY <1>3, <2>1, WornTables
  <2>3. QED
    BY <1>3, <2>2 DEF Seen
<1>6. Between(e, m + 1)
  <2>1. e.unread = At(m) /\ e.mcu = d.mcu
    BY DEF Keeps, Fields, m
  <2>2. QED
    BY <1>1, <1>2, <1>3, <1>5, <2>1 DEF Between
<1>7. ASSUME NEW i \in (n - 1) + 1 .. m - 1 PROVE AddsNothing(i, n - 1)
  <2>1. i \in Cut .. Back - 1 /\ n \in Cut .. Back - 1
    BY <1>1, <1>2, <1>3
  <2>2. Cut \in Nat /\ Back \in Nat
    BY BackPlaces
  <2>3. n - 1 >= Cut - 1
    BY <1>1, <2>1, <2>2
  <2>4. QED
    BY <1>1, <2>1, <2>3, GapAddsNothing
<1>8. Kept(e, m - 1)
  <2>1. e.coefs = d.coefs /\ e.scan = d.scan /\ e.mcu = d.mcu
    BY DEF Keeps, Fields
  <2>2. Kept(d, n - 1) /\ e.mcu \in Nat /\ e.mcu >= d.mcu /\ d.mcu \in Nat
    BY <1>1, <2>1 DEF Sitting
  <2>3. \A i \in 1 .. Size : Due(i) => DueFacts(i)
    BY DueHasScan
  <2>4. QED
    BY <1>1, <1>3, <1>7, <2>1, <2>2, <2>3, KeptOn
<1>9. Sitting(e, m + 1)
  BY <1>5, <1>8 DEF Sitting, Steady, Keeps, Fields
<1>10. QED
  BY <1>4, <1>6, <1>9 DEF m

\* It takes a marker that begins no scan.
LEMMA SittingGoesOn ==
    ASSUME Worn, NEW d, NEW n \in 1 .. Size + 1, Sitting(d, n), Between(d, n), d.unread # NoMarker,
           d.unread.k \notin {"data", "SOS", "EOI"},
           NEW e, Steady(e), e.unread = NoMarker, e.coefs = d.coefs, e.scan = d.scan, e.mcu = d.mcu
    PROVE  Sitting(e, n) /\ Between(e, n)
<1>1. /\ n \in Nat /\ Size \in Nat /\ Many \in Nat /\ d.mcu = Many
      /\ Seen(d, n) = n - 2 /\ n - 2 \in Nat /\ (n - 2) + 1 = n - 1
      /\ ScanOver(n - 1) /\ n - 1 \in 2 .. Size /\ d.unread = At(n - 1)
  BY BetweenPlaces
<1>2. /\ n - 1 \in 1 .. Size /\ n - 1 \in Nat /\ n - 2 <= n - 1 /\ n - 1 <= Size /\ (n - 1) + 1 = n
      /\ \A i \in (n - 2) + 1 .. n - 1 : i = n - 1
  BY <1>1
<1>3. Seen(e, n) = n - 1
  BY DEF Seen
<1>4. Kept(e, n - 1)
  <2>1. Kept(d, n - 2) /\ e.mcu \in Nat /\ e.mcu >= d.mcu /\ d.mcu \in Nat
    BY <1>1 DEF Sitting
  <2>2. \A i \in 1 .. Size : Due(i) => DueFacts(i)
    BY DueHasScan
  <2>4. AddsNothing(n - 1, n - 2)
    BY <1>1 DEF AddsNothing, Due
  <2>5. \A i \in (n - 2) + 1 .. n - 1 : AddsNothing(i, n - 2)
    BY <1>2, <2>4
  <2>6. QED
    BY <1>1, <1>2, <2>1, <2>2, <2>5, KeptOn
<1>5. ScanOver(n)
  <2>1. ScanOver((n - 1) + 1)
    BY <1>1, <1>2, ScanOverOn
  <2>2. QED
    BY <1>2, <2>1
<1>6. QED
  BY <1>1, <1>2, <1>3, <1>4, <1>5 DEF Sitting, Between

\* The steps of read_markers() keep the invariant.
LEMMA FirstMarkerKeepsLandInv ==
    ASSUME TypeInv, StrayInv, WrittenInv, LandInv, FirstMarker PROVE LandInv'
<1> DEFINE d == [dinfo EXCEPT !.unread = At(next)]
<1>1. /\ Reading /\ ~dinfo.eoi /\ dinfo.unread = NoMarker /\ ~dinfo.sawSOI
      /\ next' = After(next) /\ warning' = (warning \/ Starved(next))
      /\ IF At(next).k = "SOI" THEN Go(d, pc) ELSE Fail(dinfo)
  BY DEF FirstMarker
<1>2. /\ IsObject(dinfo) /\ FileInv /\ next \in 1 .. Size + 1 /\ pc = "reading"
      /\ ReadingOK(dinfo, next, call)
  BY <1>1, WhileReading
<1>3. Keeps(dinfo, d, {"unread"}) /\ d.unread = At(next)
  BY <1>2, UnreadField
<1> HIDE DEF d
<1>4. CASE At(next).k = "SOI"
  <2>1. Go(d, pc) /\ d.unread # NoMarker /\ d.unread.k # "DHT"
    BY <1>1, <1>2, <1>3, <1>4, AtIsToken, TokenFacts
  <2>2. Borrowing(dinfo) => StillBorrows(d)
    BY <1>3, <2>1, UnreadKeepsHeader DEF StillBorrows
  <2>3. ASSUME Landing PROVE LandsAt(d, pc, next', warning')
    <3>1. Worn /\ (Heading(dinfo, next, warning) \/ Sitting(dinfo, next))
      BY <1>2, <2>3, WhileLanding
    <3>2. dinfo.inheaders /\ ~Sitting(dinfo, next)
      BY <1>1, <1>2 DEF ReadingOK, InHeader, Ready, Sitting, Steady
    <3>3. d.inheaders
      BY <1>3, <3>2 DEF Keeps, Fields
    <3>4. After(next) = next + 1 /\ ~Starved(next) /\ Heading(d, next + 1, warning)
      BY <1>1, <1>2, <1>3, <3>1, <3>2, <3>3, HeadingMeets
    <3>5. Heading(d, next', warning')
      BY <1>1, <3>4 DEF Heading
    <3>6. QED
      BY <1>2, <3>5 DEF LandsAt
  <2>4. QED
    BY <1>2, <2>1, <2>2, <2>3, GoKeepsLandInv
<1>5. CASE At(next).k # "SOI"
  BY <1>1, <1>5, FailKeepsLandInv
<1>6. QED
  BY <1>4, <1>5

LEMMA NextMarkerOfHeadersKeepsLandInv ==
    ASSUME TypeInv, StrayInv, WrittenInv, LandInv, NextMarkerOfHeaders PROVE LandInv'
<1> DEFINE found == NextMarker(next)
           d == [dinfo EXCEPT !.unread = At(found)]
<1>1. /\ Reading /\ ~dinfo.eoi /\ dinfo.sawSOI /\ dinfo.unread = NoMarker
      /\ Go(d, pc) /\ next' = After(found)
      /\ warning' = (warning \/ found > next \/ Starved(found))
  BY DEF NextMarkerOfHeaders
<1>2. IsObject(dinfo) /\ FileInv /\ next \in 1 .. Size + 1 /\ pc = "reading" /\ pc # "idle" /\ Size \in Nat
  BY <1>1, WhileReading, SizeIsNat
<1>3. Keeps(dinfo, d, {"unread"}) /\ d.unread = At(found)
  BY <1>2, UnreadField
<1>4. found \in 1 .. Size + 1 /\ d.unread # NoMarker
  BY <1>2, <1>3, FoundInFile
<1> HIDE DEF d
<1>5. Borrowing(dinfo) => StillBorrows(d)
  BY <1>2, <1>3, <1>4, UnreadKeepsHeader, NoTablesToMeet DEF StillBorrows
<1>6. ASSUME Landing PROVE LandsAt(d, pc, next', warning')
  <2>1. /\ Worn
        /\ \/ Heading(dinfo, next, warning)
           \/ Sitting(dinfo, next) /\ Between(dinfo, next)
    BY <1>2, <1>6, WhileLanding
  <2>2. CASE Heading(dinfo, next, warning)
    <3>1. d.inheaders
      BY <1>3, <2>2 DEF Keeps, Fields, Heading
    <3>2. found = next
      <4>1. next \in 1 .. First
        BY <1>1, <1>2, <2>1, <2>2, WornStretch DEF Heading, Seen
      <4>2. At(next).k # "data"
        BY <2>1, <4>1, HeaderPlaces
      <4>3. QED
        BY <1>2, <4>2, MarkerHere
    <3> HIDE DEF found
    <3>3. d.unread = At(next)
      BY <1>3, <3>2
    <3>4. After(next) = next + 1 /\ ~Starved(next) /\ Heading(d, next + 1, warning)
      BY <1>1, <1>2, <2>1, <2>2, <3>1, <3>3, HeadingMeets
    <3>5. ~(found > next)
      BY <1>2, <3>2
    <3>6. Heading(d, next', warning')
      BY <1>1, <3>2, <3>4, <3>5 DEF Heading
    <3>7. QED
      BY <1>2, <3>6 DEF LandsAt
  <2>3. CASE Sitting(dinfo, next) /\ Between(dinfo, next)
    <3>1. Sitting(d, After(found)) /\ Between(d, After(found))
      BY <1>1, <1>2, <1>3, <2>1, <2>3, SittingMeets
    <3> HIDE DEF found
    <3>2. QED
      BY <1>1, <1>2, <3>1 DEF LandsAt
  <2>4. QED
    BY <2>1, <2>2, <2>3
<1>7. QED
  BY <1>1, <1>2, <1>5, <1>6, GoKeepsLandInv

\* A marker that is taken.
LEMMA TakenKeepsLandInv ==
    ASSUME TypeInv, StrayInv, WrittenInv, LandInv, NEW kinds, Parsing(kinds),
           dinfo.unread.k \notin {"data", "SOS", "EOI"}, NEW d, Go(d, pc), d.unread = NoMarker,
           d.inheaders = dinfo.inheaders, d.coefs = dinfo.coefs, d.scan = dinfo.scan, d.mcu = dinfo.mcu,
           ~dinfo.inheaders => d.frame = dinfo.frame,
           d.tables = IF dinfo.unread.k = "DHT" THEN dinfo.unread.name ELSE dinfo.tables,
           ~dinfo.inheaders => d.interval = IF dinfo.unread.k = "DRI" THEN dinfo.unread.n ELSE dinfo.interval
    PROVE  LandInv'
<1>1. pc # "idle" /\ pc = "reading" /\ warning' = warning /\ next' = next /\ dinfo.unread # NoMarker
      /\ next \in 1 .. Size + 1
  BY WhileParsing, WhileReading
<1>2. Borrowing(dinfo) => StillBorrows(d)
  BY ParsingStillBorrows DEF Borrowing
<1>3. ASSUME Landing PROVE LandsAt(d, pc, next', warning')
  <2>1. /\ Worn
        /\ \/ Heading(dinfo, next, warning)
           \/ Sitting(dinfo, next) /\ Between(dinfo, next)
    BY <1>1, <1>3, WhileLanding
  <2>2. CASE Heading(dinfo, next, warning)
    <3>1. d.inheaders
      BY <2>2 DEF Heading
    <3>2. Heading(d, next, warning)
      BY <1>1, <2>1, <2>2, <3>1, HeadingGoesOn
    <3>3. QED
      BY <1>1, <3>2 DEF LandsAt
  <2>3. CASE Sitting(dinfo, next) /\ Between(dinfo, next)
    <3>1. dinfo.unread = At(next - 1) /\ next - 1 \in 1 .. Size
      BY <1>1, <2>1, <2>3, BetweenPlaces
    <3>2. Steady(d)
      BY <2>1, <2>3, <3>1, WornTables DEF Sitting, Steady
    <3>3. Sitting(d, next) /\ Between(d, next)
      BY <1>1, <2>1, <2>3, <3>2, SittingGoesOn
    <3>4. QED
      BY <1>1, <3>3 DEF LandsAt
  <2>4. QED
    BY <2>1, <2>2, <2>3
<1>4. QED
  BY <1>1, <1>2, <1>3, GoKeepsLandInv

LEMMA SaveMarkerKeepsLandInv ==
    ASSUME TypeInv, StrayInv, WrittenInv, LandInv, SaveMarker PROVE LandInv'
<1> DEFINE d == Saved
<1>1. Parsing({"APP"}) /\ Go(d, pc)
  BY MarkerIsSaved
<1>2. IsObject(dinfo) /\ dinfo.unread.k = "APP"
  BY <1>1, WhileParsing, WhileReading
<1>3. Keeps(dinfo, d, {"saved", "unread", "jfif", "adobe"}) /\ d.unread = NoMarker
  BY <1>2, SavedFields
<1> HIDE DEF d
<1>4. /\ d.inheaders = dinfo.inheaders /\ d.coefs = dinfo.coefs /\ d.mcu = dinfo.mcu
      /\ d.scan = dinfo.scan /\ d.tables = dinfo.tables /\ d.frame = dinfo.frame
      /\ d.interval = dinfo.interval
  BY <1>3 DEF Keeps, Fields
<1>5. QED
  BY <1>1, <1>2, <1>3, <1>4, TakenKeepsLandInv

LEMMA SkipMarkerKeepsLandInv ==
    ASSUME TypeInv, StrayInv, WrittenInv, LandInv, SkipMarker PROVE LandInv'
<1> DEFINE d == [dinfo EXCEPT !.unread = NoMarker]
<1>1. Parsing({"RST", "TEM"}) /\ Go(d, pc)
  BY DEF SkipMarker
<1>2. IsObject(dinfo) /\ dinfo.unread.k \in {"RST", "TEM"}
  BY <1>1, WhileParsing, WhileReading
<1>3. Keeps(dinfo, d, {"unread"}) /\ d.unread = NoMarker
  BY <1>2, UnreadField
<1> HIDE DEF d
<1>4. /\ d.inheaders = dinfo.inheaders /\ d.coefs = dinfo.coefs /\ d.mcu = dinfo.mcu
      /\ d.scan = dinfo.scan /\ d.tables = dinfo.tables /\ d.frame = dinfo.frame
      /\ d.interval = dinfo.interval
  BY <1>3 DEF Keeps, Fields
<1>5. QED
  BY <1>1, <1>2, <1>3, <1>4, TakenKeepsLandInv

LEMMA GetSOIKeepsLandInv ==
    ASSUME TypeInv, StrayInv, WrittenInv, LandInv, GetSOI PROVE LandInv'
<1> DEFINE d == Opened
<1>1. Parsing({"SOI"}) /\ IF dinfo.sawSOI THEN Fail(dinfo) ELSE Go(d, pc)
  BY DEF GetSOI, Opened
<1>2. IsObject(dinfo) /\ dinfo.unread.k = "SOI" /\ ReadingOK(dinfo, next, call)
  BY <1>1, WhileParsing, WhileReading
<1>3. Keeps(dinfo, d, {"sawSOI", "interval", "unread", "jfif", "adobe"}) /\ d.unread = NoMarker
  BY <1>2, OpenedFields
<1> HIDE DEF d
<1>4. CASE dinfo.sawSOI
  BY <1>1, <1>4, FailKeepsLandInv
<1>5. CASE ~dinfo.sawSOI
  <2>1. dinfo.inheaders
    BY <1>2, <1>5 DEF ReadingOK, InHeader, Ready
  <2>2. /\ d.inheaders = dinfo.inheaders /\ d.coefs = dinfo.coefs /\ d.mcu = dinfo.mcu
        /\ d.scan = dinfo.scan /\ d.tables = dinfo.tables /\ d.frame = dinfo.frame
    BY <1>3 DEF Keeps, Fields
  <2>3. QED
    BY <1>1, <1>2, <1>3, <1>5, <2>1, <2>2, TakenKeepsLandInv
<1>6. QED
  BY <1>4, <1>5

LEMMA GetSOFKeepsLandInv ==
    ASSUME TypeInv, StrayInv, WrittenInv, LandInv, GetSOF PROVE LandInv'
<1> DEFINE d == [dinfo EXCEPT !.frame = dinfo.unread, !.unread = NoMarker]
<1>1. Parsing({"SOF"})
      /\ IF Stale \/ dinfo.frame # NoMarker \/ dinfo.unread.name \in {"unsupported", "empty"}
         THEN Fail(dinfo) ELSE Go(d, pc)
  BY DEF GetSOF
<1>2. IsObject(dinfo) /\ dinfo.unread.k = "SOF" /\ ReadingOK(dinfo, next, call)
  BY <1>1, WhileParsing, WhileReading
<1>3. Keeps(dinfo, d, {"frame", "unread"}) /\ d.unread = NoMarker
  BY <1>2 DEF IsObject, Fields, Keeps
<1> HIDE DEF d
<1>4. CASE Stale \/ dinfo.frame # NoMarker \/ dinfo.unread.name \in {"unsupported", "empty"}
  BY <1>1, <1>4, FailKeepsLandInv
<1>5. CASE ~(Stale \/ dinfo.frame # NoMarker \/ dinfo.unread.name \in {"unsupported", "empty"})
  <2>1. dinfo.inheaders
    BY <1>2, <1>5 DEF ReadingOK, InHeader, Ready
  <2>2. /\ d.inheaders = dinfo.inheaders /\ d.coefs = dinfo.coefs /\ d.mcu = dinfo.mcu
        /\ d.scan = dinfo.scan /\ d.tables = dinfo.tables /\ d.interval = dinfo.interval
    BY <1>3 DEF Keeps, Fields
  <2>3. QED
    BY <1>1, <1>2, <1>3, <1>5, <2>1, <2>2, TakenKeepsLandInv
<1>6. QED
  BY <1>4, <1>5

LEMMA GetTablesKeepsLandInv ==
    ASSUME TypeInv, StrayInv, WrittenInv, LandInv, GetTables PROVE LandInv'
<1> DEFINE m == dinfo.unread
           b == [dinfo EXCEPT !.unread = NoMarker]
           d == CASE m.k = "DHT" -> [b EXCEPT !.tables = m.name]
                  [] m.k = "DQT" -> [b EXCEPT !.quant = m.name]
                  [] m.k = "DRI" -> [b EXCEPT !.interval = m.n]
<1>1. Parsing({"DHT", "DQT", "DRI"}) /\ m.k \in {"DHT", "DQT", "DRI"}
      /\ IF Stale THEN Fail(dinfo) ELSE Go(d, pc)
  BY DEF GetTables, Parsing, Pending
<1>2. IsObject(dinfo)
  BY <1>1, WhileParsing, WhileReading
<1>3. Keeps(dinfo, b, {"unread"}) /\ b.unread = NoMarker
  BY <1>2, UnreadField
<1> HIDE DEF b
<1>4. /\ Keeps(b, d, {"tables", "quant", "interval"})
      /\ d.tables = IF m.k = "DHT" THEN m.name ELSE b.tables
      /\ d.interval = IF m.k = "DRI" THEN m.n ELSE b.interval
  <2>1. CASE m.k = "DHT"
    BY <1>3, <2>1 DEF IsObject, Fields, Keeps
  <2>2. CASE m.k = "DQT"
    BY <1>3, <2>2 DEF IsObject, Fields, Keeps
  <2>3. CASE m.k = "DRI"
    BY <1>3, <2>3 DEF IsObject, Fields, Keeps
  <2>4. QED
    BY <1>1, <2>1, <2>2, <2>3
<1> HIDE DEF d
<1>5. /\ d.inheaders = dinfo.inheaders /\ d.coefs = dinfo.coefs /\ d.scan = dinfo.scan
      /\ d.frame = dinfo.frame /\ d.mcu = dinfo.mcu /\ d.unread = NoMarker
      /\ d.tables = (IF m.k = "DHT" THEN m.name ELSE dinfo.tables)
      /\ d.interval = (IF m.k = "DRI" THEN m.n ELSE dinfo.interval)
  BY <1>3, <1>4 DEF Keeps, Fields
<1>6. CASE Stale
  BY <1>1, <1>6, FailKeepsLandInv
<1>7. CASE ~Stale
  <2>1. dinfo.unread.k \notin {"data", "SOS", "EOI"} /\ Go(d, pc)
    BY <1>1, <1>7
  <2>2. QED
    BY <1>1, <1>5, <2>1, TakenKeepsLandInv
<1>8. QED
  BY <1>6, <1>7

\* EOI ends a call: all segments that are due have been decoded.
LEMMA GetEOIKeepsLandInv ==
    ASSUME TypeInv, StrayInv, WrittenInv, LandInv, GetEOI PROVE LandInv'
<1> DEFINE d == [dinfo EXCEPT !.unread = NoMarker, !.eoi = TRUE]
           e == [d EXCEPT !.state = "STOPPING"]
<1>1. Parsing({"EOI"}) /\ IF d.inheaders THEN Fail(d) ELSE Go(e, "finish")
  BY DEF GetEOI
<1>2. IsObject(dinfo) /\ pc # "idle" /\ pc = "reading" /\ dinfo.unread.k = "EOI" /\ dinfo.unread # NoMarker
      /\ next \in 1 .. Size + 1
  BY <1>1, WhileParsing, WhileReading
<1>3. Keeps(dinfo, d, {"unread", "eoi"})
  BY <1>2 DEF IsObject, Fields, Keeps
<1>4. Keeps(dinfo, e, {"unread", "eoi", "state"}) /\ e.unread = NoMarker
  BY <1>2 DEF IsObject, Fields, Keeps
<1> HIDE DEF d, e
<1>5. /\ d.inheaders = dinfo.inheaders /\ e.coefs = dinfo.coefs
      /\ e.scan = dinfo.scan /\ e.mcu = dinfo.mcu /\ e.tables = dinfo.tables
  BY <1>3, <1>4 DEF Keeps, Fields
<1>6. CASE d.inheaders
  BY <1>1, <1>6, FailKeepsLandInv
<1>7. CASE ~d.inheaders
  <2>1. Borrowing(dinfo) => StillBorrows(e)
    BY <1>4, <1>5, ParsingStillBorrows
  <2>2. ASSUME Landing PROVE LandsAt(e, "finish", next', warning')
    <3>1. Worn /\ Sitting(dinfo, next) /\ Between(dinfo, next)
      BY <1>2, <1>5, <1>7, <2>2, WhileLanding DEF Heading
    <3>2. /\ next \in Nat /\ Size \in Nat /\ Many \in Nat /\ dinfo.mcu = Many
          /\ Seen(dinfo, next) = next - 2 /\ next - 2 \in Nat /\ (next - 2) + 1 = next - 1
          /\ next - 1 \in 2 .. Size /\ dinfo.unread = At(next - 1)
      BY <1>2, <3>1, BetweenPlaces
    <3>3. next - 1 = Size
      <4>1. next - 1 \in 1 .. Size - 1 \/ next - 1 = Size
        BY <3>2
      <4>2. QED
        BY <1>2, <3>1, <3>2, <4>1, WornTokens
    <3>4. \A i \in (next - 2) + 1 .. Size : AddsNothing(i, next - 2)
      <4>1. AddsNothing(Size, next - 2)
        BY <1>2, <3>2, <3>3 DEF AddsNothing, Due
      <4>2. \A i \in (next - 2) + 1 .. Size : i = Size
        BY <3>2, <3>3
      <4>3. QED
        BY <4>1, <4>2
    <3>5. Kept(dinfo, next - 2) /\ next - 2 <= Size /\ e.mcu >= dinfo.mcu
      BY <1>5, <3>1, <3>2 DEF Sitting
    <3>6. \A i \in 1 .. Size : Due(i) => DueFacts(i)
      BY <3>1, DueHasScan
    <3>7. Kept(e, Size)
      BY <1>5, <3>2, <3>4, <3>5, <3>6, KeptOn
    <3>8. QED
      BY <3>7 DEF LandsAt
  <2>3. Go(e, "finish")
    BY <1>1, <1>7
  <2>4. QED
    BY <1>2, <2>1, <2>2, <2>3, GoKeepsLandInv
<1>8. QED
  BY <1>6, <1>7

\* The number of the first restart marker.
LEMMA FirstNumber ==
    ASSUME Interval \in Nat \ {0}
    PROVE  (0 + Interval) % Interval = 0 /\ Number(0 + Interval) = 0
<1>1. Interval % Interval = 0 /\ 0 + Interval = Interval
  BY MultipleOfItself
<1>2. Interval \div Interval = 1
  BY SMT
<1>3. Number(Interval) = 0
  BY <1>2 DEF Number
<1>4. QED
  BY <1>1, <1>3

\* A pass begins in order, or where a stretch is lost.
LEMMA ScanStarts ==
    ASSUME Worn, NEW n \in 2 .. Size + 1, At(n - 1).k = "SOS", NEW f, f.scan = At(n - 1).comps, f.mcu = 0, f.last = 0,
           f.toGo = Interval, f.expected = 0, ~f.insufficient, f.unread = NoMarker
    PROVE  Within(f, n)
<1>1. /\ Back \in Cut .. Size /\ Back \in Nat /\ Cut \in Nat /\ Size \in Nat /\ First \in Nat
      /\ Cut \in First + 1 .. Size /\ Size + Shift = Len(Tokens) /\ Shift \in Int /\ Torn
      /\ \A i \in 1 .. Size : At(i) = Tokens[Origin(i)] /\ Origin(i) \in 1 .. Len(Tokens)
  BY BackPlaces, WornTokens, WornStretch DEF Worn
<1>2. n \in Nat /\ n - 1 \in 1 .. Size /\ n \in 1 .. Size + 1 /\ Interval \in Nat
  <2>1. Size \in Nat
    BY <1>1
  <2>2. n \in Nat /\ n - 1 \in 1 .. Size /\ n \in 1 .. Size + 1
    BY <2>1
  <2>3. QED
    BY <1>1, <2>2 DEF Torn
<1>3. Numbered(f)
  <2>1. SUFFICES ASSUME Interval > 0
                 PROVE  /\ f.toGo \in 0 .. Interval
                        /\ (f.mcu + f.toGo) % Interval = 0 /\ f.mcu + f.toGo > 0
                        /\ f.expected = Number(f.mcu + f.toGo)
    BY DEF Numbered
  <2>2. (0 + Interval) % Interval = 0 /\ Number(0 + Interval) = 0
    BY <1>2, <2>1, FirstNumber
  <2>3. Interval \in 0 .. Interval /\ 0 + Interval > 0
    BY <1>2, <2>1
  <2>4. QED
    BY <2>2, <2>3
<1>4. n - 1 \notin Cut .. Back - 1
  BY GapKinds
<1>5. ASSUME NEW p, p = Origin(n - 1) PROVE Here(f, p)
  <2>1. p \in 1 .. Len(Tokens) /\ Tokens[p] = At(n - 1)
    BY <1>1, <1>2, <1>5
  <2>2. p \in First .. Len(Tokens) - 1
    BY <1>1, <2>1, TornPlaces
  <2>3. Scanned(p) = f.scan /\ Coded(p) = f.mcu
    BY <2>1 DEF Scanned, Coded
  <2>4. QED
    BY <2>1, <2>2, <2>3 DEF Here
<1>6. CASE n - 1 < Cut
  <2>1. Origin(n - 1) = n - 1 /\ n <= Cut
    BY <1>1, <1>2, <1>6 DEF Origin
  <2>2. Here(f, n - 1) /\ Place(n) = n - 1
    BY <1>5, <2>1 DEF Place
  <2>3. CASE n < Cut \/ ~Lost
    <3>1. n < Cut \/ (n = Cut /\ ~Lost)
      BY <1>1, <1>2, <2>1, <2>3
    <3>2. QED
      BY <1>3, <2>2, <3>1 DEF Within, Ordered
  <2>4. CASE ~(n < Cut \/ ~Lost)
    <3>1. n = Cut /\ Lost /\ Here(f, Cut - 1) /\ n \in Cut .. Back
      BY <1>1, <1>2, <2>1, <2>2, <2>4
    <3>2. Ahead(f)
      BY <1>3, <3>1, AheadOfTheGap
    <3>3. QED
      BY <1>3, <3>1, <3>2 DEF Within, Astray
  <2>5. QED
    BY <2>3, <2>4
<1>7. CASE n - 1 >= Back
  <2>1. n > Back /\ ~(n <= Cut) /\ ~(n - 1 < Cut)
    BY <1>1, <1>2, <1>7
  <2>2. Origin(n - 1) = n - 1 + Shift /\ Place(n) = n - 1 + Shift
    BY <2>1 DEF Origin, Place
  <2>3. Here(f, Place(n))
    BY <1>5, <2>2
  <2>4. QED
    BY <1>3, <2>1, <2>3 DEF Within, Ordered
<1>8. QED
  BY <1>1, <1>2, <1>4, <1>6, <1>7

\* What the header of the file says of its first pass.
Declared(d) ==
    /\ d.interval = Interval /\ d.frame = Tokens[FrameAt]
    /\ (IF d.tables = None THEN "standard" ELSE d.tables) = Tables
LEMMA HeaderIsKnown ==
    ASSUME TypeInv, MarkerInv, StrayInv, WrittenInv, TrackInv, Landing, Pending({"SOS"}), Worn,
           Heading(dinfo, next, warning), next # 1, dinfo.frame.name = None, dinfo.frame # NoMarker
    PROVE  Declared(dinfo) /\ next - 1 = First
<1> DEFINE q == next - 2
<1>1. /\ dinfo.unread.k = "SOS" /\ dinfo.unread # NoMarker /\ dinfo.sawSOI /\ ~dinfo.eoi
      /\ next \in 1 .. Size + 1 /\ pc = "reading" /\ pc # "idle"
  BY WhilePending, WhileReading
<1>2. next - 1 = First
  BY <1>1, HeadingAtFirst
<1>3. OnTrack
  <2>1. ~Doomed(dinfo, pc, next)
    BY <1>1 DEF Doomed
  <2>2. ~warning /\ call = "transform" /\ ~Borrowing(dinfo)
    BY DEF Heading, Landing
  <2>3. QED
    BY <1>1, <2>1, <2>2 DEF OnTrack, TrackInv
<1>4. q \in Nat /\ q + 1 = next - 1 /\ Knows(dinfo, q) /\ Sought(dinfo, q)
  BY <1>1, <1>3, PendingOnTrack
<1>5. Torn /\ First \in Nat /\ Cut \in First + 1 .. Size /\ Cut \in Nat /\ Size \in Nat
  BY WornStretch, WornTokens DEF Worn
<1> HIDE DEF q
<1>6. dinfo.frame = Tokens[FrameAt]
  BY <1>4 DEF Sought, Heading
<1>7. dinfo.interval = Interval
  <2>1. q < Cut /\ q + 1 >= First
    BY <1>2, <1>4, <1>5
  <2>2. QED
    BY <1>1, <1>4, <1>5, <2>1, IntervalIsKnown
<1>8. (IF dinfo.tables = None THEN "standard" ELSE dinfo.tables) = Tables
  <2>1. CASE Met(q, "DHT")
    <3>1. dinfo.tables = Tables
      BY <1>4, <2>1 DEF Knows
    <3>2. QED
      BY <1>5, <3>1, TablesAreThere
  <2>2. CASE ~Met(q, "DHT")
    <3>1. \A i \in 2 .. First - 1 : Tokens[i].k # "DHT"
      <4>1. SUFFICES ASSUME NEW i \in 2 .. First - 1, Tokens[i].k = "DHT" PROVE FALSE
        OBVIOUS
      <4>2. i \in 1 .. First /\ i \in 1 .. q
        BY <1>2, <1>4, <1>5
      <4>3. At(i) = Tokens[i]
        BY <4>2, HeaderPlaces
      <4>4. QED
        BY <2>2, <4>1, <4>2, <4>3 DEF Met
    <3>2. Layout(Tokens, FrameAt, First, Interval, Tables) /\ DOMAIN Tokens = 1 .. Len(Tokens)
      BY <1>5, TornPlaces DEF Torn
    <3>3. Tables = "standard" /\ \A i \in 1 .. Len(Tokens) : Tokens[i].k # "DHT"
      BY <3>1, <3>2 DEF Layout
    <3>4. ~Has("DHT")
      <4>1. \A i \in 1 .. Size : At(i).k # "DHT"
        BY <3>3, WornTokens
      <4>2. QED
        BY <4>1 DEF Has
    <3>5. First + 1 \in 1 .. Len(Tokens) /\ Tokens[First + 1].k = "data" /\ Tokens[First + 1].name = Tables
      <4>1. /\ First < Len(Tokens) /\ Tokens[First].k = "SOS" /\ Len(Tokens) \in Nat
            /\ Follows(Tokens, First, Many, Interval)
        <5>1. First < Len(Tokens) /\ Tokens[First].k = "SOS" /\ Len(Tokens) \in Nat
          BY <1>5, TornPlaces DEF Torn
        <5>2. First \in First .. Len(Tokens) - 1
          BY <1>5, <5>1
        <5>3. QED
          BY <1>5, <5>1, <5>2, TornPlaces
      <4>2. First + 1 \in 1 .. Len(Tokens) /\ Tokens[First + 1].k = "data"
        BY <1>5, <4>1 DEF Follows, IsMcu
      <4>3. QED
        BY <1>5, <4>2, TornPlaces
    <3>6. dinfo.tables \in {None, Tables}
      BY <1>1, <3>4, <3>5 DEF Landing, Borrowing
    <3>7. QED
      BY <3>3, <3>6
  <2>3. QED
    BY <2>1, <2>2
<1>9. QED
  BY <1>2, <1>6, <1>7, <1>8 DEF Declared

\* What an object is when a pass of such a file is about to begin.
Opens(e, n) ==
    /\ Steady(e) /\ e.expected = 0 /\ e.unread = NoMarker /\ e.scan = At(n - 1).comps
    /\ \/ Sitting(dinfo, n) /\ Between(dinfo, n) /\ e.coefs = dinfo.coefs
       \/ n - 1 = First /\ e.coefs = [c \in Tokens[FrameAt].comps |-> [i \in 1 .. Many |-> Blank]]
LEMMA StartKeepsLandInv ==
    ASSUME TypeInv, StrayInv, WrittenInv, LandInv, Pending({"SOS"}), next' = next, NEW e, IsObject(e),
           StartInputPass(e), dinfo.tables # None => e.tables = dinfo.tables, e.unread = NoMarker,
           Landing => Opens(e, next)
    PROVE  LandInv'
<1>1. /\ pc # "idle" /\ pc = "reading" /\ dinfo.unread.k = "SOS" /\ dinfo.unread # NoMarker /\ next' = next
      /\ next \in 1 .. Size + 1
  BY WhilePending, WhileReading
<1>2. CASE e.quant = None
  <2>1. Fail(e)
    BY <1>2, InputPass
  <2>2. QED
    BY <2>1, FailKeepsLandInv
<1>3. CASE e.quant # None
  <2> DEFINE f == PassStarted(e)
  <2>1. Go(f, "coefficients")
    BY <1>3, InputPass
  <2>2. /\ Keeps(e, f, {"consume", "mcu", "insufficient", "toGo", "last", "latched"})
        /\ f.mcu = 0 /\ f.insufficient = FALSE /\ f.toGo = e.interval /\ f.last = 0
    BY PassStartedFields
  <2> HIDE DEF f
  <2>3. /\ f.unread = e.unread /\ f.tables = e.tables /\ f.interval = e.interval /\ f.inheaders = e.inheaders
        /\ f.frame = e.frame /\ f.scan = e.scan /\ f.coefs = e.coefs /\ f.expected = e.expected
    BY <2>2 DEF Keeps, Fields
  <2>4. Borrowing(dinfo) => StillBorrows(f)
    <3>1. ASSUME Borrowing(dinfo) PROVE e.tables = dinfo.tables /\ e.unread = NoMarker
      BY <3>1 DEF Borrowing
    <3>2. QED
      BY <2>3, <3>1, ParsingStillBorrows
  <2>5. ASSUME Landing PROVE LandsAt(f, "coefficients", next', warning')
    <3>1. Worn /\ Opens(e, next) /\ next \in Nat /\ Size \in Nat /\ Torn
      BY <1>1, <2>5, WhileLanding
    <3>2. Steady(f)
      BY <2>3, <3>1 DEF Opens, Steady
    <3>3. f.toGo = Interval /\ f.expected = 0 /\ f.unread = NoMarker /\ f.scan = At(next - 1).comps
      BY <2>2, <2>3, <3>1 DEF Opens, Steady
    <3>4. At(next - 1).k = "SOS" /\ next \in 2 .. Size + 1 /\ Kept(f, next - 1)
      <4>1. CASE Sitting(dinfo, next) /\ Between(dinfo, next) /\ e.coefs = dinfo.coefs
        <5>1. /\ Seen(dinfo, next) = next - 2 /\ next - 2 \in Nat /\ (next - 2) + 1 = next - 1
              /\ next - 1 \in 2 .. Size /\ dinfo.unread = At(next - 1)
          BY <1>1, <3>1, <4>1, BetweenPlaces
        <5>2. Kept(dinfo, next - 2) /\ f.coefs = dinfo.coefs
          BY <2>3, <4>1, <5>1 DEF Sitting
        <5> DEFINE s == next - 2
        <5>3. /\ s \in Nat /\ s + 1 \in 1 .. Size /\ s + 1 = next - 1 /\ Kept(dinfo, s)
              /\ At(s + 1).k = "SOS" /\ f.scan = At(s + 1).comps
          BY <1>1, <3>1, <3>3, <5>1, <5>2
        <5> HIDE DEF s
        <5>4. Kept(f, s + 1)
          BY <2>2, <3>1, <5>2, <5>3, KeptAtScan
        <5>5. next \in 2 .. Size + 1
          BY <3>1, <5>1
        <5>6. QED
          BY <5>3, <5>4, <5>5
      <4>2. CASE /\ next - 1 = First
                 /\ e.coefs = [c \in Tokens[FrameAt].comps |-> [i \in 1 .. Many |-> Blank]]
        <5>1. First \in Nat /\ First > 2 /\ First \in 1 .. First
          BY <3>1, WornStretch
        <5>2. At(First) = Tokens[First] /\ Tokens[First].k = "SOS" /\ next \in 2 .. Size + 1
          BY <1>1, <3>1, <4>2, <5>1, HeaderPlaces, TornPlaces
        <5>3. Kept(f, First)
          BY <2>2, <2>3, <3>1, <3>3, <4>2, KeptAtFirst
        <5>4. QED
          BY <4>2, <5>2, <5>3
      <4>3. QED
        BY <3>1, <4>1, <4>2 DEF Opens
    <3>5. Within(f, next)
      BY <2>2, <3>1, <3>3, <3>4, ScanStarts
    <3>6. Sitting(f, next)
      BY <3>2, <3>3, <3>4 DEF Sitting, Seen
    <3>7. QED
      BY <1>1, <3>5, <3>6 DEF LandsAt
  <2>6. QED
    BY <1>1, <2>1, <2>4, <2>5, GoKeepsLandInv
<1>4. QED
  BY <1>2, <1>3

\* SOS begins a pass, of the first scan or a later one.
LEMMA GetSOSKeepsLandInv ==
    ASSUME TypeInv, MarkerInv, StrayInv, WrittenInv, TrackInv, LandInv, GetSOS PROVE LandInv'
<1> DEFINE comps == dinfo.unread.comps
           d == ScanBegun
           headers == HeaderEnded
           e == Select(headers)
<1>1. Pending({"SOS"}) /\ next' = next
  BY ScanHeader
<1>2. /\ IsObject(dinfo) /\ call \in {"header", "transform"} /\ IsToken(dinfo.unread) /\ dinfo.unread # NoMarker
      /\ dinfo.unread.k = "SOS" /\ next \in 1 .. Size + 1 /\ pc = "reading" /\ pc # "idle"
  BY <1>1, WhilePending, WhileReading
<1>3. /\ Keeps(dinfo, d, {"unread", "scan", "expected"})
      /\ d.unread = NoMarker /\ d.scan = comps /\ d.expected = 0
  BY <1>2, ScanFields
<1>4. Keeps(d, headers, {"inheaders", "state", "multiple", "colours"}) /\ headers.inheaders = FALSE
  BY <1>2, ScanFields
<1>5. /\ Keeps(headers, e, {"state", "tables", "latched", "coefs"})
      /\ e.tables = (IF headers.tables = None THEN "standard" ELSE headers.tables)
      /\ e.coefs = [c \in headers.frame.comps |-> [i \in 1 .. headers.frame.n |-> Blank]]
  BY <1>4, SelectFields DEF Keeps
<1>6. IF BadScan THEN Fail(dinfo)
      ELSE IF ~d.inheaders
           THEN IF d.multiple THEN StartInputPass(d) ELSE Fail(d)
           ELSE IF d.frame.name # None THEN Fail(d)
           ELSE IF call = "header" THEN Go(headers, "finish")
           ELSE IF Unnamed(headers.frame) THEN Fail(headers) ELSE StartInputPass(e)
  BY ScanHeader
<1>7. comps = dinfo.unread.comps /\ comps # {}
  BY <1>2 DEF IsToken
<1> HIDE DEF d, headers, e, comps
<1>8. /\ IsObject(d) /\ IsObject(headers) /\ IsObject(e)
      /\ d.inheaders = dinfo.inheaders /\ d.frame = dinfo.frame /\ d.tables = dinfo.tables
      /\ d.interval = dinfo.interval /\ d.coefs = dinfo.coefs
  BY <1>3, <1>4, <1>5 DEF Keeps, Fields
<1>9. /\ e.unread = NoMarker /\ e.scan = comps /\ e.frame = dinfo.frame /\ e.expected = 0
      /\ e.interval = dinfo.interval /\ e.inheaders = FALSE
      /\ e.tables = (IF dinfo.tables = None THEN "standard" ELSE dinfo.tables)
      /\ e.coefs = [c \in e.frame.comps |-> [i \in 1 .. e.frame.n |-> Blank]]
  BY <1>3, <1>4, <1>5 DEF Keeps, Fields
<1>10. CASE Fail(dinfo) \/ Fail(d) \/ Fail(headers)
  BY <1>10, FailKeepsLandInv
<1>11. CASE Go(headers, "finish") /\ call = "header"
  BY <1>11 DEF Go, LandInv
<1>12. CASE /\ ~Stale /\ comps \subseteq dinfo.frame.comps
            /\ \/ ~dinfo.inheaders /\ StartInputPass(d)
               \/ dinfo.inheaders /\ dinfo.frame.name = None /\ StartInputPass(e)
  <2>1. dinfo.frame # NoMarker /\ next # 1
    BY <1>7, <1>12, TokenFacts DEF Stale
  <2>2. ASSUME Landing
        PROVE  /\ Worn
               /\ \/ Heading(dinfo, next, warning)
                  \/ Sitting(dinfo, next) /\ Between(dinfo, next)
    BY <1>2, <2>2, WhileLanding
  <2>3. CASE ~dinfo.inheaders /\ StartInputPass(d)
    <3>1. ASSUME Landing PROVE Opens(d, next)
      <4>1. Worn /\ Sitting(dinfo, next) /\ Between(dinfo, next)
        BY <2>2, <2>3, <3>1 DEF Heading
      <4>2. dinfo.unread = At(next - 1)
        BY <1>2, <4>1, BetweenPlaces
      <4>3. QED
        BY <1>3, <1>7, <1>8, <4>1, <4>2 DEF Opens, Sitting, Steady
    <3>2. dinfo.tables = d.tables /\ d.unread = NoMarker
      BY <1>3, <1>8
    <3>3. QED
      BY <1>1, <1>8, <2>3, <3>1, <3>2, StartKeepsLandInv
  <2>4. CASE dinfo.inheaders /\ dinfo.frame.name = None /\ StartInputPass(e)
    <3>1. ASSUME Landing PROVE Opens(e, next)
      <4>1. Worn /\ Heading(dinfo, next, warning)
        BY <2>2, <2>4, <3>1 DEF Sitting, Steady
      <4>2. Declared(dinfo) /\ next - 1 = First
        BY <1>1, <2>1, <2>4, <3>1, <4>1, HeaderIsKnown
      <4>3. dinfo.unread = At(next - 1)
        BY <1>2, <2>1, <4>1, HeadingAtFirst
      <4>4. Steady(e)
        BY <1>9, <4>2 DEF Declared, Steady
      <4>5. e.coefs = [c \in Tokens[FrameAt].comps |-> [i \in 1 .. Many |-> Blank]]
        BY <1>9, <4>2 DEF Declared, Many
      <4>6. QED
        BY <1>7, <1>9, <4>2, <4>3, <4>4, <4>5 DEF Opens
    <3>2. (dinfo.tables # None => e.tables = dinfo.tables) /\ e.unread = NoMarker
      BY <1>9
    <3>3. QED
      BY <1>1, <1>8, <2>4, <3>1, <3>2, StartKeepsLandInv
  <2>5. QED
    BY <1>12, <2>3, <2>4
<1>13. QED
  BY <1>2, <1>6, <1>7, <1>8, <1>10, <1>11, <1>12 DEF BadScan

\* What has been decoded is kept over markers and what is left or repeated.
Passes(s, t) ==
    \A i \in s + 1 .. t : (i \in Cut .. Back - 1 /\ s >= Cut - 1) \/ At(i).k \notin {"data", "SOS"}
LEMMA KeptOver ==
    ASSUME Worn, NEW d, NEW e, NEW s \in Nat, NEW t \in Nat, s <= t, t <= Size, Kept(d, s),
           e.coefs = d.coefs, e.scan = d.scan, e.mcu = d.mcu, d.mcu \in Nat, Passes(s, t)
    PROVE  Kept(e, t)
<1>1. Size \in Nat /\ Many \in Nat /\ e.mcu \in Nat /\ e.mcu >= d.mcu
  BY WornTokens, TornPlaces DEF Worn
<1>2. ASSUME NEW i \in s + 1 .. t PROVE AddsNothing(i, s)
  <2>1. CASE i \in Cut .. Back - 1 /\ s >= Cut - 1
    BY <2>1, GapAddsNothing
  <2>2. CASE At(i).k \notin {"data", "SOS"}
    BY <2>2 DEF AddsNothing, Due
  <2>3. QED
    BY <2>1, <2>2 DEF Passes
<1>3. \A i \in 1 .. Size : Due(i) => DueFacts(i)
  BY DueHasScan
<1>4. QED
  BY <1>1, <1>2, <1>3, KeptOn

\* With each restart the numbers go on.
NumberIsDue(d) ==
    /\ d.expected = Number(d.mcu) /\ d.mcu % Interval = 0 /\ d.mcu > 0
    /\ NextNumber(d.mcu) /\ NextNumber(d.mcu + Interval)
LEMMA NumberDue ==
    ASSUME Torn, Interval > 0, NEW d, Numbered(d), d.toGo = 0, d.mcu \in Nat
    PROVE  NumberIsDue(d)
<1>1. Interval \in Nat \ {0}
  BY DEF Torn
<1>2. d.mcu % Interval = 0 /\ d.mcu > 0 /\ d.expected = Number(d.mcu)
  <2>1. d.mcu + d.toGo = d.mcu
    OBVIOUS
  <2>2. (d.mcu + d.toGo) % Interval = 0 /\ d.mcu + d.toGo > 0 /\ d.expected = Number(d.mcu + d.toGo)
    BY DEF Numbered
  <2>3. QED
    BY <2>1, <2>2
<1>3. NextNumber(d.mcu)
  BY <1>1, <1>2, NumbersGoOn
<1>4. (d.mcu + Interval) % Interval = 0
  BY <1>3 DEF NextNumber
<1>5. NextNumber(d.mcu + Interval)
  <2> DEFINE f == d.mcu + Interval
  <2>1. f \in Nat \ {0} /\ f % Interval = 0
    BY <1>1, <1>4
  <2> HIDE DEF f
  <2>2. NextNumber(f)
    BY <1>1, <2>1, NumbersGoOn
  <2>3. QED
    BY <2>2 DEF f
<1>6. QED
  BY <1>2, <1>3, <1>5 DEF NumberIsDue

LEMMA NumberedOn ==
    ASSUME Torn, Interval > 0, NEW d, NEW e, Numbered(d), d.toGo = 0, d.mcu \in Nat, e.mcu = d.mcu,
           e.toGo = Interval, e.expected = (d.expected + 1) % 8
    PROVE  Numbered(e)
<1>1. Interval \in Nat \ {0} /\ NumberIsDue(d)
  BY NumberDue DEF Torn
<1>2. (d.mcu + Interval) % Interval = 0 /\ Number(d.mcu + Interval) = (Number(d.mcu) + 1) % 8
  BY <1>1 DEF NumberIsDue, NextNumber
<1>3. e.toGo \in 0 .. Interval /\ e.mcu + e.toGo > 0
  BY <1>1
<1>4. e.mcu + e.toGo = d.mcu + Interval
  OBVIOUS
<1>5. e.expected = Number(d.mcu + Interval)
  BY <1>1, <1>2 DEF NumberIsDue
<1>6. QED
  BY <1>2, <1>3, <1>4, <1>5 DEF Numbered

\* Behind what is lost the decoder comes to the marker there.
LEMMA MarkerBehindGap ==
    ASSUME Worn, Lost, NEW n \in Cut .. Back
    PROVE  NextMarker(n) = Back /\ After(Back) = Back + 1 /\ n \in 1 .. Size
<1>1. /\ Back \in Cut .. Size /\ Back \in Nat /\ Cut \in Nat /\ Size \in Nat /\ At(Back).k # "data"
      /\ \A l \in Cut .. Back - 1 : At(l).k = "data"
      /\ FileInv /\ Cut >= 1
  BY BackPlaces DEF Worn, Torn
<1>2. n \in 1 .. Size + 1 /\ n \in 1 .. Size /\ n \in Nat /\ ~(Back > Size)
  BY <1>1
<1> DEFINE m == NextMarker(n)
<1>3. m \in n .. Size + 1 /\ At(m).k # "data" /\ \A l \in n .. m - 1 : At(l).k = "data"
  BY <1>1, <1>2, MarkerIsFound
<1> HIDE DEF m
<1>4. ~(Back \in n .. m - 1) /\ ~(m \in Cut .. Back - 1)
  BY <1>1, <1>3
<1>5. m = Back
  BY <1>1, <1>2, <1>3, <1>4
<1>6. QED
  BY <1>2, <1>5 DEF m, After, Starved

\* The marker there says which segment it opens.
Opener(d) ==
    LET p == Back + Shift
        f == Coded(p)
        x == At(Back).n
    IN  /\ p \in First .. Len(Tokens) - 1 /\ Tokens[p].k = "RST" /\ Scanned(p) = d.scan
        /\ d.expected \in 0 .. 7
        /\ \/ f = d.mcu /\ x = d.expected
           \/ f = d.mcu + Interval /\ x = (d.expected + 1) % 8
           \/ f = d.mcu + Interval + Interval /\ x = (d.expected + 2) % 8
LEMMA OpenerIsKnown ==
    ASSUME Worn, Lost, NEW d, Ahead(d), Numbered(d), d.toGo = 0, d.mcu \in Nat, At(Back).k = "RST"
    PROVE  Opener(d)
<1> DEFINE p == Back + Shift
           f == Coded(p)
           x == At(Back).n
           m == d.mcu
           y == d.expected
           i == Interval
<1>1. /\ Torn /\ At(Back) = Tokens[p] /\ p \in 1 .. Len(Tokens) /\ Len(Tokens) \in Nat
      /\ Tokens[p].k = "RST" /\ Interval \in Nat /\ Interval > 0
      /\ Scanned(p) = d.scan /\ Reaches(m + d.toGo, f)
  BY BackPlaces DEF Worn, Torn, Ahead
<1>2. p \in First .. Len(Tokens) - 1 /\ First > 2 /\ First \in Nat
  BY <1>1, TornPlaces
<1>3. p \in 2 .. Len(Tokens)
  BY <1>1, <1>2
<1>4. x = Number(f)
  <2>1. RestartsInPlace(p)
    BY <1>1, <1>3, AllContinue
  <2>2. QED
    BY <1>1, <2>1 DEF RestartsInPlace, Number
<1>5. NextNumber(m) /\ NextNumber(m + i) /\ y = Number(m)
  BY <1>1, NumberDue DEF NumberIsDue
<1>6. f = m \/ f = m + i \/ f = m + i + i
  BY <1>1 DEF Reaches
<1>7. y \in 0 .. 7 /\ Number(m + i) = (y + 1) % 8 /\ Number(m + i + i) = (((y + 1) % 8) + 1) % 8
  BY <1>5 DEF NextNumber
<1>8. (((y + 1) % 8) + 1) % 8 = (y + 2) % 8
  <2>1. y \in 0 .. 7
    BY <1>7
  <2> HIDE DEF y
  <2>2. QED
    BY <2>1
<1> HIDE DEF p, f, x, m, y, i
<1>9. \/ f = m /\ x = y
      \/ f = m + i /\ x = (y + 1) % 8
      \/ f = m + i + i /\ x = (y + 2) % 8
  BY <1>4, <1>5, <1>6, <1>7, <1>8
<1>10. QED
  BY <1>1, <1>2, <1>7, <1>9 DEF Opener, p, f, x, m, y, i

\* What holds then during a pass.
LEMMA WhilePassing ==
    ASSUME TypeInv, StrayInv, WrittenInv, Landing, pc \in {"coefficients", "resync"}
    PROVE  /\ Worn /\ Torn /\ IsObject(dinfo) /\ next \in 1 .. Size + 1 /\ Size \in Nat /\ next \in Nat
           /\ dinfo.mcu \in Nat /\ dinfo.mcu < Many /\ Many \in Nat /\ dinfo.interval = Interval
           /\ dinfo.tables = Tables /\ dinfo.frame = Tokens[FrameAt] /\ Steady(dinfo)
           /\ Kept(dinfo, Seen(dinfo, next)) /\ Numbered(dinfo) /\ Interval \in Nat
           /\ pc = "coefficients" => Ordered(dinfo, next) \/ Astray(dinfo, next)
           /\ pc = "resync" => Restarting(dinfo, next)
<1>1. /\ Worn /\ Torn /\ IsObject(dinfo) /\ next \in 1 .. Size + 1 /\ Size \in Nat
      /\ pc = "coefficients" => Sitting(dinfo, next) /\ Within(dinfo, next)
      /\ pc = "resync" => Sitting(dinfo, next) /\ Numbered(dinfo) /\ Restarting(dinfo, next)
  BY WhileLanding
<1>2. Sitting(dinfo, next) /\ Numbered(dinfo)
      /\ (pc = "coefficients" => Ordered(dinfo, next) \/ Astray(dinfo, next))
      /\ (pc = "resync" => Restarting(dinfo, next))
  BY <1>1 DEF Within
<1>3. Steady(dinfo) /\ Kept(dinfo, Seen(dinfo, next))
  BY <1>2 DEF Sitting
<1>4. dinfo.interval = Interval /\ dinfo.tables = Tables /\ dinfo.frame = Tokens[FrameAt]
  BY <1>3 DEF Steady
<1>5. dinfo.mcu \in Nat /\ dinfo.mcu < dinfo.frame.n
  BY WhileDecoding DEF DecodingOK
<1>6. dinfo.mcu < Many /\ Many \in Nat
  BY <1>1, <1>4, <1>5, TornPlaces DEF Many
<1>7. Interval \in Nat /\ next \in Nat
  BY <1>1 DEF Torn
<1>8. QED
  BY <1>1, <1>2, <1>3, <1>4, <1>5, <1>6, <1>7

\* A restart.
Restarted(d, e) ==
    /\ Steady(e) /\ e.coefs = d.coefs /\ e.scan = d.scan /\ e.mcu = d.mcu
    /\ e.expected = (d.expected + 1) % 8 /\ e.toGo = Interval /\ e.last = 0
    /\ e.tables = d.tables
LEMMA ResumedIsRestarted ==
    ASSUME NEW d, NEW e, Keeps(d, e, {"unread"}), Steady(d)
    PROVE  /\ Restarted(d, Resumed(e)) /\ Resumed(e).unread = e.unread
           /\ e.unread = NoMarker => ~Resumed(e).insufficient
<1> DEFINE f == Resumed(e)
<1>1. /\ Keeps(e, f, {"expected", "toGo", "last", "insufficient"})
      /\ f.expected = (e.expected + 1) % 8
      /\ f.toGo = e.interval /\ f.last = 0
      /\ f.insufficient = (e.insufficient /\ e.unread # NoMarker)
  BY ResumedFields DEF Keeps
<1> HIDE DEF f
<1>2. Restarted(d, f) /\ f.unread = e.unread /\ (e.unread = NoMarker => ~f.insufficient)
  BY <1>1 DEF Keeps, Fields, Restarted, Steady
<1>3. QED
  BY <1>2 DEF f

\* The marker that is due in the file is there.
LEMMA RestartIsDue ==
    ASSUME Worn, NEW d, NEW n \in 1 .. Size + 1, Ordered(d, n), n # Cut, Numbered(d), d.mcu \in Nat, d.mcu < Many,
           Interval > 0, d.toGo = 0
    PROVE  /\ At(n) = Counting("RST", d.expected) /\ At(n).k = "RST" /\ n \in 1 .. Size
           /\ RestartAt(d, Place(n) + 1) /\ At(n) = Tokens[Place(n) + 1]
<1>1. n \in 1 .. Size /\ At(n) = Tokens[Place(n) + 1]
  BY InOrderHere
<1>2. RestartAt(d, Place(n) + 1)
  BY RestartAhead DEF Worn, Ordered
<1>3. QED
  BY <1>1, <1>2 DEF RestartAt

\* The decoder is behind a restart marker.
LEMMA HereBehindRestart ==
    ASSUME NEW d, NEW e, NEW q, RestartAt(d, q), Restarted(d, e), First \in Nat, q \in Nat, Len(Tokens) \in Nat
    PROVE  Here(e, q)
<1>1. q \in First .. Len(Tokens) - 1 /\ Tokens[q].k = "RST"
  BY DEF RestartAt
<1>2. QED
  BY <1>1 DEF RestartAt, Restarted, Here

\* It is taken in order.
LEMMA AcceptedInOrder ==
    ASSUME Worn, NEW d, NEW n \in 1 .. Size + 1, Ordered(d, n), n # Cut, Numbered(d), d.mcu \in Nat, d.mcu < Many,
           Interval > 0, d.toGo = 0, Kept(d, Seen(d, n)),
           NEW e, Restarted(d, e), e.unread = NoMarker, ~e.insufficient
    PROVE  Sitting(e, n + 1) /\ Within(e, n + 1)
<1>1. RestartAt(d, Place(n) + 1) /\ At(n).k = "RST" /\ n \in 1 .. Size
  BY RestartIsDue
<1>2. /\ Place(n) \in Nat /\ Place(n) + 1 \in Nat /\ First \in Nat /\ Len(Tokens) \in Nat /\ Torn
      /\ Size \in Nat
  <2>1. Place(n) \in Nat
    BY InOrderHere
  <2>2. First \in Nat /\ Len(Tokens) \in Nat
    BY WornStretch
  <2>3. Torn /\ Size \in Nat
    BY WornTokens DEF Worn
  <2>4. QED
    BY <2>1, <2>2, <2>3
<1>3. Here(e, Place(n) + 1)
  BY <1>1, <1>2, HereBehindRestart
<1>4. /\ e.mcu = d.mcu /\ e.toGo = Interval /\ e.expected = (d.expected + 1) % 8 /\ e.mcu \in Nat
      /\ e.coefs = d.coefs /\ e.scan = d.scan /\ Steady(e)
  BY DEF Restarted
<1>5. Numbered(e)
  BY <1>2, <1>4, NumberedOn
<1>6. Within(e, n + 1)
  BY <1>3, <1>4, <1>5, InOrderOn DEF Within
<1>7. Kept(d, n - 1) /\ n - 1 \in Nat
  <2>1. Seen(d, n) = n - 1 /\ n - 1 \in Nat
    BY SeenInOrder
  <2>2. QED
    BY <2>1
<1>8. Seen(e, n + 1) = n
  BY <1>1 DEF Seen
<1>9. Kept(e, n)
  <2>1. Passes(n - 1, n)
    BY <1>1, <1>7 DEF Passes
  <2>2. n \in Nat /\ n - 1 <= n /\ n <= Size
    BY <1>1, <1>2
  <2>3. QED
    BY <1>4, <1>7, <2>1, <2>2, KeptOver
<1>10. QED
  BY <1>4, <1>6, <1>8, <1>9 DEF Sitting

\* The segment behind what is lost opens.
LEMMA OpenedBehind ==
    ASSUME Worn, Lost, NEW d, Opener(d), Coded(Back + Shift) = d.mcu, Numbered(d), d.toGo = 0, d.mcu \in Nat,
           Interval > 0, NEW s \in Cut - 1 .. Back - 1, Kept(d, s), At(Back).k = "RST",
           NEW e, Restarted(d, e), e.unread = NoMarker, ~e.insufficient
    PROVE  Sitting(e, Back + 1) /\ Within(e, Back + 1)
<1>1. /\ Back \in Nat /\ Cut \in Nat /\ Size \in Nat /\ Back <= Size /\ Back >= Cut /\ Cut >= 1 /\ Torn
      /\ Shift \in Int
  BY BackPlaces, WornTokens DEF Worn, Torn
<1>2. Place(Back + 1) = Back + Shift
  BY <1>1 DEF Place
<1>3. /\ e.mcu = d.mcu /\ e.toGo = Interval /\ e.expected = (d.expected + 1) % 8 /\ e.mcu \in Nat /\ e.last = 0
      /\ e.coefs = d.coefs /\ e.scan = d.scan /\ Steady(e)
  BY DEF Restarted
<1>4. Here(e, Back + Shift)
  <2> DEFINE p == Back + Shift
  <2>1. /\ p \in First .. Len(Tokens) - 1 /\ Tokens[p].k = "RST" /\ Scanned(p) = e.scan
        /\ Coded(p) = e.mcu
    BY <1>3 DEF Opener
  <2> HIDE DEF p
  <2>2. Here(e, p)
    BY <1>3, <2>1 DEF Here
  <2>3. QED
    BY <2>2 DEF p
<1>5. Ordered(e, Back + 1)
  BY <1>1, <1>2, <1>4 DEF Ordered
<1>6. Numbered(e)
  BY <1>1, <1>3, NumberedOn
<1>7. Seen(e, Back + 1) = Back
  BY <1>1 DEF Seen
<1>8. Kept(e, Back)
  <2>1. s \in Nat /\ s >= Cut - 1 /\ s <= Back /\ \A i \in s + 1 .. Back : i \in Cut .. Back - 1 \/ i = Back
    BY <1>1
  <2>2. Passes(s, Back)
    BY <2>1 DEF Passes
  <2>3. QED
    BY <1>1, <1>3, <2>1, <2>2, KeptOver
<1>9. QED
  BY <1>3, <1>5, <1>6, <1>7, <1>8 DEF Sitting, Within

\* Where a stretch is lost, the marker behind it is met.
LEMMA MeetsBehind ==
    ASSUME Worn, NEW d, NEW n \in 1 .. Size + 1, Astray(d, n)
    PROVE  /\ Lost /\ Ahead(d) /\ Seen(d, n) \in Cut - 1 .. Back - 1
           /\ d.unread = NoMarker => NextMarker(n) = Back /\ After(Back) = Back + 1
           /\ d.unread # NoMarker => d.unread = At(Back) /\ n = Back + 1
<1>1. /\ Lost /\ Ahead(d) /\ Seen(d, n) \in Cut - 1 .. Back - 1
      /\ d.unread = NoMarker => n \in Cut .. Back
      /\ d.unread # NoMarker => d.unread = At(Back) /\ n = Back + 1
  BY SeenAstray
<1>2. QED
  BY <1>1, MarkerBehindGap

\* It is judged.
LEMMA JudgedBehind ==
    ASSUME Worn, Lost, NEW d, Ahead(d), Numbered(d), d.toGo = 0, d.mcu \in Nat, Interval > 0, Steady(d),
           NEW s \in Cut - 1 .. Back - 1, Kept(d, s), NEW e, Keeps(d, e, {"unread"}), e.unread = At(Back)
    PROVE  Sitting(e, Back + 1) /\ Numbered(e) /\ Restarting(e, Back + 1)
<1>1. Back \in Nat /\ Cut \in Nat /\ Size \in Nat /\ Back <= Size /\ Back >= Cut /\ Cut >= 1
  BY BackPlaces, WornTokens DEF Worn, Torn
<1>2. /\ e.mcu = d.mcu /\ e.toGo = d.toGo /\ e.expected = d.expected /\ e.coefs = d.coefs /\ e.scan = d.scan
      /\ Steady(e)
  BY DEF Keeps, Fields, Steady
<1>3. e.unread # NoMarker
  <2>1. Back \in 1 .. Size
    BY <1>1
  <2>2. QED
    BY <2>1, WornTables
<1>4. Numbered(e) /\ Ahead(e)
  BY <1>2 DEF Numbered, Ahead
<1>5. Seen(e, Back + 1) = Back - 1
  BY <1>1, <1>3 DEF Seen
<1>6. Kept(e, Back - 1)
  <2>1. s \in Nat /\ s >= Cut - 1 /\ s <= Back - 1 /\ Back - 1 \in Nat /\ Back - 1 <= Size
        /\ \A i \in s + 1 .. Back - 1 : i \in Cut .. Back - 1
    BY <1>1
  <2>2. Passes(s, Back - 1)
    BY <2>1 DEF Passes
  <2>3. QED
    BY <1>2, <2>1, <2>2, KeptOver
<1>7. Restarting(e, Back + 1)
  BY <1>2, <1>3, <1>4 DEF Restarting, Astray
<1>8. QED
  BY <1>2, <1>4, <1>5, <1>6, <1>7 DEF Sitting

\* In front of what is repeated its first marker is met: it is not the one that is due.
LEMMA MeetsRepeated ==
    ASSUME Worn, NEW d, Ordered(d, Cut), Numbered(d), d.toGo = 0, d.mcu \in Nat, d.mcu < Many,
           Interval > 0, Steady(d), Kept(d, Seen(d, Cut)), NEW e, Keeps(d, e, {"unread"}), e.unread = At(Cut)
    PROVE  /\ Sitting(e, Cut + 1) /\ Numbered(e) /\ Restarting(e, Cut + 1)
           /\ NextMarker(Cut) = Cut /\ After(Cut) = Cut + 1 /\ At(Cut) # Counting("RST", d.expected)
<1>1. Back \in Nat /\ Cut \in Nat /\ Size \in Nat /\ Back <= Size /\ Back >= Cut /\ Cut >= 1 /\ FileInv /\ Torn
  BY BackPlaces, WornTokens DEF Worn, Torn
<1>2. ~Lost
  BY <1>1 DEF Ordered
<1>3. At(Cut).k = "RST" /\ Cut \in Cut .. Back - 1
  BY <1>2, NoDataAtTheCut
<1>4. Here(d, Cut - 1) /\ d.unread = NoMarker /\ ~d.insufficient
  BY <1>1 DEF Ordered, Place
<1>5. Behind(At(Cut).n, d.expected)
  BY <1>2, <1>3, <1>4, RepeatedAreBehind
<1>6. At(Cut) # Counting("RST", d.expected)
  BY <1>5 DEF Behind, Counting, Marker
<1>7. NextMarker(Cut) = Cut /\ After(Cut) = Cut + 1
  <2>1. Cut \in 1 .. Size + 1 /\ ~(Cut > Size)
    BY <1>1
  <2>2. NextMarker(Cut) \in Cut .. Size + 1 /\ \A l \in Cut .. NextMarker(Cut) - 1 : At(l).k = "data"
    BY <1>1, <2>1, MarkerIsFound
  <2>3. Cut \notin Cut .. NextMarker(Cut) - 1
    BY <1>3, <2>2
  <2>4. NextMarker(Cut) = Cut
    BY <1>1, <2>2, <2>3
  <2>5. QED
    BY <2>1, <2>4 DEF After, Starved
<1>8. /\ e.mcu = d.mcu /\ e.toGo = d.toGo /\ e.expected = d.expected /\ e.coefs = d.coefs /\ e.scan = d.scan
      /\ e.last = d.last /\ e.insufficient = d.insufficient /\ Steady(e)
  BY DEF Keeps, Fields, Steady
<1>9. Numbered(e) /\ Here(e, Cut - 1)
  BY <1>4, <1>8 DEF Numbered, Here
<1>10. Cut + 1 - 1 = Cut /\ Cut \in Cut .. Back /\ (Cut + 1) - 2 = Cut - 1 /\ Cut - 1 \in Nat /\ Cut - 1 <= Size
  BY <1>1
<1>11. Restarting(e, Cut + 1)
  BY <1>2, <1>3, <1>4, <1>8, <1>9, <1>10 DEF Restarting, Copying
<1>12. e.unread # NoMarker
  <2>1. Cut \in 1 .. Size
    BY <1>1
  <2>2. QED
    BY <2>1, WornTables
<1>13. Seen(e, Cut + 1) = Cut - 1
  BY <1>10, <1>12 DEF Seen
<1>14. Seen(d, Cut) = Cut - 1
  BY <1>4 DEF Seen
<1>15. Kept(e, Cut - 1)
  <2>1. Kept(d, Cut - 1)
    BY <1>14
  <2>2. Passes(Cut - 1, Cut - 1)
    BY <1>10 DEF Passes
  <2>3. QED
    BY <1>8, <1>10, <2>1, <2>2, KeptOver
<1>16. QED
  BY <1>6, <1>7, <1>8, <1>9, <1>11, <1>13, <1>15 DEF Sitting

\* A restart keeps the invariant.
LEMMA ResumeKeepsLandInv ==
    ASSUME TypeInv, LandInv, pc \in {"coefficients", "resync"}, NEW d, Keeps(dinfo, d, {"unread"}),
           d.unread = NoMarker \/ d.unread = dinfo.unread, Resume(d),
           Landing => Sitting(Resumed(d), next') /\ Within(Resumed(d), next')
    PROVE  LandInv'
<1> DEFINE e == Resumed(d)
<1>1. /\ Go(e, "coefficients") /\ Keeps(d, e, {"expected", "toGo", "last", "insufficient"})
  BY ResumedFields DEF Keeps
<1> HIDE DEF e
<1>2. next \in 1 .. Size + 1 /\ pc # "idle" /\ IsObject(dinfo)
  BY WhileDecoding
<1>3. e.tables = dinfo.tables /\ (e.unread = NoMarker \/ e.unread = dinfo.unread)
  BY <1>1 DEF Keeps, Fields
<1>4. Borrowing(dinfo) => StillBorrows(e)
  BY <1>2, <1>3, DecodingStillBorrows
<1>5. Landing => LandsAt(e, "coefficients", next', warning')
  BY DEF LandsAt, e
<1>6. QED
  BY <1>1, <1>2, <1>4, <1>5, GoKeepsLandInv

\* So does a marker that is to be judged.
LEMMA JudgeKeepsLandInv ==
    ASSUME TypeInv, LandInv, pc \in {"coefficients", "resync"}, NEW e, Keeps(dinfo, e, {"unread"}),
           e.unread = dinfo.unread \/ \E i \in 1 .. Size + 1 : e.unread = At(i), Go(e, "resync"),
           Landing => Sitting(e, next') /\ Numbered(e) /\ Restarting(e, next')
    PROVE  LandInv'
<1>1. next \in 1 .. Size + 1 /\ pc # "idle" /\ IsObject(dinfo)
  BY WhileDecoding
<1>2. e.tables = dinfo.tables
  BY DEF Keeps, Fields
<1>3. Borrowing(dinfo) => StillBorrows(e)
  BY <1>1, <1>2, DecodingStillBorrows
<1>4. Landing => LandsAt(e, "resync", next', warning')
  BY DEF LandsAt
<1>5. QED
  BY <1>1, <1>3, <1>4, GoKeepsLandInv

\* The search for the marker of a segment keeps it.
LEMMA ReadRestartMarkerKeepsLandInv ==
    ASSUME TypeInv, StrayInv, WrittenInv, LandInv, ReadRestartMarker PROVE LandInv'
<1> DEFINE met == dinfo.unread # NoMarker
           found == NextMarker(next)
           marker == IF met THEN dinfo.unread ELSE At(found)
           d == [dinfo EXCEPT !.unread = NoMarker]
           e == [dinfo EXCEPT !.unread = marker]
<1>1. /\ Decoding /\ dinfo.interval > 0 /\ dinfo.toGo = 0
      /\ next' = IF met THEN next ELSE After(found)
      /\ IF Accepts(marker, dinfo.expected) THEN Resume(d) ELSE Go(e, "resync")
  BY DEF ReadRestartMarker
<1>2. /\ FileInv /\ IsObject(dinfo) /\ next \in 1 .. Size + 1 /\ pc = "coefficients"
  BY <1>1, WhileDecoding DEF Decoding
<1>3. /\ Keeps(dinfo, d, {"unread"}) /\ d.unread = NoMarker
      /\ Keeps(dinfo, e, {"unread"}) /\ e.unread = marker
  BY <1>2, UnreadField
<1>4. found \in 1 .. Size + 1
  BY <1>2, FoundInFile
<1> HIDE DEF d, e
<1>5. ASSUME Landing
      PROVE  /\ Worn /\ dinfo.mcu \in Nat /\ dinfo.mcu < Many /\ Interval > 0 /\ dinfo.toGo = 0
             /\ Steady(dinfo) /\ Kept(dinfo, Seen(dinfo, next)) /\ Numbered(dinfo) /\ Interval \in Nat
             /\ Ordered(dinfo, next) \/ Astray(dinfo, next)
  BY <1>1, <1>2, <1>5, WhilePassing
<1>6. ASSUME Landing, Ordered(dinfo, next), next # Cut
      PROVE  Accepts(marker, dinfo.expected) /\ next' = next + 1
  <2>1. At(next) = Counting("RST", dinfo.expected) /\ At(next).k = "RST" /\ next \in 1 .. Size
        /\ Size \in Nat
    BY <1>2, <1>5, <1>6, RestartIsDue, WornTokens
  <2>2. ~met
    BY <1>6 DEF Ordered
  <2>3. found = next /\ After(next) = next + 1
    BY <1>2, <2>1, MarkerHere, InTheFile
  <2>4. QED
    BY <1>1, <2>1, <2>2, <2>3 DEF Accepts
<1>7. CASE Accepts(marker, dinfo.expected)
  <2>1. Resume(d)
    BY <1>1, <1>7
  <2>2. ASSUME Landing PROVE Sitting(Resumed(d), next') /\ Within(Resumed(d), next')
    <3> DEFINE f == Resumed(d)
    <3>1. Restarted(dinfo, f) /\ f.unread = NoMarker /\ ~f.insufficient
      BY <1>3, <1>5, <2>2, ResumedIsRestarted
    <3> HIDE DEF f
    <3>2. CASE Ordered(dinfo, next) /\ next # Cut
      <4>1. next' = next + 1
        BY <1>6, <2>2, <3>2
      <4>2. Sitting(f, next + 1) /\ Within(f, next + 1)
        BY <1>2, <1>5, <2>2, <3>1, <3>2, AcceptedInOrder
      <4>3. QED
        BY <4>1, <4>2 DEF f
    <3>3. CASE Ordered(dinfo, next) /\ next = Cut
      <4>1. ~met
        BY <3>3 DEF Ordered
      <4>2. Ordered(dinfo, Cut) /\ Kept(dinfo, Seen(dinfo, Cut))
        BY <1>5, <2>2, <3>3
      <4>3. Back \in 1 .. Size + 1 /\ Cut \in 1 .. Size + 1
        BY <1>2, <3>3, BackPlaces, <1>5, <2>2
      <4> DEFINE g == [dinfo EXCEPT !.unread = At(Cut)]
      <4>4. Keeps(dinfo, g, {"unread"}) /\ g.unread = At(Cut)
        BY <1>2, UnreadField
      <4> HIDE DEF g
      <4>5. NextMarker(Cut) = Cut /\ At(Cut) # Counting("RST", dinfo.expected)
        BY <1>5, <2>2, <4>2, <4>4, MeetsRepeated
      <4>6. marker = At(Cut)
        BY <3>3, <4>1, <4>5
      <4>7. QED
        BY <1>7, <4>5, <4>6 DEF Accepts
    <3>4. CASE Astray(dinfo, next)
      <4>1. /\ Lost /\ Ahead(dinfo) /\ Seen(dinfo, next) \in Cut - 1 .. Back - 1
            /\ dinfo.unread = NoMarker => found = Back /\ After(Back) = Back + 1
            /\ dinfo.unread # NoMarker => dinfo.unread = At(Back) /\ next = Back + 1
        BY <1>2, <1>5, <2>2, <3>4, MeetsBehind
      <4>2. marker = At(Back) /\ next' = Back + 1
        BY <1>1, <4>1
      <4>3. At(Back) = Counting("RST", dinfo.expected)
        BY <1>7, <4>2 DEF Accepts
      <4>4. At(Back).k = "RST" /\ At(Back).n = dinfo.expected
        BY <4>3 DEF Counting, Marker
      <4>5. Opener(dinfo)
        BY <1>5, <2>2, <4>1, <4>4, OpenerIsKnown
      <4>6. Coded(Back + Shift) = dinfo.mcu
        BY <4>4, <4>5 DEF Opener
      <4> DEFINE s == Seen(dinfo, next)
      <4>7. s \in Cut - 1 .. Back - 1 /\ Kept(dinfo, s)
        BY <1>5, <2>2, <4>1
      <4> HIDE DEF s
      <4>8. Sitting(f, Back + 1) /\ Within(f, Back + 1)
        BY <1>5, <2>2, <3>1, <4>1, <4>4, <4>5, <4>6, <4>7, OpenedBehind
      <4>9. QED
        BY <4>2, <4>8 DEF f
    <3>5. QED
      BY <1>5, <2>2, <3>2, <3>3, <3>4
  <2>3. QED
    BY <1>2, <1>3, <2>1, <2>2, ResumeKeepsLandInv
<1>8. CASE ~Accepts(marker, dinfo.expected)
  <2>1. Go(e, "resync")
    BY <1>1, <1>8
  <2>2. ASSUME Landing PROVE Sitting(e, next') /\ Numbered(e) /\ Restarting(e, next')
    <3>1. CASE Ordered(dinfo, next)
      <4>1. next = Cut /\ ~met
        BY <1>6, <1>8, <2>2, <3>1 DEF Ordered
      <4>2. Ordered(dinfo, Cut) /\ Kept(dinfo, Seen(dinfo, Cut))
        BY <1>5, <2>2, <3>1, <4>1
      <4> DEFINE g == [dinfo EXCEPT !.unread = At(Cut)]
      <4>3. Keeps(dinfo, g, {"unread"}) /\ g.unread = At(Cut)
        BY <1>2, UnreadField
      <4> HIDE DEF g
      <4>4. NextMarker(Cut) = Cut /\ After(Cut) = Cut + 1
        BY <1>5, <2>2, <4>2, <4>3, MeetsRepeated
      <4>5. e.unread = At(Cut) /\ next' = Cut + 1
        BY <1>1, <1>3, <4>1, <4>4
      <4>6. Sitting(e, Cut + 1) /\ Numbered(e) /\ Restarting(e, Cut + 1)
        BY <1>3, <1>5, <2>2, <4>2, <4>5, MeetsRepeated
      <4>7. QED
        BY <4>5, <4>6
    <3>2. CASE Astray(dinfo, next)
      <4>1. /\ Lost /\ Ahead(dinfo) /\ Seen(dinfo, next) \in Cut - 1 .. Back - 1
            /\ dinfo.unread = NoMarker => found = Back /\ After(Back) = Back + 1
            /\ dinfo.unread # NoMarker => dinfo.unread = At(Back) /\ next = Back + 1
        BY <1>2, <1>5, <2>2, <3>2, MeetsBehind
      <4>2. e.unread = At(Back) /\ next' = Back + 1
        BY <1>1, <1>3, <4>1
      <4> DEFINE s == Seen(dinfo, next)
      <4>3. s \in Cut - 1 .. Back - 1 /\ Kept(dinfo, s)
        BY <1>5, <2>2, <4>1
      <4> HIDE DEF s
      <4>4. Sitting(e, Back + 1) /\ Numbered(e) /\ Restarting(e, Back + 1)
        BY <1>3, <1>5, <2>2, <4>1, <4>2, <4>3, JudgedBehind
      <4>5. QED
        BY <4>2, <4>4
    <3>3. QED
      BY <1>5, <2>2, <3>1, <3>2
  <2>3. e.unread = dinfo.unread \/ \E i \in 1 .. Size + 1 : e.unread = At(i)
    BY <1>3, <1>4
  <2>4. QED
    BY <1>2, <1>3, <2>1, <2>2, <2>3, JudgeKeepsLandInv
<1>9. QED
  BY <1>7, <1>8

\* A restart marker is judged by its number.
Judged(x, y) == IF x \in {(y + 1) % 8, (y + 2) % 8} THEN "leave"
                ELSE IF x \in {(y + 7) % 8, (y + 6) % 8} THEN "skip" ELSE "discard"
LEMMA RestartIsJudged ==
    ASSUME NEW m, m.k = "RST", NEW y \in 0 .. 7
    PROVE  Action(m, y) = Judged(m.n, y)
<1> DEFINE x == m.n
           A == {(y + 1) % 8, (y + 2) % 8}
           B == {(y + 7) % 8, (y + 6) % 8}
<1>1. A \cap B = {}
  OBVIOUS
<1>2. Action(m, y) = CASE x \in A -> "leave" [] x \in B -> "skip" [] OTHER -> "discard"
  BY DEF Action
<1> HIDE DEF x, A, B
<1>3. Action(m, y) = IF x \in A THEN "leave" ELSE IF x \in B THEN "skip" ELSE "discard"
  BY <1>1, <1>2
<1>4. QED
  BY <1>3 DEF Judged, x, A, B

\* What is done about the marker to be judged: where a stretch is lost, ...
JudgedAstray(d, n) ==
    /\ Lost /\ Ahead(d) /\ n = Back + 1 /\ Seen(d, n) = Back - 1 /\ d.unread = At(Back)
    /\ \/ Action(d.unread, d.expected) = "discard" /\ Opener(d) /\ Coded(Back + Shift) = d.mcu /\ d.unread.k = "RST"
       \/ Action(d.unread, d.expected) = "leave"
          /\ (At(Back).k = "RST" => Opener(d) /\ Coded(Back + Shift) # d.mcu)
LEMMA AstrayIsJudged ==
    ASSUME Worn, NEW d, NEW n \in 1 .. Size + 1, Astray(d, n), d.unread # NoMarker, Numbered(d), d.toGo = 0,
           d.mcu \in Nat
    PROVE  JudgedAstray(d, n)
<1>1. Lost /\ Ahead(d) /\ d.unread = At(Back) /\ n = Back + 1 /\ Seen(d, n) = Back - 1
  BY SeenAstray
<1>2. CASE At(Back).k = "RST"
  <2>1. Opener(d)
    BY <1>1, <1>2, OpenerIsKnown
  <2> DEFINE x == At(Back).n
             y == d.expected
             f == Coded(Back + Shift)
  <2>2. /\ y \in 0 .. 7
        /\ \/ f = d.mcu /\ x = y
           \/ f = d.mcu + Interval /\ x = (y + 1) % 8
           \/ f = d.mcu + Interval + Interval /\ x = (y + 2) % 8
    BY <2>1 DEF Opener
  <2>3. Action(At(Back), y) = IF x \in {(y + 1) % 8, (y + 2) % 8} THEN "leave"
                              ELSE IF x \in {(y + 7) % 8, (y + 6) % 8} THEN "skip" ELSE "discard"
    <3>1. Action(At(Back), y) = Judged(x, y)
      BY <1>2, <2>2, RestartIsJudged
    <3>2. QED
      BY <3>1 DEF Judged
  <2> HIDE DEF x, y, f
  <2>4. x = y => x \notin {(y + 1) % 8, (y + 2) % 8, (y + 7) % 8, (y + 6) % 8}
    BY <2>2
  <2>5. f # d.mcu => Action(At(Back), y) = "leave"
    BY <2>2, <2>3
  <2>6. f = d.mcu => Action(At(Back), y) \in {"leave", "discard"}
    BY <2>2, <2>3, <2>4
  <2>7. f = d.mcu => x = y
    <3>1. Interval \in Nat /\ Interval > 0
      BY <1>1, <1>2 DEF Ahead, Worn, Torn
    <3>2. QED
      BY <2>2, <3>1
  <2>8. f = d.mcu => Action(At(Back), y) = "discard"
    BY <2>3, <2>4, <2>7
  <2>9. \/ Action(At(Back), y) = "discard" /\ f = d.mcu
        \/ Action(At(Back), y) = "leave" /\ f # d.mcu
    BY <2>5, <2>8
  <2>10. \/ Action(d.unread, d.expected) = "discard" /\ Coded(Back + Shift) = d.mcu
         \/ Action(d.unread, d.expected) = "leave" /\ Coded(Back + Shift) # d.mcu
    BY <1>1, <2>9 DEF y, f
  <2>11. QED
    BY <1>1, <1>2, <2>1, <2>10 DEF JudgedAstray
<1>3. CASE At(Back).k # "RST"
  <2>1. At(Back).k # "TEM"
    <3> DEFINE p == Origin(Back)
    <3>1. At(Back) = Tokens[p] /\ p = Back + Shift /\ p \in 1 .. Len(Tokens)
      BY BackPlaces
    <3>2. p > First
      BY <1>1, <3>1, BackPlaces, WornStretch
    <3> HIDE DEF p
    <3>3. p \in First .. Len(Tokens) - 1 \/ p = Len(Tokens)
      BY <3>1, <3>2, WornStretch
    <3>4. Tokens[p].k \in {"APP", "DHT", "SOS", "RST", "data"} \/ Tokens[p].k = "EOI"
      BY <3>3, TornPlaces DEF Worn
    <3>5. QED
      BY <3>1, <3>4
  <2>2. Action(d.unread, d.expected) = "leave"
    BY <1>1, <1>3, <2>1 DEF Action
  <2>3. QED
    BY <1>1, <1>3, <2>2 DEF JudgedAstray
<1>4. QED
  BY <1>2, <1>3

\* ... and where it is repeated.
JudgedCopy(d, n) ==
    \/ Action(d.unread, d.expected) = "skip" /\ n - 1 \in Cut .. Back - 1
    \/ Action(d.unread, d.expected) = "discard" /\ n - 1 = Back /\ RestartAt(d, Cut)
LEMMA CopyIsJudged ==
    ASSUME Worn, NEW d, NEW n \in 1 .. Size + 1, Copying(d, n), Numbered(d), d.toGo = 0,
           d.mcu \in Nat, d.mcu < Many, Interval > 0
    PROVE  JudgedCopy(d, n)
<1>1. /\ ~Lost /\ n - 1 \in Cut .. Back /\ d.unread = At(n - 1) /\ d.unread.k = "RST"
      /\ Here(d, Cut - 1)
  BY DEF Copying
<1>2. Back \in Nat /\ Cut \in Nat
  BY BackPlaces
<1>3. RestartAt(d, Cut) /\ At(Back) = Tokens[Cut]
  BY <1>1, RestartAtTheCut
<1> DEFINE x == d.unread.n
           y == d.expected
<1>4. y \in 0 .. 7
  <2>1. NumberIsDue(d)
    BY NumberDue DEF Worn
  <2>2. QED
    BY <2>1 DEF NumberIsDue, NextNumber
<1>5. Action(d.unread, d.expected)
         = IF x \in {(y + 1) % 8, (y + 2) % 8} THEN "leave"
           ELSE IF x \in {(y + 7) % 8, (y + 6) % 8} THEN "skip" ELSE "discard"
  <2>1. Action(d.unread, y) = Judged(x, y)
    BY <1>1, <1>4, RestartIsJudged
  <2>2. QED
    BY <2>1 DEF Judged
<1>6. CASE n - 1 \in Cut .. Back - 1
  <2>1. Behind(At(n - 1).n, d.expected)
    BY <1>1, <1>6, RepeatedAreBehind
  <2>2. x \in {(y + 7) % 8, (y + 6) % 8} /\ x \notin {y, (y + 1) % 8, (y + 2) % 8}
    BY <1>1, <2>1 DEF Behind
  <2>3. Action(d.unread, d.expected) = "skip"
    BY <1>5, <2>2
  <2>4. QED
    BY <1>6, <2>3 DEF JudgedCopy
<1>7. CASE n - 1 = Back
  <2>1. x = y
    BY <1>1, <1>3, <1>7 DEF RestartAt, Counting, Marker
  <2>3. x \notin {(y + 1) % 8, (y + 2) % 8, (y + 7) % 8, (y + 6) % 8}
    <3> HIDE DEF x, y
    <3>1. QED
      BY <1>4, <2>1
  <2>4. Action(d.unread, d.expected) = "discard"
    BY <1>5, <2>3
  <2>5. QED
    BY <1>3, <1>7, <2>4 DEF JudgedCopy
<1>8. QED
  BY <1>1, <1>2, <1>6, <1>7

\* What holds when a marker is judged.
LEMMA WhileJudging ==
    ASSUME TypeInv, StrayInv, WrittenInv, pc = "resync", Landing
    PROVE  /\ Worn /\ dinfo.mcu \in Nat /\ dinfo.mcu < Many /\ Interval > 0 /\ dinfo.toGo = 0 /\ Steady(dinfo)
           /\ Kept(dinfo, Seen(dinfo, next)) /\ Numbered(dinfo) /\ Interval \in Nat /\ next \in 1 .. Size + 1
           /\ (Copying(dinfo, next) /\ JudgedCopy(dinfo, next)) \/ (Astray(dinfo, next) /\ JudgedAstray(dinfo, next))
<1>1. /\ Worn /\ dinfo.mcu \in Nat /\ dinfo.mcu < Many /\ Steady(dinfo)
      /\ Kept(dinfo, Seen(dinfo, next)) /\ Numbered(dinfo) /\ Interval \in Nat /\ next \in 1 .. Size + 1
      /\ Restarting(dinfo, next)
  BY WhilePassing
<1>2. Interval > 0 /\ dinfo.toGo = 0
  BY <1>1 DEF Restarting
<1>3. CASE Copying(dinfo, next)
  <2>1. JudgedCopy(dinfo, next)
    BY <1>1, <1>2, <1>3, CopyIsJudged
  <2>2. QED
    BY <1>1, <1>2, <1>3, <2>1
<1>4. CASE Astray(dinfo, next) /\ dinfo.unread # NoMarker
  <2>1. JudgedAstray(dinfo, next)
    BY <1>1, <1>2, <1>4, AstrayIsJudged
  <2>2. QED
    BY <1>1, <1>2, <1>4, <2>1
<1>5. QED
  BY <1>1, <1>3, <1>4 DEF Restarting

\* The steps of jpeg_resync_to_restart() keep the invariant.
LEMMA DiscardKeepsLandInv ==
    ASSUME TypeInv, StrayInv, WrittenInv, LandInv, Discard PROVE LandInv'
<1> DEFINE d == [dinfo EXCEPT !.unread = NoMarker]
           e == Resumed(d)
<1>1. pc = "resync" /\ Action(dinfo.unread, dinfo.expected) = "discard" /\ Resume(d) /\ next' = next
  BY DEF Discard, Resync
<1>2. IsObject(dinfo)
  BY <1>1, WhileDecoding
<1>3. Keeps(dinfo, d, {"unread"}) /\ d.unread = NoMarker
  BY <1>2, UnreadField
<1> HIDE DEF d
<1>4. ASSUME Landing PROVE Sitting(e, next') /\ Within(e, next')
  <2>1. /\ Worn /\ dinfo.mcu \in Nat /\ dinfo.mcu < Many /\ Interval > 0 /\ dinfo.toGo = 0 /\ Steady(dinfo)
        /\ Kept(dinfo, Seen(dinfo, next)) /\ Numbered(dinfo) /\ Interval \in Nat /\ next \in 1 .. Size + 1
        /\ (Copying(dinfo, next) /\ JudgedCopy(dinfo, next)) \/ (Astray(dinfo, next) /\ JudgedAstray(dinfo, next))
    BY <1>1, <1>4, WhileJudging
  <2>2. Restarted(dinfo, e) /\ e.unread = NoMarker /\ ~e.insufficient
    BY <1>3, <2>1, ResumedIsRestarted
  <2> HIDE DEF e
  <2>3. /\ Back \in Nat /\ Cut \in Nat /\ Size \in Nat /\ Back <= Size /\ Back >= Cut /\ Cut >= 1 /\ Torn
        /\ Shift \in Int
    BY <2>1, BackPlaces, WornTokens DEF Worn, Torn
  <2>4. /\ e.mcu = dinfo.mcu /\ e.toGo = Interval /\ e.expected = (dinfo.expected + 1) % 8 /\ e.mcu \in Nat
        /\ e.coefs = dinfo.coefs /\ e.scan = dinfo.scan /\ Steady(e)
    BY <2>1, <2>2 DEF Restarted
  <2>5. CASE Copying(dinfo, next) /\ JudgedCopy(dinfo, next)
    <3>1. next - 1 = Back /\ RestartAt(dinfo, Cut) /\ ~Lost /\ dinfo.unread = At(next - 1) /\ dinfo.unread.k = "RST"
      BY <1>1, <2>5 DEF JudgedCopy, Copying
    <3>2. First \in Nat /\ Len(Tokens) \in Nat
      BY <2>1, WornStretch
    <3>3. Here(e, Cut)
      BY <2>2, <2>3, <3>1, <3>2, HereBehindRestart
    <3>4. next = Back + 1
      BY <2>1, <2>3, <3>1
    <3>5. Place(next) = Cut
      <4>1. Origin(Back) = Cut /\ Origin(Back) = Back + Shift /\ Back >= Cut + 1
        BY <2>1, <3>1, BackPlaces, NoDataAtTheCut, <2>3
      <4>2. QED
        BY <2>3, <3>4, <4>1 DEF Place
    <3>6. Ordered(e, next)
      BY <2>2, <2>3, <3>3, <3>4, <3>5 DEF Ordered
    <3>7. Numbered(e)
      BY <2>1, <2>3, <2>4, NumberedOn
    <3>8. Seen(e, next) = Back
      BY <2>2, <2>3, <3>4 DEF Seen
    <3>9. Kept(e, Back)
      <4>1. dinfo.unread # NoMarker
        BY <3>1, TokenFacts DEF None
      <4>2. Seen(dinfo, next) = Back - 1 /\ Back - 1 \in Nat
        BY <2>3, <3>4, <4>1 DEF Seen
      <4>3. Kept(dinfo, Back - 1)
        BY <2>1, <4>2
      <4>4. Passes(Back - 1, Back)
        <5>1. \A i \in (Back - 1) + 1 .. Back : i = Back
          BY <2>3
        <5>2. At(Back).k = "RST"
          BY <3>1
        <5>3. QED
          BY <5>1, <5>2 DEF Passes
      <4>5. Back - 1 <= Back
        BY <2>3
      <4>6. QED
        BY <2>1, <2>3, <2>4, <4>2, <4>3, <4>4, <4>5, KeptOver
    <3>10. QED
      BY <1>1, <2>4, <3>6, <3>7, <3>8, <3>9 DEF Sitting, Within
  <2>6. CASE Astray(dinfo, next) /\ JudgedAstray(dinfo, next)
    <3>1. /\ Lost /\ Opener(dinfo) /\ Coded(Back + Shift) = dinfo.mcu /\ At(Back).k = "RST"
          /\ next = Back + 1 /\ Seen(dinfo, next) = Back - 1
      BY <1>1, <2>6 DEF JudgedAstray
    <3> DEFINE s == Back - 1
    <3>2. s \in Cut - 1 .. Back - 1 /\ Kept(dinfo, s)
      <4>1. s \in Cut - 1 .. Back - 1
        BY <2>3
      <4>2. QED
        BY <2>1, <3>1, <4>1
    <3> HIDE DEF s
    <3>3. Sitting(e, Back + 1) /\ Within(e, Back + 1)
      BY <2>1, <2>2, <3>1, <3>2, OpenedBehind
    <3>4. QED
      BY <1>1, <3>1, <3>3
  <2>7. QED
    BY <2>1, <2>5, <2>6
<1>5. QED
  BY <1>1, <1>3, <1>4, ResumeKeepsLandInv

LEMMA SkipKeepsLandInv ==
    ASSUME TypeInv, StrayInv, WrittenInv, LandInv, Skip PROVE LandInv'
<1> DEFINE found == NextMarker(next)
           e == [dinfo EXCEPT !.unread = At(found)]
<1>1. pc = "resync" /\ Action(dinfo.unread, dinfo.expected) = "skip" /\ Go(e, "resync") /\ next' = After(found)
  BY DEF Skip, Resync
<1>2. /\ FileInv /\ IsObject(dinfo) /\ next \in 1 .. Size + 1
  BY <1>1, WhileDecoding
<1>3. Keeps(dinfo, e, {"unread"}) /\ e.unread = At(found)
  BY <1>2, UnreadField
<1>4. found \in 1 .. Size + 1
  BY <1>2, FoundInFile
<1>5. found \in next .. Size + 1 /\ At(found).k # "data" /\ \A l \in next .. found - 1 : At(l).k = "data"
  BY <1>2, MarkerIsFound
<1> HIDE DEF e, found
<1>6. ASSUME Landing PROVE Sitting(e, next') /\ Numbered(e) /\ Restarting(e, next')
  <2>1. /\ Worn /\ dinfo.mcu \in Nat /\ dinfo.mcu < Many /\ Interval > 0 /\ dinfo.toGo = 0 /\ Steady(dinfo)
        /\ Kept(dinfo, Seen(dinfo, next)) /\ Numbered(dinfo) /\ Interval \in Nat /\ next \in 1 .. Size + 1
        /\ (Copying(dinfo, next) /\ JudgedCopy(dinfo, next)) \/ (Astray(dinfo, next) /\ JudgedAstray(dinfo, next))
    BY <1>1, <1>6, WhileJudging
  <2>2. Copying(dinfo, next) /\ next - 1 \in Cut .. Back - 1
    BY <1>1, <2>1 DEF JudgedCopy, JudgedAstray
  <2>3. ~Lost /\ Here(dinfo, Cut - 1) /\ ~dinfo.insufficient /\ dinfo.unread = At(next - 1) /\ dinfo.unread.k = "RST"
    BY <2>2 DEF Copying
  <2>4. /\ Back \in Nat /\ Cut \in Nat /\ Size \in Nat /\ Back <= Size /\ Back >= Cut /\ Cut >= 1 /\ At(Back).k # "data"
    <3>1. Back \in Cut .. Size /\ Cut \in Nat /\ Size \in Nat /\ Cut >= 1 /\ At(Back).k # "data" /\ Back \in Nat
      BY <2>1, BackPlaces DEF Worn, Torn
    <3>2. QED
      BY <3>1
  <2>5. found \in next .. Back /\ found \in Nat /\ found \in Cut .. Back /\ next \in Nat /\ found \in 1 .. Size
    <3>1. Back \notin next .. found - 1
      BY <1>5, <2>4
    <3>2. QED
      BY <1>2, <1>5, <2>2, <2>4, <3>1
  <2>6. At(found).k = "RST"
    <3>1. CASE found \in Cut .. Back - 1
      BY <1>5, <2>1, <3>1, GapKinds
    <3>2. CASE found = Back
      <4>1. RestartAt(dinfo, Cut) /\ At(Back) = Tokens[Cut]
        BY <2>1, <2>3, RestartAtTheCut
      <4>2. QED
        BY <3>2, <4>1 DEF RestartAt
    <3>3. QED
      BY <2>4, <2>5, <3>1, <3>2
  <2>7. /\ e.mcu = dinfo.mcu /\ e.toGo = dinfo.toGo /\ e.expected = dinfo.expected /\ e.coefs = dinfo.coefs
        /\ e.scan = dinfo.scan /\ e.last = dinfo.last /\ e.insufficient = dinfo.insufficient /\ Steady(e)
    BY <1>3, <2>1 DEF Keeps, Fields, Steady
  <2>8. next' = found + 1 /\ (found + 1) - 1 = found /\ (found + 1) - 2 = found - 1 /\ found - 1 \in Nat
        /\ found - 1 <= Size
    BY <1>1, <2>4, <2>5 DEF After, Starved
  <2>9. Numbered(e) /\ Here(e, Cut - 1)
    BY <2>1, <2>3, <2>7 DEF Numbered, Here
  <2>10. Restarting(e, found + 1)
    BY <1>3, <2>1, <2>3, <2>5, <2>6, <2>7, <2>8, <2>9 DEF Restarting, Copying
  <2>11. Seen(e, found + 1) = found - 1
    <3>1. e.unread # NoMarker
      BY <1>3, <2>6, TokenFacts DEF None
    <3>2. QED
      BY <2>8, <3>1 DEF Seen
  <2>12. Kept(e, found - 1)
    <3>1. dinfo.unread # NoMarker
      BY <2>3, TokenFacts DEF None
    <3> DEFINE s == next - 2
    <3>2. Kept(dinfo, s)
      BY <2>1, <3>1 DEF Seen
    <3>3. s \in Nat /\ s >= Cut - 1 /\ s <= found - 1 /\ \A i \in s + 1 .. found - 1 : i \in Cut .. Back - 1
      BY <2>2, <2>4, <2>5
    <3> HIDE DEF s
    <3>4. Passes(s, found - 1)
      BY <3>3 DEF Passes
    <3>5. QED
      BY <2>1, <2>7, <2>8, <3>2, <3>3, <3>4, KeptOver
  <2>13. QED
    BY <2>7, <2>8, <2>9, <2>10, <2>11, <2>12 DEF Sitting
<1>7. e.unread = dinfo.unread \/ \E i \in 1 .. Size + 1 : e.unread = At(i)
  BY <1>3, <1>4
<1>8. QED
  BY <1>1, <1>3, <1>6, <1>7, JudgeKeepsLandInv

LEMMA LeaveKeepsLandInv ==
    ASSUME TypeInv, StrayInv, WrittenInv, LandInv, Leave PROVE LandInv'
<1> DEFINE e == Resumed(dinfo)
<1>1. pc = "resync" /\ Action(dinfo.unread, dinfo.expected) = "leave" /\ Resume(dinfo) /\ next' = next
  BY DEF Leave, Resync
<1>2. IsObject(dinfo)
  BY <1>1, WhileDecoding
<1>3. Keeps(dinfo, dinfo, {"unread"})
  BY <1>2 DEF Keeps
<1>4. ASSUME Landing PROVE Sitting(e, next') /\ Within(e, next')
  <2>1. /\ Worn /\ dinfo.mcu \in Nat /\ dinfo.mcu < Many /\ Interval > 0 /\ dinfo.toGo = 0 /\ Steady(dinfo)
        /\ Kept(dinfo, Seen(dinfo, next)) /\ Numbered(dinfo) /\ Interval \in Nat /\ next \in 1 .. Size + 1
        /\ (Copying(dinfo, next) /\ JudgedCopy(dinfo, next)) \/ (Astray(dinfo, next) /\ JudgedAstray(dinfo, next))
    BY <1>1, <1>4, WhileJudging
  <2>2. Restarted(dinfo, e) /\ e.unread = dinfo.unread
    BY <1>3, <2>1, ResumedIsRestarted
  <2> HIDE DEF e
  <2>3. /\ Lost /\ Ahead(dinfo) /\ next = Back + 1 /\ dinfo.unread = At(Back) /\ Seen(dinfo, next) = Back - 1
        /\ (At(Back).k = "RST" => Opener(dinfo) /\ Coded(Back + Shift) # dinfo.mcu)
    BY <1>1, <2>1 DEF JudgedCopy, JudgedAstray
  <2>4. Torn /\ Back \in Nat /\ Size \in Nat /\ Back <= Size /\ Back - 1 \in Nat /\ Back - 1 <= Size
    <3>1. Back \in Cut .. Size /\ Cut \in Nat /\ Cut >= 1 /\ Size \in Nat /\ Torn
      BY <2>1, BackPlaces, WornTokens DEF Worn, Torn
    <3>2. QED
      BY <3>1
  <2>5. /\ e.mcu = dinfo.mcu /\ e.toGo = Interval /\ e.expected = (dinfo.expected + 1) % 8 /\ e.mcu \in Nat
        /\ e.coefs = dinfo.coefs /\ e.scan = dinfo.scan /\ Steady(e)
    BY <2>1, <2>2 DEF Restarted
  <2>6. Numbered(e)
    BY <2>1, <2>4, <2>5, NumberedOn
  <2>7. Ahead(e)
    <3>1. SUFFICES ASSUME At(Back).k = "RST" PROVE /\ Interval > 0 /\ Scanned(Back + Shift) = e.scan
                                                   /\ Reaches(e.mcu + e.toGo, Coded(Back + Shift))
      BY DEF Ahead
    <3> DEFINE f == Coded(Back + Shift)
    <3>2. Scanned(Back + Shift) = e.scan /\ (f = dinfo.mcu + Interval \/ f = dinfo.mcu + Interval + Interval)
      BY <2>3, <2>5, <3>1 DEF Opener
    <3> HIDE DEF f
    <3>3. Reaches(e.mcu + e.toGo, f)
      BY <2>5, <3>2 DEF Reaches
    <3>4. QED
      BY <2>1, <3>2, <3>3 DEF f
  <2>8. Astray(e, next)
    BY <2>2, <2>3, <2>7 DEF Astray
  <2>9. Seen(e, next) = Seen(dinfo, next)
    BY <2>2 DEF Seen
  <2>10. Kept(e, Back - 1)
    <3>1. Kept(dinfo, Back - 1)
      BY <2>1, <2>3
    <3>2. Passes(Back - 1, Back - 1)
      BY <2>4 DEF Passes
    <3>3. QED
      BY <2>1, <2>4, <2>5, <3>1, <3>2, KeptOver
  <2>11. QED
    BY <1>1, <2>3, <2>5, <2>6, <2>8, <2>9, <2>10 DEF Sitting, Within
<1>5. QED
  BY <1>1, <1>3, <1>4, ResumeKeepsLandInv

\* Where the decoder is when an MCU has been counted, which may be the last of the pass.
Advances(c, n) ==
    /\ Kept(c, Seen(c, n))
    /\ c.mcu < Many => Within(c, n)
    /\ c.mcu = Many => ScanOver(Seen(c, n) + 1) /\ (c.unread # NoMarker => c.unread = At(n - 1))

\* Behind the last MCU a piece of what is left or repeated may be lost.
LEMMA OverOn ==
    ASSUME Worn, NEW c, NEW n \in 1 .. Size + 1, Advances(c, n), c.mcu = Many, c.unread = NoMarker, At(n).k = "data"
    PROVE  Kept(c, n) /\ ScanOver(n + 1)
<1>1. Seen(c, n) = n - 1 /\ (n - 1) + 1 = n /\ n \in Nat
  BY WornTokens DEF Seen
<1>2. Kept(c, n - 1) /\ ScanOver(n)
  BY <1>1 DEF Advances
<1>3. n \in Cut .. Back - 1 /\ At(Back).k # "RST" /\ n \in 2 .. Size
  BY <1>2 DEF ScanOver
<1>4. Back \in Cut .. Size /\ Cut \in Nat /\ Back \in Nat /\ Size \in Nat /\ At(Back).k # "data" /\ Many \in Nat /\ Cut >= 1
  BY BackPlaces, TornPlaces DEF Worn, Torn
<1>5. ScanOver(n + 1)
  <2>1. n + 1 \in 2 .. Size /\ (n + 1 \in Cut .. Back - 1 \/ n + 1 = Back)
    BY <1>3, <1>4
  <2>2. QED
    BY <1>3, <1>4, <2>1 DEF ScanOver
<1>6. Kept(c, n)
  <2>1. n - 1 >= Cut - 1 /\ n - 1 \in Nat /\ n <= Size /\ n - 1 <= n /\ \A i \in (n - 1) + 1 .. n : i = n
    BY <1>1, <1>3, <1>4
  <2>2. Passes(n - 1, n)
    BY <1>3, <2>1 DEF Passes
  <2>3. QED
    BY <1>1, <1>2, <1>4, <2>1, <2>2, KeptOver
<1>7. QED
  BY <1>5, <1>6

\* The MCU that has been stored is counted.
LEMMA CountedKeepsLandInv ==
    ASSUME TypeInv, StrayInv, WrittenInv, LandInv, pc = "coefficients", NEW d,
           Keeps(dinfo, d, {"coefs", "last", "insufficient", "unread"}),
           d.unread = dinfo.unread \/ \E j \in 1 .. Size + 1 : d.unread = At(j),
           NEW i \in 1 .. Size + 1, Counted(d, i),
           Landing => Advances(CountedOne(d), i)
    PROVE  LandInv'
<1> DEFINE c == CountedOne(d)
           e == PassOver(d)
<1>1. /\ FileInv /\ IsObject(dinfo) /\ next \in 1 .. Size + 1 /\ pc # "idle" /\ Size \in Nat
      /\ DecodingOK(dinfo, call) /\ dinfo.frame.n \in Nat
  BY WhileDecoding, SizeIsNat
<1>2. /\ d.frame = dinfo.frame /\ d.tables = dinfo.tables /\ d.mcu = dinfo.mcu
      /\ d.inheaders = dinfo.inheaders /\ d.interval = dinfo.interval
      /\ IsObject(d)
  BY DEF Keeps, Fields
<1>3. /\ Keeps(d, c, {"toGo", "mcu"}) /\ c.mcu = d.mcu + 1
      /\ Keeps(d, e, {"toGo", "mcu", "consume"})
  BY <1>2, CountedFields
<1>4. e.mcu = c.mcu
  BY <1>2 DEF CountedOne, PassOver, IsObject, Fields
<1>5. IF c.mcu < d.frame.n
      THEN Go(c, "coefficients") /\ next' = i
      ELSE /\ Go(e, "reading")
           /\ next' \in IF d.unread = NoMarker THEN i..(i + Min2(1, Run(i))) ELSE {i}
  BY DEF Counted, CountedOne, PassOver
<1>6. Landing => Advances(c, i)
  OBVIOUS
<1> HIDE DEF c, e
<1>7. /\ c.tables = dinfo.tables /\ c.unread = d.unread /\ e.tables = dinfo.tables /\ e.unread = d.unread
      /\ c.frame = dinfo.frame /\ e.frame = dinfo.frame /\ e.coefs = c.coefs /\ e.scan = c.scan
      /\ c.inheaders = dinfo.inheaders /\ e.inheaders = dinfo.inheaders
      /\ c.interval = dinfo.interval /\ e.interval = dinfo.interval
  BY <1>2, <1>3 DEF Keeps, Fields
<1>8. Borrowing(dinfo) => StillBorrows(c) /\ StillBorrows(e)
  BY <1>1, <1>7, DecodingStillBorrows
<1>9. ASSUME Landing
      PROVE  /\ Worn /\ dinfo.mcu \in Nat /\ dinfo.mcu < Many /\ Many \in Nat /\ Many = dinfo.frame.n
             /\ Steady(dinfo) /\ Advances(c, i)
  <2>1. Worn /\ dinfo.mcu \in Nat /\ dinfo.mcu < Many /\ Many \in Nat /\ Steady(dinfo)
    BY <1>9, WhilePassing
  <2>2. Many = dinfo.frame.n
    BY <2>1 DEF Many, Steady
  <2>3. QED
    BY <1>6, <1>9, <2>1, <2>2
<1>10. Landing => Steady(c) /\ Steady(e)
  BY <1>7, <1>9 DEF Steady
<1>11. CASE c.mcu < d.frame.n
  <2>1. Go(c, "coefficients") /\ next' = i
    BY <1>5, <1>11
  <2>2. ASSUME Landing PROVE LandsAt(c, "coefficients", next', warning')
    <3>1. Within(c, i) /\ Sitting(c, i)
      BY <1>2, <1>9, <1>10, <1>11, <2>2 DEF Advances, Sitting
    <3>2. QED
      BY <2>1, <3>1 DEF LandsAt
  <2>3. QED
    BY <1>1, <1>8, <2>1, <2>2, GoKeepsLandInv
<1>12. CASE ~(c.mcu < d.frame.n)
  <2>1. Go(e, "reading")
        /\ next' \in IF d.unread = NoMarker THEN i..(i + Min2(1, Run(i))) ELSE {i}
    BY <1>5, <1>12
  <2>2. ASSUME Landing PROVE LandsAt(e, "reading", next', warning')
    <3>1. c.mcu = Many /\ e.mcu = Many /\ Many \in Nat /\ Worn
      BY <1>2, <1>3, <1>4, <1>9, <1>12, <2>2
    <3>2. Advances(c, i)
      BY <1>9, <2>2
    <3>3. ScanOver(Seen(c, i) + 1) /\ (c.unread # NoMarker => c.unread = At(i - 1)) /\ Kept(c, Seen(c, i))
      BY <3>1, <3>2 DEF Advances
    <3>4. ASSUME NEW s, Kept(c, s) PROVE Kept(e, s)
      BY <1>7, <3>1, <3>4 DEF Kept, Landed, DueIn, Blanks, BlankIn, HasBegun
    <3>5. CASE next' = i
      <4>1. Seen(e, i) = Seen(c, i)
        BY <1>7 DEF Seen
      <4>2. Kept(e, Seen(c, i))
        BY <3>3, <3>4
      <4>3. Sitting(e, i) /\ Between(e, i)
        BY <1>7, <1>10, <2>2, <3>1, <3>3, <4>1, <4>2 DEF Sitting, Between
      <4>4. QED
        BY <3>5, <4>3 DEF LandsAt
    <3>6. CASE next' = i + 1 /\ At(i).k = "data" /\ c.unread = NoMarker
      <4>1. Kept(c, i) /\ ScanOver(i + 1)
        BY <3>1, <3>2, <3>6, OverOn
      <4>2. Seen(e, i + 1) = i
        BY <1>7, <3>6, <1>1 DEF Seen
      <4>3. Kept(e, i)
        BY <3>4, <4>1
      <4>4. Sitting(e, i + 1) /\ Between(e, i + 1)
        BY <1>7, <1>10, <2>2, <3>1, <3>6, <4>1, <4>2, <4>3 DEF Sitting, Between
      <4>5. QED
        BY <3>6, <4>4 DEF LandsAt
    <3>7. next' = i \/ (next' = i + 1 /\ At(i).k = "data" /\ c.unread = NoMarker)
      <4>1. CASE d.unread = NoMarker
        <5>1. next' \in i..(i + Min2(1, Run(i)))
          BY <2>1, <4>1
        <5>2. QED
          BY <1>1, <1>7, <4>1, <5>1, CountedPlace
      <4>2. CASE d.unread # NoMarker
        BY <2>1, <4>2
      <4>3. QED
        BY <4>1, <4>2
    <3>8. QED
      BY <3>5, <3>6, <3>7
  <2>3. QED
    BY <1>1, <1>8, <2>1, <2>2, GoKeepsLandInv
<1>13. QED
  BY <1>11, <1>12

\* An MCU is counted for the restart interval as well.
OneMore(d, c) == /\ c.mcu = d.mcu + 1 /\ c.toGo = d.toGo - 1 /\ c.scan = d.scan /\ c.expected = d.expected
                 /\ Steady(c)
LEMMA NumberedCounts ==
    ASSUME NEW d, NEW c, Numbered(d), OneMore(d, c), d.mcu \in Nat, Interval \in Nat, Interval = 0 \/ d.toGo > 0
    PROVE  Numbered(c)
<1>1. SUFFICES ASSUME Interval > 0
               PROVE  /\ c.toGo \in 0 .. Interval /\ (c.mcu + c.toGo) % Interval = 0 /\ c.mcu + c.toGo > 0
                      /\ c.expected = Number(c.mcu + c.toGo)
  BY DEF Numbered
<1>2. /\ d.toGo \in 0 .. Interval /\ d.toGo > 0 /\ (d.mcu + d.toGo) % Interval = 0 /\ d.mcu + d.toGo > 0
      /\ d.expected = Number(d.mcu + d.toGo)
  BY <1>1 DEF Numbered
<1>3. c.mcu + c.toGo = d.mcu + d.toGo /\ c.toGo \in 0 .. Interval
  BY <1>1, <1>2 DEF OneMore
<1>4. QED
  BY <1>2, <1>3 DEF OneMore

\* Where a stretch is lost, an MCU is made up, and the pass may end with it.
LEMMA AstrayCounts ==
    ASSUME Worn, NEW d, NEW n \in 1 .. Size + 1, Astray(d, n), Numbered(d), d.mcu \in Nat, d.mcu < Many,
           Interval = 0 \/ d.toGo > 0, NEW c, OneMore(d, c), NEW m \in 1 .. Size + 1,
           \/ c.unread = NoMarker /\ m \in Cut .. Back
           \/ c.unread = At(Back) /\ m = Back + 1,
           Kept(c, Seen(c, m))
    PROVE  Advances(c, m)
<1>1. Lost /\ Ahead(d) /\ Torn /\ Interval \in Nat /\ Many \in Nat
  BY TornPlaces DEF Astray, Worn, Torn
<1>2. Numbered(c)
  BY <1>1, NumberedCounts
<1>3. At(Back).k = "RST" => c.mcu + c.toGo = d.mcu + d.toGo /\ c.toGo >= 0 /\ c.mcu \in Nat
                            /\ d.toGo \in Nat
  BY <1>1 DEF OneMore, Ahead, Numbered
<1>4. Ahead(c)
  BY <1>1, <1>3 DEF Ahead, OneMore
<1>5. Astray(c, m)
  BY <1>1, <1>4 DEF Astray
<1>6. Within(c, m)
  BY <1>2, <1>5 DEF Within
<1>7. /\ Back \in Cut .. Size /\ Cut \in Nat /\ Back \in Nat /\ Size \in Nat /\ At(Back).k # "data" /\ Cut >= 2
  <2>1. Back \in Cut .. Size /\ Cut \in Nat /\ Back \in Nat /\ Size \in Nat /\ At(Back).k # "data"
    BY BackPlaces
  <2>2. Cut \in First + 1 .. Size /\ First \in Nat /\ First > 2
    BY WornTokens, WornStretch
  <2>3. QED
    BY <2>1, <2>2
<1>8. ASSUME c.mcu = Many PROVE ScanOver(Seen(c, m) + 1)
  <2>1. At(Back).k # "RST"
    <3>1. SUFFICES ASSUME At(Back).k = "RST" PROVE FALSE
      OBVIOUS
    <3> DEFINE p == Back + Shift
               f == Coded(p)
    <3>2. Interval > 0 /\ Reaches(d.mcu + d.toGo, f)
      BY <1>1, <3>1 DEF Ahead
    <3>3. f >= d.mcu + d.toGo /\ d.mcu + d.toGo >= Many
      <4>1. f >= d.mcu + d.toGo
        <5> HIDE DEF f
        <5>1. QED
          BY <1>1, <1>3, <3>1, <3>2 DEF Reaches
      <4>2. QED
        BY <1>3, <1>8, <3>1, <4>1 DEF OneMore
    <3>4. At(Back) = Tokens[p] /\ p \in 1 .. Len(Tokens) /\ First > 2 /\ First \in Nat
      BY BackPlaces, WornStretch
    <3>5. p \in First .. Len(Tokens) - 1
      BY <1>1, <3>1, <3>4, TornPlaces
    <3> HIDE DEF p
    <3>6. p \in 2 .. Len(Tokens)
      BY <3>4, <3>5
    <3>7. Continues(p) /\ RestartsInPlace(p)
      BY <1>1, <3>1, <3>4, <3>6, AllContinue
    <3>8. f \in Nat /\ f < Many
      BY <3>1, <3>4, <3>7 DEF Continues, RestartsInPlace
    <3> HIDE DEF f
    <3>9. QED
      BY <1>1, <1>3, <3>1, <3>3, <3>8
  <2>2. Seen(c, m) + 1 \in Cut .. Back
    <3>1. CASE c.unread = NoMarker /\ m \in Cut .. Back
      BY <1>7, <3>1 DEF Seen
    <3>2. CASE c.unread = At(Back) /\ m = Back + 1
      <4>1. Back \in 1 .. Size
        BY <1>7
      <4>2. c.unread # NoMarker
        BY <3>2, <4>1, WornTables
      <4>3. QED
        BY <1>7, <3>2, <4>2 DEF Seen
    <3>3. QED
      BY <3>1, <3>2
  <2> DEFINE q == Seen(c, m) + 1
  <2>3. q \in 2 .. Size /\ (q \in Cut .. Back - 1 \/ q = Back)
    BY <1>7, <2>2
  <2> HIDE DEF q
  <2>4. ScanOver(q)
    BY <1>7, <2>1, <2>3 DEF ScanOver
  <2>5. QED
    BY <2>4 DEF q
<1>9. c.unread # NoMarker => c.unread = At(m - 1)
  <2>1. ASSUME m = Back + 1 PROVE m - 1 = Back
    BY <1>7, <2>1
  <2>2. QED
    BY <2>1
<1>10. QED
  BY <1>6, <1>8, <1>9 DEF Advances

\* What is due is kept when an MCU is counted, ...
LEMMA KeptCounted ==
    ASSUME Worn, NEW d, NEW e, NEW s \in Nat, s <= Size, Kept(d, s), e.coefs = d.coefs, e.scan = d.scan,
           d.mcu \in Nat, e.mcu = d.mcu + 1
    PROVE  Kept(e, s)
<1>1. Size \in Nat /\ Many \in Nat /\ e.mcu \in Nat /\ e.mcu >= d.mcu
  <2>1. Torn /\ Size \in Nat
    BY WornTokens DEF Worn
  <2>2. Many \in Nat
    BY <2>1, TornPlaces
  <2>3. e.mcu \in Nat /\ e.mcu >= d.mcu
    OBVIOUS
  <2>4. QED
    BY <2>1, <2>2, <2>3
<1>2. \A i \in s + 1 .. s : AddsNothing(i, s)
  OBVIOUS
<1>3. \A i \in 1 .. Size : Due(i) => DueFacts(i)
  BY DueHasScan
<1>4. QED
  BY <1>1, <1>2, <1>3, KeptOn

\* ... and made up where a stretch is lost.
LEMMA KeptMadeUp ==
    ASSUME Worn, Lost, NEW d, NEW e, NEW value, NEW s \in Cut - 1 .. Back - 1, NEW t \in s .. Back - 1, Kept(d, s),
           e.coefs = Stored(d, value), e.scan = d.scan, Storing(d), d.frame = Tokens[FrameAt],
           e.mcu = d.mcu + 1
    PROVE  Kept(e, t)
<1>1. /\ Back \in Cut .. Size /\ Cut \in Nat /\ Back \in Nat /\ Size \in Nat /\ Cut >= 1 /\ Many \in Nat
  BY BackPlaces, TornPlaces DEF Worn, Torn
<1>2. /\ s \in Nat /\ t \in Nat /\ s <= t /\ t <= Size /\ s >= Cut - 1
      /\ \A i \in s + 1 .. t : i \in Cut .. Back - 1
  BY <1>1
<1>3. d.mcu \in Nat /\ d.mcu < Many /\ DOMAIN d.coefs = Tokens[FrameAt].comps /\ d.scan \subseteq Tokens[FrameAt].comps
  BY DEF Storing, Many
<1>4. \A i \in s + 1 .. t : At(i).k # "SOS" /\ ~Due(i)
  BY <1>2, GapAddsNothing DEF AddsNothing
<1>5. \A i \in 1 .. Size : Due(i) => DueFacts(i)
  BY DueHasScan
<1>6. \A i \in s + 1 .. t : At(i).k # "SOS" /\ (Due(i) => Stores(d, value, i))
  BY <1>4
<1>7. QED
  BY <1>1, <1>2, <1>3, <1>5, <1>6, KeptStored

\* In order an MCU that is due is there, in step.
LEMMA McuIsDue ==
    ASSUME Worn, NEW d, NEW n \in 1 .. Size + 1, Ordered(d, n), Numbered(d), d.mcu \in Nat, d.mcu < Many,
           d.tables = Tables, Interval = 0 \/ d.toGo > 0
    PROVE  /\ n # Cut /\ n \in 1 .. Size /\ McuAt(d, Place(n) + 1) /\ At(n) = Tokens[Place(n) + 1]
           /\ At(n).k = "data" /\ Matches(d, At(n)) /\ d.unread = NoMarker /\ ~d.insufficient
<1>1. Torn
  BY DEF Worn
<1>2. n # Cut
  <2>1. SUFFICES ASSUME n = Cut PROVE FALSE
    OBVIOUS
  <2>2. Cut \in Nat /\ Back \in Nat /\ Back >= Cut
    <3>1. Back \in Cut .. Size /\ Cut \in Nat /\ Back \in Nat /\ Size \in Nat
      BY BackPlaces
    <3>2. QED
      BY <3>1
  <2>3. ~Lost /\ Here(d, Cut - 1)
    BY <2>1, <2>2 DEF Ordered, Place
  <2>4. QED
    BY <2>3, NoMcuAtTheCut
<1>3. n \in 1 .. Size /\ At(n) = Tokens[Place(n) + 1]
  BY <1>2, InOrderHere
<1>4. McuAt(d, Place(n) + 1)
  BY <1>1, McuAhead DEF Ordered
<1>5. QED
  BY <1>2, <1>3, <1>4 DEF McuAt, Ordered

\* What holds while MCUs are decoded.
LEMMA WhileDecodingMcus ==
    ASSUME TypeInv, StrayInv, WrittenInv, McuDue
    PROVE  /\ pc = "coefficients" /\ IsObject(dinfo) /\ FileInv /\ next \in 1 .. Size + 1 /\ Size \in Nat
           /\ Storing(dinfo)
           /\ Landing => /\ Worn /\ Torn /\ dinfo.mcu \in Nat /\ dinfo.mcu < Many /\ dinfo.tables = Tables
                         /\ dinfo.frame = Tokens[FrameAt] /\ Steady(dinfo) /\ Interval \in Nat
                         /\ Interval = 0 \/ dinfo.toGo > 0
                         /\ Kept(dinfo, Seen(dinfo, next)) /\ Numbered(dinfo)
                         /\ Ordered(dinfo, next) \/ Astray(dinfo, next)
<1>1. pc = "coefficients" /\ (dinfo.interval = 0 \/ dinfo.toGo > 0)
  BY DEF McuDue, Decoding
<1>2. /\ IsObject(dinfo) /\ FileInv /\ next \in 1 .. Size + 1 /\ DecodingOK(dinfo, call)
      /\ dinfo.frame.n \in Nat /\ Size \in Nat
  BY <1>1, WhileDecoding, SizeIsNat
<1>3. Storing(dinfo)
  BY <1>2 DEF DecodingOK, Ready, Storing
<1>4. ASSUME Landing
      PROVE  /\ Worn /\ Torn /\ dinfo.mcu \in Nat /\ dinfo.mcu < Many /\ dinfo.tables = Tables
             /\ dinfo.frame = Tokens[FrameAt] /\ Steady(dinfo) /\ Interval \in Nat
             /\ dinfo.interval = Interval
             /\ Kept(dinfo, Seen(dinfo, next)) /\ Numbered(dinfo)
             /\ Ordered(dinfo, next) \/ Astray(dinfo, next)
  BY <1>1, <1>4, WhilePassing
<1>5. Landing => Interval = 0 \/ dinfo.toGo > 0
  BY <1>1, <1>4
<1>6. QED
  BY <1>1, <1>2, <1>3, <1>4, <1>5

\* A segment that ended early is left where a stretch is lost.
LEMMA LeaveMcuKeepsLandInv ==
    ASSUME TypeInv, StrayInv, WrittenInv, LandInv, LeaveMcu PROVE LandInv'
<1> DEFINE c == CountedOne(dinfo)
<1>1. McuDue /\ Counted(dinfo, next) /\ dinfo.insufficient
  BY DEF LeaveMcu
<1>2. pc = "coefficients" /\ IsObject(dinfo) /\ next \in 1 .. Size + 1
  BY <1>1, WhileDecodingMcus
<1>3. Keeps(dinfo, dinfo, {"coefs", "last", "insufficient", "unread"})
  BY <1>2 DEF Keeps
<1>4. Keeps(dinfo, c, {"toGo", "mcu"}) /\ c.toGo = dinfo.toGo - 1 /\ c.mcu = dinfo.mcu + 1
  BY <1>2, CountedFields
<1>5. ASSUME Landing PROVE Advances(c, next)
  <2>1. /\ Worn /\ Torn /\ dinfo.mcu \in Nat /\ dinfo.mcu < Many /\ Steady(dinfo) /\ Interval \in Nat
        /\ Interval = 0 \/ dinfo.toGo > 0
        /\ Kept(dinfo, Seen(dinfo, next)) /\ Numbered(dinfo)
        /\ Ordered(dinfo, next) \/ Astray(dinfo, next)
    BY <1>1, <1>5, WhileDecodingMcus
  <2>2. Astray(dinfo, next)
    BY <1>1, <2>1 DEF Ordered
  <2> HIDE DEF c
  <2>3. OneMore(dinfo, c) /\ c.unread = dinfo.unread /\ c.coefs = dinfo.coefs /\ c.scan = dinfo.scan
    BY <1>4, <2>1 DEF OneMore, Keeps, Fields, Steady
  <2>4. Seen(c, next) = Seen(dinfo, next)
    BY <2>3 DEF Seen
  <2>5. \/ c.unread = NoMarker /\ next \in Cut .. Back
        \/ c.unread = At(Back) /\ next = Back + 1
    BY <2>2, <2>3 DEF Astray
  <2> DEFINE s == Seen(dinfo, next)
  <2>6. s \in Nat /\ s <= Size
    <3>1. s \in Cut - 1 .. Back - 1 /\ s \in Nat
      BY <1>2, <2>1, <2>2, SeenAstray
    <3>2. Back \in Cut .. Size /\ Cut \in Nat /\ Back \in Nat /\ Size \in Nat
      BY <2>1, BackPlaces
    <3> HIDE DEF s
    <3>3. QED
      BY <3>1, <3>2
  <2>7. Kept(dinfo, s)
    BY <2>1
  <2> HIDE DEF s
  <2>8. Kept(c, s)
    BY <1>4, <2>1, <2>3, <2>6, <2>7, KeptCounted
  <2>9. Kept(c, Seen(c, next))
    BY <2>4, <2>8 DEF s
  <2>10. QED
    BY <1>2, <2>1, <2>2, <2>3, <2>5, <2>9, AstrayCounts
<1>6. QED
  BY <1>1, <1>2, <1>3, <1>5, CountedKeepsLandInv

\* Zero bits are decoded only there.
LEMMA StuffZerosKeepsLandInv ==
    ASSUME TypeInv, StrayInv, WrittenInv, LandInv, StuffZeros PROVE LandInv'
<1> DEFINE x == IF dinfo.unread = NoMarker THEN At(next) ELSE dinfo.unread
           value == [a \in dinfo.scan |-> Bogus]
           e == [dinfo EXCEPT !.insufficient = TRUE,
                              !.unread = IF @ = NoMarker THEN At(next) ELSE @]
           d == Store(e, value)
           i == IF dinfo.unread = NoMarker THEN After(next) ELSE next
           c == CountedOne(d)
<1>1. /\ McuDue /\ Counted(d, i) /\ ~dinfo.insufficient
      /\ dinfo.unread # NoMarker \/ At(next).k # "data"
  BY DEF StuffZeros
<1>2. pc = "coefficients" /\ IsObject(dinfo) /\ next \in 1 .. Size + 1 /\ FileInv /\ Storing(dinfo) /\ Size \in Nat
  BY <1>1, WhileDecodingMcus
<1>3. i \in 1 .. Size + 1
  BY <1>2, AfterInFile
<1>4. Keeps(dinfo, e, {"insufficient", "unread"}) /\ e.unread = x
  BY <1>2 DEF IsObject, Fields, Keeps
<1> HIDE DEF e, value
<1>5. Keeps(e, d, {"coefs"}) /\ d.coefs = Stored(e, value)
  BY <1>4, StoreFields DEF Keeps
<1>6. Stored(e, value) = Stored(dinfo, value)
  <2>1. e.coefs = dinfo.coefs /\ e.scan = dinfo.scan /\ e.mcu = dinfo.mcu
    BY <1>4 DEF Keeps, Fields
  <2>2. QED
    BY <2>1 DEF Stored
<1> HIDE DEF d
<1>7. Keeps(d, c, {"toGo", "mcu"}) /\ c.toGo = d.toGo - 1 /\ c.mcu = d.mcu + 1
  BY <1>5, CountedFields DEF Keeps
<1> HIDE DEF c, x
<1>8. /\ Keeps(dinfo, d, {"coefs", "last", "insufficient", "unread"})
      /\ d.unread = x /\ c.unread = x /\ c.coefs = Stored(dinfo, value) /\ c.scan = dinfo.scan
      /\ c.mcu = dinfo.mcu + 1 /\ c.toGo = dinfo.toGo - 1 /\ c.expected = dinfo.expected
      /\ c.inheaders = dinfo.inheaders /\ c.tables = dinfo.tables /\ c.interval = dinfo.interval
      /\ c.frame = dinfo.frame
  BY <1>4, <1>5, <1>6, <1>7 DEF Keeps, Fields
<1>9. d.unread = dinfo.unread \/ \E j \in 1 .. Size + 1 : d.unread = At(j)
  BY <1>2, <1>8 DEF x
<1>10. ASSUME Landing PROVE Advances(c, i)
  <2>1. /\ Worn /\ Torn /\ dinfo.mcu \in Nat /\ dinfo.mcu < Many /\ Steady(dinfo) /\ Interval \in Nat
        /\ Interval = 0 \/ dinfo.toGo > 0
        /\ Kept(dinfo, Seen(dinfo, next)) /\ Numbered(dinfo)
        /\ Ordered(dinfo, next) \/ Astray(dinfo, next)
    BY <1>1, <1>10, WhileDecodingMcus
  <2>2. dinfo.tables = Tables /\ dinfo.frame = Tokens[FrameAt]
    BY <2>1 DEF Steady
  <2>3. ~Ordered(dinfo, next)
    BY <1>1, <1>2, <2>1, <2>2, McuIsDue
  <2>4. Astray(dinfo, next)
    BY <2>1, <2>3
  <2>5. OneMore(dinfo, c)
    BY <1>8, <2>1 DEF OneMore, Steady
  <2>6. /\ Lost /\ Seen(dinfo, next) \in Cut - 1 .. Back - 1
        /\ dinfo.unread = NoMarker => next \in Cut .. Back /\ Seen(dinfo, next) = next - 1
        /\ dinfo.unread # NoMarker => dinfo.unread = At(Back) /\ next = Back + 1 /\ Seen(dinfo, next) = Back - 1
    BY <1>2, <2>1, <2>4, SeenAstray
  <2>7. /\ Back \in Cut .. Size /\ Cut \in Nat /\ Back \in Nat /\ Size \in Nat /\ Cut >= 1
        /\ \A l \in Cut .. Back - 1 : At(l).k = "data"
    BY <2>1, <2>6, BackPlaces DEF Worn, Torn
  <2>8. x = At(Back) /\ i = Back + 1 /\ Seen(dinfo, next) = Back - 1
    <3>1. CASE dinfo.unread = NoMarker
      <4>1. next = Back
        BY <1>1, <2>6, <2>7, <3>1
      <4>2. After(Back) = Back + 1
        BY <2>7 DEF After, Starved
      <4>3. QED
        BY <2>6, <3>1, <4>1, <4>2 DEF x
    <3>2. CASE dinfo.unread # NoMarker
      BY <2>6, <3>2 DEF x
    <3>3. QED
      BY <3>1, <3>2
  <2>9. Seen(c, i) = Back - 1
    <3>1. Back \in 1 .. Size
      BY <2>7
    <3>2. At(Back) # NoMarker
      BY <2>1, <3>1, WornTables
    <3>3. QED
      BY <1>8, <2>7, <2>8, <3>2 DEF Seen
  <2>10. Kept(c, Back - 1)
    <3> DEFINE s == Back - 1
    <3>1. s \in Cut - 1 .. Back - 1 /\ s \in s .. Back - 1
      BY <2>7
    <3>2. Kept(dinfo, s)
      BY <2>1, <2>8
    <3> HIDE DEF s
    <3>3. Kept(c, s)
      BY <1>2, <1>8, <2>1, <2>2, <2>6, <3>1, <3>2, KeptMadeUp
    <3>4. QED
      BY <3>3 DEF s
  <2> HIDE DEF i
  <2>11. Kept(c, Seen(c, i)) /\ c.unread = At(Back)
    BY <1>8, <2>8, <2>9, <2>10
  <2>12. QED
    BY <1>2, <1>3, <2>1, <2>4, <2>5, <2>8, <2>11, AstrayCounts
<1>11. QED
  BY <1>1, <1>2, <1>3, <1>8, <1>9, <1>10, CountedKeepsLandInv DEF c

\* An MCU that is decoded in step is where it belongs, or made up of what is left.
LEMMA DecodeMcuKeepsLandInv ==
    ASSUME TypeInv, MarkerInv, StrayInv, WrittenInv, LandInv, DecodeMcu PROVE LandInv'
<1> DEFINE t == At(next)
           d == [Store(dinfo, t.v) EXCEPT !.last = t.n]
           c == CountedOne(d)
<1>1. HasData /\ McuDue /\ InStep(t) /\ Counted(d, next + 1) /\ dinfo.unread = NoMarker
  BY DEF DecodeMcu, HasData
<1>2. /\ pc = "coefficients" /\ IsObject(dinfo) /\ FileInv /\ next \in 1 .. Size
      /\ next + 1 \in 1 .. Size + 1 /\ t.k = "data" /\ Storing(dinfo)
  BY <1>1, WhileStoring
<1>3. Size \in Nat /\ next \in 1 .. Size + 1
  BY <1>1, WhileDecodingMcus
<1>4. /\ Keeps(dinfo, d, {"coefs", "last"}) /\ d.last = t.n
      /\ SameDuty(dinfo, c) /\ c.coefs = Stored(dinfo, t.v)
      /\ c.last = t.n /\ c.mcu = dinfo.mcu + 1
      /\ c.toGo = dinfo.toGo - 1
  <2>1. StoredIn(d, t.v, t.n)
    BY <1>2, StoredAndCounted
  <2> HIDE DEF d, t
  <2>2. QED
    BY <2>1 DEF StoredIn
<1>5. Keeps(d, c, {"toGo", "mcu"})
  BY <1>4, CountedFields DEF Keeps
<1> HIDE DEF d, c, t
<1>6. /\ Keeps(dinfo, d, {"coefs", "last", "insufficient", "unread"})
      /\ d.unread = dinfo.unread /\ c.unread = NoMarker /\ c.scan = dinfo.scan
      /\ c.expected = dinfo.expected /\ (c.insufficient => dinfo.insufficient)
      /\ c.inheaders = dinfo.inheaders /\ c.tables = dinfo.tables /\ c.interval = dinfo.interval
      /\ c.frame = dinfo.frame
  BY <1>1, <1>4, <1>5 DEF Keeps, Fields, SameDuty
<1>7. ASSUME Landing PROVE Advances(c, next + 1)
  <2>1. /\ Worn /\ Torn /\ dinfo.mcu \in Nat /\ dinfo.mcu < Many /\ Steady(dinfo) /\ Interval \in Nat
        /\ Kept(dinfo, Seen(dinfo, next)) /\ Numbered(dinfo)
        /\ Ordered(dinfo, next) \/ Astray(dinfo, next)
    BY <1>1, <1>7, WhileDecodingMcus
  <2>2. dinfo.tables = Tables /\ dinfo.frame = Tokens[FrameAt]
    BY <2>1 DEF Steady
  <2>3. Interval = 0 \/ dinfo.toGo > 0
    BY <1>1, <1>7, WhileDecodingMcus
  <2>4. OneMore(dinfo, c)
    BY <1>4, <1>6, <2>1 DEF OneMore, Steady
  <2>5. Seen(dinfo, next) = next - 1 /\ Seen(c, next + 1) = next /\ next - 1 \in Nat /\ next \in Nat
    BY <1>1, <1>2, <1>6 DEF Seen
  <2>6. Kept(dinfo, next - 1)
    BY <2>1, <2>5
  <2>7. CASE Ordered(dinfo, next)
    <3>1. /\ next # Cut /\ McuAt(dinfo, Place(next) + 1) /\ t = Tokens[Place(next) + 1]
          /\ ~dinfo.insufficient
      BY <1>3, <2>1, <2>2, <2>3, <2>7, McuIsDue DEF t
    <3> DEFINE p == Place(next) + 1
    <3>2. /\ p \in First + 1 .. Len(Tokens) - 1 /\ Tokens[p].k = "data" /\ Tokens[p].n = dinfo.mcu + 1
          /\ Tokens[p].comps = dinfo.scan /\ t = Tokens[p]
      BY <3>1 DEF McuAt
    <3>3. First \in Nat /\ Len(Tokens) \in Nat /\ Many \in Nat
      BY <2>1, WornStretch, TornPlaces
    <3>4. Numbered(c) /\ c.mcu \in Nat
      BY <1>4, <2>1, <2>3, <2>4, NumberedCounts
    <3>5. Interval > 0 => c.toGo < Interval
      BY <1>4, <2>1 DEF Numbered
    <3> HIDE DEF p
    <3>6. Here(c, p)
      <4>1. p \in First .. Len(Tokens) - 1
        BY <3>2, <3>3
      <4>2. Scanned(p) = c.scan /\ Coded(p) = c.mcu /\ c.last = c.mcu
        BY <1>4, <1>6, <3>2 DEF Scanned, Coded
      <4>3. QED
        BY <3>2, <3>5, <4>1, <4>2 DEF Here
    <3>7. Here(c, Place(next) + 1) /\ ~c.insufficient
      BY <1>6, <3>1, <3>6 DEF p
    <3>8. Within(c, next + 1)
      BY <1>6, <1>3, <2>1, <2>7, <3>1, <3>4, <3>7, InOrderOn DEF Within
    <3>9. c.mcu = Many => ScanOver(next + 1)
      BY <1>3, <2>1, <2>7, <3>1, <3>7, ScanIsOver
    <3>10. Kept(c, next)
      <4>1. At(next).k # "SOS" /\ Stores(dinfo, t.v, next)
        BY <3>2 DEF Stores, t
      <4> DEFINE s == next - 1
      <4>2. s \in Nat /\ s <= next /\ next <= Size /\ \A j \in s + 1 .. next : j = next
        BY <1>2, <1>3, <2>5
      <4>3. Kept(dinfo, s)
        BY <2>6
      <4> HIDE DEF s
      <4>4. \A j \in s + 1 .. next : At(j).k # "SOS" /\ (Due(j) => Stores(dinfo, t.v, j))
        BY <4>1, <4>2
      <4>5. DOMAIN dinfo.coefs = Tokens[FrameAt].comps /\ dinfo.scan \subseteq Tokens[FrameAt].comps
        BY <1>2, <2>2 DEF Storing
      <4>6. \A j \in 1 .. Size : Due(j) => DueFacts(j)
        BY <2>1, DueHasScan
      <4>7. QED
        BY <1>4, <1>6, <1>3, <2>1, <2>5, <3>3, <4>2, <4>3, <4>4, <4>5, <4>6, KeptStored
    <3>11. QED
      BY <1>6, <2>5, <3>8, <3>9, <3>10 DEF Advances
  <2>8. CASE Astray(dinfo, next)
    <3>1. Lost /\ next \in Cut .. Back
      BY <1>1, <1>3, <2>1, <2>8, SeenAstray
    <3>2. /\ Back \in Cut .. Size /\ Cut \in Nat /\ Back \in Nat /\ Size \in Nat /\ Cut >= 1 /\ At(Back).k # "data"
      BY <2>1, BackPlaces DEF Worn, Torn
    <3>3. next # Back
      BY <1>2, <3>2 DEF t
    <3> DEFINE s == next - 1
    <3>4. next + 1 \in Cut .. Back /\ s \in Cut - 1 .. Back - 1 /\ next \in s .. Back - 1
      BY <3>1, <3>2, <3>3
    <3>5. Kept(dinfo, s)
      BY <2>6
    <3> HIDE DEF s
    <3>6. Kept(c, next)
      BY <1>2, <1>4, <1>6, <2>1, <2>2, <3>1, <3>4, <3>5, KeptMadeUp
    <3>7. Kept(c, Seen(c, next + 1))
      BY <2>5, <3>6
    <3>8. QED
      BY <1>2, <1>6, <1>3, <2>1, <2>3, <2>4, <2>8, <3>4, <3>7, AstrayCounts
  <2>9. QED
    BY <2>1, <2>7, <2>8
<1>8. QED
  BY <1>1, <1>2, <1>6, <1>7, CountedKeepsLandInv DEF c

\* Out of step data is decoded only there.
LEMMA DecodeOutOfStepKeepsLandInv ==
    ASSUME TypeInv, MarkerInv, StrayInv, WrittenInv, LandInv, DecodeOutOfStep PROVE LandInv'
<1> DEFINE value == [a \in dinfo.scan |-> Bogus]
           d == [Store(dinfo, value) EXCEPT !.last = -1]
           c == CountedOne(d)
<1>1. HasData /\ McuDue /\ ~InStep(At(next)) /\ dinfo.unread = NoMarker
  BY DEF DecodeOutOfStep, HasData
<1>2. PICK i \in next..NextMarker(next) : Counted(d, i)
  BY DEF DecodeOutOfStep
<1>3. /\ pc = "coefficients" /\ IsObject(dinfo) /\ FileInv /\ next \in 1 .. Size
      /\ At(next).k = "data" /\ Storing(dinfo)
  BY <1>1, WhileStoring
<1>4. Size \in Nat /\ next \in 1 .. Size + 1
  BY <1>1, WhileDecodingMcus
<1>5. i \in 1 .. Size + 1
  BY <1>2, <1>3, <1>4, FoundInFile
<1> HIDE DEF value
<1>6. /\ Keeps(dinfo, d, {"coefs", "last"}) /\ d.last = -1
      /\ SameDuty(dinfo, c) /\ c.coefs = Stored(dinfo, value)
      /\ c.last = -1 /\ c.mcu = dinfo.mcu + 1
      /\ c.toGo = dinfo.toGo - 1
  <2>1. StoredIn(d, value, -1)
    BY <1>3, StoredAndCounted
  <2> HIDE DEF d
  <2>2. QED
    BY <2>1 DEF StoredIn
<1>7. Keeps(d, c, {"toGo", "mcu"})
  BY <1>6, CountedFields DEF Keeps
<1> HIDE DEF d, c
<1>8. /\ Keeps(dinfo, d, {"coefs", "last", "insufficient", "unread"})
      /\ d.unread = dinfo.unread /\ c.unread = NoMarker /\ c.scan = dinfo.scan
      /\ c.expected = dinfo.expected
      /\ c.inheaders = dinfo.inheaders /\ c.tables = dinfo.tables /\ c.interval = dinfo.interval
      /\ c.frame = dinfo.frame
  BY <1>1, <1>6, <1>7 DEF Keeps, Fields, SameDuty
<1>9. ASSUME Landing PROVE Advances(c, i)
  <2>1. /\ Worn /\ Torn /\ dinfo.mcu \in Nat /\ dinfo.mcu < Many /\ Steady(dinfo) /\ Interval \in Nat
        /\ Kept(dinfo, Seen(dinfo, next)) /\ Numbered(dinfo)
        /\ Ordered(dinfo, next) \/ Astray(dinfo, next)
    BY <1>1, <1>9, WhileDecodingMcus
  <2>2. dinfo.tables = Tables /\ dinfo.frame = Tokens[FrameAt]
    BY <2>1 DEF Steady
  <2>3. Interval = 0 \/ dinfo.toGo > 0
    BY <1>1, <1>9, WhileDecodingMcus
  <2>4. OneMore(dinfo, c)
    BY <1>6, <1>8, <2>1 DEF OneMore, Steady
  <2>5. Astray(dinfo, next)
    <3>1. SUFFICES ASSUME Ordered(dinfo, next) PROVE FALSE
      BY <2>1
    <3>2. Matches(dinfo, At(next))
      BY <1>4, <2>1, <2>2, <2>3, <3>1, McuIsDue
    <3>3. QED
      BY <1>1, <3>2 DEF InStep, Matches
  <2>6. Lost /\ next \in Cut .. Back
    BY <1>1, <1>4, <2>1, <2>5, SeenAstray
  <2>7. NextMarker(next) = Back
    BY <2>1, <2>6, MarkerBehindGap
  <2>8. Back \in Cut .. Size /\ Cut \in Nat /\ Back \in Nat /\ Size \in Nat /\ Cut >= 1
    BY <2>1, BackPlaces DEF Worn, Torn
  <2> DEFINE s == next - 1
             t == i - 1
  <2>9. i \in Cut .. Back /\ s \in Cut - 1 .. Back - 1 /\ t \in s .. Back - 1
    BY <1>2, <2>6, <2>7, <2>8
  <2>10. Kept(dinfo, s) /\ Seen(c, i) = t
    BY <1>1, <1>8, <2>1 DEF Seen
  <2> HIDE DEF s, t
  <2>11. Kept(c, t)
    BY <1>3, <1>6, <1>8, <2>1, <2>2, <2>6, <2>9, <2>10, KeptMadeUp
  <2>12. Kept(c, Seen(c, i))
    BY <2>10, <2>11
  <2>13. QED
    BY <1>4, <1>5, <1>8, <2>1, <2>3, <2>4, <2>5, <2>9, <2>12, AstrayCounts
<1>10. QED
  BY <1>2, <1>3, <1>5, <1>8, <1>9, CountedKeepsLandInv DEF c

\* So do the end of a call, and a failure.
LEMMA FailuresKeepLandInv ==
    ASSUME ReadAfterEOI \/ UnknownMarker \/ Mismatch \/ EndCall PROVE LandInv'
<1>1. pc' = "idle" \/ Fail(dinfo)
  BY DEF ReadAfterEOI, UnknownMarker, Mismatch, EndCall
<1>2. QED
  BY <1>1, FailKeepsLandInv DEF LandInv

\* A call begins at the header of its file.
LEMMA BeginCallKeepsLandInv ==
    ASSUME TypeInv, NEW kind \in {"header", "transform"}, NEW file, BeginCall(kind, file)
    PROVE  LandInv'
<1> DEFINE d == [dinfo EXCEPT !.keep = @ \/ kind = "transform"]
           r == Reset(d)
           e == [r EXCEPT !.state = "INHEADER"]
<1>1. /\ pc = "idle" /\ next' = 1 /\ pc' = "reading" /\ warning' = FALSE
      /\ dinfo' = (IF d.state = "START" THEN e ELSE d)
  BY DEF BeginCall
<1>2. IsObject(dinfo) /\ IdleOK(dinfo, call, result)
  BY <1>1 DEF TypeInv, PlaceInv, ObjectOK
<1>3. Keeps(dinfo, d, {"keep"})
  BY <1>2 DEF IsObject, Fields, Keeps
<1> HIDE DEF d
<1>4. /\ Keeps(d, r, {"consume", "multiple", "eoi", "inheaders", "unread", "sawSOI", "frame"})
      /\ r.inheaders = TRUE
  BY <1>3, ResetFields DEF Keeps
<1> HIDE DEF r
<1>5. Keeps(r, e, {"state"})
  BY <1>4 DEF Keeps, IsObject, Fields
<1> HIDE DEF e
<1>6. dinfo'.inheaders
  <2>1. CASE d.state = "START"
    BY <1>1, <1>4, <1>5, <2>1 DEF Keeps, Fields
  <2>2. CASE d.state # "START"
    <3>1. dinfo' = d /\ dinfo.state # "START" /\ d.inheaders = dinfo.inheaders
      BY <1>1, <1>3, <2>2 DEF Keeps, Fields
    <3>2. InHeader(dinfo)
      BY <1>2, <3>1 DEF IdleOK
    <3>3. QED
      BY <3>1, <3>2 DEF InHeader
  <2>3. QED
    BY <2>1, <2>2
<1>7. Heading(dinfo, next, warning)'
  BY <1>1, <1>6 DEF Heading
<1>8. LandsAt(dinfo, pc, next, warning)'
  BY <1>1, <1>7 DEF LandsAt
<1>9. QED
  BY <1>8 DEF LandInv

LEMMA BeginKeepsLandInv ==
    ASSUME TypeInv, Begin PROVE LandInv'
<1>1. \E kind \in {"header", "transform"} : \E file : BeginCall(kind, file)
  BY DEF Begin
<1>2. QED
  BY <1>1, BeginCallKeepsLandInv

LEMMA StutterKeepsLandInv ==
    ASSUME LandInv, UNCHANGED vars PROVE LandInv'
<1>1. /\ UNCHANGED <<source, written, call>> /\ dinfo' = dinfo /\ pc' = pc
      /\ next' = next /\ warning' = warning /\ call' = call
  BY DEF vars
<1>2. Borrowing(dinfo)' <=> Borrowing(dinfo)
  BY <1>1, SameBorrowing
<1>3. LandsAt(dinfo, pc, next, warning)' <=> LandsAt(dinfo, pc, next, warning)
  <2>1. LandsAt(dinfo, pc, next, warning)' <=> LandsAt(dinfo, pc, next', warning')
    BY <1>1, SameLand
  <2>2. QED
    BY <1>1, <2>1
<1>4. Mild' <=> Mild
  BY <1>1, GapStays DEF SameGap
<1>5. QED
  BY <1>1, <1>2, <1>3, <1>4 DEF LandInv

\* The invariant holds of every file of which up to two segments are lost or repeated.
THEOREM LandInvHolds == Spec => []LandInv
<1>1. Init => LandInv
  BY DEF Init, LandInv
<1>2. TypeInv /\ MarkerInv /\ StrayInv /\ WrittenInv /\ TrackInv /\ LandInv /\ [Next]_vars => LandInv'
  <2> SUFFICES ASSUME TypeInv, MarkerInv, StrayInv, WrittenInv, TrackInv, LandInv, [Next]_vars PROVE LandInv'
    OBVIOUS
  <2>1. CASE Begin
    BY <2>1, BeginKeepsLandInv
  <2>2. CASE ReadMarkers
    BY <2>2, FailuresKeepLandInv, FirstMarkerKeepsLandInv, NextMarkerOfHeadersKeepsLandInv,
       GetSOIKeepsLandInv, GetSOFKeepsLandInv, GetTablesKeepsLandInv, SaveMarkerKeepsLandInv,
       SkipMarkerKeepsLandInv, GetSOSKeepsLandInv, GetEOIKeepsLandInv DEF ReadMarkers
  <2>3. CASE ConsumeData
    BY <2>3, ReadRestartMarkerKeepsLandInv, DiscardKeepsLandInv, SkipKeepsLandInv, LeaveKeepsLandInv,
       LeaveMcuKeepsLandInv, StuffZerosKeepsLandInv, DecodeMcuKeepsLandInv, DecodeOutOfStepKeepsLandInv
       DEF ConsumeData
  <2>4. CASE Mismatch \/ EndCall
    BY <2>4, FailuresKeepLandInv
  <2>5. CASE UNCHANGED vars
    BY <2>5, StutterKeepsLandInv
  <2>6. QED
    BY <2>1, <2>2, <2>3, <2>4, <2>5 DEF Next, Work
<1>3. SoundFiles => WrittenInv
  BY DEF SoundFiles
<1>4. QED
  BY <1>1, <1>2, <1>3, TypeInvHolds, MarkerInvHolds, StrayInvHolds, SoundFilesHold, TrackInvHolds, PTL DEF Spec

\* What is intact has been decoded where it belongs when the call ends.
LEMMA LandInvLands ==
    TypeInv /\ StrayInv /\ WrittenInv /\ LandInv => IntactSegmentsLand
<1>1. SUFFICES ASSUME TypeInv, StrayInv, WrittenInv, LandInv, pc = "finish", call = "transform", Mild, ~Borrows,
                      NEW i \in 1 .. Size, Intact(i)
               PROVE  Lands(At(i))
  BY DEF IntactSegmentsLand, Mild
<1>2. ~Borrowing(dinfo)
  BY <1>1 DEF Borrowing, Borrows
<1>3. Landing
  BY <1>1, <1>2 DEF LandInv, Landing
<1>4. Kept(dinfo, Size)
  BY <1>1, <1>3, WhileLanding
<1>5. Due(i)
  <2>1. At(i).k = "data"
    BY <1>1, IntactParts DEF IntactInParts
  <2>2. QED
    BY <1>1, <2>1 DEF Due
<1>6. QED
  BY <1>1, <1>4, <1>5 DEF Kept, Landed, DueIn, Lands

\* IntactSegmentsLand: whatever the file and the calls before, of a file of which up to two
\* segments are lost, or repeated whole, every segment that is intact is decoded where it
\* belongs.
THEOREM IntactSegmentsAreDecoded == Spec => []IntactSegmentsLand
<1>1. SoundFiles => WrittenInv
  BY DEF SoundFiles
<1>2. QED
  BY <1>1, TypeInvHolds, StrayInvHolds, SoundFilesHold, LandInvHolds, LandInvLands, PTL
=============================================================================
