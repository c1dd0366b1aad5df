-------------------------- MODULE JpegReaderProofs --------------------------
(***************************************************************************)
(* What holds of JpegReader for every set of files, every damage and any   *)
(* number of calls on one object.                                          *)
(*                                                                         *)
(* TypeInv says what the object is like between calls, at the markers of a *)
(* header, in a pass over data and at the end of a call; it is inductive   *)
(* because a call that fails leaves the object only in its header, where   *)
(* no coefficient is stored.  MarkerInv says that a transformation has     *)
(* saved the markers of what it has read so far; the exceptions are what   *)
(* has warned, and an object that will never get out of its header.        *)
(* SoundInv follows a sound file token by token through its headers, its   *)
(* scans and its restarts: each step finds what the layout of the file     *)
(* puts there, or the file needs Huffman tables that the object has not.   *)
(* WrittenInv says that what a transformation writes is a sound file.      *)
(* TrackInv follows a damaged file: while nobody has been warned, the      *)
(* decoder is in its place, or it is adrift because of data that is not    *)
(* intact, or it is whole restart intervals beside its place - and then    *)
(* the marker that it meets, or the data that is left, ends in a warning.  *)
(***************************************************************************)
EXTENDS JpegReader, WellFoundedInduction, TLAPS

(***************************************************************************)
(* Numbers: induction, functions defined by recursion, division.           *)
(***************************************************************************)

\* A set of naturals has a least element.
LEMMA LeastNat ==
    ASSUME NEW T, T \subseteq Nat, T # {}
    PROVE  \E m \in T : \A k \in T : m <= k
<1> DEFINE R == OpToRel(<, Nat)
<1>1. IsWellFoundedOn(R, Nat)
  BY NatLessThanWellFounded
<1>2. \E x \in T : \A y \in T : ~(<<y, x>> \in R)
  <2> HIDE DEF R
  <2>1. QED
    BY <1>1, WFMin
<1>3. \A x, y \in Nat : <<y, x>> \in R <=> y < x
  BY DEF OpToRel
<1> HIDE DEF R
<1>4. PICK x \in T : \A y \in T : ~(<<y, x>> \in R)
  BY <1>2
<1>5. \A y \in T : x <= y
  <2> SUFFICES ASSUME NEW y \in T PROVE x <= y
    OBVIOUS
  <2>1. x \in Nat /\ y \in Nat
    OBVIOUS
  <2>2. ~(y < x)
    BY <1>3, <1>4, <2>1
  <2>3. QED
    BY <2>1, <2>2
<1>6. QED
  BY <1>4, <1>5

\* What holds of 0 and is passed on holds of all numbers up to a bound.
LEMMA BoundedInduction ==
    ASSUME NEW m \in Nat, NEW S, 0 \in S,
           \A n \in 0 .. m - 1 : n \in S => n + 1 \in S
    PROVE  0 .. m \subseteq S
<1> DEFINE T == {n \in 0 .. m : n \notin S}
<1> SUFFICES ASSUME T # {} PROVE FALSE
  OBVIOUS
<1>1. T \subseteq Nat
  OBVIOUS
<1>2. PICK k \in T : \A n \in T : k <= n
  <2> HIDE DEF T
  <2>1. QED
    BY <1>1, LeastNat
<1>3. k \in 0 .. m /\ k # 0 /\ k \notin S
  OBVIOUS
<1>4. k - 1 \in 0 .. m - 1 /\ k - 1 \notin T /\ (k - 1) + 1 = k
  BY <1>2, <1>3
<1>5. k - 1 \in S
  BY <1>4
<1>6. QED
  BY <1>3, <1>4, <1>5

\* What is computed in m steps from a first value exists: a function that is
\* defined by recursion on 0 .. m satisfies its definition.
StepFunctions(m, V) == [1 .. m -> [V -> V]]
Iterates(g, m, first, F) == g[0] = first /\ \A n \in 1 .. m : g[n] = F[n][g[n - 1]]

LEMMA Iteration ==
    ASSUME NEW m \in Nat, NEW V, NEW first \in V, NEW F \in StepFunctions(m, V)
    PROVE  \E g \in [0 .. m -> V] : Iterates(g, m, first, F)
<1> USE DEF StepFunctions
<1> DEFINE Upto(k, g) == g[0] = first /\ \A n \in 1 .. k : g[n] = F[n][g[n - 1]]
           S == {k \in 0 .. m : \E g \in [0 .. k -> V] : Upto(k, g)}
<1>1. 0 \in S
  <2> DEFINE g == [i \in 0 .. 0 |-> first]
  <2>1. g \in [0 .. 0 -> V] /\ Upto(0, g)
    OBVIOUS
  <2>2. 0 \in 0 .. m
    OBVIOUS
  <2> HIDE DEF g, Upto
  <2>3. QED
    BY <2>1, <2>2
<1>2. ASSUME NEW k \in 0 .. m - 1, k \in S PROVE k + 1 \in S
  <2>1. PICK g \in [0 .. k -> V] : Upto(k, g)
    BY <1>2
  <2> DEFINE h == [i \in 0 .. k + 1 |-> IF i <= k THEN g[i] ELSE F[k + 1][g[k]]]
  <2>2. g[k] \in V /\ k + 1 \in 1 .. m /\ k \in Nat
    BY <1>2
  <2>3. F[k + 1][g[k]] \in V
    BY <2>2
  <2>4. h \in [0 .. k + 1 -> V]
    BY <2>2, <2>3
  <2>5. h[0] = first
    BY <2>1, <2>2
  <2>6. ASSUME NEW n \in 1 .. k + 1 PROVE h[n] = F[n][h[n - 1]]
    <3>1. CASE n <= k
      BY <2>1, <2>2, <3>1
    <3>2. CASE n = k + 1
      <4>1. h[n] = F[k + 1][g[k]] /\ h[n - 1] = g[k]
        BY <2>2, <3>2
      <4>2. QED
        BY <3>2, <4>1
    <3>3. QED
      BY <2>2, <3>1, <3>2
  <2>7. Upto(k + 1, h)
    BY <2>5, <2>6
  <2> HIDE DEF h, Upto
  <2>8. QED
    BY <1>2, <2>2, <2>4, <2>7
<1>3. 0 .. m \subseteq S
  <2> HIDE DEF S
  <2>1. QED
    BY <1>1, <1>2, BoundedInduction
<1>4. m \in S
  BY <1>3
<1>5. QED
  BY <1>4 DEF Iterates

\* Division: the quotient is the one number with these bounds.
LEMMA Quotient ==
    ASSUME NEW a \in Nat, NEW b \in Nat \ {0}
    PROVE  /\ a \div b \in Nat
           /\ b * (a \div b) <= a /\ a < b * (a \div b) + b
OBVIOUS

LEMMA QuotientAtLeast ==
    ASSUME NEW a \in Nat, NEW b \in Nat \ {0}, NEW q \in Nat, b * q <= a
    PROVE  q <= a \div b
<1> DEFINE d == a \div b
<1>1. d \in Nat /\ a < b * d + b
  BY Quotient
<1> HIDE DEF d
<1>2. CASE d + 1 <= q
  <2>1. PICK e \in Nat : q = d + 1 + e
    <3>1. q - (d + 1) \in Nat /\ q = d + 1 + (q - (d + 1))
      BY <1>1, <1>2
    <3>2. QED
      BY <3>1
  <2>2. b * q = b * d + b + b * e /\ b * e \in Nat /\ b * d \in Nat
    BY <1>1, <2>1
  <2>3. QED
    BY <1>1, <2>2
<1>3. QED
  BY <1>1, <1>2 DEF d

LEMMA QuotientBelow ==
    ASSUME NEW a \in Nat, NEW b \in Nat \ {0}, NEW q \in Nat, a < b * q
    PROVE  a \div b < q
<1> DEFINE d == a \div b
<1>1. d \in Nat /\ b * d <= a
  BY Quotient
<1> HIDE DEF d
<1>2. CASE q <= d
  <2>1. PICK e \in Nat : d = q + e
    <3>1. d - q \in Nat /\ d = q + (d - q)
      BY <1>1, <1>2
    <3>2. QED
      BY <3>1
  <2>2. b * d = b * q + b * e /\ b * e \in Nat /\ b * q \in Nat
    BY <1>1, <2>1
  <2>3. QED
    BY <1>1, <2>2
<1>3. QED
  BY <1>1, <1>2 DEF d

-----------------------------------------------------------------------------

\* The decompression object is a record with these fields.
Fields == {"state", "sawSOI", "frame", "unread", "expected", "inheaders", "eoi", "multiple",
           "interval", "toGo", "insufficient", "consume", "scan", "mcu", "last", "quant",
           "tables", "latched", "coefs", "keep", "saved", "jfif", "adobe", "colours"}
IsObject(d) == DOMAIN d = Fields
\* An update leaves all fields but those named.
Keeps(d, e, named) == IsObject(e) /\ \A f \in Fields \ named : e[f] = d[f]

\* What the updates of the object set.
LEMMA CreatedFields ==
    /\ IsObject(Created)
    /\ Created.state = "START" /\ Created.saved = <<>> /\ Created.frame = NoMarker
    /\ Created.unread = NoMarker /\ Created.interval = 0 /\ Created.expected = 0
    /\ Created.quant = None
BY DEF Created, IsObject, Fields

LEMMA ResetFields ==
    ASSUME NEW d, IsObject(d)
    PROVE  /\ Keeps(d, Reset(d), {"consume", "multiple", "eoi", "inheaders", "unread", "sawSOI", "frame"})
           /\ Reset(d).consume = "markers" /\ Reset(d).multiple = FALSE
           /\ Reset(d).eoi = FALSE /\ Reset(d).inheaders = TRUE
           /\ Reset(d).unread = NoMarker /\ Reset(d).sawSOI = FALSE /\ Reset(d).frame = NoMarker
BY DEF Reset, IsObject, Fields, Keeps

LEMMA AbortFields ==
    ASSUME NEW d, IsObject(d)
    PROVE  /\ Keeps(d, Abort(d), {"state", "saved", "coefs", "latched", "scan", "mcu", "toGo", "last", "insufficient"})
           /\ Abort(d).state = "START" /\ Abort(d).saved = <<>>
BY DEF Abort, IsObject, Fields, Keeps

LEMMA SelectFields ==
    ASSUME NEW d, IsObject(d)
    PROVE  /\ Keeps(d, Select(d), {"state", "tables", "latched", "coefs"})
           /\ Select(d).state = "RDCOEFS"
           /\ Select(d).tables = IF d.tables = None THEN "standard" ELSE d.tables
           /\ Select(d).latched = [c \in d.frame.comps |-> None]
           /\ Select(d).coefs = [c \in d.frame.comps |-> [i \in 1..d.frame.n |-> Blank]]
BY DEF Select, IsObject, Fields, Keeps

\* The tables that a pass takes for its components, and the object it begins with.
Latched(d) == [c \in DOMAIN d.latched |->
                  IF c \in d.scan /\ d.latched[c] = None THEN d.quant ELSE d.latched[c]]
PassStarted(d) ==
    [d EXCEPT !.consume = "data", !.mcu = 0, !.insufficient = FALSE,
              !.toGo = d.interval, !.last = 0, !.latched = Latched(d)]
LEMMA PassStartedFields ==
    ASSUME NEW d, IsObject(d)
    PROVE  /\ Keeps(d, PassStarted(d), {"consume", "mcu", "insufficient", "toGo", "last", "latched"})
           /\ PassStarted(d).consume = "data" /\ PassStarted(d).mcu = 0
           /\ PassStarted(d).insufficient = FALSE /\ PassStarted(d).toGo = d.interval
           /\ PassStarted(d).last = 0 /\ PassStarted(d).latched = Latched(d)
BY DEF PassStarted, IsObject, Fields, Keeps

\* start_input_pass() fails for want of a table only.
LEMMA InputPass ==
    ASSUME NEW d, IsObject(d)
    PROVE  StartInputPass(d) = IF d.quant = None THEN Fail(d) ELSE Go(PassStarted(d), "coefficients")
<1> DEFINE a == [d EXCEPT !.consume = "data", !.mcu = 0, !.insufficient = FALSE,
              !.toGo = d.interval, !.last = 0]
<1>1. a.latched = d.latched
  BY DEF IsObject, Fields
<1>2. QED
  BY DEF StartInputPass, PassStarted, Latched

\* Markers that the program makes.
LEMMA TokenFacts ==
    /\ IsToken(EOI) /\ EOI # NoMarker /\ EOI.k = "EOI" /\ NoMarker.k = None /\ NoMarker.name = None
    /\ NoMarker.comps = {}
    /\ \A t : IsToken(t) => t # NoMarker
BY DEF IsToken, EOI, NoMarker, Marker, None

\* Files as sequences.
LEMMA FileFacts ==
    ASSUME NEW f, IsFile(f)
    PROVE  /\ Len(f) \in Nat /\ DOMAIN f = 1 .. Len(f)
           /\ \A i \in 1 .. Len(f) : IsToken(f[i])
BY DEF IsFile

LEMMA EmptyFile == IsFile(<<>>) /\ Len(<<>>) = 0
BY DEF IsFile

(* The file of the current call. *)
FileInv ==
    /\ source.damage \in {None, "lost", "repeated", "inserted", "replaced"}
    /\ source.damage # None =>
          /\ source.name \in DOMAIN Sounds /\ IsToken(source.stray)
          /\ source.from \in 1..Len(Tokens) /\ source.to \in source.from..Len(Tokens)
    /\ source.name \in DOMAIN Sounds \/ source.name = "written" \/ calls = 0
    /\ calls = 0 => source = Sound(None)
    /\ source.name = "written" => written # <<>>
    /\ calls \in Nat
    /\ IsFile(written)

\* The file of a call has a length and its places have tokens, damaged or not.
LEMMA TokensAreFile ==
    ASSUME FileInv
    PROVE  IsFile(Tokens)
<1>1. CASE source.name \in DOMAIN Sounds
  <2>1. source.name # "written"
    BY <1>1, FilesAssumption
  <2>2. QED
    BY <1>1, <2>1, FilesAssumption DEF Tokens, IsSoundFile
<1>2. CASE source.name = "written"
  <2>1. source.name \notin DOMAIN Sounds
    BY <1>2, FilesAssumption
  <2>2. QED
    BY <1>2, <2>1 DEF Tokens, FileInv
<1>3. CASE calls = 0
  <2>1. source.name = None /\ None \notin DOMAIN Sounds
    BY <1>3, FilesAssumption DEF FileInv, Sound, File
  <2>2. Tokens = <<>>
    BY <2>1 DEF Tokens, None
  <2>3. QED
    BY <2>2, EmptyFile
<1>4. QED
  BY <1>1, <1>2, <1>3 DEF FileInv

LEMMA SizeIsNat ==
    ASSUME FileInv
    PROVE  Size \in Nat
<1>1. Len(Tokens) \in Nat
  BY TokensAreFile, FileFacts
<1>2. QED
  BY <1>1 DEF FileInv, Size, Width, None

LEMMA AtIsToken ==
    ASSUME FileInv, NEW i \in 1 .. Size + 1
    PROVE  IsToken(At(i))
<1>1. Len(Tokens) \in Nat /\ \A j \in 1 .. Len(Tokens) : IsToken(Tokens[j])
  BY TokensAreFile, FileFacts
<1>2. Size \in Nat
  BY SizeIsNat
<1>3. CASE Starved(i)
  BY <1>3, TokenFacts DEF At
<1>4. CASE ~Starved(i)
  <2>1. i \in 1 .. Size
    BY <1>2, <1>4 DEF Starved
  <2>2. CASE source.damage = "lost"
    <3>1. source.from \in 1 .. Len(Tokens) /\ source.to \in source.from .. Len(Tokens)
      BY <2>2 DEF FileInv, None
    <3>2. i <= Len(Tokens) - (source.to - source.from + 1)
      BY <1>1, <2>1, <2>2, <3>1 DEF Size, Width
    <3>3. At(i) = Tokens[IF i >= source.from THEN i + (source.to - source.from + 1) ELSE i]
      BY <1>4, <2>1, <2>2 DEF At, Width
    <3>4. QED
      BY <1>1, <2>1, <3>1, <3>2, <3>3
  <2>3. CASE source.damage = "repeated"
    <3>1. source.from \in 1 .. Len(Tokens) /\ source.to \in source.from .. Len(Tokens)
      BY <2>3 DEF FileInv, None
    <3>2. i <= Len(Tokens) + (source.to - source.from + 1)
      BY <1>1, <2>1, <2>3, <3>1 DEF Size, Width
    <3>3. At(i) = Tokens[IF i > source.to THEN i - (source.to - source.from + 1) ELSE i]
      BY <1>4, <2>1, <2>3 DEF At, Width
    <3>4. QED
      BY <1>1, <2>1, <3>1, <3>2, <3>3
  <2>4. CASE source.damage = "inserted"
    <3>1. source.from \in 1 .. Len(Tokens) /\ IsToken(source.stray)
      BY <2>4 DEF FileInv, None
    <3>2. i <= Len(Tokens) + 1
      BY <1>1, <2>1, <2>4 DEF Size
    <3>3. At(i) = IF i = source.from THEN source.stray
                  ELSE Tokens[IF i > source.from THEN i - 1 ELSE i]
      BY <1>4, <2>1, <2>4 DEF At
    <3>4. QED
      BY <1>1, <2>1, <3>1, <3>2, <3>3
  <2>5. CASE source.damage = "replaced"
    BY <1>1, <1>4, <2>1, <2>5 DEF At, FileInv, Size, Width, None
  <2>6. CASE source.damage = None
    BY <1>1, <1>4, <2>1, <2>6 DEF At, FileInv, Size, Width, None
  <2>7. QED
    BY <2>2, <2>3, <2>4, <2>5, <2>6 DEF FileInv
<1>5. QED
  BY <1>3, <1>4

\* Behind the file the source manager inserts EOI.
LEMMA AtTheEnd ==
    ASSUME FileInv
    PROVE  Starved(Size + 1) /\ At(Size + 1) = EOI
BY SizeIsNat DEF Starved, At

\* The search for a marker ends, at the latest at the end of the file.
LEMMA MarkerIsFound ==
    ASSUME FileInv, NEW i \in 1 .. Size + 1
    PROVE  /\ NextMarker(i) \in i .. Size + 1
           /\ At(NextMarker(i)).k # "data"
           /\ \A l \in i .. NextMarker(i) - 1 : At(l).k = "data"
<1> DEFINE T == {j \in i .. Size + 1 : At(j).k # "data"}
           P(j) == At(j).k # "data" /\ \A l \in i .. (j - 1) : At(l).k = "data"
<1>1. Size \in Nat /\ T \subseteq Nat /\ T \subseteq i .. Size + 1
  BY SizeIsNat
<1>2. Size + 1 \in T
  BY <1>1, AtTheEnd, TokenFacts
<1>3. PICK m \in T : \A k \in T : m <= k
  <2> HIDE DEF T
  <2>1. QED
    BY <1>1, <1>2, LeastNat
<1>4. m \in i .. Size + 1 /\ m \in Nat /\ At(m).k # "data"
  BY <1>1, <1>3
<1>5. ASSUME NEW l \in i .. m - 1 PROVE At(l).k = "data"
  <2>1. l \in i .. Size + 1 /\ ~(m <= l)
    BY <1>1, <1>4
  <2>2. l \notin T
    BY <1>3, <2>1
  <2>3. QED
    BY <2>1, <2>2
<1>6. P(m)
  BY <1>4, <1>5
<1>7. NextMarker(i) = CHOOSE j \in i .. Size + 1 : P(j)
  BY DEF NextMarker
<1> HIDE DEF P
<1>8. NextMarker(i) \in i .. Size + 1 /\ P(NextMarker(i))
  BY <1>4, <1>6, <1>7
<1>9. QED
  BY <1>8 DEF P

\* The frame header that has been read, if any, is one that get_sof() accepts.
FrameOK(m) ==
    \/ m = NoMarker
    \/ IsToken(m) /\ m.k = "SOF" /\ m.name \notin {"unsupported", "empty"}

\* What holds of the object at any time.
ObjectOK(d) ==
    /\ IsObject(d)
    /\ FrameOK(d.frame)
    /\ d.unread = NoMarker \/ IsToken(d.unread)
    /\ d.expected \in 0..7
    /\ d.quant # "JFIF"
    /\ IsFile(d.saved) /\ \A i \in 1 .. Len(d.saved) : d.saved[i].k = "APP"
    /\ d.state = "START" => d.saved = <<>>

\* Coefficients can be stored.
Ready(d) ==
    /\ d.frame # NoMarker /\ d.frame.name = None /\ d.frame.comps # {}
    /\ DOMAIN d.coefs = d.frame.comps /\ d.scan \subseteq d.frame.comps
    /\ DOMAIN d.latched = d.frame.comps
    /\ d.quant # None
    /\ ~d.inheaders /\ d.sawSOI

\* Nothing has been read of a file.
Untouched(d) == d.unread = NoMarker /\ d.frame = NoMarker /\ d.saved = <<>> /\ ~d.eoi

\* jpeg_read_header() has begun and not ended.
InHeader(d) == d.state = "INHEADER" /\ d.inheaders /\ d.consume = "markers"

\* Nothing has been read but SOI at most.
AtStart(d, n) ==
    \/ n = 1 /\ Untouched(d)
    \/ /\ n = 2 /\ ~Starved(1) /\ At(1).k = "SOI" /\ d.unread = At(1)
       /\ d.frame = NoMarker /\ d.saved = <<>> /\ ~d.eoi

\* Between calls, at the markers, in a pass and at the end of a call.
IdleOK(d, c, r) ==
    \/ d.state = "START"
    \/ /\ c = "header" /\ r = "refused" /\ InHeader(d)
       /\ ~d.sawSOI => Untouched(d)
ReadingOK(d, n, c) ==
    \/ InHeader(d) /\ (~d.sawSOI => AtStart(d, n))
    \/ d.consume = "markers" /\ d.state = "RDCOEFS" /\ Ready(d) /\ c = "transform"
DecodingOK(d, c) ==
    /\ d.consume = "data" /\ d.state = "RDCOEFS" /\ Ready(d) /\ c = "transform"
    /\ d.mcu \in Nat /\ d.mcu < d.frame.n
FinishOK(d, c) ==
    /\ d.consume = "markers"
    /\ \/ c = "header" /\ d.state = "READY"
       \/ c = "transform" /\ d.state = "STOPPING" /\ Ready(d)
PlaceOK(d, l, n, c, w) ==
    \/ l = "reading" /\ ReadingOK(d, n, c)
    \/ l = "coefficients" /\ DecodingOK(d, c) /\ (~w => d.unread = NoMarker)
    \/ l = "resync" /\ DecodingOK(d, c) /\ w /\ d.unread # NoMarker
    \/ l = "finish" /\ FinishOK(d, c)

\* The object agrees with where the call is.
PlaceInv ==
    /\ call \in {"header", "transform"}
    /\ warning \in BOOLEAN
    /\ pc = "idle" => IdleOK(dinfo, call, result)
    /\ pc # "idle" => /\ result = None /\ calls > 0 /\ next \in 1..(Size + 1)
                      /\ PlaceOK(dinfo, pc, next, call, warning)
TypeInv == FileInv /\ ObjectOK(dinfo) /\ PlaceInv

-----------------------------------------------------------------------------
\* The invariant says what TypeOK says, and it holds at the beginning.
LEMMA TypeInvOK == TypeInv => TypeOK
<1> SUFFICES ASSUME TypeInv PROVE TypeOK
  OBVIOUS
<1> USE DEF TypeInv, PlaceInv, ObjectOK
<1>1. CASE pc = "idle"
  BY <1>1 DEF TypeOK, IdleOK, InHeader
<1>2. CASE pc # "idle"
  <2>1. dinfo.state \in {"INHEADER", "READY", "RDCOEFS", "STOPPING"}
    BY <1>2 DEF PlaceOK, ReadingOK, DecodingOK, FinishOK, InHeader
  <2>2. pc \in {"coefficients", "resync"} => dinfo.state = "RDCOEFS"
    BY <1>2 DEF PlaceOK, DecodingOK
  <2>3. dinfo.consume = "data" =>
            dinfo.mcu < dinfo.frame.n /\ dinfo.scan \subseteq DOMAIN dinfo.coefs
    BY <1>2 DEF PlaceOK, ReadingOK, DecodingOK, FinishOK, InHeader, Ready
  <2>4. QED
    BY <1>2, <2>1, <2>2, <2>3 DEF TypeOK, None
<1>3. QED
  BY <1>1, <1>2

LEMMA TypeInvInit == Init => TypeInv
<1> SUFFICES ASSUME Init PROVE TypeInv
  OBVIOUS
<1>1. FileInv
  BY EmptyFile DEF Init, FileInv, Sound, File, None
<1>2. ObjectOK(Created)
  <2> DEFINE d == Created
  <2>1. /\ IsObject(d)
        /\ d.state = "START" /\ d.saved = <<>> /\ d.frame = NoMarker
        /\ d.unread = NoMarker /\ d.expected = 0 /\ d.quant = None
    BY CreatedFields
  <2> HIDE DEF d
  <2>2. IsFile(d.saved) /\ \A i \in 1 .. Len(d.saved) : d.saved[i].k = "APP"
    BY <2>1, EmptyFile
  <2>3. ObjectOK(d)
    BY <2>1, <2>2 DEF ObjectOK, FrameOK, None
  <2>4. QED
    BY <2>3 DEF d
<1>3. PlaceInv
  BY CreatedFields DEF Init, PlaceInv, IdleOK
<1>4. QED
  BY <1>1, <1>2, <1>3 DEF TypeInv, Init

-----------------------------------------------------------------------------
\* What stays true of the file while a call works.
LEMMA SameFile ==
    ASSUME UNCHANGED <<source, written>>
    PROVE  /\ Size' = Size /\ Tokens' = Tokens
           /\ \A i : At(i)' = At(i) /\ (Starved(i)' <=> Starved(i))
<1>1. Tokens' = Tokens
  BY DEF Tokens
<1>2. Size' = Size
  BY <1>1 DEF Size, Width
<1>3. QED
  BY <1>1, <1>2 DEF At, Starved, Width

\* What a step to another place of the call has to show.
Going(d, l) ==
    /\ ObjectOK(d) /\ PlaceOK(d, l, next', call, warning')
    /\ next' \in 1 .. Size + 1 /\ warning' \in BOOLEAN /\ l # "idle"
LEMMA GoKeepsTypeInv ==
    ASSUME TypeInv, pc # "idle", NEW d, NEW l, Go(d, l), Going(d, l)
    PROVE  TypeInv'
<1>1. dinfo' = d /\ pc' = l /\ UNCHANGED <<source, call, result, written, calls, inherited>>
  BY DEF Go
<1>2. Size' = Size /\ Tokens' = Tokens
  BY <1>1, SameFile
<1>3. FileInv'
  BY <1>1, <1>2 DEF TypeInv, FileInv
<1>4. ObjectOK(dinfo)'
  BY <1>1 DEF Going, ObjectOK, FrameOK, IsObject
<1>5. AtStart(dinfo, next)' <=> AtStart(d, next')
  BY <1>1, SameFile DEF AtStart, Untouched
<1>6. PlaceOK(dinfo, pc, next, call, warning)'
  BY <1>1, <1>5 DEF Going, PlaceOK, ReadingOK, DecodingOK, FinishOK, Ready, InHeader
<1>7. QED
  BY <1>1, <1>2, <1>3, <1>4, <1>6 DEF TypeInv, PlaceInv, Going

\* What Fail(d) leaves.
Failing(d) ==
    /\ ObjectOK(d) /\ warning' \in BOOLEAN
    /\ call = "header" => InHeader(d) /\ (~d.sawSOI => Untouched(d))
LEMMA FailKeepsTypeInv ==
    ASSUME TypeInv, NEW d, Fail(d), Failing(d)
    PROVE  TypeInv'
<1>1. pc' = "idle" /\ result' = "refused" /\ UNCHANGED <<source, call, written, calls, inherited>>
  BY DEF Fail
<1>2. Size' = Size /\ Tokens' = Tokens
  BY <1>1, SameFile
<1>3. FileInv'
  BY <1>1, <1>2 DEF TypeInv, FileInv
<1>4. CASE call = "transform"
  <2>1. dinfo' = Abort(d) /\ IsObject(d)
    BY <1>4 DEF Fail, Failing, ObjectOK
  <2>2. ObjectOK(dinfo)' /\ dinfo'.state = "START"
    <3> DEFINE e == Abort(d)
    <3>1. Keeps(d, e, {"state", "saved", "coefs", "latched", "scan", "mcu", "toGo", "last", "insufficient"})
          /\ e.state = "START" /\ e.saved = <<>>
      BY <2>1, AbortFields
    <3> HIDE DEF e
    <3>2. ObjectOK(e)
      BY <3>1, EmptyFile DEF ObjectOK, Failing, Keeps, FrameOK, Fields
    <3>3. QED
      BY <2>1, <3>1, <3>2 DEF e
  <2>3. QED
    BY <1>1, <1>3, <2>2 DEF TypeInv, PlaceInv, IdleOK, Failing
<1>5. CASE call # "transform"
  <2>1. dinfo' = d /\ call = "header"
    BY <1>5 DEF Fail, TypeInv, PlaceInv
  <2>2. ObjectOK(dinfo)'
    BY <2>1 DEF Failing
  <2>3. IdleOK(dinfo, call, result)'
    BY <1>1, <2>1 DEF Failing, IdleOK, InHeader, Untouched
  <2>4. QED
    BY <1>1, <1>3, <2>1, <2>2, <2>3 DEF TypeInv, PlaceInv, Failing
<1>6. QED
  BY <1>4, <1>5

\* Reading on stays in the file.
LEMMA AfterInFile ==
    ASSUME FileInv, NEW i \in 1 .. Size + 1
    PROVE  After(i) \in 1 .. Size + 1 /\ (After(i) = i + 1 \/ Starved(i))
BY SizeIsNat DEF After, Starved

\* A marker that is met, or taken.
LEMMA UnreadField ==
    ASSUME NEW d, IsObject(d), NEW m
    PROVE  /\ Keeps(d, [d EXCEPT !.unread = m], {"unread"})
           /\ [d EXCEPT !.unread = m].unread = m
BY DEF IsObject, Fields, Keeps

\* What holds while a call reads markers.
LEMMA WhileReading ==
    ASSUME TypeInv, Reading
    PROVE  /\ pc = "reading" /\ pc # "idle" /\ FileInv /\ ObjectOK(dinfo) /\ ReadingOK(dinfo, next, call)
           /\ next \in 1 .. Size + 1 /\ warning \in BOOLEAN /\ IsObject(dinfo)
           /\ call \in {"header", "transform"}
           /\ call = "header" => InHeader(dinfo)
           /\ dinfo.state # "START"
BY DEF TypeInv, PlaceInv, PlaceOK, Reading, ReadingOK, ObjectOK, InHeader

\* The steps of read_markers() keep the invariant.
LEMMA ReadAfterEOIKeepsTypeInv ==
    ASSUME TypeInv, ReadAfterEOI PROVE TypeInv'
<1>1. Reading /\ dinfo.eoi /\ Fail(dinfo) /\ UNCHANGED <<next, warning>>
  BY DEF ReadAfterEOI
<1>2. Failing(dinfo)
  BY <1>1, WhileReading DEF Failing, ReadingOK, AtStart, Untouched, InHeader
<1>3. QED
  BY <1>1, <1>2, FailKeepsTypeInv

LEMMA FirstMarkerKeepsTypeInv ==
    ASSUME TypeInv, FirstMarker PROVE TypeInv'
<1> USE WhileReading
<1>1. Reading /\ ~dinfo.eoi /\ dinfo.unread = NoMarker /\ ~dinfo.sawSOI
  BY DEF FirstMarker
<1>2. InHeader(dinfo) /\ next = 1 /\ Untouched(dinfo)
  <2>1. At(1) # NoMarker
    BY <1>1, SizeIsNat, AtIsToken, TokenFacts
  <2>2. QED
    BY <1>1, <2>1 DEF ReadingOK, AtStart, Ready
<1>3. next' \in 1 .. Size + 1 /\ warning' \in BOOLEAN
  BY <1>1, AfterInFile DEF FirstMarker
<1>4. CASE At(next).k = "SOI"
  <2> DEFINE d == [dinfo EXCEPT !.unread = At(next)]
  <2>1. Go(d, pc)
    BY <1>4 DEF FirstMarker
  <2>2. Keeps(dinfo, d, {"unread"}) /\ d.unread = At(next)
    BY <1>1, UnreadField
  <2> HIDE DEF d
  <2>3. ~Starved(1) /\ next' = 2
    BY <1>2, <1>4, TokenFacts DEF At, After, FirstMarker
  <2>4. AtStart(d, next')
    BY <1>1, <1>2, <1>4, <2>2, <2>3 DEF AtStart, Keeps, Untouched, Fields
  <2>5. InHeader(d)
    BY <1>2, <2>2 DEF InHeader, Keeps, Fields
  <2>6. ObjectOK(d)
    BY <1>1, <2>2, AtIsToken DEF ObjectOK, Keeps, Fields
  <2>7. Going(d, pc)
    BY <1>1, <1>3, <2>4, <2>5, <2>6 DEF Going, PlaceOK, ReadingOK
  <2>8. QED
    BY <1>1, <2>1, <2>7, GoKeepsTypeInv
<1>5. CASE At(next).k # "SOI"
  <2>1. Fail(dinfo)
    BY <1>5 DEF FirstMarker
  <2>2. Failing(dinfo)
    BY <1>1, <1>2, <1>3 DEF Failing
  <2>3. QED
    BY <2>1, <2>2, FailKeepsTypeInv
<1>6. QED
  BY <1>4, <1>5

\* A step that reads on with new parameters in the object.
LEMMA ReadingOn ==
    ASSUME TypeInv, Reading, NEW d, Go(d, pc), ObjectOK(d), dinfo.sawSOI,
           d.sawSOI = dinfo.sawSOI, d.state = dinfo.state, d.inheaders = dinfo.inheaders,
           d.consume = dinfo.consume, d.coefs = dinfo.coefs, d.scan = dinfo.scan,
           d.latched = dinfo.latched, dinfo.quant # None => d.quant # None,
           dinfo.frame # NoMarker => d.frame = dinfo.frame,
           next' \in 1 .. Size + 1, warning' \in BOOLEAN
    PROVE  TypeInv'
<1>1. ReadingOK(dinfo, next, call)
  BY WhileReading
<1>2. ReadingOK(d, next', call)
  BY <1>1 DEF ReadingOK, InHeader, Ready
<1>3. Going(d, pc)
  BY <1>2, WhileReading DEF Going, PlaceOK
<1>4. QED
  BY <1>3, WhileReading, GoKeepsTypeInv

LEMMA NextMarkerOfHeadersKeepsTypeInv ==
    ASSUME TypeInv, NextMarkerOfHeaders PROVE TypeInv'
<1> USE WhileReading
<1> DEFINE found == NextMarker(next)
           d == [dinfo EXCEPT !.unread = At(found)]
<1>1. Reading /\ ~dinfo.eoi /\ dinfo.sawSOI /\ dinfo.unread = NoMarker
  BY DEF NextMarkerOfHeaders
<1>2. Go(d, pc) /\ next' = After(found)
      /\ warning' = (warning \/ found > next \/ Starved(found))
  BY DEF NextMarkerOfHeaders
<1>3. found \in 1 .. Size + 1
  <2>1. found \in next .. Size + 1
    BY <1>1, MarkerIsFound
  <2> HIDE DEF found
  <2>2. QED
    BY <1>1, <2>1, SizeIsNat
<1>4. next' \in 1 .. Size + 1 /\ warning' \in BOOLEAN
  BY <1>1, <1>2, <1>3, AfterInFile
<1>5. Keeps(dinfo, d, {"unread"}) /\ d.unread = At(found)
  BY <1>1, UnreadField
<1>6. IsToken(At(found))
  BY <1>1, <1>3, AtIsToken
<1> HIDE DEF d, found
<1>7. ObjectOK(d)
  BY <1>1, <1>5, <1>6 DEF ObjectOK, Keeps, Fields
<1>8. QED
  BY <1>1, <1>2, <1>4, <1>5, <1>7, ReadingOn DEF Keeps, Fields

\* What holds while a marker is parsed.
LEMMA WhilePending ==
    ASSUME TypeInv, NEW kinds, Pending(kinds)
    PROVE  /\ Reading /\ ~dinfo.eoi /\ dinfo.unread # NoMarker /\ IsToken(dinfo.unread)
           /\ dinfo.unread.k \in kinds
           /\ "SOI" \notin kinds => dinfo.sawSOI
<1>1. Reading /\ ~dinfo.eoi /\ dinfo.unread # NoMarker /\ dinfo.unread.k \in kinds
  BY DEF Pending
<1>2. ReadingOK(dinfo, next, call) /\ ObjectOK(dinfo)
  BY <1>1, WhileReading
<1>3. QED
  BY <1>1, <1>2 DEF ReadingOK, AtStart, Untouched, Ready, ObjectOK

LEMMA WhileParsing ==
    ASSUME TypeInv, NEW kinds, Parsing(kinds)
    PROVE  /\ Reading /\ ~dinfo.eoi /\ dinfo.unread # NoMarker /\ IsToken(dinfo.unread)
           /\ dinfo.unread.k \in kinds /\ next' = next /\ warning' = warning
           /\ next' \in 1 .. Size + 1 /\ warning' \in BOOLEAN
           /\ "SOI" \notin kinds => dinfo.sawSOI
           /\ call = "header" /\ dinfo.sawSOI => Failing(dinfo)
<1>1. Pending(kinds) /\ next' = next /\ warning' = warning
  BY DEF Parsing
<1>2. ReadingOK(dinfo, next, call) /\ ObjectOK(dinfo) /\ Reading
  BY <1>1, WhileReading, WhilePending
<1>4. call = "header" /\ dinfo.sawSOI => Failing(dinfo)
  BY <1>1, <1>2, WhileReading DEF Failing
<1>5. QED
  BY <1>1, <1>2, <1>4, WhileReading, WhilePending

\* A marker that is refused leaves the object within a header.
LEMMA ParsingFails ==
    ASSUME TypeInv, NEW kinds, Parsing(kinds), "SOI" \notin kinds \/ dinfo.sawSOI, Fail(dinfo)
    PROVE  TypeInv'
<1>1. Failing(dinfo)
  BY WhileParsing, WhileReading DEF Failing
<1>2. QED
  BY <1>1, FailKeepsTypeInv

\* The object behind SOI, and behind a marker that is saved.
Opened == [dinfo EXCEPT !.sawSOI = TRUE, !.interval = 0, !.unread = NoMarker,
                        !.jfif = FALSE, !.adobe = NoMarker]
LEMMA OpenedFields ==
    ASSUME IsObject(dinfo)
    PROVE  /\ Keeps(dinfo, Opened, {"sawSOI", "interval", "unread", "jfif", "adobe"})
           /\ Opened.unread = NoMarker /\ Opened.sawSOI = TRUE /\ Opened.interval = 0
           /\ Opened.jfif = FALSE /\ Opened.adobe = NoMarker
BY DEF Opened, IsObject, Fields, Keeps

Saved == [dinfo EXCEPT !.unread = NoMarker,
                       !.saved = IF dinfo.keep THEN Append(@, dinfo.unread) ELSE @,
                       !.jfif = @ \/ dinfo.unread.name = "JFIF",
                       !.adobe = IF dinfo.unread.name = "Adobe" THEN dinfo.unread ELSE @]
LEMMA SavedFields ==
    ASSUME IsObject(dinfo)
    PROVE  /\ Keeps(dinfo, Saved, {"saved", "unread", "jfif", "adobe"}) /\ Saved.unread = NoMarker
           /\ Saved.saved = IF dinfo.keep THEN Append(dinfo.saved, dinfo.unread) ELSE dinfo.saved
           /\ Saved.adobe = IF dinfo.unread.name = "Adobe" THEN dinfo.unread ELSE dinfo.adobe
BY DEF Saved, IsObject, Fields, Keeps
LEMMA MarkerIsSaved == SaveMarker => Parsing({"APP"}) /\ Go(Saved, pc)
BY DEF SaveMarker, Saved

LEMMA GetSOIKeepsTypeInv ==
    ASSUME TypeInv, GetSOI PROVE TypeInv'
<1>1. Parsing({"SOI"})
  BY DEF GetSOI
<1>2. CASE dinfo.sawSOI
  BY <1>1, <1>2, ParsingFails DEF GetSOI
<1>3. CASE ~dinfo.sawSOI
  <2> DEFINE d == Opened
  <2>1. Go(d, pc)
    BY <1>3 DEF GetSOI, Opened
  <2>2. ReadingOK(dinfo, next, call) /\ ObjectOK(dinfo) /\ pc = "reading"
    BY <1>1, WhileParsing, WhileReading
  <2>3. Keeps(dinfo, d, {"sawSOI", "interval", "unread", "jfif", "adobe"})
        /\ d.unread = NoMarker /\ d.sawSOI = TRUE
    BY <2>2, OpenedFields DEF ObjectOK
  <2> HIDE DEF d
  <2>4. ObjectOK(d)
    BY <2>2, <2>3 DEF ObjectOK, Keeps, Fields
  <2>5. ReadingOK(d, next', call)
    BY <1>3, <2>2, <2>3 DEF ReadingOK, Keeps, Fields, InHeader, Ready
  <2>6. Going(d, pc)
    BY <1>1, <2>2, <2>4, <2>5, WhileParsing DEF Going, PlaceOK
  <2>7. QED
    BY <2>1, <2>2, <2>6, GoKeepsTypeInv
<1>4. QED
  BY <1>2, <1>3

LEMMA GetSOFKeepsTypeInv ==
    ASSUME TypeInv, GetSOF PROVE TypeInv'
<1>1. Parsing({"SOF"})
  BY DEF GetSOF
<1> DEFINE refused == Stale \/ dinfo.frame # NoMarker \/ dinfo.unread.name \in {"unsupported", "empty"}
<1>2. CASE refused
  BY <1>1, <1>2, ParsingFails DEF GetSOF
<1>3. CASE ~refused
  <2> DEFINE d == [dinfo EXCEPT !.frame = dinfo.unread, !.unread = NoMarker]
  <2>1. Go(d, pc)
    BY <1>3 DEF GetSOF
  <2>2. ObjectOK(dinfo) /\ Reading /\ dinfo.sawSOI /\ IsToken(dinfo.unread) /\ dinfo.unread.k = "SOF"
    BY <1>1, WhileParsing, WhileReading
  <2>3. Keeps(dinfo, d, {"frame", "unread"}) /\ d.unread = NoMarker /\ d.frame = dinfo.unread
    BY <2>2 DEF ObjectOK, IsObject, Fields, Keeps
  <2> HIDE DEF d
  <2>4. ObjectOK(d)
    BY <1>3, <2>2, <2>3 DEF ObjectOK, Keeps, Fields, FrameOK
  <2>5. QED
    BY <1>1, <1>3, <2>1, <2>2, <2>3, <2>4, WhileParsing, ReadingOn DEF Keeps, Fields
<1>4. QED
  BY <1>2, <1>3

LEMMA GetTablesKeepsTypeInv ==
    ASSUME TypeInv, GetTables PROVE TypeInv'
<1> DEFINE m == dinfo.unread
           e == [dinfo EXCEPT !.unread = NoMarker]
<1>1. Parsing({"DHT", "DQT", "DRI"})
  BY DEF GetTables
<1>2. CASE Stale
  BY <1>1, <1>2, ParsingFails DEF GetTables
<1>3. CASE ~Stale
  <2>1. ObjectOK(dinfo) /\ Reading /\ dinfo.sawSOI /\ IsToken(m) /\ m.k \in {"DHT", "DQT", "DRI"}
    BY <1>1, WhileParsing, WhileReading
  <2>2. IsObject(dinfo)
    BY <2>1 DEF ObjectOK
  <2>3. CASE m.k = "DHT"
    <3> DEFINE d == [e EXCEPT !.tables = m.name]
    <3>1. Go(d, pc)
      BY <1>3, <2>3 DEF GetTables
    <3>2. Keeps(dinfo, d, {"tables", "unread"}) /\ d.unread = NoMarker
      BY <2>2 DEF IsObject, Fields, Keeps
    <3> HIDE DEF d
    <3>3. ObjectOK(d)
      BY <2>1, <3>2 DEF ObjectOK, Keeps, Fields
    <3>4. QED
      BY <1>1, <2>1, <3>1, <3>2, <3>3, WhileParsing, ReadingOn DEF Keeps, Fields
  <2>4. CASE m.k = "DQT"
    <3> DEFINE d == [e EXCEPT !.quant = m.name]
    <3>1. Go(d, pc)
      BY <1>3, <2>4 DEF GetTables
    <3>2. Keeps(dinfo, d, {"quant", "unread"}) /\ d.unread = NoMarker /\ d.quant = m.name
      BY <2>2 DEF IsObject, Fields, Keeps
    <3>3. m.name \notin {None, "JFIF"}
      BY <2>1, <2>4 DEF IsToken
    <3> HIDE DEF d
    <3>4. ObjectOK(d)
      BY <2>1, <3>2, <3>3 DEF ObjectOK, Keeps, Fields
    <3>5. QED
      BY <1>1, <2>1, <3>1, <3>2, <3>3, <3>4, WhileParsing, ReadingOn DEF Keeps, Fields
  <2>5. CASE m.k = "DRI"
    <3> DEFINE d == [e EXCEPT !.interval = m.n]
    <3>1. Go(d, pc)
      BY <1>3, <2>5 DEF GetTables
    <3>2. Keeps(dinfo, d, {"interval", "unread"}) /\ d.unread = NoMarker
      BY <2>2 DEF IsObject, Fields, Keeps
    <3> HIDE DEF d
    <3>3. ObjectOK(d)
      BY <2>1, <3>2 DEF ObjectOK, Keeps, Fields
    <3>4. QED
      BY <1>1, <2>1, <3>1, <3>2, <3>3, WhileParsing, ReadingOn DEF Keeps, Fields
  <2>6. QED
    BY <2>1, <2>3, <2>4, <2>5
<1>4. QED
  BY <1>2, <1>3

\* A file with one more token.
LEMMA AppendFile ==
    ASSUME NEW f, IsFile(f), NEW t, IsToken(t)
    PROVE  /\ IsFile(Append(f, t)) /\ Len(Append(f, t)) = Len(f) + 1
           /\ \A i \in 1 .. Len(f) : Append(f, t)[i] = f[i]
           /\ Append(f, t)[Len(f) + 1] = t
<1> DEFINE g == Append(f, t)
           S == {f[i] : i \in DOMAIN f} \cup {t}
<1>1. f \in Seq(S) /\ t \in S
  BY DEF IsFile
<1>2. /\ g \in Seq(S) /\ Len(g) = Len(f) + 1 /\ DOMAIN g = 1 .. Len(f) + 1
      /\ \A i \in 1 .. Len(f) : g[i] = f[i]
      /\ g[Len(f) + 1] = t
  BY <1>1
<1> HIDE DEF g, S
<1>3. Len(f) \in Nat /\ \A i \in 1 .. Len(f) : IsToken(f[i])
  BY FileFacts
<1>4. \A i \in 1 .. Len(g) : IsToken(g[i])
  BY <1>2, <1>3
<1>5. g \in Seq({g[i] : i \in DOMAIN g})
  BY <1>2
<1>6. QED
  BY <1>2, <1>4, <1>5 DEF IsFile, g

LEMMA SaveMarkerKeepsTypeInv ==
    ASSUME TypeInv, SaveMarker PROVE TypeInv'
<1> DEFINE saved == IF dinfo.keep THEN Append(dinfo.saved, dinfo.unread) ELSE dinfo.saved
           d == Saved
<1>1. Parsing({"APP"})
  BY MarkerIsSaved
<1>2. Go(d, pc)
  BY MarkerIsSaved
<1>3. ObjectOK(dinfo) /\ Reading /\ dinfo.sawSOI /\ IsToken(dinfo.unread) /\ dinfo.unread.k = "APP"
      /\ dinfo.state # "START"
  BY <1>1, WhileParsing, WhileReading
<1>4. IsFile(saved) /\ \A i \in 1 .. Len(saved) : saved[i].k = "APP"
  <2>1. IsFile(dinfo.saved) /\ \A i \in 1 .. Len(dinfo.saved) : dinfo.saved[i].k = "APP"
    BY <1>3 DEF ObjectOK
  <2>2. Len(dinfo.saved) \in Nat
    BY <2>1, FileFacts
  <2>3. QED
    BY <1>3, <2>1, <2>2, AppendFile
<1>5. Keeps(dinfo, d, {"saved", "unread", "jfif", "adobe"}) /\ d.unread = NoMarker /\ d.saved = saved
  BY <1>3, SavedFields DEF ObjectOK
<1> HIDE DEF d, saved
<1>6. ObjectOK(d)
  BY <1>3, <1>4, <1>5 DEF ObjectOK, Keeps, Fields
<1>7. QED
  BY <1>1, <1>2, <1>3, <1>5, <1>6, WhileParsing, ReadingOn DEF Keeps, Fields

LEMMA SkipMarkerKeepsTypeInv ==
    ASSUME TypeInv, SkipMarker PROVE TypeInv'
<1> DEFINE d == [dinfo EXCEPT !.unread = NoMarker]
<1>1. Parsing({"RST", "TEM"}) /\ Go(d, pc)
  BY DEF SkipMarker
<1>2. ObjectOK(dinfo) /\ Reading /\ dinfo.sawSOI /\ IsObject(dinfo)
      /\ next' \in 1 .. Size + 1 /\ warning' \in BOOLEAN
  BY <1>1, WhileParsing, WhileReading
<1>3. Keeps(dinfo, d, {"unread"}) /\ d.unread = NoMarker
  BY <1>2, UnreadField
<1> HIDE DEF d
<1>4. ObjectOK(d)
  BY <1>2, <1>3 DEF ObjectOK, Keeps, Fields
<1>5. /\ d.sawSOI = dinfo.sawSOI /\ d.state = dinfo.state /\ d.inheaders = dinfo.inheaders
      /\ d.consume = dinfo.consume /\ d.coefs = dinfo.coefs /\ d.scan = dinfo.scan
      /\ d.latched = dinfo.latched /\ d.quant = dinfo.quant /\ d.frame = dinfo.frame
  BY <1>3 DEF Keeps, Fields
<1>6. QED
  BY <1>1, <1>2, <1>4, <1>5, ReadingOn

LEMMA UnknownMarkerKeepsTypeInv ==
    ASSUME TypeInv, UnknownMarker PROVE TypeInv'
BY ParsingFails DEF UnknownMarker

\* An object that a pass over data can begin with.
StartOK(d) ==
    /\ ObjectOK(d) /\ d.state = "RDCOEFS" /\ ~d.inheaders /\ d.sawSOI
    /\ d.frame.k = "SOF" /\ d.frame.name = None /\ d.frame.n \in Nat /\ d.frame.n > 0
    /\ d.frame.comps # {}
    /\ DOMAIN d.coefs = d.frame.comps /\ DOMAIN d.latched = d.frame.comps
    /\ d.scan \subseteq d.frame.comps /\ d.unread = NoMarker

LEMMA StartInputPassKeepsTypeInv ==
    ASSUME TypeInv, pc # "idle", call = "transform", NEW d, StartOK(d), StartInputPass(d),
           next' \in 1 .. Size + 1, warning' \in BOOLEAN
    PROVE  TypeInv'
<1>1. IsObject(d) /\ ObjectOK(d)
  BY DEF StartOK, ObjectOK
<1>2. CASE d.quant = None
  <2>1. Fail(d)
    BY <1>1, <1>2, InputPass
  <2>2. QED
    BY <1>1, <2>1, FailKeepsTypeInv DEF Failing
<1>3. CASE d.quant # None
  <2> DEFINE e == PassStarted(d)
  <2>1. Go(e, "coefficients")
    BY <1>1, <1>3, InputPass
  <2>2. /\ Keeps(d, e, {"consume", "mcu", "insufficient", "toGo", "last", "latched"})
        /\ e.consume = "data" /\ e.mcu = 0 /\ e.latched = Latched(d)
    BY <1>1, PassStartedFields
  <2>3. DOMAIN Latched(d) = DOMAIN d.latched
    BY DEF Latched
  <2> HIDE DEF e
  <2>4. ObjectOK(e)
    BY <1>1, <2>2 DEF ObjectOK, Keeps, Fields
  <2>5. Ready(e)
    BY <1>3, <2>2, <2>3 DEF Ready, StartOK, Keeps, Fields, NoMarker, Marker, None
  <2>6. DecodingOK(e, call) /\ e.unread = NoMarker
    BY <2>2, <2>5 DEF DecodingOK, StartOK, Keeps, Fields
  <2>7. Going(e, "coefficients")
    BY <2>4, <2>6 DEF Going, PlaceOK
  <2>8. QED
    BY <2>1, <2>7, GoKeepsTypeInv
<1>4. QED
  BY <1>2, <1>3

\* get_sos(): the object behind SOS, the one whose header has ended, and what
\* becomes of them.
BadScan == Stale \/ ~(dinfo.unread.comps \subseteq dinfo.frame.comps)
ScanBegun == [dinfo EXCEPT !.unread = NoMarker, !.scan = dinfo.unread.comps, !.expected = 0]
HeaderEnded ==
    [ScanBegun EXCEPT !.inheaders = FALSE, !.state = "READY",
                    !.multiple = (dinfo.unread.comps # dinfo.frame.comps),
                    !.colours = Colours(dinfo.frame.comps, ScanBegun.jfif, ScanBegun.adobe)]
Puzzled == ~BadScan /\ dinfo.inheaders /\ Puzzling(dinfo.frame.comps, dinfo.jfif, dinfo.adobe)
LEMMA ScanFields ==
    ASSUME IsObject(dinfo)
    PROVE  /\ Keeps(dinfo, ScanBegun, {"unread", "scan", "expected"})
           /\ ScanBegun.unread = NoMarker /\ ScanBegun.scan = dinfo.unread.comps
           /\ ScanBegun.expected = 0
           /\ Keeps(ScanBegun, HeaderEnded, {"inheaders", "state", "multiple", "colours"})
           /\ HeaderEnded.inheaders = FALSE /\ HeaderEnded.state = "READY"
           /\ HeaderEnded.multiple = (dinfo.unread.comps # dinfo.frame.comps)
<1> DEFINE d == ScanBegun
<1>1. /\ Keeps(dinfo, d, {"unread", "scan", "expected"})
      /\ d.unread = NoMarker /\ d.scan = dinfo.unread.comps /\ d.expected = 0
  BY DEF ScanBegun, IsObject, Fields, Keeps
<1>2. HeaderEnded = [d EXCEPT !.inheaders = FALSE, !.state = "READY",
                    !.multiple = (dinfo.unread.comps # dinfo.frame.comps),
                    !.colours = Colours(dinfo.frame.comps, d.jfif, d.adobe)]
  BY DEF HeaderEnded
<1> HIDE DEF d
<1>3. /\ Keeps(d, HeaderEnded, {"inheaders", "state", "multiple", "colours"})
      /\ HeaderEnded.inheaders = FALSE /\ HeaderEnded.state = "READY"
      /\ HeaderEnded.multiple = (dinfo.unread.comps # dinfo.frame.comps)
  BY <1>1, <1>2 DEF IsObject, Fields, Keeps
<1>4. QED
  BY <1>1, <1>3 DEF d

LEMMA ScanHeader ==
    ASSUME TypeInv, GetSOS
    PROVE  /\ Pending({"SOS"}) /\ next' = next /\ next' \in 1 .. Size + 1
           /\ warning' \in BOOLEAN /\ (warning => warning')
           /\ ~Puzzled \/ ~warning' => Parsing({"SOS"})
           /\ BadScan => Fail(dinfo) /\ Parsing({"SOS"})
           /\ ~BadScan =>
                 IF ~ScanBegun.inheaders
                 THEN IF ScanBegun.multiple THEN StartInputPass(ScanBegun) ELSE Fail(ScanBegun)
                 ELSE IF ScanBegun.frame.name # None THEN Fail(ScanBegun)
                 ELSE IF call = "header" THEN Go(HeaderEnded, "finish")
                 ELSE IF Unnamed(HeaderEnded.frame) THEN Fail(HeaderEnded)
                 ELSE StartInputPass(Select(HeaderEnded))
<1>1. Pending({"SOS"}) /\ next' = next
  BY DEF GetSOS
<1>2. /\ IsObject(dinfo) /\ next \in 1 .. Size + 1 /\ warning \in BOOLEAN
      /\ call \in {"header", "transform"}
  BY <1>1, WhilePending, WhileReading
<1>3. /\ ScanBegun.inheaders = dinfo.inheaders /\ ScanBegun.multiple = dinfo.multiple
      /\ ScanBegun.frame = dinfo.frame /\ HeaderEnded.frame = dinfo.frame
      /\ ScanBegun.jfif = dinfo.jfif /\ ScanBegun.adobe = dinfo.adobe
  BY <1>2, ScanFields DEF Keeps, Fields
<1>4. /\ warning' = (warning \/ (/\ ~BadScan /\ dinfo.inheaders /\ dinfo.frame.name = None
                                 /\ Puzzling(dinfo.frame.comps, ScanBegun.jfif, ScanBegun.adobe)))
      /\ BadScan => Fail(dinfo)
      /\ ~BadScan /\ ~dinfo.inheaders =>
             IF ScanBegun.multiple THEN StartInputPass(ScanBegun) ELSE Fail(ScanBegun)
      /\ ~BadScan /\ dinfo.inheaders =>
             IF dinfo.frame.name # None THEN Fail(ScanBegun)
             ELSE IF call = "header" THEN Go(HeaderEnded, "finish")
             ELSE ReadCoefficients(HeaderEnded)
  BY DEF GetSOS, BadScan, ScanBegun, HeaderEnded
<1>5. /\ warning' \in BOOLEAN /\ (warning => warning')
      /\ ~Puzzled \/ BadScan \/ ~warning' => warning' = warning
  BY <1>2, <1>3, <1>4 DEF Puzzled
<1>6. QED
  BY <1>1, <1>2, <1>3, <1>4, <1>5 DEF ReadCoefficients, Parsing

LEMMA GetSOSKeepsTypeInv ==
    ASSUME TypeInv, GetSOS PROVE TypeInv'
<1> DEFINE comps == dinfo.unread.comps
           d == ScanBegun
           headers == HeaderEnded
<1>1. Pending({"SOS"})
  BY ScanHeader
<1>2. /\ ObjectOK(dinfo) /\ Reading /\ dinfo.sawSOI /\ IsToken(dinfo.unread) /\ dinfo.unread.k = "SOS"
      /\ ReadingOK(dinfo, next, call) /\ pc = "reading"
      /\ next' \in 1 .. Size + 1 /\ warning' \in BOOLEAN
      /\ call \in {"header", "transform"} /\ dinfo.state # "START"
      /\ call = "header" => InHeader(dinfo)
  BY <1>1, ScanHeader, WhilePending, WhileReading
<1>3. CASE BadScan
  BY <1>3, ScanHeader, ParsingFails
<1>4. CASE ~BadScan
  <2>1. /\ Keeps(dinfo, d, {"unread", "scan", "expected"})
        /\ d.unread = NoMarker /\ d.scan = comps /\ d.expected = 0
    BY <1>2, ScanFields DEF ObjectOK
  <2>2. /\ Keeps(d, headers, {"inheaders", "state", "multiple", "colours"})
        /\ headers.inheaders = FALSE /\ headers.state = "READY"
    BY <1>2, ScanFields DEF ObjectOK
  <2>3. IF ~d.inheaders
        THEN IF d.multiple THEN StartInputPass(d) ELSE Fail(d)
        ELSE IF d.frame.name # None THEN Fail(d)
        ELSE IF call = "header" THEN Go(headers, "finish")
        ELSE IF Unnamed(headers.frame) THEN Fail(headers) ELSE StartInputPass(Select(headers))
    BY <1>4, ScanHeader
  <2>31. ~Stale /\ comps \subseteq dinfo.frame.comps
    BY <1>4 DEF BadScan
  <2>4. comps # {} /\ dinfo.frame # NoMarker /\ dinfo.frame.comps # {}
    BY <1>2, <2>31, TokenFacts DEF IsToken
  <2> HIDE DEF comps, d, headers
  <2>5. ObjectOK(d)
    BY <1>2, <2>1 DEF ObjectOK, Keeps, Fields
  <2>6. ObjectOK(headers)
    BY <1>2, <2>2, <2>5 DEF ObjectOK, Keeps, Fields
  <2>7. IsToken(d.frame) /\ d.frame.k = "SOF" /\ d.frame = dinfo.frame
    BY <2>1, <2>4, <2>5 DEF ObjectOK, FrameOK, Keeps, Fields
  <2>8. CASE d.inheaders
    <3>1. InHeader(dinfo)
      BY <1>2, <2>1, <2>8 DEF ReadingOK, Ready, Keeps, Fields
    <3>2. CASE d.frame.name # None
      <4>1. Failing(d)
        BY <1>2, <2>1, <2>5, <3>1 DEF Failing, Keeps, Fields, InHeader
      <4>2. QED
        BY <2>3, <2>8, <3>2, <4>1, FailKeepsTypeInv
    <3>3. CASE d.frame.name = None /\ call = "header"
      <4>1. Go(headers, "finish")
        BY <2>3, <2>8, <3>3
      <4>2. FinishOK(headers, call)
        BY <2>1, <2>2, <3>1, <3>3 DEF FinishOK, InHeader, Keeps, Fields
      <4>3. Going(headers, "finish")
        BY <1>2, <2>6, <4>2 DEF Going, PlaceOK
      <4>4. QED
        BY <1>2, <4>1, <4>3, GoKeepsTypeInv
    <3>6. CASE d.frame.name = None /\ call = "transform" /\ Unnamed(headers.frame)
      <4>1. Fail(headers) /\ Failing(headers)
        BY <1>2, <2>3, <2>6, <2>8, <3>6 DEF Failing
      <4>2. QED
        BY <4>1, FailKeepsTypeInv
    <3>4. CASE d.frame.name = None /\ call = "transform" /\ ~Unnamed(headers.frame)
      <4> DEFINE e == Select(headers)
      <4>1. StartInputPass(e)
        BY <2>3, <2>8, <3>4
      <4>2. /\ Keeps(headers, e, {"state", "tables", "latched", "coefs"})
            /\ e.state = "RDCOEFS"
            /\ e.latched = [c \in headers.frame.comps |-> None]
            /\ e.coefs = [c \in headers.frame.comps |-> [i \in 1..headers.frame.n |-> Blank]]
        BY <2>6, SelectFields DEF ObjectOK
      <4> HIDE DEF e
      <4>3. DOMAIN e.coefs = headers.frame.comps /\ DOMAIN e.latched = headers.frame.comps
        BY <4>2
      <4>4. ObjectOK(e)
        BY <2>6, <4>2 DEF ObjectOK, Keeps, Fields
      <4>5. headers.frame = d.frame /\ e.frame = d.frame /\ e.scan = comps /\ e.unread = NoMarker
            /\ e.sawSOI /\ ~e.inheaders
        <5>1. d.sawSOI /\ d.scan = comps /\ d.unread = NoMarker
          BY <1>2, <2>1 DEF Keeps, Fields
        <5>2. /\ headers.sawSOI = d.sawSOI /\ headers.scan = d.scan /\ headers.unread = d.unread
              /\ headers.frame = d.frame
          BY <2>2 DEF Keeps, Fields
        <5>3. /\ e.sawSOI = headers.sawSOI /\ e.scan = headers.scan /\ e.unread = headers.unread
              /\ e.frame = headers.frame /\ e.inheaders = headers.inheaders
          BY <4>2 DEF Keeps, Fields
        <5>4. QED
          BY <2>2, <5>1, <5>2, <5>3
      <4>6. d.frame.n \in Nat /\ d.frame.n > 0
        BY <2>7, <3>4 DEF IsToken
      <4>7. StartOK(e)
        BY <2>31, <2>4, <2>7, <3>4, <4>2, <4>3, <4>4, <4>5, <4>6 DEF StartOK
      <4>8. QED
        BY <1>2, <3>4, <4>1, <4>7, StartInputPassKeepsTypeInv
    <3>5. QED
      BY <1>2, <3>2, <3>3, <3>4, <3>6
  <2>9. CASE ~d.inheaders
    <3>1. dinfo.state = "RDCOEFS" /\ Ready(dinfo) /\ call = "transform"
      BY <1>2, <2>1, <2>9 DEF ReadingOK, InHeader, Keeps, Fields
    <3>2. CASE ~d.multiple
      <4>1. Failing(d)
        BY <1>2, <2>5, <3>1 DEF Failing
      <4>2. QED
        BY <2>3, <2>9, <3>2, <4>1, FailKeepsTypeInv
    <3>3. CASE d.multiple
      <4>1. d.frame.n \in Nat /\ d.frame.n > 0
        BY <2>7, <3>1 DEF IsToken, Ready
      <4>2. StartOK(d)
        BY <2>31, <2>1, <2>5, <2>7, <3>1, <4>1 DEF StartOK, Ready, Keeps, Fields
      <4>3. QED
        BY <1>2, <2>3, <2>9, <3>1, <3>3, <4>2, StartInputPassKeepsTypeInv
    <3>4. QED
      BY <3>2, <3>3
  <2>10. QED
    BY <2>8, <2>9
<1>5. QED
  BY <1>3, <1>4

LEMMA GetEOIKeepsTypeInv ==
    ASSUME TypeInv, GetEOI PROVE TypeInv'
<1> DEFINE d == [dinfo EXCEPT !.unread = NoMarker, !.eoi = TRUE]
           e == [d EXCEPT !.state = "STOPPING"]
<1>1. Parsing({"EOI"}) /\ IF d.inheaders THEN Fail(d) ELSE Go(e, "finish")
  BY DEF GetEOI
<1>2. /\ ObjectOK(dinfo) /\ Reading /\ dinfo.sawSOI /\ ReadingOK(dinfo, next, call)
      /\ pc = "reading" /\ next' \in 1 .. Size + 1 /\ warning' \in BOOLEAN
      /\ call = "header" => InHeader(dinfo)
  BY <1>1, WhileParsing, WhileReading
<1>3. Keeps(dinfo, d, {"unread", "eoi"}) /\ d.unread = NoMarker
  BY <1>2 DEF ObjectOK, IsObject, Fields, Keeps
<1>4. Keeps(dinfo, e, {"unread", "eoi", "state"}) /\ e.unread = NoMarker /\ e.state = "STOPPING"
  BY <1>2 DEF ObjectOK, IsObject, Fields, Keeps
<1> HIDE DEF d, e
<1>5. ObjectOK(d) /\ ObjectOK(e)
  BY <1>2, <1>3, <1>4, WhileReading DEF ObjectOK, Keeps, Fields
<1>6. CASE d.inheaders
  <2>1. Failing(d)
    BY <1>2, <1>3, <1>5 DEF Failing, Keeps, Fields, InHeader
  <2>2. QED
    BY <1>1, <1>6, <2>1, FailKeepsTypeInv
<1>7. CASE ~d.inheaders
  <2>1. dinfo.consume = "markers" /\ Ready(dinfo) /\ call = "transform"
    BY <1>2, <1>3, <1>7 DEF ReadingOK, InHeader, Keeps, Fields
  <2>2. FinishOK(e, call)
    BY <1>4, <2>1 DEF FinishOK, Ready, Keeps, Fields
  <2>3. Going(e, "finish")
    BY <1>2, <1>5, <2>2 DEF Going, PlaceOK
  <2>4. QED
    BY <1>1, <1>2, <1>7, <2>3, GoKeepsTypeInv
<1>8. QED
  BY <1>6, <1>7

\* What holds during a pass over data.
LEMMA WhileDecoding ==
    ASSUME TypeInv, pc \in {"coefficients", "resync"}
    PROVE  /\ FileInv /\ ObjectOK(dinfo) /\ IsObject(dinfo) /\ DecodingOK(dinfo, call)
           /\ next \in 1 .. Size + 1 /\ warning \in BOOLEAN /\ pc # "idle"
           /\ call = "transform"
           /\ IsToken(dinfo.frame) /\ dinfo.frame.n \in Nat
           /\ pc = "resync" => warning /\ dinfo.unread # NoMarker
           /\ pc = "coefficients" /\ ~warning => dinfo.unread = NoMarker
<1>1. /\ FileInv /\ ObjectOK(dinfo) /\ IsObject(dinfo) /\ DecodingOK(dinfo, call)
      /\ next \in 1 .. Size + 1 /\ warning \in BOOLEAN /\ pc # "idle"
      /\ pc = "resync" => warning /\ dinfo.unread # NoMarker
      /\ pc = "coefficients" /\ ~warning => dinfo.unread = NoMarker
  BY DEF TypeInv, PlaceInv, PlaceOK, ObjectOK
<1>2. dinfo.frame # NoMarker /\ call = "transform"
  BY <1>1 DEF DecodingOK, Ready
<1>3. IsToken(dinfo.frame)
  BY <1>1, <1>2 DEF ObjectOK, FrameOK
<1>4. QED
  BY <1>1, <1>2, <1>3 DEF IsToken

\* A step of the decoder that goes on with the pass.
SamePass(d, e) ==
    /\ e.consume = d.consume /\ e.state = d.state /\ e.frame = d.frame
    /\ DOMAIN e.coefs = DOMAIN d.coefs /\ e.scan = d.scan /\ e.latched = d.latched
    /\ e.quant = d.quant /\ e.inheaders = d.inheaders /\ e.sawSOI = d.sawSOI

LEMMA DecodingOn ==
    ASSUME TypeInv, pc \in {"coefficients", "resync"}, NEW d, NEW l, Go(d, l),
           ObjectOK(d), SamePass(dinfo, d), d.mcu \in Nat, d.mcu < d.frame.n,
           next' \in 1 .. Size + 1, warning' \in BOOLEAN,
           \/ l = "coefficients" /\ (~warning' => d.unread = NoMarker)
           \/ l = "resync" /\ warning' /\ d.unread # NoMarker
    PROVE  TypeInv'
<1>1. DecodingOK(d, call)
  BY WhileDecoding DEF DecodingOK, SamePass, Ready
<1>2. Going(d, l)
  BY <1>1 DEF Going, PlaceOK
<1>3. QED
  BY <1>2, WhileDecoding, GoKeepsTypeInv

\* The object after a restart.
Resumed(d) ==
    [d EXCEPT !.expected = (@ + 1) % 8, !.toGo = d.interval, !.last = 0,
              !.insufficient = @ /\ d.unread # NoMarker]
LEMMA ResumedFields ==
    ASSUME NEW d, IsObject(d)
    PROVE  /\ Resume(d) <=> Go(Resumed(d), "coefficients")
           /\ Keeps(d, Resumed(d), {"expected", "toGo", "last", "insufficient"})
           /\ Resumed(d).expected = (d.expected + 1) % 8
           /\ Resumed(d).toGo = d.interval /\ Resumed(d).last = 0
           /\ Resumed(d).insufficient = (d.insufficient /\ d.unread # NoMarker)
BY DEF Resume, Resumed, IsObject, Fields, Keeps

LEMMA ResumeKeepsTypeInv ==
    ASSUME TypeInv, pc \in {"coefficients", "resync"}, NEW d, ObjectOK(d), Resume(d),
           Keeps(dinfo, d, {"unread"}),
           next' \in 1 .. Size + 1, warning' \in BOOLEAN, ~warning' => d.unread = NoMarker
    PROVE  TypeInv'
<1> DEFINE e == Resumed(d)
<1>1. IsObject(d)
  BY DEF ObjectOK
<1>2. /\ Go(e, "coefficients")
      /\ Keeps(d, e, {"expected", "toGo", "last", "insufficient"})
      /\ e.expected = (d.expected + 1) % 8
  BY <1>1, ResumedFields
<1> HIDE DEF e
<1>3. e.expected \in 0 .. 7
  BY <1>2 DEF ObjectOK
<1>4. ObjectOK(e)
  BY <1>2, <1>3 DEF ObjectOK, Keeps, Fields
<1>5. SamePass(dinfo, e) /\ e.unread = d.unread /\ e.mcu = dinfo.mcu /\ e.frame = dinfo.frame
  BY <1>2 DEF SamePass, Keeps, Fields
<1>6. QED
  BY <1>2, <1>4, <1>5, WhileDecoding, DecodingOn DEF DecodingOK

\* next_marker() finds a marker in the file or EOI behind it.
LEMMA FoundInFile ==
    ASSUME FileInv, NEW i \in 1 .. Size + 1
    PROVE  /\ NextMarker(i) \in 1 .. Size + 1 /\ NextMarker(i) >= i
           /\ After(NextMarker(i)) \in 1 .. Size + 1
           /\ IsToken(At(NextMarker(i))) /\ At(NextMarker(i)) # NoMarker
<1>1. NextMarker(i) \in 1 .. Size + 1 /\ NextMarker(i) >= i
  BY MarkerIsFound, SizeIsNat
<1>2. QED
  BY <1>1, AfterInFile, AtIsToken, TokenFacts

\* The steps of a restart keep the invariant.
LEMMA ReadRestartMarkerKeepsTypeInv ==
    ASSUME TypeInv, ReadRestartMarker PROVE TypeInv'
<1> DEFINE met == dinfo.unread # NoMarker
           found == NextMarker(next)
           marker == IF met THEN dinfo.unread ELSE At(found)
           d == [dinfo EXCEPT !.unread = NoMarker]
           e == [dinfo EXCEPT !.unread = marker]
<1>1. /\ Decoding /\ dinfo.interval > 0 /\ dinfo.toGo = 0
      /\ next' = IF met THEN next ELSE After(found)
      /\ IF Accepts(marker, dinfo.expected)
         THEN Resume(d) /\ warning' = (warning \/ (~met /\ found > next))
         ELSE Go(e, "resync") /\ warning' = TRUE
  BY DEF ReadRestartMarker
<1>2. /\ FileInv /\ ObjectOK(dinfo) /\ IsObject(dinfo) /\ DecodingOK(dinfo, call)
      /\ next \in 1 .. Size + 1 /\ warning \in BOOLEAN /\ pc = "coefficients"
  BY <1>1, WhileDecoding DEF Decoding
<1>3. /\ Keeps(dinfo, d, {"unread"}) /\ d.unread = NoMarker
      /\ Keeps(dinfo, e, {"unread"}) /\ e.unread = marker
  BY <1>2, UnreadField
<1>4. IsToken(marker) /\ marker # NoMarker /\ next' \in 1 .. Size + 1 /\ warning' \in BOOLEAN
  BY <1>1, <1>2, FoundInFile DEF ObjectOK
<1> HIDE DEF d, e, marker, found
<1>5. ObjectOK(d) /\ ObjectOK(e)
  BY <1>2, <1>3, <1>4 DEF ObjectOK, Keeps, Fields
<1>6. CASE Accepts(marker, dinfo.expected)
  BY <1>1, <1>2, <1>3, <1>4, <1>5, <1>6, ResumeKeepsTypeInv
<1>7. CASE ~Accepts(marker, dinfo.expected)
  <2>1. SamePass(dinfo, e) /\ e.mcu = dinfo.mcu /\ e.frame = dinfo.frame
    BY <1>3 DEF SamePass, Keeps, Fields
  <2>2. QED
    BY <1>1, <1>2, <1>3, <1>4, <1>5, <1>7, <2>1, DecodingOn DEF DecodingOK
<1>8. QED
  BY <1>6, <1>7

LEMMA DiscardKeepsTypeInv ==
    ASSUME TypeInv, Discard PROVE TypeInv'
<1> DEFINE d == [dinfo EXCEPT !.unread = NoMarker]
<1>1. pc = "resync" /\ Resume(d) /\ next' = next /\ warning' = warning
  BY DEF Discard, Resync
<1>2. /\ ObjectOK(dinfo) /\ IsObject(dinfo) /\ next \in 1 .. Size + 1 /\ warning \in BOOLEAN
  BY <1>1, WhileDecoding
<1>3. Keeps(dinfo, d, {"unread"}) /\ d.unread = NoMarker
  BY <1>2, UnreadField
<1> HIDE DEF d
<1>4. ObjectOK(d)
  BY <1>2, <1>3 DEF ObjectOK, Keeps, Fields
<1>5. QED
  BY <1>1, <1>2, <1>3, <1>4, ResumeKeepsTypeInv

LEMMA SkipKeepsTypeInv ==
    ASSUME TypeInv, Skip PROVE TypeInv'
<1> DEFINE found == NextMarker(next)
           d == [dinfo EXCEPT !.unread = At(found)]
<1>1. pc = "resync" /\ Go(d, pc) /\ next' = After(found) /\ warning' = TRUE
  BY DEF Skip, Resync
<1>2. /\ FileInv /\ ObjectOK(dinfo) /\ IsObject(dinfo) /\ DecodingOK(dinfo, call)
      /\ next \in 1 .. Size + 1
  BY <1>1, WhileDecoding
<1>3. Keeps(dinfo, d, {"unread"}) /\ d.unread = At(found)
  BY <1>2, UnreadField
<1>4. IsToken(At(found)) /\ At(found) # NoMarker /\ next' \in 1 .. Size + 1
  BY <1>1, <1>2, FoundInFile
<1> HIDE DEF d, found
<1>5. ObjectOK(d)
  BY <1>2, <1>3, <1>4 DEF ObjectOK, Keeps, Fields
<1>6. SamePass(dinfo, d) /\ d.mcu = dinfo.mcu /\ d.frame = dinfo.frame
  BY <1>3 DEF SamePass, Keeps, Fields
<1>7. QED
  BY <1>1, <1>2, <1>3, <1>4, <1>5, <1>6, DecodingOn DEF DecodingOK

LEMMA LeaveKeepsTypeInv ==
    ASSUME TypeInv, Leave PROVE TypeInv'
<1>1. pc = "resync" /\ Resume(dinfo) /\ next' = next /\ warning' = warning
  BY DEF Leave, Resync
<1>2. /\ ObjectOK(dinfo) /\ next \in 1 .. Size + 1 /\ warning
  BY <1>1, WhileDecoding
<1>3. Keeps(dinfo, dinfo, {"unread"})
  BY <1>2 DEF Keeps, ObjectOK
<1>4. QED
  BY <1>1, <1>2, <1>3, ResumeKeepsTypeInv

\* The markers to be copied, token by token: what the recursive definition computes.
CopiedOne(f, n, r) ==
    Copied(f, n, r) =
        IF Copyable(f[n], r) THEN Append(Copied(f, n - 1, r), f[n]) ELSE Copied(f, n - 1, r)
LEMMA CopiedUnfolds ==
    ASSUME NEW f, IsFile(f), NEW r
    PROVE  Copied(f, 0, r) = <<>> /\ \A n \in 1 .. Len(f) : CopiedOne(f, n, r)
<1> DEFINE S == {f[i] : i \in 1 .. Len(f)}
           One(g, i) == IF Copyable(f[i], r) THEN Append(g[i - 1], f[i]) ELSE g[i - 1]
           Recursion(g, m) == g = [i \in 0 .. m |-> IF i = 0 THEN <<>> ELSE One(g, i)]
           upTo(m) == CHOOSE g : Recursion(g, m)
           F(m) == [n \in 1 .. m |-> [s \in Seq(S) |-> IF Copyable(f[n], r) THEN Append(s, f[n]) ELSE s]]
<1>1. Len(f) \in Nat
  BY FileFacts
<1>2. \A m : Copied(f, m, r) = upTo(m)[m]
  BY DEF Copied
<1>3. ASSUME NEW m \in 0 .. Len(f) PROVE Recursion(upTo(m), m)
  <2>1. m \in Nat /\ \A n \in 1 .. m : f[n] \in S
    BY <1>1
  <2> HIDE DEF S
  <2>2. F(m) \in StepFunctions(m, Seq(S))
    BY <2>1 DEF StepFunctions
  <2>3. <<>> \in Seq(S)
    OBVIOUS
  <2>4. PICK g \in [0 .. m -> Seq(S)] : Iterates(g, m, <<>>, F(m))
    <3> HIDE DEF F
    <3>1. QED
      BY <2>1, <2>2, <2>3, Iteration
  <2>5. ASSUME NEW i \in 0 .. m PROVE g[i] = IF i = 0 THEN <<>> ELSE One(g, i)
    <3>1. CASE i = 0
      BY <2>4, <3>1 DEF Iterates
    <3>2. CASE i # 0
      <4>1. i \in 1 .. m /\ i - 1 \in 0 .. m
        BY <2>1, <3>2
      <4>2. g[i] = F(m)[i][g[i - 1]] /\ g[i - 1] \in Seq(S)
        BY <2>4, <4>1 DEF Iterates
      <4>3. F(m)[i][g[i - 1]] = One(g, i)
        BY <4>1, <4>2 DEF F
      <4>4. QED
        BY <3>2, <4>2, <4>3
    <3>3. QED
      BY <3>1, <3>2
  <2>6. g = [i \in 0 .. m |-> g[i]]
    OBVIOUS
  <2>7. Recursion(g, m)
    BY <2>5, <2>6
  <2> HIDE DEF Recursion
  <2>8. QED
    BY <2>7
<1> HIDE DEF upTo
<1>4. ASSUME NEW m \in 0 .. Len(f)
      PROVE  /\ upTo(m)[0] = <<>>
             /\ \A i \in 1 .. m : upTo(m)[i] = One(upTo(m), i)
  <2> DEFINE g == upTo(m)
  <2>1. Recursion(g, m)
    BY <1>3
  <2> HIDE DEF g
  <2>2. m \in Nat
    BY <1>1
  <2>3. g[0] = <<>>
    BY <2>1, <2>2
  <2>4. ASSUME NEW i \in 1 .. m PROVE g[i] = One(g, i)
    <3>1. i \in 0 .. m /\ i # 0
      BY <2>2
    <3> HIDE DEF One
    <3>2. QED
      BY <2>1, <3>1
  <2>5. QED
    BY <2>3, <2>4 DEF g
<1> HIDE DEF Recursion
<1>5. ASSUME NEW m \in 1 .. Len(f) PROVE CopiedOne(f, m, r)
  <2>1. m \in Nat /\ m - 1 \in Nat /\ m \in 0 .. Len(f) /\ m - 1 \in 0 .. Len(f) /\ m \in 1 .. m
    BY <1>1
  <2> DEFINE g == upTo(m)
             h == upTo(m - 1)
             T == {i \in 0 .. m - 1 : g[i] = h[i]}
  <2>2. /\ g[0] = <<>> /\ \A i \in 1 .. m : g[i] = One(g, i)
        /\ h[0] = <<>> /\ \A i \in 1 .. m - 1 : h[i] = One(h, i)
    BY <1>4, <2>1
  <2> HIDE DEF g, h
  <2>3. 0 \in T
    BY <2>1, <2>2
  <2>4. ASSUME NEW i \in 0 .. (m - 1) - 1, i \in T PROVE i + 1 \in T
    <3>1. i + 1 \in 1 .. m /\ i + 1 \in 1 .. m - 1 /\ i + 1 \in 0 .. m - 1 /\ (i + 1) - 1 = i
      BY <2>1
    <3>2. g[i + 1] = One(g, i + 1) /\ h[i + 1] = One(h, i + 1) /\ g[i] = h[i]
      BY <2>2, <2>4, <3>1
    <3>3. QED
      BY <3>1, <3>2
  <2>5. 0 .. m - 1 \subseteq T
    <3> HIDE DEF T
    <3>1. QED
      BY <2>1, <2>3, <2>4, BoundedInduction
  <2>6. g[m - 1] = h[m - 1] /\ g[m] = One(g, m)
    BY <2>1, <2>2, <2>5
  <2>7. Copied(f, m, r) = g[m] /\ Copied(f, m - 1, r) = h[m - 1]
    BY <1>2 DEF g, h
  <2>8. QED
    BY <2>6, <2>7 DEF CopiedOne
<1>6. Copied(f, 0, r) = <<>>
  BY <1>1, <1>2, <1>4
<1>7. QED
  BY <1>5, <1>6

\* What is copied is a file of markers to be copied.
LEMMA CopiedIsFile ==
    ASSUME NEW f, IsFile(f), NEW n \in 0 .. Len(f), NEW r
    PROVE  /\ IsFile(Copied(f, n, r)) /\ Len(Copied(f, n, r)) <= n
           /\ \A i \in 1 .. Len(Copied(f, n, r)) : Copyable(Copied(f, n, r)[i], r)
<1> DEFINE P(c, m) == IsFile(c) /\ Len(c) <= m /\ \A i \in 1 .. Len(c) : Copyable(c[i], r)
           T == {m \in 0 .. Len(f) : P(Copied(f, m, r), m)}
<1>1. Len(f) \in Nat
  BY FileFacts
<1>2. 0 \in T
  BY <1>1, CopiedUnfolds, EmptyFile
<1>3. ASSUME NEW m \in 0 .. Len(f) - 1, m \in T PROVE m + 1 \in T
  <2> DEFINE c == Copied(f, m, r)
             d == Copied(f, m + 1, r)
  <2>1. m + 1 \in 1 .. Len(f) /\ m + 1 \in 0 .. Len(f) /\ (m + 1) - 1 = m /\ m \in Nat
    BY <1>1
  <2>2. d = IF Copyable(f[m + 1], r) THEN Append(c, f[m + 1]) ELSE c
    BY <2>1, CopiedUnfolds DEF CopiedOne
  <2>3. P(c, m) /\ IsToken(f[m + 1])
    BY <1>3, <2>1, FileFacts
  <2> HIDE DEF c, d
  <2>4. P(d, m + 1)
    <3>1. Len(c) \in Nat
      BY <2>3, FileFacts
    <3>2. CASE Copyable(f[m + 1], r)
      <4>1. d = Append(c, f[m + 1])
        BY <2>2, <3>2
      <4>2. /\ IsFile(d) /\ Len(d) = Len(c) + 1
            /\ \A i \in 1 .. Len(c) : d[i] = c[i]
            /\ d[Len(c) + 1] = f[m + 1]
        BY <2>3, <4>1, AppendFile
      <4>3. QED
        BY <2>1, <2>3, <3>1, <3>2, <4>2
    <3>3. CASE ~Copyable(f[m + 1], r)
      BY <2>1, <2>2, <2>3, <3>1, <3>3
    <3>4. QED
      BY <3>2, <3>3
  <2>5. QED
    BY <2>1, <2>4 DEF d
<1>4. 0 .. Len(f) \subseteq T
  <2> HIDE DEF T
  <2>1. QED
    BY <1>1, <1>2, <1>3, BoundedInduction
<1>5. n \in T
  BY <1>4
<1>6. QED
  BY <1>5

\* Tokens that the writer makes.
LEMMA NamedFields ==
    ASSUME NEW kind, NEW name
    PROVE  Named(kind, name).k = kind /\ Named(kind, name).name = name /\ Named(kind, name).n = 0
BY DEF Named, Marker

LEMMA SOSFields ==
    ASSUME NEW comps
    PROVE  SOS(comps).k = "SOS" /\ SOS(comps).comps = comps /\ SOS(comps).n = 0 /\ SOS(comps).name = None
BY DEF SOS, Marker

LEMMA DataFields ==
    ASSUME NEW i, NEW v, NEW tables, NEW opens
    PROVE  /\ Data(i, v, tables, opens).k = "data" /\ Data(i, v, tables, opens).n = i
           /\ Data(i, v, tables, opens).name = tables
           /\ Data(i, v, tables, opens).comps = DOMAIN v /\ Data(i, v, tables, opens).v = v
           /\ Data(i, v, tables, opens).opens = opens
BY DEF Data, Named, Marker

\* One file behind another, and a file given by its tokens.
Joined(h, f, g) ==
    /\ IsFile(h) /\ Len(h) = Len(f) + Len(g)
    /\ \A i \in 1 .. Len(f) : h[i] = f[i]
    /\ \A i \in 1 .. Len(g) : h[Len(f) + i] = g[i]
LEMMA ConcatFile ==
    ASSUME NEW f, IsFile(f), NEW g, IsFile(g)
    PROVE  IsFile(f \o g) /\ Joined(f \o g, f, g)
<1> DEFINE h == f \o g
           S == {f[i] : i \in DOMAIN f} \cup {g[i] : i \in DOMAIN g}
<1>1. f \in Seq(S) /\ g \in Seq(S)
  BY DEF IsFile
<1>2. /\ h \in Seq(S) /\ Len(h) = Len(f) + Len(g) /\ DOMAIN h = 1 .. Len(f) + Len(g)
      /\ \A i \in 1 .. Len(f) + Len(g) : h[i] = IF i <= Len(f) THEN f[i] ELSE g[i - Len(f)]
  BY <1>1
<1>3. /\ Len(f) \in Nat /\ \A i \in 1 .. Len(f) : IsToken(f[i])
      /\ Len(g) \in Nat /\ \A i \in 1 .. Len(g) : IsToken(g[i])
  BY FileFacts
<1> HIDE DEF h, S
<1>4. \A i \in 1 .. Len(f) : h[i] = f[i]
  BY <1>2, <1>3
<1>5. ASSUME NEW i \in 1 .. Len(g) PROVE h[Len(f) + i] = g[i]
  <2>1. Len(f) + i \in 1 .. Len(f) + Len(g) /\ ~(Len(f) + i <= Len(f)) /\ (Len(f) + i) - Len(f) = i
    BY <1>3
  <2>2. QED
    BY <1>2, <2>1
<1>6. ASSUME NEW i \in 1 .. Len(h) PROVE IsToken(h[i])
  <2>1. h[i] = IF i <= Len(f) THEN f[i] ELSE g[i - Len(f)]
    BY <1>2
  <2>2. IF i <= Len(f) THEN i \in 1 .. Len(f) ELSE i - Len(f) \in 1 .. Len(g)
    BY <1>2, <1>3
  <2>3. QED
    BY <1>3, <2>1, <2>2
<1>7. h \in Seq({h[i] : i \in DOMAIN h})
  BY <1>2
<1>8. QED
  BY <1>2, <1>4, <1>5, <1>6, <1>7 DEF IsFile, h, Joined

LEMMA FilledFile ==
    ASSUME NEW n \in Nat, NEW f, DOMAIN f = 1 .. n, f = [i \in 1 .. n |-> f[i]],
           \A i \in 1 .. n : IsToken(f[i])
    PROVE  IsFile(f) /\ Len(f) = n
<1> DEFINE S == {f[i] : i \in DOMAIN f}
<1>1. f \in [1 .. n -> S]
  OBVIOUS
<1> HIDE DEF S
<1>2. f \in Seq(S) /\ Len(f) = n
  BY <1>1
<1>3. QED
  BY <1>2 DEF IsFile, S

LEMMA SingleFile ==
    ASSUME NEW t, IsToken(t)
    PROVE  IsFile(<<t>>) /\ Len(<<t>>) = 1 /\ <<t>>[1] = t
<1> DEFINE e == <<t>>
<1>1. DOMAIN e = 1 .. 1 /\ Len(e) = 1 /\ e[1] = t /\ e \in Seq({e[i] : i \in DOMAIN e})
  OBVIOUS
<1> HIDE DEF e
<1>2. \A i \in DOMAIN e : i = 1
  BY <1>1
<1>3. IsFile(e) /\ Len(e) = 1 /\ e[1] = t
  BY <1>1, <1>2 DEF IsFile
<1>4. QED
  BY <1>3 DEF e

\* The markers of the new file: at most one of the writer, and those that it does
\* not replace.
LEMMA OwnMarkers ==
    ASSUME NEW d
    PROVE  /\ IsFile(Own(d)) /\ Len(Own(d)) \in {0, 1}
           /\ \A i \in 1 .. Len(Own(d)) : Own(d)[i].k = "APP" /\ Own(d)[i].name \in Replaced(d)
<1> DEFINE j == IF WritesJFIF(d) THEN <<Named("APP", "JFIF")>> ELSE <<>>
           a == IF WritesAdobe(d) THEN <<Adobe(IF d.colours = "YCCK" THEN 2 ELSE 0)>> ELSE <<>>
           IsOwn(t) == IsToken(t) /\ t.k = "APP"
<1>1. IsOwn(Named("APP", "JFIF")) /\ Named("APP", "JFIF").name = "JFIF"
  BY NamedFields DEF IsToken, None
<1>2. ASSUME NEW n \in Nat PROVE IsOwn(Adobe(n)) /\ Adobe(n).name = "Adobe"
  <2>1. Adobe(n).k = "APP" /\ Adobe(n).name = "Adobe" /\ Adobe(n).n = n
    BY DEF Adobe, Named, Marker
  <2>2. QED
    BY <2>1 DEF IsToken, None
<1>3. ~(WritesJFIF(d) /\ WritesAdobe(d))
  BY DEF WritesJFIF, WritesAdobe
<1>4. IsFile(j) /\ IF WritesJFIF(d) THEN Len(j) = 1 /\ j[1] = Named("APP", "JFIF") ELSE Len(j) = 0
  BY <1>1, SingleFile, EmptyFile
<1>5. /\ IsFile(a)
      /\ IF WritesAdobe(d) THEN Len(a) = 1 /\ IsOwn(a[1]) /\ a[1].name = "Adobe" ELSE Len(a) = 0
  <2> DEFINE n == IF d.colours = "YCCK" THEN 2 ELSE 0
             m == Adobe(n)
  <2>1. n \in Nat
    OBVIOUS
  <2>2. IsOwn(m) /\ m.name = "Adobe"
    BY <1>2, <2>1
  <2>3. a = IF WritesAdobe(d) THEN <<m>> ELSE <<>>
    OBVIOUS
  <2> HIDE DEF m, a
  <2>4. QED
    BY <2>2, <2>3, SingleFile, EmptyFile
<1>6. Own(d) = j \o a
  BY DEF Own
<1>7. /\ WritesJFIF(d) => "JFIF" \in Replaced(d)
      /\ WritesAdobe(d) => "Adobe" \in Replaced(d)
  BY DEF Replaced
<1> HIDE DEF j, a
<1>8. IsFile(Own(d)) /\ Joined(Own(d), j, a)
  BY <1>4, <1>5, <1>6, ConcatFile
<1>9. QED
  BY <1>1, <1>3, <1>4, <1>5, <1>7, <1>8 DEF Joined

KeptOf(d) == Copied(d.saved, Len(d.saved), Replaced(d))
LEMMA MarkersMade ==
    ASSUME NEW d, ObjectOK(d)
    PROVE  /\ IsFile(KeptOf(d)) /\ \A i \in 1 .. Len(KeptOf(d)) : Copyable(KeptOf(d)[i], Replaced(d))
           /\ IsFile(NewMarkers(d)) /\ Joined(NewMarkers(d), Own(d), KeptOf(d))
           /\ \A i \in 1 .. Len(NewMarkers(d)) : NewMarkers(d)[i].k = "APP"
<1>1. IsFile(KeptOf(d)) /\ \A i \in 1 .. Len(KeptOf(d)) : Copyable(KeptOf(d)[i], Replaced(d))
  <2>1. IsFile(d.saved)
    BY DEF ObjectOK
  <2>2. Len(d.saved) \in 0 .. Len(d.saved)
    BY <2>1, FileFacts
  <2>3. QED
    BY <2>1, <2>2, CopiedIsFile DEF KeptOf
<1>2. IsFile(NewMarkers(d)) /\ Joined(NewMarkers(d), Own(d), KeptOf(d))
  BY <1>1, OwnMarkers, ConcatFile DEF NewMarkers, KeptOf
<1>3. ASSUME NEW i \in 1 .. Len(NewMarkers(d)) PROVE NewMarkers(d)[i].k = "APP"
  <2>1. Len(Own(d)) \in Nat /\ Len(KeptOf(d)) \in Nat /\ Len(NewMarkers(d)) = Len(Own(d)) + Len(KeptOf(d))
    BY <1>1, <1>2, OwnMarkers, FileFacts DEF Joined
  <2>2. CASE i <= Len(Own(d))
    BY <1>2, <2>1, <2>2, OwnMarkers DEF Joined
  <2>3. CASE i > Len(Own(d))
    <3>1. i - Len(Own(d)) \in 1 .. Len(KeptOf(d)) /\ Len(Own(d)) + (i - Len(Own(d))) = i
      BY <2>1, <2>3
    <3>2. NewMarkers(d)[i] = KeptOf(d)[i - Len(Own(d))]
      BY <1>2, <3>1 DEF Joined
    <3>3. QED
      BY <1>1, <3>1, <3>2 DEF Copyable
  <2>4. QED
    BY <2>1, <2>2, <2>3
<1>4. QED
  BY <1>1, <1>2, <1>3

\* What the writer makes is a file with these tokens at these places.
McuOf(d, i) ==
    Data(i, [c \in d.frame.comps |-> d.coefs[c][i]], "standard", i = 1)
\* How the new file is laid out.
Composed(d, made, kept, k, n) ==
    /\ Len(made) = k + n + 6
    /\ made[1] = Marker("SOI")
    /\ \A i \in 1 .. k : made[i + 1] = kept[i]
    /\ made[k + 2] = Named("DQT", d.quant) /\ made[k + 3] = d.frame
    /\ made[k + 4] = Named("DHT", "standard") /\ made[k + 5] = SOS(d.frame.comps)
    /\ \A i \in 1 .. n : made[k + 5 + i] = McuOf(d, i)
    /\ made[k + n + 6] = EOI

LEMMA ComposedFile ==
    ASSUME NEW d, ObjectOK(d), Ready(d)
    PROVE  LET kept == NewMarkers(d)
               made == Compose(d)
           IN  /\ IsFile(kept) /\ IsFile(made)
               /\ \A i \in 1 .. Len(kept) : kept[i].k = "APP"
               /\ d.frame.n \in Nat /\ d.frame.n > 0 /\ IsToken(d.frame) /\ d.frame.k = "SOF"
               /\ Composed(d, made, kept, Len(kept), d.frame.n)
<1> DEFINE n == d.frame.n
           kept == NewMarkers(d)
           a == <<Marker("SOI")>>
           b == <<Named("DQT", d.quant), d.frame, Named("DHT", "standard"), SOS(d.frame.comps)>>
           c == [i \in 1 .. n |-> McuOf(d, i)]
           e == <<EOI>>
           ak == a \o kept
           ab == ak \o b
           ac == ab \o c
           made == ac \o e
<1>1. IsToken(d.frame) /\ d.frame.k = "SOF" /\ d.frame.name = None /\ n \in Nat /\ n > 0
  BY DEF ObjectOK, FrameOK, Ready, IsToken
<1>2. IsFile(kept) /\ \A i \in 1 .. Len(kept) : kept[i].k = "APP"
  BY MarkersMade
<1>3. IsFile(a) /\ Len(a) = 1 /\ a[1] = Marker("SOI")
  <2>1. IsToken(Marker("SOI"))
    BY DEF IsToken, Marker, None
  <2>2. QED
    BY <2>1, SingleFile
<1>4. /\ IsFile(b) /\ Len(b) = 4
      /\ b[1] = Named("DQT", d.quant) /\ b[2] = d.frame
      /\ b[3] = Named("DHT", "standard") /\ b[4] = SOS(d.frame.comps)
  <2>1. IsToken(Named("DQT", d.quant)) /\ IsToken(Named("DHT", "standard")) /\ IsToken(SOS(d.frame.comps))
    <3>1. d.quant \notin {None, "JFIF"} /\ d.frame.comps # {}
      BY DEF ObjectOK, Ready
    <3>2. QED
      BY <3>1, NamedFields, SOSFields DEF IsToken, None
  <2>2. /\ Len(b) = 4 /\ DOMAIN b = 1 .. 4
        /\ b[1] = Named("DQT", d.quant) /\ b[2] = d.frame
        /\ b[3] = Named("DHT", "standard") /\ b[4] = SOS(d.frame.comps)
    OBVIOUS
  <2>3. b \in Seq({b[i] : i \in DOMAIN b})
    OBVIOUS
  <2> HIDE DEF b
  <2>4. \A i \in DOMAIN b : i = 1 \/ i = 2 \/ i = 3 \/ i = 4
    BY <2>2
  <2>5. QED
    BY <1>1, <2>1, <2>2, <2>3, <2>4 DEF IsFile
<1>5. IsFile(c) /\ Len(c) = n /\ \A i \in 1 .. n : c[i] = McuOf(d, i)
  <2>1. ASSUME NEW i \in 1 .. n PROVE IsToken(McuOf(d, i))
    BY DataFields DEF IsToken, McuOf, None
  <2>2. DOMAIN c = 1 .. n /\ c = [i \in 1 .. n |-> c[i]] /\ \A i \in 1 .. n : c[i] = McuOf(d, i)
    OBVIOUS
  <2> HIDE DEF c
  <2>3. QED
    BY <1>1, <2>1, <2>2, FilledFile
<1>6. IsFile(e) /\ Len(e) = 1 /\ e[1] = EOI
  BY TokenFacts, SingleFile
<1>7. Compose(d) = made
  BY DEF Compose, McuOf
<1>8. Len(kept) \in Nat
  BY <1>2, FileFacts
<1> DEFINE k == Len(kept)
<1> HIDE DEF a, b, c, e
<1>9. IsFile(ak) /\ Joined(ak, a, kept)
  BY <1>2, <1>3, ConcatFile
<1> HIDE DEF ak
<1>10. IsFile(ab) /\ Joined(ab, ak, b)
  BY <1>4, <1>9, ConcatFile
<1> HIDE DEF ab
<1>11. IsFile(ac) /\ Joined(ac, ab, c)
  BY <1>5, <1>10, ConcatFile
<1> HIDE DEF ac
<1>12. Joined(made, ac, e)
  BY <1>6, <1>11, ConcatFile
<1> HIDE DEF made, k, n, kept
<1> USE DEF Joined
<1>121. Len(ak) = 1 + k /\ Len(ab) = k + 5 /\ Len(ac) = k + 5 + n
        /\ IsFile(made) /\ Len(made) = k + 5 + n + 1
  BY <1>1, <1>3, <1>4, <1>5, <1>6, <1>8, <1>9, <1>10, <1>11, <1>12 DEF k
<1>13. made[1] = a[1]
  BY <1>1, <1>8, <1>9, <1>10, <1>11, <1>12, <1>121, <1>3 DEF k
<1>14. ASSUME NEW i \in 1 .. k PROVE made[i + 1] = kept[i]
  <2>1. k \in Nat /\ i + 1 \in 1 .. k + 1 /\ i + 1 \in 1 .. k + 5 /\ i + 1 \in 1 .. k + 5 + n /\ i + 1 = 1 + i
    BY <1>1, <1>8 DEF k
  <2>2. QED
    <3>1. ak[1 + i] = kept[i]
      BY <1>3, <1>9 DEF k
    <3>2. ab[i + 1] = ak[i + 1]
      BY <1>10, <1>121, <2>1
    <3>3. ac[i + 1] = ab[i + 1]
      BY <1>11, <1>121, <2>1
    <3>4. made[i + 1] = ac[i + 1]
      BY <1>12, <1>121, <2>1
    <3>5. QED
      BY <2>1, <3>1, <3>2, <3>3, <3>4
<1>15. ASSUME NEW i \in 1 .. 4 PROVE made[k + 1 + i] = b[i]
  <2>1. k \in Nat /\ k + 1 + i \in 1 .. k + 5 /\ k + 1 + i \in 1 .. k + 5 + n /\ k + 1 + i = (1 + k) + i
    BY <1>1, <1>8 DEF k
  <2>2. QED
    <3>1. ab[(1 + k) + i] = b[i]
      BY <1>4, <1>10, <1>121
    <3>2. ac[k + 1 + i] = ab[k + 1 + i]
      BY <1>11, <1>121, <2>1
    <3>3. made[k + 1 + i] = ac[k + 1 + i]
      BY <1>12, <1>121, <2>1
    <3>4. QED
      BY <2>1, <3>1, <3>2, <3>3
<1>16. /\ made[k + 2] = b[1] /\ made[k + 3] = b[2] /\ made[k + 4] = b[3] /\ made[k + 5] = b[4]
  <2>1. k \in Nat /\ k + 1 + 1 = k + 2 /\ k + 1 + 2 = k + 3 /\ k + 1 + 3 = k + 4 /\ k + 1 + 4 = k + 5
    BY <1>8 DEF k
  <2>2. QED
    BY <1>15, <2>1
<1>17. ASSUME NEW i \in 1 .. n PROVE made[k + 5 + i] = McuOf(d, i)
  <2>1. k \in Nat /\ k + 5 + i \in 1 .. k + 5 + n
    BY <1>1, <1>8 DEF k
  <2>2. QED
    BY <1>5, <1>11, <1>12, <1>121, <2>1
<1>18. k + 5 + n + 1 = k + n + 6
  BY <1>1, <1>8 DEF k
<1>19. Composed(d, made, kept, k, n)
  BY <1>1, <1>3, <1>4, <1>6, <1>8, <1>12, <1>121, <1>13, <1>14, <1>16, <1>17, <1>18 DEF Composed
<1>20. QED
  BY <1>1, <1>2, <1>7, <1>12, <1>121, <1>19 DEF k, n, kept

\* The object after an MCU, and after the last one of a pass.
CountedOne(d) == [d EXCEPT !.toGo = @ - 1, !.mcu = @ + 1]
PassOver(d) == [CountedOne(d) EXCEPT !.consume = "markers"]
LEMMA CountedFields ==
    ASSUME NEW d, IsObject(d)
    PROVE  /\ Keeps(d, CountedOne(d), {"toGo", "mcu"})
           /\ CountedOne(d).toGo = d.toGo - 1 /\ CountedOne(d).mcu = d.mcu + 1
           /\ Keeps(d, PassOver(d), {"toGo", "mcu", "consume"})
           /\ PassOver(d).consume = "markers"
BY DEF CountedOne, PassOver, IsObject, Fields, Keeps

\* Behind the MCU at most one piece of data is lost.
LEMMA CountedPlace ==
    ASSUME FileInv, NEW i \in 1 .. Size + 1, NEW j \in i .. (i + Min2(1, Run(i)))
    PROVE  j \in 1 .. Size + 1 /\ (j = i \/ (j = i + 1 /\ At(i).k = "data"))
<1>1. NextMarker(i) \in i .. Size + 1 /\ \A l \in i .. NextMarker(i) - 1 : At(l).k = "data"
  BY MarkerIsFound
<1>2. Size \in Nat
  BY SizeIsNat
<1> DEFINE m == NextMarker(i)
<1>3. Run(i) = m - i
  BY DEF Run
<1>4. m \in i .. Size + 1 /\ \A l \in i .. m - 1 : At(l).k = "data"
  BY <1>1
<1> HIDE DEF m
<1>5. CASE m = i
  BY <1>2, <1>3, <1>4, <1>5 DEF Min2
<1>6. CASE m > i
  <2>1. Min2(1, Run(i)) = 1
    BY <1>2, <1>3, <1>4, <1>6 DEF Min2
  <2>2. i \in i .. m - 1
    BY <1>2, <1>4, <1>6
  <2>3. At(i).k = "data"
    BY <1>4, <2>2
  <2>4. j = i \/ j = i + 1
    BY <2>1
  <2>5. QED
    BY <1>2, <1>4, <1>6, <2>3, <2>4
<1>7. QED
  BY <1>2, <1>4, <1>5, <1>6

LEMMA CountedKeepsTypeInv ==
    ASSUME TypeInv, pc = "coefficients", NEW d, ObjectOK(d), SamePass(dinfo, d), d.mcu = dinfo.mcu,
           NEW i \in 1 .. Size + 1, Counted(d, i), warning' \in BOOLEAN,
           ~warning' => d.unread = NoMarker
    PROVE  TypeInv'
<1> DEFINE c == CountedOne(d)
           e == PassOver(d)
<1>1. IsObject(d)
  BY DEF ObjectOK
<1>2. /\ Keeps(d, c, {"toGo", "mcu"}) /\ c.mcu = d.mcu + 1
      /\ Keeps(d, e, {"toGo", "mcu", "consume"}) /\ e.consume = "markers"
  BY <1>1, CountedFields
<1>3. IF c.mcu < d.frame.n
      THEN Go(c, "coefficients") /\ next' = i
      ELSE /\ Go(e, "reading")
           /\ next' \in IF d.unread = NoMarker THEN i..(i + Min2(1, Run(i))) ELSE {i}
  BY DEF Counted, CountedOne, PassOver
<1> HIDE DEF c, e
<1>4. FileInv /\ DecodingOK(dinfo, call) /\ dinfo.mcu \in Nat
  BY WhileDecoding DEF DecodingOK
<1>5. next' \in 1 .. Size + 1
  BY <1>3, <1>4, CountedPlace
<1>6. ObjectOK(c) /\ ObjectOK(e)
  BY <1>2 DEF ObjectOK, Keeps, Fields
<1>7. CASE c.mcu < d.frame.n
  <2>1. SamePass(dinfo, c) /\ c.unread = d.unread /\ c.frame = d.frame
    BY <1>2 DEF SamePass, Keeps, Fields
  <2>2. QED
    BY <1>2, <1>3, <1>4, <1>5, <1>6, <1>7, <2>1, DecodingOn
<1>8. CASE ~(c.mcu < d.frame.n)
  <2>1. /\ e.state = d.state /\ e.frame = d.frame /\ e.coefs = d.coefs /\ e.scan = d.scan
        /\ e.latched = d.latched /\ e.quant = d.quant /\ e.inheaders = d.inheaders
        /\ e.sawSOI = d.sawSOI
    BY <1>2 DEF Keeps, Fields
  <2>11. Ready(e) /\ e.state = "RDCOEFS" /\ call = "transform"
    BY <1>4, <2>1 DEF DecodingOK, Ready, SamePass
  <2>2. Going(e, "reading")
    BY <1>2, <1>5, <1>6, <2>11 DEF Going, PlaceOK, ReadingOK
  <2>3. QED
    BY <1>3, <1>8, <2>2, WhileDecoding, GoKeepsTypeInv
<1>9. QED
  BY <1>7, <1>8

\* What is stored for an MCU does not change the shape of the arrays.
Stored(d, value) ==
    [c \in DOMAIN d.coefs |->
        IF c \in d.scan
        THEN [d.coefs[c] EXCEPT ![d.mcu + 1] = Over(d.coefs[c][d.mcu + 1], value[c])]
        ELSE d.coefs[c]]
LEMMA StoreFields ==
    ASSUME NEW d, IsObject(d), NEW value
    PROVE  /\ Keeps(d, Store(d, value), {"coefs"})
           /\ Store(d, value).coefs = Stored(d, value)
           /\ DOMAIN Store(d, value).coefs = DOMAIN d.coefs
<1>1. Store(d, value) = [d EXCEPT !.coefs = Stored(d, value)]
  <2> DEFINE X == [c \in DOMAIN d.coefs |->
        IF c \in d.scan THEN [d.coefs[c] EXCEPT ![d.mcu + 1] = Over(@, value[c])] ELSE d.coefs[c]]
  <2>1. \A c \in DOMAIN d.coefs : X[c] = Stored(d, value)[c]
    BY Zenon DEF Stored
  <2>2. X = Stored(d, value)
    BY <2>1 DEF Stored
  <2>3. Store(d, value) = [d EXCEPT !.coefs = X]
    BY Zenon DEF Store
  <2>4. QED
    BY <2>2, <2>3
<1>2. DOMAIN Stored(d, value) = DOMAIN d.coefs
  BY DEF Stored
<1>3. QED
  BY <1>1, <1>2 DEF IsObject, Fields, Keeps

\* The steps of the decoder keep the invariant.
LEMMA LeaveMcuKeepsTypeInv ==
    ASSUME TypeInv, LeaveMcu PROVE TypeInv'
<1>1. pc = "coefficients" /\ Counted(dinfo, next) /\ warning' = warning
  BY DEF LeaveMcu, McuDue, Decoding
<1>2. SamePass(dinfo, dinfo)
  BY DEF SamePass
<1>3. QED
  BY <1>1, <1>2, WhileDecoding, CountedKeepsTypeInv

LEMMA StuffZerosKeepsTypeInv ==
    ASSUME TypeInv, StuffZeros PROVE TypeInv'
<1> DEFINE m == IF dinfo.unread = NoMarker THEN At(next) ELSE dinfo.unread
           e == [dinfo EXCEPT !.insufficient = TRUE,
                              !.unread = IF @ = NoMarker THEN At(next) ELSE @]
           d == Store(e, [c \in dinfo.scan |-> Bogus])
           i == IF dinfo.unread = NoMarker THEN After(next) ELSE next
<1>1. pc = "coefficients" /\ Counted(d, i) /\ warning' = TRUE
  BY DEF StuffZeros, McuDue, Decoding
<1>2. FileInv /\ ObjectOK(dinfo) /\ IsObject(dinfo) /\ next \in 1 .. Size + 1
  BY <1>1, WhileDecoding
<1>3. IsToken(m) /\ i \in 1 .. Size + 1
  BY <1>2, AtIsToken, AfterInFile DEF ObjectOK
<1>4. Keeps(dinfo, e, {"insufficient", "unread"}) /\ e.unread = m
  BY <1>2 DEF IsObject, Fields, Keeps
<1> HIDE DEF e, m
<1>5. Keeps(e, d, {"coefs"}) /\ DOMAIN d.coefs = DOMAIN e.coefs
  BY <1>4, StoreFields DEF Keeps
<1> HIDE DEF d, i
<1>6. ObjectOK(d) /\ SamePass(dinfo, d) /\ d.mcu = dinfo.mcu
  BY <1>2, <1>3, <1>4, <1>5 DEF ObjectOK, SamePass, Keeps, Fields
<1>7. QED
  BY <1>1, <1>3, <1>6, CountedKeepsTypeInv

\* What a step that decodes an MCU puts down.
LEMMA StoredKeepsTypeInv ==
    ASSUME TypeInv, pc = "coefficients", dinfo.unread = NoMarker, NEW value, NEW last,
           NEW i \in 1 .. Size + 1,
           Counted([Store(dinfo, value) EXCEPT !.last = last], i), warning' \in BOOLEAN
    PROVE  TypeInv'
<1> DEFINE e == Store(dinfo, value)
           d == [e EXCEPT !.last = last]
<1>1. ObjectOK(dinfo) /\ IsObject(dinfo)
  BY WhileDecoding
<1>2. Keeps(dinfo, e, {"coefs"}) /\ DOMAIN e.coefs = DOMAIN dinfo.coefs
  BY <1>1, StoreFields
<1>3. Counted(d, i)
  OBVIOUS
<1> HIDE DEF e
<1>4. Keeps(e, d, {"last"})
  BY <1>2 DEF Keeps, IsObject, Fields
<1> HIDE DEF d
<1>5. ObjectOK(d) /\ SamePass(dinfo, d) /\ d.mcu = dinfo.mcu /\ d.unread = NoMarker
  BY <1>1, <1>2, <1>4 DEF ObjectOK, SamePass, Keeps, Fields
<1>6. QED
  BY <1>3, <1>5, CountedKeepsTypeInv

LEMMA DecodeMcuKeepsTypeInv ==
    ASSUME TypeInv, DecodeMcu PROVE TypeInv'
<1>1. /\ pc = "coefficients" /\ dinfo.unread = NoMarker /\ At(next).k = "data"
      /\ Counted([Store(dinfo, At(next).v) EXCEPT !.last = At(next).n], next + 1)
      /\ warning' = warning
  BY DEF DecodeMcu, HasData, McuDue, Decoding
<1>2. FileInv /\ next \in 1 .. Size + 1 /\ warning \in BOOLEAN
  BY <1>1, WhileDecoding
<1>3. next # Size + 1
  BY <1>1, <1>2, AtTheEnd, TokenFacts
<1>4. next + 1 \in 1 .. Size + 1
  BY <1>2, <1>3, SizeIsNat
<1>5. QED
  BY <1>1, <1>2, <1>4, StoredKeepsTypeInv

LEMMA DecodeOutOfStepKeepsTypeInv ==
    ASSUME TypeInv, DecodeOutOfStep PROVE TypeInv'
<1> DEFINE value == [c \in dinfo.scan |-> Bogus]
<1>1. /\ pc = "coefficients" /\ dinfo.unread = NoMarker
      /\ warning' \in {warning, TRUE}
  BY DEF DecodeOutOfStep, HasData, McuDue, Decoding
<1>2. PICK i \in next..NextMarker(next) : Counted([Store(dinfo, value) EXCEPT !.last = -1], i)
  BY DEF DecodeOutOfStep
<1>3. FileInv /\ next \in 1 .. Size + 1 /\ warning \in BOOLEAN
  BY <1>1, WhileDecoding
<1>4. i \in 1 .. Size + 1
  BY <1>2, <1>3, FoundInFile, SizeIsNat
<1> HIDE DEF value
<1>5. QED
  BY <1>1, <1>2, <1>3, <1>4, StoredKeepsTypeInv

\* So does the end of a call.
LEMMA MismatchKeepsTypeInv ==
    ASSUME TypeInv, Mismatch PROVE TypeInv'
<1>1. Fail(dinfo) /\ call = "transform" /\ warning' = warning
  BY DEF Mismatch, Finishing
<1>2. Failing(dinfo)
  BY <1>1 DEF Failing, TypeInv, PlaceInv
<1>3. QED
  BY <1>1, <1>2, FailKeepsTypeInv

\* An image turned sideways can be written as well.
LEMMA TurnedIsReady ==
    ASSUME NEW d, ObjectOK(d), Ready(d)
    PROVE  /\ ObjectOK(TurnedSideways(d)) /\ Ready(TurnedSideways(d))
           /\ Keeps(d, TurnedSideways(d), {"frame"})
           /\ TurnedSideways(d).frame.comps = d.frame.comps
           /\ TurnedSideways(d).frame.n = d.frame.n
<1> DEFINE e == TurnedSideways(d)
           f == Frame(d.frame.comps, d.frame.n, "unnamed")
<1>1. IsToken(d.frame) /\ d.frame.k = "SOF" /\ d.frame.name = None
  BY DEF ObjectOK, FrameOK, Ready
<1>2. /\ f.k = "SOF" /\ f.name = None /\ f.n = d.frame.n /\ f.comps = d.frame.comps
      /\ f.sampling = "unnamed"
  BY DEF Frame, SOF, Named, Marker, None
<1>3. Keeps(d, e, {"frame"}) /\ e.frame \in {d.frame, f}
  BY DEF TurnedSideways, ObjectOK, IsObject, Fields, Keeps
<1> HIDE DEF e, f
<1>4. IsToken(f) /\ f # NoMarker
  BY <1>1, <1>2, TokenFacts DEF IsToken, None
<1>5. /\ IsToken(e.frame) /\ e.frame # NoMarker /\ e.frame.k = "SOF" /\ e.frame.name = None
      /\ e.frame.n = d.frame.n /\ e.frame.comps = d.frame.comps
  BY <1>1, <1>2, <1>3, <1>4, TokenFacts
<1>6. ObjectOK(e)
  BY <1>3, <1>5 DEF ObjectOK, FrameOK, Keeps, Fields, None
<1>7. Ready(e)
  BY <1>3, <1>5 DEF Ready, Keeps, Fields
<1>8. QED
  BY <1>3, <1>5, <1>6, <1>7 DEF e

LEMMA EndCallKeepsTypeInv ==
    ASSUME TypeInv, EndCall PROVE TypeInv'
<1>1. /\ pc = "finish" /\ dinfo' = Abort(dinfo) /\ pc' = "idle" /\ warning' = warning
      /\ written' \in IF call = "transform" /\ ~warning
                      THEN {Compose(dinfo), Compose(TurnedSideways(dinfo))} ELSE {written}
      /\ UNCHANGED <<source, call, calls, inherited>>
  BY DEF EndCall, Finishing
<1>2. ObjectOK(dinfo) /\ IsObject(dinfo) /\ FinishOK(dinfo, call) /\ FileInv
      /\ warning \in BOOLEAN /\ call \in {"header", "transform"}
  BY <1>1 DEF TypeInv, PlaceInv, PlaceOK, ObjectOK
<1>3. IsFile(written') /\ (written' = written \/ written' # <<>>)
  <2>1. CASE call = "transform" /\ ~warning
    <3>1. PICK d \in {dinfo, TurnedSideways(dinfo)} : written' = Compose(d)
      BY <1>1, <2>1
    <3>2. ObjectOK(d) /\ Ready(d)
      BY <1>2, <2>1, <3>1, TurnedIsReady DEF FinishOK
    <3>3. /\ IsFile(Compose(d)) /\ Len(Compose(d)) = Len(NewMarkers(d)) + d.frame.n + 6
          /\ d.frame.n \in Nat /\ IsFile(NewMarkers(d))
      BY <3>2, ComposedFile DEF Composed
    <3>4. Len(Compose(d)) # 0
      BY <3>3, FileFacts
    <3>5. QED
      BY <3>1, <3>3, <3>4, EmptyFile
  <2>2. CASE ~(call = "transform" /\ ~warning)
    BY <1>1, <1>2, <2>2 DEF FileInv
  <2>3. QED
    BY <2>1, <2>2
<1>4. source.damage # None => Tokens' = Tokens
  BY <1>1, <1>2 DEF FileInv, Tokens
<1>5. FileInv'
  BY <1>1, <1>2, <1>3, <1>4 DEF FileInv
<1>6. ObjectOK(dinfo)' /\ dinfo'.state = "START"
  <2> DEFINE e == Abort(dinfo)
  <2>1. Keeps(dinfo, e, {"state", "saved", "coefs", "latched", "scan", "mcu", "toGo", "last", "insufficient"})
        /\ e.state = "START" /\ e.saved = <<>>
    BY <1>2, AbortFields
  <2> HIDE DEF e
  <2>2. ObjectOK(e)
    BY <1>2, <2>1, EmptyFile DEF ObjectOK, Keeps, FrameOK, Fields
  <2>3. QED
    BY <1>1, <2>1, <2>2 DEF e
<1>7. QED
  BY <1>1, <1>2, <1>5, <1>6 DEF TypeInv, PlaceInv, IdleOK

\* The file of the next state has a length too.
HasSize == Size \in Nat
LEMMA SizeIsNatAlways == FileInv => HasSize
BY SizeIsNat DEF HasSize
LEMMA SizeIsNatNext == FileInv' => Size' \in Nat
<1>1. FileInv' => HasSize'
  BY SizeIsNatAlways, PTL
<1>2. QED
  BY <1>1 DEF HasSize

\* The files that a call may begin with.
GoodFile(file) ==
    \/ \E name \in DOMAIN Sounds : file = Sound(name)
    \/ file = Sound("written") /\ written # <<>>
    \/ /\ file.name \in DOMAIN Sounds /\ file.damage \in {"lost", "repeated", "inserted", "replaced"}
       /\ IsToken(file.stray)
       /\ file.from \in 1 .. Len(Sounds[file.name])
       /\ file.to \in file.from .. Len(Sounds[file.name])

\* Begin takes no other files.
LEMMA FilesAreGood == \A file \in Files : GoodFile(file)
BY DEF Files, GoodFile

LEMMA DamagedFilesAreGood ==
    ASSUME NEW name \in DOMAIN Sounds, NEW file \in Damaged(name)
    PROVE  GoodFile(file)
<1> DEFINE size == Len(Sounds[name])
           Stretches == {r \in (1..size) \X (1..size) : r[1] <= r[2] /\ r[2] < r[1] + Span}
<1>1. size \in Nat /\ IsToken(EOI) /\ \A t \in Strays : IsToken(t)
  BY FilesAssumption, FileFacts, TokenFacts DEF IsSoundFile
<1>2. \/ \E damage \in {"lost", "repeated"}, r \in Stretches : file = File(name, damage, r[1], r[2], EOI)
      \/ \E i \in 2 .. size : file = File(name, "lost", i, size, EOI)
      \/ \E damage \in {"inserted", "replaced"}, i \in 1 .. size, t \in Strays :
             file = File(name, damage, i, i, t)
  BY DEF Damaged
<1> DEFINE G(damage, i, j, t) == file = File(name, damage, i, j, t)
<1>3. \E damage \in {"lost", "repeated", "inserted", "replaced"}, i \in 1 .. size, j \in 1 .. size, t \in {EOI} \cup Strays :
         i <= j /\ IsToken(t) /\ G(damage, i, j, t)
  <2>1. CASE \E damage \in {"lost", "repeated"}, r \in Stretches : file = File(name, damage, r[1], r[2], EOI)
    <3>1. PICK damage \in {"lost", "repeated"}, r \in Stretches : G(damage, r[1], r[2], EOI)
      BY <2>1
    <3>2. r[1] \in 1 .. size /\ r[2] \in 1 .. size /\ r[1] <= r[2]
      BY <3>1
    <3> HIDE DEF G, size, Stretches
    <3>3. QED
      BY <1>1, <3>1, <3>2
  <2>2. CASE \E i \in 2 .. size : file = File(name, "lost", i, size, EOI)
    <3>1. PICK i \in 2 .. size : G("lost", i, size, EOI)
      BY <2>2
    <3>2. i \in 1 .. size /\ size \in 1 .. size /\ i <= size
      BY <1>1
    <3> HIDE DEF G, size
    <3>3. QED
      BY <1>1, <3>1, <3>2
  <2>3. CASE \E damage \in {"inserted", "replaced"}, i \in 1 .. size, t \in Strays :
             file = File(name, damage, i, i, t)
    <3>1. PICK damage \in {"inserted", "replaced"}, i \in 1 .. size, t \in Strays : G(damage, i, i, t)
      BY <2>3
    <3> HIDE DEF G, size
    <3>2. QED
      BY <1>1, <3>1
  <2>4. QED
    BY <1>2, <2>1, <2>2, <2>3
<1>4. PICK damage \in {"lost", "repeated", "inserted", "replaced"}, i \in 1 .. size, j \in 1 .. size, t \in {EOI} \cup Strays :
         i <= j /\ IsToken(t) /\ G(damage, i, j, t)
  <2> HIDE DEF G, size
  <2>1. QED
    BY <1>3
<1>5. /\ file.name = name /\ file.damage = damage /\ file.from = i /\ file.to = j
      /\ file.stray = t
  BY <1>4 DEF File
<1>6. QED
  BY <1>1, <1>4, <1>5 DEF GoodFile

\* A call begins with a new object or with one in a header.
LEMMA BeginCallKeepsTypeInv ==
    ASSUME TypeInv, NEW kind \in {"header", "transform"}, NEW file, GoodFile(file),
           BeginCall(kind, file)
    PROVE  TypeInv'
<1> DEFINE d == [dinfo EXCEPT !.keep = @ \/ kind = "transform"]
           e == [Reset(d) EXCEPT !.state = "INHEADER"]
<1>1. /\ pc = "idle" /\ source' = file /\ next' = 1 /\ warning' = FALSE
      /\ call' = kind /\ pc' = "reading" /\ result' = None /\ calls' = calls + 1
      /\ dinfo' = (IF d.state = "START" THEN e ELSE d) /\ written' = written
  BY DEF BeginCall
<1>2. ObjectOK(dinfo) /\ IsObject(dinfo) /\ IdleOK(dinfo, call, result) /\ FileInv
  BY <1>1 DEF TypeInv, PlaceInv, ObjectOK
<1>3. Keeps(dinfo, d, {"keep"})
  BY <1>2 DEF IsObject, Fields, Keeps
<1>4. FileInv'
  <2>1. CASE \E name \in DOMAIN Sounds : file = Sound(name)
    <3>1. PICK name \in DOMAIN Sounds : file = Sound(name)
      BY <2>1
    <3>2. source'.name = name /\ source'.damage = None
      BY <1>1, <3>1 DEF Sound, File
    <3>3. name # "written"
      BY FilesAssumption
    <3>4. QED
      BY <1>1, <1>2, <3>2, <3>3 DEF FileInv
  <2>2. CASE file = Sound("written") /\ written # <<>>
    <3>1. source'.name = "written" /\ source'.damage = None
      BY <1>1, <2>2 DEF Sound, File
    <3>2. QED
      BY <1>1, <1>2, <2>2, <3>1 DEF FileInv
  <2>3. CASE /\ file.name \in DOMAIN Sounds /\ file.damage \in {"lost", "repeated", "inserted", "replaced"}
             /\ IsToken(file.stray)
             /\ file.from \in 1 .. Len(Sounds[file.name])
             /\ file.to \in file.from .. Len(Sounds[file.name])
    <3>1. Tokens' = Sounds[file.name]
      BY <1>1, <2>3, FilesAssumption DEF Tokens
    <3>2. file.name # "written"
      BY <2>3, FilesAssumption
    <3>3. QED
      BY <1>1, <1>2, <2>3, <3>1, <3>2 DEF FileInv
  <2>4. QED
    BY <2>1, <2>2, <2>3 DEF GoodFile
<1>5. 1 \in 1 .. Size' + 1
  BY <1>4, SizeIsNatNext
<1>6. calls' > 0
  BY <1>1, <1>2 DEF FileInv
<1> HIDE DEF d
<1>7. ObjectOK(d)
  BY <1>2, <1>3 DEF ObjectOK, Keeps, Fields
<1>8. ObjectOK(dinfo') /\ InHeader(dinfo') /\ (~dinfo'.sawSOI => Untouched(dinfo'))
  <2>1. CASE d.state = "START"
    <3> DEFINE r == Reset(d)
    <3>1. /\ Keeps(d, r, {"consume", "multiple", "eoi", "inheaders", "unread", "sawSOI", "frame"})
          /\ r.consume = "markers" /\ r.eoi = FALSE /\ r.inheaders = TRUE
          /\ r.unread = NoMarker /\ r.frame = NoMarker
      BY <1>7, ResetFields DEF ObjectOK
    <3>2. /\ Keeps(r, e, {"state"}) /\ e.state = "INHEADER"
      <4> HIDE DEF r
      <4>1. e = [r EXCEPT !.state = "INHEADER"]
        BY DEF r
      <4>2. QED
        BY <3>1, <4>1 DEF Keeps, IsObject, Fields
    <3> HIDE DEF e, r
    <3>3. d.saved = <<>>
      BY <1>7, <2>1 DEF ObjectOK
    <3>4. /\ e.expected = d.expected /\ e.quant = d.quant /\ e.saved = d.saved
          /\ e.consume = "markers" /\ e.eoi = FALSE /\ e.inheaders = TRUE
          /\ e.unread = NoMarker /\ e.frame = NoMarker
      BY <3>1, <3>2 DEF Keeps, Fields
    <3>5. ObjectOK(e)
      BY <1>7, <3>2, <3>4 DEF ObjectOK, FrameOK, Keeps
    <3>6. ObjectOK(e) /\ InHeader(e) /\ Untouched(e)
      BY <3>2, <3>3, <3>4, <3>5 DEF InHeader, Untouched
    <3>7. QED
      BY <1>1, <2>1, <3>6
  <2>2. CASE d.state # "START"
    <3>1. InHeader(dinfo) /\ (~dinfo.sawSOI => Untouched(dinfo))
      BY <1>2, <1>3, <2>2 DEF IdleOK, Keeps, Fields
    <3>2. InHeader(d) /\ (~d.sawSOI => Untouched(d))
      BY <1>3, <3>1 DEF InHeader, Untouched, Keeps, Fields
    <3>3. QED
      BY <1>1, <1>7, <2>2, <3>2
  <2>3. QED
    BY <2>1, <2>2
<1>9. ObjectOK(dinfo)' /\ ReadingOK(dinfo, next, call)'
  BY <1>1, <1>8 DEF ObjectOK, ReadingOK, AtStart, InHeader, Untouched
<1>10. QED
  BY <1>1, <1>4, <1>5, <1>6, <1>9 DEF TypeInv, PlaceInv, PlaceOK

LEMMA BeginKeepsTypeInv ==
    ASSUME TypeInv, Begin PROVE TypeInv'
<1>1. PICK kind \in {"header", "transform"} :
        \/ \E file \in Files : BeginCall(kind, file)
        \/ \E name \in DOMAIN Sounds : \E file \in Damaged(name) : BeginCall(kind, file)
  BY DEF Begin
<1>2. CASE \E file \in Files : BeginCall(kind, file)
  BY <1>2, FilesAreGood, BeginCallKeepsTypeInv
<1>3. CASE \E name \in DOMAIN Sounds : \E file \in Damaged(name) : BeginCall(kind, file)
  BY <1>3, DamagedFilesAreGood, BeginCallKeepsTypeInv
<1>4. QED
  BY <1>1, <1>2, <1>3

\* A step in which nothing changes.
LEMMA StutterKeepsTypeInv ==
    ASSUME TypeInv, UNCHANGED vars PROVE TypeInv'
<1> USE DEF vars
<1>1. FileInv'
  BY SameFile DEF TypeInv, FileInv
<1>2. ObjectOK(dinfo)'
  BY DEF TypeInv, ObjectOK
<1>3. AtStart(dinfo, next)' <=> AtStart(dinfo, next)
  BY SameFile DEF AtStart
<1>4. PlaceInv'
  BY <1>3, SameFile DEF TypeInv, PlaceInv, IdleOK, PlaceOK, ReadingOK, DecodingOK, FinishOK, Ready, InHeader, Untouched
<1>5. QED
  BY <1>1, <1>2, <1>4 DEF TypeInv

\* The invariant holds of every file, damage and sequence of calls.
THEOREM TypeInvHolds == Spec => []TypeInv
<1>1. Init => TypeInv
  BY TypeInvInit
<1>2. TypeInv /\ [Next]_vars => TypeInv'
  <2> SUFFICES ASSUME TypeInv, [Next]_vars PROVE TypeInv'
    OBVIOUS
  <2>1. CASE Begin
    BY <2>1, BeginKeepsTypeInv
  <2>2. CASE ReadMarkers
    BY <2>2, ReadAfterEOIKeepsTypeInv, FirstMarkerKeepsTypeInv, NextMarkerOfHeadersKeepsTypeInv,
       GetSOIKeepsTypeInv, GetSOFKeepsTypeInv, GetTablesKeepsTypeInv, SaveMarkerKeepsTypeInv,
       SkipMarkerKeepsTypeInv, UnknownMarkerKeepsTypeInv, GetSOSKeepsTypeInv, GetEOIKeepsTypeInv
       DEF ReadMarkers
  <2>3. CASE ConsumeData
    BY <2>3, ReadRestartMarkerKeepsTypeInv, DiscardKeepsTypeInv, SkipKeepsTypeInv,
       LeaveKeepsTypeInv, LeaveMcuKeepsTypeInv, StuffZerosKeepsTypeInv, DecodeMcuKeepsTypeInv,
       DecodeOutOfStepKeepsTypeInv DEF ConsumeData
  <2>4. CASE Mismatch
    BY <2>4, MismatchKeepsTypeInv
  <2>5. CASE EndCall
    BY <2>5, EndCallKeepsTypeInv
  <2>6. CASE UNCHANGED vars
    BY <2>6, StutterKeepsTypeInv
  <2>7. QED
    BY <2>1, <2>2, <2>3, <2>4, <2>5, <2>6 DEF Next, Work
<1>3. QED
  BY <1>1, <1>2, PTL DEF Spec

\* TypeOK: the state of the object agrees with where the call is, and a pass over
\* data has MCUs left and arrays to put them in, for any files and damage.
THEOREM ObjectAgrees == Spec => []TypeOK
BY TypeInvHolds, TypeInvOK, PTL

\* What is copied of n tokens depends on these only.
LEMMA CopiedPrefix ==
    ASSUME NEW f, IsFile(f), NEW g, IsFile(g), NEW n \in 0 .. Len(f), n <= Len(g), NEW r,
           \A i \in 1 .. n : f[i] = g[i]
    PROVE  Copied(f, n, r) = Copied(g, n, r)
<1> DEFINE T == {m \in 0 .. n : Copied(f, m, r) = Copied(g, m, r)}
<1>1. Len(f) \in Nat /\ Len(g) \in Nat /\ n \in Nat
  BY FileFacts
<1>2. 0 \in T
  BY <1>1, CopiedUnfolds
<1>3. ASSUME NEW m \in 0 .. n - 1, m \in T PROVE m + 1 \in T
  <2>1. m + 1 \in 1 .. Len(f) /\ m + 1 \in 1 .. Len(g) /\ m + 1 \in 1 .. n /\ m + 1 \in 0 .. n
        /\ (m + 1) - 1 = m
    BY <1>1
  <2>2. CopiedOne(f, m + 1, r) /\ CopiedOne(g, m + 1, r)
    BY <2>1, CopiedUnfolds
  <2>3. f[m + 1] = g[m + 1] /\ Copied(f, m, r) = Copied(g, m, r)
    BY <1>3, <2>1
  <2>4. Copied(f, m + 1, r) = Copied(g, m + 1, r)
    BY <2>1, <2>2, <2>3 DEF CopiedOne
  <2>5. QED
    BY <2>1, <2>4
<1>4. 0 .. n \subseteq T
  <2> HIDE DEF T
  <2>1. QED
    BY <1>1, <1>2, <1>3, BoundedInduction
<1>5. n \in T
  BY <1>1, <1>4
<1>6. QED
  BY <1>5

\* One more token.
LEMMA CopiedAppend ==
    ASSUME NEW f, IsFile(f), NEW t, IsToken(t), NEW r
    PROVE  Copied(Append(f, t), Len(f) + 1, r) =
               IF Copyable(t, r) THEN Append(Copied(f, Len(f), r), t) ELSE Copied(f, Len(f), r)
<1> DEFINE g == Append(f, t)
<1>1. /\ IsFile(g) /\ Len(g) = Len(f) + 1
      /\ \A i \in 1 .. Len(f) : g[i] = f[i]
      /\ g[Len(f) + 1] = t
  BY AppendFile
<1>2. Len(f) \in Nat
  BY FileFacts
<1> HIDE DEF g
<1>3. Copied(f, Len(f), r) = Copied(g, Len(f), r)
  BY <1>1, <1>2, CopiedPrefix
<1>4. Len(f) + 1 \in 1 .. Len(g) /\ (Len(f) + 1) - 1 = Len(f)
  BY <1>1, <1>2
<1>5. CopiedOne(g, Len(f) + 1, r)
  BY <1>1, <1>4, CopiedUnfolds
<1>6. QED
  BY <1>1, <1>3, <1>4, <1>5 DEF CopiedOne, g

\* What has been copied is copied whole.
LEMMA CopiedAgain ==
    ASSUME NEW f, IsFile(f), NEW n \in 0 .. Len(f), NEW r
    PROVE  Copied(Copied(f, n, r), Len(Copied(f, n, r)), r) = Copied(f, n, r)
<1> DEFINE P(c) == Copied(c, Len(c), r) = c
           T == {m \in 0 .. Len(f) : P(Copied(f, m, r))}
<1>1. Len(f) \in Nat
  BY FileFacts
<1>2. 0 \in T
  <2>1. Copied(f, 0, r) = <<>>
    BY CopiedUnfolds
  <2>2. P(<<>>)
    BY EmptyFile, CopiedUnfolds
  <2> HIDE DEF P
  <2>3. QED
    BY <1>1, <2>1, <2>2
<1>3. ASSUME NEW m \in 0 .. Len(f) - 1, m \in T PROVE m + 1 \in T
  <2> DEFINE c == Copied(f, m, r)
             t == f[m + 1]
  <2>1. m + 1 \in 1 .. Len(f) /\ (m + 1) - 1 = m /\ m \in 0 .. Len(f) /\ m + 1 \in 0 .. Len(f)
    BY <1>1
  <2>2. IsFile(c) /\ IsToken(t) /\ P(c)
    BY <1>3, <2>1, CopiedIsFile, FileFacts
  <2>3. Copied(f, m + 1, r) = IF Copyable(t, r) THEN Append(c, t) ELSE c
    BY <2>1, CopiedUnfolds DEF CopiedOne
  <2> HIDE DEF c, t
  <2>4. Len(Append(c, t)) = Len(c) + 1
    BY <2>2, AppendFile
  <2>5. Copyable(t, r) => P(Append(c, t))
    BY <2>2, <2>4, CopiedAppend
  <2> HIDE DEF P
  <2>6. P(Copied(f, m + 1, r))
    BY <2>2, <2>3, <2>5
  <2>7. QED
    BY <2>1, <2>6
<1>4. 0 .. Len(f) \subseteq T
  <2> HIDE DEF T
  <2>1. QED
    BY <1>1, <1>2, <1>3, BoundedInduction
<1>5. n \in T
  BY <1>4
<1>6. QED
  BY <1>5

\* Tokens that are not copied change nothing.
LEMMA CopiedOver ==
    ASSUME NEW f, IsFile(f), NEW m \in 0 .. Len(f), NEW n \in m .. Len(f), NEW r,
           \A i \in m + 1 .. n : ~Copyable(f[i], r)
    PROVE  Copied(f, n, r) = Copied(f, m, r)
<1>1. m \in Nat /\ n \in Nat /\ Len(f) \in Nat
  BY FileFacts
<1> DEFINE T == {j \in 0 .. n - m : Copied(f, m + j, r) = Copied(f, m, r)}
<1>2. 0 \in T /\ n - m \in Nat
  BY <1>1
<1>3. ASSUME NEW j \in 0 .. (n - m) - 1, j \in T PROVE j + 1 \in T
  <2>1. /\ m + (j + 1) \in 1 .. Len(f) /\ m + (j + 1) \in m + 1 .. n
        /\ (m + (j + 1)) - 1 = m + j /\ j + 1 \in 0 .. n - m
    BY <1>1
  <2>2. Copied(f, m + (j + 1), r) = Copied(f, m + j, r)
    BY <2>1, CopiedUnfolds DEF CopiedOne
  <2>3. QED
    BY <1>3, <2>1, <2>2
<1>4. 0 .. n - m \subseteq T
  <2> HIDE DEF T
  <2>1. QED
    BY <1>2, <1>3, BoundedInduction
<1>5. n - m \in T /\ m + (n - m) = n
  BY <1>1, <1>2, <1>4
<1>6. QED
  BY <1>5

\* The writer copies the markers that it does not replace, and writes its own once.
LEMMA ComposedMarkers ==
    ASSUME NEW d, ObjectOK(d), Ready(d)
    PROVE  LET made == Compose(d)
               IsOwn(i) == made[i].k = "APP" /\ made[i].name \in Replaced(d)
           IN  /\ Copied(made, Len(made), Replaced(d)) = KeptOf(d)
               /\ \A i, j \in 1 .. Len(made) : IsOwn(i) /\ IsOwn(j) => i = j
<1> DEFINE kept == NewMarkers(d)
           made == Compose(d)
           own == Own(d)
           old == KeptOf(d)
           k == Len(kept)
           o == Len(own)
           n == d.frame.n
           r == Replaced(d)
<1>1. /\ IsFile(kept) /\ IsFile(made)
      /\ \A i \in 1 .. k : kept[i].k = "APP"
      /\ n \in Nat /\ n > 0 /\ IsToken(d.frame) /\ d.frame.k = "SOF"
      /\ Composed(d, made, kept, k, n)
  BY ComposedFile
<1>2. Copied(old, Len(old), r) = old
  <2>1. IsFile(d.saved)
    BY DEF ObjectOK
  <2>2. Len(d.saved) \in 0 .. Len(d.saved)
    BY <2>1, FileFacts
  <2>3. QED
    BY <2>1, <2>2, CopiedAgain DEF KeptOf
<1>3. /\ IsFile(own) /\ o \in {0, 1} /\ \A i \in 1 .. o : own[i].k = "APP" /\ own[i].name \in r
      /\ IsFile(old) /\ \A i \in 1 .. Len(old) : Copyable(old[i], r)
      /\ Joined(kept, own, old)
  BY OwnMarkers, MarkersMade
<1> HIDE DEF made, kept, own, old, k, o, n, r
<1>4. k \in Nat /\ Len(old) \in Nat /\ k = o + Len(old) /\ o \in Nat
  BY <1>1, <1>3, FileFacts DEF Joined, k, o
<1>5. /\ Len(made) = k + n + 6
      /\ made[1] = Marker("SOI")
      /\ \A i \in 1 .. k : made[i + 1] = kept[i]
      /\ made[k + 2] = Named("DQT", d.quant) /\ made[k + 3] = d.frame
      /\ made[k + 4] = Named("DHT", "standard") /\ made[k + 5] = SOS(d.frame.comps)
      /\ \A i \in 1 .. n : made[k + 5 + i] = McuOf(d, i)
      /\ made[k + n + 6] = EOI
  BY <1>1 DEF Composed
\* A token that is no marker of the file, and the tokens that are.
<1>6. ASSUME NEW i \in 1 .. Len(made), i = 1 \/ i > k + 1 PROVE made[i].k # "APP"
  <2>1. made[1].k = "SOI" /\ made[k + n + 6].k = "EOI"
    BY <1>5 DEF Marker, EOI
  <2>2. /\ made[k + 2].k = "DQT" /\ made[k + 3].k = "SOF" /\ made[k + 4].k = "DHT"
        /\ made[k + 5].k = "SOS"
    BY <1>1, <1>5, NamedFields, SOSFields
  <2>3. CASE i \in k + 6 .. k + n + 5
    <3>1. i - (k + 5) \in 1 .. n /\ k + 5 + (i - (k + 5)) = i
      BY <1>1, <1>4, <2>3
    <3>2. made[i] = McuOf(d, i - (k + 5))
      BY <1>5, <3>1
    <3>3. QED
      BY <3>2, DataFields DEF McuOf
  <2>4. i = 1 \/ i = k + 2 \/ i = k + 3 \/ i = k + 4 \/ i = k + 5
        \/ i \in k + 6 .. k + n + 5 \/ i = k + n + 6
    <3>1. i \in Int /\ i >= 1 /\ i <= k + n + 6
      BY <1>1, <1>4, <1>5
    <3>2. QED
      BY <1>1, <1>4, <1>6, <3>1
  <2>5. QED
    BY <2>1, <2>2, <2>3, <2>4
<1>7. \A j \in 1 .. o : made[1 + j] = own[j]
  BY <1>3, <1>4, <1>5 DEF Joined, o
<1>8. ASSUME NEW j \in 1 .. Len(old) PROVE made[1 + o + j] = old[j]
  <2>1. o + j \in 1 .. k /\ (o + j) + 1 = 1 + o + j
    BY <1>4
  <2>2. kept[o + j] = old[j]
    BY <1>3 DEF Joined, o
  <2>3. QED
    BY <1>5, <2>1, <2>2
<1>9. ASSUME NEW i \in 1 .. Len(made), made[i].k = "APP", made[i].name \in r PROVE i = 2
  <2>1. i \in 2 .. k + 1
    BY <1>4, <1>5, <1>6, <1>9
  <2>2. CASE i > 1 + o
    <3>1. i - (1 + o) \in 1 .. Len(old) /\ 1 + o + (i - (1 + o)) = i
      BY <1>4, <2>1, <2>2
    <3>2. QED
      BY <1>3, <1>8, <1>9, <3>1 DEF Copyable
  <2>3. QED
    BY <1>3, <1>4, <2>1, <2>2
<1>10. Copied(made, 1 + o, r) = <<>>
  <2>1. 1 + o \in 0 .. Len(made) /\ 0 \in 0 .. Len(made)
    BY <1>1, <1>4, <1>5
  <2>2. ASSUME NEW i \in 0 + 1 .. 1 + o PROVE ~Copyable(made[i], r)
    <3>1. CASE i = 1
      <4>1. 1 \in 1 .. Len(made)
        BY <1>1, <1>4, <1>5
      <4>2. QED
        BY <1>6, <3>1, <4>1 DEF Copyable
    <3>2. CASE i # 1
      <4>1. i - 1 \in 1 .. o /\ 1 + (i - 1) = i
        BY <1>4, <3>2
      <4>2. QED
        BY <1>3, <1>7, <4>1 DEF Copyable
    <3>3. QED
      BY <3>1, <3>2
  <2>3. Copied(made, 1 + o, r) = Copied(made, 0, r)
    BY <1>1, <1>4, <2>1, <2>2, CopiedOver
  <2>4. QED
    BY <1>1, <2>3, CopiedUnfolds
<1>11. Copied(made, k + 1, r) = Copied(old, Len(old), r)
  <2> DEFINE m == Len(old)
             T == {j \in 0 .. m : Copied(made, 1 + o + j, r) = Copied(old, j, r)}
  <2>1. 0 \in T
    BY <1>3, <1>4, <1>10, CopiedUnfolds
  <2>2. ASSUME NEW j \in 0 .. m - 1, j \in T PROVE j + 1 \in T
    <3>1. /\ 1 + o + (j + 1) \in 1 .. Len(made) /\ (1 + o + (j + 1)) - 1 = 1 + o + j
          /\ j + 1 \in 1 .. m /\ (j + 1) - 1 = j /\ j + 1 \in 0 .. m
      BY <1>1, <1>4, <1>5
    <3>2. CopiedOne(made, 1 + o + (j + 1), r) /\ CopiedOne(old, j + 1, r)
      BY <1>1, <1>3, <3>1, CopiedUnfolds
    <3>3. made[1 + o + (j + 1)] = old[j + 1]
      BY <1>8, <3>1
    <3>4. Copied(made, 1 + o + (j + 1), r) = Copied(old, j + 1, r)
      BY <2>2, <3>1, <3>2, <3>3 DEF CopiedOne
    <3>5. QED
      BY <3>1, <3>4
  <2>3. 0 .. m \subseteq T
    <3> HIDE DEF T
    <3>1. QED
      BY <1>4, <2>1, <2>2, BoundedInduction
  <2>4. m \in T /\ 1 + o + m = k + 1
    BY <1>4, <2>3
  <2>5. QED
    BY <2>4
<1>12. Copied(made, Len(made), r) = Copied(made, k + 1, r)
  <2>1. k + 1 \in 0 .. Len(made) /\ Len(made) \in k + 1 .. Len(made)
    BY <1>1, <1>4, <1>5
  <2>2. \A i \in (k + 1) + 1 .. Len(made) : ~Copyable(made[i], r)
    BY <1>4, <1>6 DEF Copyable
  <2>3. QED
    BY <1>1, <2>1, <2>2, CopiedOver
<1>13. Copied(made, Len(made), r) = old
  BY <1>2, <1>11, <1>12
<1>14. QED
  BY <1>9, <1>13 DEF made, old, r

(***************************************************************************)
(* The markers that a transformation has saved.                            *)
(***************************************************************************)

\* The file as it is read.
FileRead == [i \in 1..Size |-> At(i)]
\* What the first n tokens of the file have to be copied, whatever is replaced, is
\* what has been saved.
Gathered(saved, n) ==
    /\ n \in 0..Size
    /\ \A i \in 1..n : At(i).k # "EOI"
    /\ \A r : Copied(saved, Len(saved), r) = Copied(FileRead, n, r)

\* An object that a failed tjDecompressHeader3() left within a header that it
\* will never get out of.
Stuck(d) ==
    /\ d.sawSOI /\ d.inheaders
    /\ \/ d.eoi \/ d.frame.name # None
       \/ d.unread.k \in {"SOI", "SOF", "DHT", "DQT", "DRI", "RES", "SOS", "EOI"}

\* A call on such an object will fail: a stuck header has been met, or will be when
\* its marker is parsed with the start of the new file.
Doomed(d, l, n) ==
    /\ l = "reading" /\ d.state = "INHEADER" /\ Stuck(d)
    /\ d.eoi \/ d.frame.name # None \/ n = 1

\* The object has kept up with the file.
Following(d, l, n) ==
    \/ /\ l # "finish"
       /\ Gathered(d.saved, IF d.unread = NoMarker THEN n - 1 ELSE n - 2)
       /\ d.unread # NoMarker => d.unread = At(n - 1)
    \/ /\ l = "finish" /\ n - 1 \in 1..Size /\ At(n - 1).k = "EOI"
       /\ Gathered(d.saved, n - 2)

\* A transformation saves markers, and has all of them so far, unless it has
\* warned or will fail.
MarkerInv ==
    /\ pc = "idle" /\ dinfo.state = "INHEADER" /\ dinfo.sawSOI => Stuck(dinfo)
    /\ pc # "idle" /\ call = "transform" =>
           /\ dinfo.keep
           /\ Doomed(dinfo, pc, next) \/ warning \/ Following(dinfo, pc, next)

-----------------------------------------------------------------------------
\* What is gathered grows with the file.
LEMMA FileReadIsFile ==
    ASSUME FileInv
    PROVE  IsFile(FileRead) /\ Len(FileRead) = Size /\ \A i \in 1 .. Size : FileRead[i] = At(i)
<1>1. Size \in Nat
  BY SizeIsNat
<1>2. DOMAIN FileRead = 1 .. Size /\ \A i \in 1 .. Size : FileRead[i] = At(i)
  BY DEF FileRead
<1>3. FileRead = [i \in 1 .. Size |-> FileRead[i]]
  BY DEF FileRead
<1>4. \A i \in 1 .. Size : IsToken(FileRead[i])
  BY <1>1, <1>2, AtIsToken
<1>5. QED
  BY <1>1, <1>2, <1>3, <1>4, FilledFile

LEMMA GatherMarker ==
    ASSUME FileInv, NEW s, IsFile(s), NEW n, Gathered(s, n), n + 1 \in 1 .. Size,
           At(n + 1).k # "EOI"
    PROVE  /\ At(n + 1).k # "APP" => Gathered(s, n + 1)
           /\ At(n + 1).k = "APP" => Gathered(Append(s, At(n + 1)), n + 1)
<1> DEFINE t == At(n + 1)
<1>1. n \in Nat /\ Size \in Nat /\ n + 1 \in 0 .. Size /\ (n + 1) - 1 = n /\ n + 1 \in 1 .. Size + 1
  BY SizeIsNat DEF Gathered
<1>2. \A i \in 1 .. n + 1 : At(i).k # "EOI"
  BY <1>1 DEF Gathered
<1>5. IsToken(t) /\ FileRead[n + 1] = t
  BY <1>1, AtIsToken, FileReadIsFile
<1> HIDE DEF t
<1>6. ASSUME NEW r
      PROVE  /\ Copied(Append(s, t), Len(Append(s, t)), r) = Copied(FileRead, n + 1, r)
             /\ t.k # "APP" => Copied(s, Len(s), r) = Copied(FileRead, n + 1, r)
  <2>1. CopiedOne(FileRead, n + 1, r)
    BY <1>1, FileReadIsFile, CopiedUnfolds
  <2>2. Copied(s, Len(s), r) = Copied(FileRead, n, r)
    BY DEF Gathered
  <2>3. Copied(FileRead, n + 1, r) =
            IF Copyable(t, r) THEN Append(Copied(s, Len(s), r), t) ELSE Copied(s, Len(s), r)
    BY <1>1, <1>5, <2>1, <2>2 DEF CopiedOne
  <2>4. Len(Append(s, t)) = Len(s) + 1
    BY <1>5, AppendFile
  <2>5. QED
    BY <1>5, <2>3, <2>4, CopiedAppend DEF Copyable
<1>9. QED
  BY <1>1, <1>2, <1>6 DEF Gathered, t

LEMMA GatherData ==
    ASSUME FileInv, NEW s, NEW n, Gathered(s, n), NEW m \in n .. Size,
           \A l \in n + 1 .. m : At(l).k \in {"data", "RST"}
    PROVE  Gathered(s, m)
<1>1. n \in 0 .. Size /\ Size \in Nat
  BY SizeIsNat DEF Gathered
<1>2. /\ IsFile(FileRead) /\ Len(FileRead) = Size
      /\ \A r : \A l \in n + 1 .. m : ~Copyable(FileRead[l], r)
  BY <1>1, FileReadIsFile DEF Copyable
<1>3. \A r : Copied(FileRead, m, r) = Copied(FileRead, n, r)
  BY <1>1, <1>2, CopiedOver
<1>4. \A i \in 1 .. m : At(i).k # "EOI"
  BY <1>1 DEF Gathered
<1>5. QED
  BY <1>1, <1>3, <1>4 DEF Gathered

LEMMA InTheFile ==
    ASSUME FileInv, NEW i \in 1 .. Size + 1, At(i).k # "EOI"
    PROVE  i \in 1 .. Size /\ ~Starved(i) /\ After(i) = i + 1
<1>1. ~Starved(i)
  BY TokenFacts DEF At
<1>2. QED
  BY <1>1, SizeIsNat DEF Starved, After

-----------------------------------------------------------------------------
\* What a step has to show for this invariant.
LEMMA GoKeepsMarkerInv ==
    ASSUME TypeInv, NEW d, NEW l, Go(d, l), l # "idle",
           call = "transform" => /\ d.keep
                                 /\ Doomed(d, l, next') \/ warning' \/ Following(d, l, next')
    PROVE  MarkerInv'
<1>1. dinfo' = d /\ pc' = l /\ UNCHANGED <<source, call, result, written, calls, inherited>>
  BY DEF Go
<1>2. /\ Size' = Size
      /\ \A i : At(i)' = At(i)
  BY <1>1, SameFile
<1>3. FileRead' = FileRead
  BY <1>2 DEF FileRead
<1>4. Following(dinfo, pc, next)' <=> Following(d, l, next')
  BY <1>1, <1>2, <1>3 DEF Following, Gathered
<1>5. Doomed(dinfo, pc, next)' <=> Doomed(d, l, next')
  BY <1>1 DEF Doomed, Stuck
<1>6. QED
  BY <1>1, <1>4, <1>5 DEF MarkerInv

LEMMA FailKeepsMarkerInv ==
    ASSUME TypeInv, NEW d, IsObject(d), Fail(d),
           call = "header" /\ d.sawSOI => Stuck(d)
    PROVE  MarkerInv'
<1>1. pc' = "idle" /\ UNCHANGED <<source, call, written, calls, inherited>>
      /\ dinfo' = (IF call = "transform" THEN Abort(d) ELSE d)
      /\ call \in {"header", "transform"}
  BY DEF Fail, TypeInv, PlaceInv
<1>2. CASE call = "transform"
  <2>1. dinfo'.state = "START"
    BY <1>1, <1>2, AbortFields
  <2>2. QED
    BY <1>1, <2>1 DEF MarkerInv
<1>3. CASE call = "header"
  BY <1>1, <1>3 DEF MarkerInv, Stuck
<1>4. QED
  BY <1>1, <1>2, <1>3

-----------------------------------------------------------------------------
\* The steps of read_markers() keep it.
LEMMA ReadAfterEOIKeepsMarkerInv ==
    ASSUME TypeInv, MarkerInv, ReadAfterEOI PROVE MarkerInv'
<1>1. Reading /\ dinfo.eoi /\ Fail(dinfo)
  BY DEF ReadAfterEOI
<1>2. call = "header" /\ dinfo.sawSOI => Stuck(dinfo)
  BY <1>1, WhileReading DEF Stuck, InHeader
<1>3. QED
  BY <1>1, <1>2, WhileReading, FailKeepsMarkerInv

LEMMA FirstMarkerKeepsMarkerInv ==
    ASSUME TypeInv, MarkerInv, FirstMarker PROVE MarkerInv'
<1>1. /\ Reading /\ ~dinfo.eoi /\ dinfo.unread = NoMarker /\ ~dinfo.sawSOI
      /\ next' = After(next)
  BY DEF FirstMarker
<1>2. IsObject(dinfo) /\ FileInv /\ next \in 1 .. Size + 1 /\ pc = "reading"
  BY <1>1, WhileReading
<1>3. CASE At(next).k = "SOI"
  <2> DEFINE d == [dinfo EXCEPT !.unread = At(next)]
  <2>1. Go(d, pc)
    BY <1>3 DEF FirstMarker
  <2>2. Keeps(dinfo, d, {"unread"}) /\ d.unread = At(next)
    BY <1>2, UnreadField
  <2>3. next' = next + 1 /\ At(next) # NoMarker
    <3>1. At(next).k # "EOI" /\ IsToken(At(next))
      BY <1>2, <1>3, AtIsToken
    <3>2. QED
      BY <1>1, <1>2, <3>1, InTheFile, TokenFacts
  <2> HIDE DEF d
  <2>4. ASSUME call = "transform", ~warning' PROVE d.keep /\ Following(d, pc, next')
    <3>1. ~warning
      BY <2>4 DEF FirstMarker
    <3>2. dinfo.keep /\ Gathered(dinfo.saved, next - 1)
      BY <1>1, <1>2, <2>4, <3>1 DEF MarkerInv, Doomed, Stuck, Following
    <3>3. d.saved = dinfo.saved /\ d.keep = dinfo.keep
      BY <2>2 DEF Keeps, Fields
    <3>4. (next + 1) - 2 = next - 1 /\ (next + 1) - 1 = next
      BY <1>2, SizeIsNat
    <3>5. QED
      BY <1>2, <2>2, <2>3, <3>2, <3>3, <3>4 DEF Following
  <2>5. call = "transform" => d.keep
    BY <1>2, <2>2 DEF MarkerInv, Keeps, Fields
  <2>6. QED
    BY <1>2, <2>1, <2>4, <2>5, GoKeepsMarkerInv
<1>4. CASE At(next).k # "SOI"
  BY <1>1, <1>2, <1>4, FailKeepsMarkerInv DEF FirstMarker
<1>5. QED
  BY <1>3, <1>4

LEMMA NextMarkerOfHeadersKeepsMarkerInv ==
    ASSUME TypeInv, MarkerInv, NextMarkerOfHeaders PROVE MarkerInv'
<1> DEFINE found == NextMarker(next)
           d == [dinfo EXCEPT !.unread = At(found)]
<1>1. /\ Reading /\ ~dinfo.eoi /\ dinfo.sawSOI /\ dinfo.unread = NoMarker
      /\ Go(d, pc) /\ next' = After(found)
      /\ warning' = (warning \/ found > next \/ Starved(found))
  BY DEF NextMarkerOfHeaders
<1>2. IsObject(dinfo) /\ FileInv /\ next \in 1 .. Size + 1 /\ pc = "reading" /\ Size \in Nat
  BY <1>1, WhileReading, SizeIsNat
<1>3. Keeps(dinfo, d, {"unread"}) /\ d.unread = At(found)
  BY <1>2, UnreadField
<1>4. found \in 1 .. Size + 1 /\ found >= next /\ At(found) # NoMarker
  BY <1>2, FoundInFile
<1> HIDE DEF d, found
<1>5. ASSUME call = "transform", ~warning'
      PROVE  Doomed(d, pc, next') \/ Following(d, pc, next')
  <2>1. found = next /\ next' = next + 1 /\ ~warning
    <3>1. ~(found > next) /\ ~Starved(found) /\ ~warning
      BY <1>1, <1>5
    <3>2. found = next
      BY <1>2, <1>4, <3>1
    <3>3. QED
      BY <1>1, <3>1, <3>2 DEF After
  <2>2. CASE Doomed(dinfo, pc, next)
    <3>1. dinfo.frame.name # None /\ d.frame = dinfo.frame
      BY <1>1, <1>2, <1>3, <2>2, MarkerInv DEF Doomed, Stuck, NoMarker, Marker, Keeps, Fields, None
    <3>2. QED
      BY <1>3, <2>2, <3>1 DEF Doomed, Stuck, Keeps, Fields
  <2>3. CASE Following(dinfo, pc, next)
    <3>1. Gathered(dinfo.saved, next - 1) /\ d.saved = dinfo.saved
      BY <1>1, <1>2, <1>3, <2>3 DEF Following, Keeps, Fields
    <3>2. (next + 1) - 2 = next - 1 /\ (next + 1) - 1 = next
      BY <1>2
    <3>3. QED
      BY <1>2, <1>3, <1>4, <2>1, <3>1, <3>2 DEF Following
  <2>4. QED
    BY <1>2, <1>5, <2>1, <2>2, <2>3 DEF MarkerInv
<1>6. call = "transform" => d.keep
  BY <1>2, <1>3 DEF MarkerInv, Keeps, Fields
<1>7. QED
  BY <1>1, <1>2, <1>5, <1>6, GoKeepsMarkerInv

\* Which marker is parsed.
LEMMA ParsedMarker ==
    ASSUME TypeInv, NEW kinds, Pending(kinds), Following(dinfo, pc, next)
    PROVE  /\ dinfo.unread = At(next - 1) /\ Gathered(dinfo.saved, next - 2)
           /\ next - 1 \in 1 .. Size /\ (next - 2) + 1 = next - 1
<1>1. pc = "reading" /\ dinfo.unread # NoMarker /\ next \in 1 .. Size + 1 /\ Size \in Nat
  BY WhilePending, WhileReading, SizeIsNat
<1>2. dinfo.unread = At(next - 1) /\ Gathered(dinfo.saved, next - 2)
  BY <1>1 DEF Following
<1>3. next - 2 \in 0 .. Size
  BY <1>2 DEF Gathered
<1>4. QED
  BY <1>1, <1>2, <1>3

LEMMA ParsingKeepsMarkerInv ==
    ASSUME TypeInv, MarkerInv, NEW kinds, Parsing(kinds), NEW d, NEW l, Go(d, l),
           l \notin {"idle", "finish"}, d.unread = NoMarker, d.keep = dinfo.keep,
           d.saved = IF dinfo.unread.k = "APP" /\ dinfo.keep
                     THEN Append(dinfo.saved, dinfo.unread) ELSE dinfo.saved,
           dinfo.unread.k # "EOI",
           Doomed(dinfo, pc, next) => Doomed(d, l, next')
    PROVE  MarkerInv'
<1>1. pc = "reading" /\ next' = next /\ warning' = warning /\ FileInv /\ IsFile(dinfo.saved)
  BY WhileParsing, WhileReading DEF ObjectOK
<1>2. ASSUME call = "transform", Following(dinfo, pc, next) PROVE Following(d, l, next')
  <2>1. /\ dinfo.unread = At(next - 1) /\ Gathered(dinfo.saved, next - 2)
        /\ next - 1 \in 1 .. Size /\ (next - 2) + 1 = next - 1
    BY <1>2, ParsedMarker DEF Parsing
  <2>2. dinfo.keep
    BY <1>1, <1>2 DEF MarkerInv
  <2>3. Gathered(d.saved, next - 1)
    BY <1>1, <2>1, <2>2, GatherMarker
  <2>4. QED
    BY <1>1, <2>3 DEF Following
<1>3. call = "transform" => /\ d.keep
                            /\ Doomed(d, l, next') \/ warning' \/ Following(d, l, next')
  BY <1>1, <1>2 DEF MarkerInv
<1>4. QED
  BY <1>3, GoKeepsMarkerInv

LEMMA ParsingFailsStuck ==
    ASSUME TypeInv, NEW kinds, Parsing(kinds),
           kinds \subseteq {"SOI", "SOF", "DHT", "DQT", "DRI", "RES", "SOS", "EOI"}, Fail(dinfo)
    PROVE  MarkerInv'
<1>1. call = "header" /\ dinfo.sawSOI => Stuck(dinfo)
  BY WhileParsing, WhileReading DEF Stuck, InHeader
<1>2. QED
  BY <1>1, WhileParsing, WhileReading, FailKeepsMarkerInv

LEMMA GetSOIKeepsMarkerInv ==
    ASSUME TypeInv, MarkerInv, GetSOI PROVE MarkerInv'
<1>1. Parsing({"SOI"})
  BY DEF GetSOI
<1>2. CASE dinfo.sawSOI
  BY <1>1, <1>2, ParsingFailsStuck DEF GetSOI
<1>3. CASE ~dinfo.sawSOI
  <2> DEFINE d == Opened
  <2>1. Go(d, pc) /\ pc = "reading" /\ IsObject(dinfo) /\ dinfo.unread.k = "SOI"
    BY <1>1, <1>3, WhileParsing, WhileReading DEF GetSOI, Opened
  <2>2. Keeps(dinfo, d, {"sawSOI", "interval", "unread", "jfif", "adobe"}) /\ d.unread = NoMarker
    BY <2>1, OpenedFields
  <2>3. ~Doomed(dinfo, pc, next)
    BY <1>3 DEF Doomed, Stuck
  <2> HIDE DEF d
  <2>4. d.keep = dinfo.keep /\ d.saved = dinfo.saved
    BY <2>2 DEF Keeps, Fields
  <2>5. QED
    BY <1>1, <2>1, <2>2, <2>3, <2>4, ParsingKeepsMarkerInv
<1>4. QED
  BY <1>2, <1>3

LEMMA GetSOFKeepsMarkerInv ==
    ASSUME TypeInv, MarkerInv, GetSOF PROVE MarkerInv'
<1>1. Parsing({"SOF"})
  BY DEF GetSOF
<1> DEFINE refused == Stale \/ dinfo.frame # NoMarker \/ dinfo.unread.name \in {"unsupported", "empty"}
<1>2. CASE refused
  BY <1>1, <1>2, ParsingFailsStuck DEF GetSOF
<1>3. CASE ~refused
  <2> DEFINE d == [dinfo EXCEPT !.frame = dinfo.unread, !.unread = NoMarker]
  <2>1. /\ Go(d, pc) /\ pc = "reading" /\ IsObject(dinfo) /\ dinfo.unread.k = "SOF" /\ ~dinfo.eoi
    BY <1>1, <1>3, WhileParsing, WhileReading DEF GetSOF
  <2>2. Keeps(dinfo, d, {"frame", "unread"}) /\ d.unread = NoMarker
    BY <2>1 DEF IsObject, Fields, Keeps
  <2>3. ~Doomed(dinfo, pc, next)
    BY <1>3, <2>1, TokenFacts DEF Doomed, Stale
  <2> HIDE DEF d
  <2>4. d.keep = dinfo.keep /\ d.saved = dinfo.saved
    BY <2>2 DEF Keeps, Fields
  <2>5. QED
    BY <1>1, <2>1, <2>2, <2>3, <2>4, ParsingKeepsMarkerInv
<1>4. QED
  BY <1>2, <1>3

\* Tables change neither the frame nor what has been saved.
LEMMA TablesKeepMarkerInv ==
    ASSUME TypeInv, MarkerInv, NEW kinds, Parsing(kinds), dinfo.unread.k \in {"DHT", "DQT", "DRI"},
           ~Stale, NEW d, Go(d, pc), Keeps(dinfo, d, {"tables", "quant", "interval", "unread"}),
           d.unread = NoMarker
    PROVE  MarkerInv'
<1>1. pc = "reading" /\ next' = next /\ ~dinfo.eoi
  BY WhileParsing, WhileReading
<1>2. /\ d.keep = dinfo.keep /\ d.saved = dinfo.saved /\ d.frame = dinfo.frame
      /\ d.sawSOI = dinfo.sawSOI /\ d.inheaders = dinfo.inheaders /\ d.state = dinfo.state
  BY DEF Keeps, Fields
<1>3. Doomed(dinfo, pc, next) => Doomed(d, pc, next')
  BY <1>1, <1>2 DEF Doomed, Stuck, Stale
<1>4. QED
  BY <1>1, <1>2, <1>3, ParsingKeepsMarkerInv

LEMMA GetTablesKeepsMarkerInv ==
    ASSUME TypeInv, MarkerInv, GetTables PROVE MarkerInv'
<1> DEFINE m == dinfo.unread
           e == [dinfo EXCEPT !.unread = NoMarker]
<1>1. Parsing({"DHT", "DQT", "DRI"})
  BY DEF GetTables
<1>2. CASE Stale
  BY <1>1, <1>2, ParsingFailsStuck DEF GetTables
<1>3. CASE ~Stale
  <2>1. m.k \in {"DHT", "DQT", "DRI"} /\ IsObject(dinfo)
    BY <1>1, WhileParsing, WhileReading
  <2>2. CASE m.k = "DHT"
    <3> DEFINE d == [e EXCEPT !.tables = m.name]
    <3>1. Go(d, pc)
      BY <1>3, <2>2 DEF GetTables
    <3>2. Keeps(dinfo, d, {"tables", "quant", "interval", "unread"}) /\ d.unread = NoMarker
      BY <2>1 DEF IsObject, Fields, Keeps
    <3> HIDE DEF d
    <3>3. QED
      BY <1>1, <1>3, <2>1, <3>1, <3>2, TablesKeepMarkerInv
  <2>3. CASE m.k = "DQT"
    <3> DEFINE d == [e EXCEPT !.quant = m.name]
    <3>1. Go(d, pc)
      BY <1>3, <2>3 DEF GetTables
    <3>2. Keeps(dinfo, d, {"tables", "quant", "interval", "unread"}) /\ d.unread = NoMarker
      BY <2>1 DEF IsObject, Fields, Keeps
    <3> HIDE DEF d
    <3>3. QED
      BY <1>1, <1>3, <2>1, <3>1, <3>2, TablesKeepMarkerInv
  <2>4. CASE m.k = "DRI"
    <3> DEFINE d == [e EXCEPT !.interval = m.n]
    <3>1. Go(d, pc)
      BY <1>3, <2>4 DEF GetTables
    <3>2. Keeps(dinfo, d, {"tables", "quant", "interval", "unread"}) /\ d.unread = NoMarker
      BY <2>1 DEF IsObject, Fields, Keeps
    <3> HIDE DEF d
    <3>3. QED
      BY <1>1, <1>3, <2>1, <3>1, <3>2, TablesKeepMarkerInv
  <2>5. QED
    BY <2>1, <2>2, <2>3, <2>4
<1>4. QED
  BY <1>2, <1>3

\* An object that is doomed for its frame stays so.
LEMMA DoomedByFrame ==
    ASSUME TypeInv, NEW kinds, Parsing(kinds), dinfo.unread.k \in {"APP", "RST", "TEM"},
           NEW d, Keeps(dinfo, d, {"unread", "saved", "jfif", "adobe"}), Doomed(dinfo, pc, next)
    PROVE  Doomed(d, pc, next')
<1>1. ~dinfo.eoi
  BY WhileParsing
<1>2. dinfo.frame.name # None
  BY <1>1 DEF Doomed, Stuck
<1>3. QED
  BY <1>2 DEF Doomed, Stuck, Keeps, Fields

LEMMA SaveMarkerKeepsMarkerInv ==
    ASSUME TypeInv, MarkerInv, SaveMarker PROVE MarkerInv'
<1> DEFINE d == Saved
<1>1. Parsing({"APP"}) /\ Go(d, pc)
  BY MarkerIsSaved
<1>2. IsObject(dinfo) /\ dinfo.unread.k = "APP" /\ pc = "reading"
  BY <1>1, WhileParsing, WhileReading
<1>3. /\ Keeps(dinfo, d, {"unread", "saved", "jfif", "adobe"}) /\ d.unread = NoMarker
      /\ d.saved = IF dinfo.keep THEN Append(dinfo.saved, dinfo.unread) ELSE dinfo.saved
  BY <1>2, SavedFields DEF Keeps
<1> HIDE DEF d
<1>4. Doomed(dinfo, pc, next) => Doomed(d, pc, next')
  BY <1>1, <1>2, <1>3, DoomedByFrame
<1>5. d.keep = dinfo.keep
  BY <1>3 DEF Keeps, Fields
<1>6. QED
  BY <1>1, <1>2, <1>3, <1>4, <1>5, ParsingKeepsMarkerInv

LEMMA SkipMarkerKeepsMarkerInv ==
    ASSUME TypeInv, MarkerInv, SkipMarker PROVE MarkerInv'
<1> DEFINE d == [dinfo EXCEPT !.unread = NoMarker]
<1>1. Parsing({"RST", "TEM"}) /\ Go(d, pc)
  BY DEF SkipMarker
<1>2. IsObject(dinfo) /\ dinfo.unread.k \in {"RST", "TEM"} /\ pc = "reading"
  BY <1>1, WhileParsing, WhileReading
<1>3. /\ Keeps(dinfo, d, {"unread"}) /\ Keeps(dinfo, d, {"unread", "saved", "jfif", "adobe"})
      /\ d.unread = NoMarker
  BY <1>2 DEF IsObject, Fields, Keeps
<1> HIDE DEF d
<1>4. Doomed(dinfo, pc, next) => Doomed(d, pc, next')
  BY <1>1, <1>2, <1>3, DoomedByFrame
<1>5. d.keep = dinfo.keep /\ d.saved = dinfo.saved
  BY <1>3 DEF Keeps, Fields
<1>6. QED
  BY <1>1, <1>2, <1>3, <1>4, <1>5, ParsingKeepsMarkerInv

LEMMA UnknownMarkerKeepsMarkerInv ==
    ASSUME TypeInv, MarkerInv, UnknownMarker PROVE MarkerInv'
BY ParsingFailsStuck DEF UnknownMarker

LEMMA GetSOSKeepsMarkerInv ==
    ASSUME TypeInv, MarkerInv, GetSOS PROVE MarkerInv'
<1> DEFINE d == ScanBegun
           headers == HeaderEnded
<1>1. Pending({"SOS"}) /\ (~warning' => Parsing({"SOS"}))
  BY ScanHeader
<1>2. /\ IsObject(dinfo) /\ Reading /\ dinfo.sawSOI /\ dinfo.unread.k = "SOS" /\ ~dinfo.eoi
      /\ ReadingOK(dinfo, next, call) /\ pc = "reading"
      /\ call \in {"header", "transform"}
      /\ call = "header" => InHeader(dinfo)
  BY <1>1, WhilePending, WhileReading
<1>3. CASE BadScan
  BY <1>3, ScanHeader, ParsingFailsStuck
<1>4. CASE ~BadScan
  <2>1. Keeps(dinfo, d, {"unread", "scan", "expected"}) /\ d.unread = NoMarker
    BY <1>2, ScanFields
  <2>2. Keeps(d, headers, {"inheaders", "state", "multiple", "colours"})
    BY <1>2, ScanFields
  <2>3. IF ~d.inheaders
        THEN IF d.multiple THEN StartInputPass(d) ELSE Fail(d)
        ELSE IF d.frame.name # None THEN Fail(d)
        ELSE IF call = "header" THEN Go(headers, "finish")
        ELSE IF Unnamed(headers.frame) THEN Fail(headers) ELSE StartInputPass(Select(headers))
    BY <1>4, ScanHeader
  <2>31. ~Stale
    BY <1>4 DEF BadScan
  <2> HIDE DEF d, headers
  <2>4. IsObject(d) /\ IsObject(headers)
    BY <2>1, <2>2 DEF Keeps
  <2>5. /\ d.keep = dinfo.keep /\ d.saved = dinfo.saved /\ d.inheaders = dinfo.inheaders
        /\ d.sawSOI = dinfo.sawSOI /\ d.frame = dinfo.frame
        /\ headers.keep = dinfo.keep /\ headers.saved = dinfo.saved /\ headers.unread = NoMarker
    BY <2>1, <2>2 DEF Keeps, Fields
  <2>6. ASSUME Fail(d) PROVE MarkerInv'
    <3>1. call = "header" /\ d.sawSOI => Stuck(d)
      BY <1>2, <2>3, <2>5, <2>6 DEF Stuck, InHeader, Go, Fail
    <3>2. QED
      BY <2>4, <2>6, <3>1, FailKeepsMarkerInv
\* The pass begins.
  <2>7. ASSUME NEW e, IsObject(e), StartInputPass(e), call = "transform",
               e.keep = dinfo.keep, e.saved = dinfo.saved, e.unread = NoMarker,
               ~Doomed(dinfo, pc, next)
        PROVE  MarkerInv'
    <3>1. CASE e.quant = None
      <4>1. Fail(e)
        BY <2>7, <3>1, InputPass
      <4>2. QED
        BY <2>7, <4>1, FailKeepsMarkerInv
    <3>2. CASE e.quant # None
      <4> DEFINE p == PassStarted(e)
      <4>1. Go(p, "coefficients")
        BY <2>7, <3>2, InputPass
      <4>2. Keeps(e, p, {"consume", "mcu", "insufficient", "toGo", "last", "latched"})
        BY <2>7, PassStartedFields
      <4> HIDE DEF p
      <4>3. p.keep = dinfo.keep /\ p.saved = dinfo.saved /\ p.unread = NoMarker
        BY <2>7, <4>2 DEF Keeps, Fields
      <4>4. CASE warning'
        BY <1>2, <2>7, <4>1, <4>3, <4>4, GoKeepsMarkerInv DEF MarkerInv
      <4>5. CASE ~warning'
        BY <1>1, <1>2, <2>7, <4>1, <4>3, <4>5, ParsingKeepsMarkerInv
      <4>6. QED
        BY <4>4, <4>5
    <3>3. QED
      BY <3>1, <3>2
  <2>8. CASE dinfo.inheaders
    <3>1. CASE dinfo.frame.name # None
      BY <2>3, <2>5, <2>6, <2>8, <3>1
    <3>2. CASE dinfo.frame.name = None /\ call = "header"
      <4>1. Go(headers, "finish") /\ call # "transform"
        BY <2>3, <2>5, <2>8, <3>2
      <4>2. QED
        BY <4>1, GoKeepsMarkerInv
    <3>5. CASE dinfo.frame.name = None /\ call = "transform" /\ Unnamed(headers.frame)
      <4>1. Fail(headers)
        BY <2>3, <2>5, <2>8, <3>5
      <4>2. QED
        BY <2>4, <3>5, <4>1, FailKeepsMarkerInv
    <3>3. CASE dinfo.frame.name = None /\ call = "transform" /\ ~Unnamed(headers.frame)
      <4> DEFINE e == Select(headers)
      <4>1. StartInputPass(e)
        BY <2>3, <2>5, <2>8, <3>3
      <4>2. Keeps(headers, e, {"state", "tables", "latched", "coefs"})
        BY <2>4, SelectFields
      <4> HIDE DEF e
      <4>3. e.keep = dinfo.keep /\ e.saved = dinfo.saved /\ e.unread = NoMarker /\ IsObject(e)
        BY <2>5, <4>2 DEF Keeps, Fields
      <4>4. ~Doomed(dinfo, pc, next)
        BY <1>2, <2>31, <3>3 DEF Doomed, Stale
      <4>5. QED
        BY <2>7, <3>3, <4>1, <4>3, <4>4
    <3>4. QED
      BY <1>2, <3>1, <3>2, <3>3, <3>5
  <2>9. CASE ~dinfo.inheaders
    <3>1. call = "transform" /\ ~Doomed(dinfo, pc, next)
      BY <1>2, <2>9 DEF InHeader, Doomed, Stuck
    <3>2. CASE d.multiple
      BY <2>1, <2>3, <2>4, <2>5, <2>7, <2>9, <3>1, <3>2
    <3>3. CASE ~d.multiple
      BY <2>3, <2>5, <2>6, <2>9, <3>3
    <3>4. QED
      BY <3>2, <3>3
  <2>10. QED
    BY <2>8, <2>9
<1>5. QED
  BY <1>3, <1>4

LEMMA GetEOIKeepsMarkerInv ==
    ASSUME TypeInv, MarkerInv, GetEOI PROVE MarkerInv'
<1> DEFINE d == [dinfo EXCEPT !.unread = NoMarker, !.eoi = TRUE]
           e == [d EXCEPT !.state = "STOPPING"]
<1>1. Parsing({"EOI"}) /\ IF d.inheaders THEN Fail(d) ELSE Go(e, "finish")
  BY DEF GetEOI
<1>2. /\ IsObject(dinfo) /\ Reading /\ dinfo.sawSOI /\ pc = "reading" /\ dinfo.unread.k = "EOI"
      /\ next' = next /\ warning' = warning
  BY <1>1, WhileParsing, WhileReading
<1>3. Keeps(dinfo, d, {"unread", "eoi"}) /\ d.eoi = TRUE
  BY <1>2 DEF IsObject, Fields, Keeps
<1>4. Keeps(dinfo, e, {"unread", "eoi", "state"})
  BY <1>2 DEF IsObject, Fields, Keeps
<1> HIDE DEF d, e
<1>5. CASE d.inheaders
  <2>1. call = "header" /\ d.sawSOI => Stuck(d)
    BY <1>3, <1>5 DEF Stuck
  <2>2. IsObject(d) /\ Fail(d)
    BY <1>1, <1>3, <1>5 DEF Keeps
  <2>3. QED
    BY <2>1, <2>2, FailKeepsMarkerInv
<1>6. CASE ~d.inheaders
  <2>1. ~Doomed(dinfo, pc, next) /\ e.keep = dinfo.keep /\ e.saved = dinfo.saved
    BY <1>3, <1>4, <1>6 DEF Doomed, Stuck, Keeps, Fields
  <2>2. ASSUME call = "transform", Following(dinfo, pc, next) PROVE Following(e, "finish", next')
    <3>1. /\ dinfo.unread = At(next - 1) /\ Gathered(dinfo.saved, next - 2)
          /\ next - 1 \in 1 .. Size
      BY <1>1, <2>2, ParsedMarker DEF Parsing
    <3>2. QED
      BY <1>2, <2>1, <3>1 DEF Following
  <2>3. Go(e, "finish")
    BY <1>1, <1>6
  <2>4. call = "transform" => e.keep /\ (warning' \/ Following(e, "finish", next'))
    BY <1>2, <2>1, <2>2 DEF MarkerInv
  <2>5. QED
    BY <2>3, <2>4, GoKeepsMarkerInv
<1>7. QED
  BY <1>5, <1>6

-----------------------------------------------------------------------------
\* A step of the decoder that leaves nothing behind but data.
LEMMA DecodingKeepsMarkerInv ==
    ASSUME TypeInv, MarkerInv, pc \in {"coefficients", "resync"}, NEW d, NEW l, Go(d, l),
           l \notin {"idle", "finish"}, d.keep = dinfo.keep, d.saved = dinfo.saved,
           warning => warning',
           ~warning' => /\ d.unread = NoMarker
                        /\ next' \in next .. Size + 1
                        /\ \A j \in next .. next' - 1 : At(j).k \in {"data", "RST"}
    PROVE  MarkerInv'
<1>1. FileInv /\ next \in 1 .. Size + 1 /\ Size \in Nat
  BY WhileDecoding, SizeIsNat
<1>2. ASSUME call = "transform", ~warning' PROVE Following(d, l, next')
  <2>1. ~warning /\ dinfo.unread = NoMarker
    BY <1>2, WhileDecoding
  <2>2. Gathered(dinfo.saved, next - 1)
    BY <1>2, <2>1 DEF MarkerInv, Doomed, Following
  <2>3. next' - 1 \in next - 1 .. Size
    BY <1>1, <1>2
  <2>4. \A j \in (next - 1) + 1 .. next' - 1 : At(j).k \in {"data", "RST"}
    BY <1>1, <1>2
  <2>5. Gathered(dinfo.saved, next' - 1)
    BY <1>1, <2>2, <2>3, <2>4, GatherData
  <2>6. QED
    BY <1>2, <2>5 DEF Following
<1>3. call = "transform" => d.keep
  BY DEF MarkerInv
<1>4. QED
  BY <1>2, <1>3, GoKeepsMarkerInv

\* The steps of a restart keep it.
LEMMA ResumeKeepsMarkerInv ==
    ASSUME TypeInv, MarkerInv, pc \in {"coefficients", "resync"}, NEW d, Resume(d),
           Keeps(dinfo, d, {"unread"}), warning => warning',
           ~warning' => /\ d.unread = NoMarker
                        /\ next' \in next .. Size + 1
                        /\ \A j \in next .. next' - 1 : At(j).k \in {"data", "RST"}
    PROVE  MarkerInv'
<1> DEFINE e == Resumed(d)
<1>1. IsObject(d)
  BY DEF Keeps
<1>2. Go(e, "coefficients") /\ Keeps(d, e, {"expected", "toGo", "last", "insufficient"})
  BY <1>1, ResumedFields
<1> HIDE DEF e
<1>3. e.keep = dinfo.keep /\ e.saved = dinfo.saved /\ e.unread = d.unread
  BY <1>2 DEF Keeps, Fields
<1>4. QED
  BY <1>2, <1>3, DecodingKeepsMarkerInv

LEMMA ReadRestartMarkerKeepsMarkerInv ==
    ASSUME TypeInv, MarkerInv, ReadRestartMarker PROVE MarkerInv'
<1> DEFINE met == dinfo.unread # NoMarker
           found == NextMarker(next)
           marker == IF met THEN dinfo.unread ELSE At(found)
           d == [dinfo EXCEPT !.unread = NoMarker]
           e == [dinfo EXCEPT !.unread = marker]
<1>1. /\ Decoding /\ next' = (IF met THEN next ELSE After(found))
      /\ IF Accepts(marker, dinfo.expected)
         THEN Resume(d) /\ warning' = (warning \/ (~met /\ found > next))
         ELSE Go(e, "resync") /\ warning' = TRUE
  BY DEF ReadRestartMarker
<1>2. /\ FileInv /\ IsObject(dinfo) /\ next \in 1 .. Size + 1 /\ warning \in BOOLEAN
      /\ pc = "coefficients" /\ Size \in Nat
      /\ ~warning => dinfo.unread = NoMarker
  BY <1>1, WhileDecoding, SizeIsNat DEF Decoding
<1>3. Keeps(dinfo, d, {"unread"}) /\ d.unread = NoMarker
  BY <1>2, UnreadField
<1>3a. Keeps(dinfo, e, {"unread"})
  <2> HIDE DEF marker
  <2>1. QED
    BY <1>2, UnreadField
<1>4. found \in 1 .. Size + 1 /\ found >= next
  BY <1>2, FoundInFile
<1> HIDE DEF d, e, found
<1>5. CASE Accepts(marker, dinfo.expected)
  <2>1. ASSUME ~warning'
        PROVE  /\ next' \in next .. Size + 1
               /\ \A j \in next .. next' - 1 : At(j).k \in {"data", "RST"}
    <3>1. warning' = (warning \/ (~met /\ found > next)) /\ ~warning
      BY <1>1, <1>2, <1>5, <2>1
    <3>1a. ~met
      BY <1>2, <3>1
    <3>1b. found = next
      <4>1. ~(found > next)
        <5> HIDE DEF met
        <5>1. QED
          BY <2>1, <3>1, <3>1a
      <4>2. next \in Int /\ found \in Int
        BY <1>2, <1>4
      <4>3. QED
        BY <1>4, <4>1, <4>2
    <3>1c. next' = After(next)
      BY <1>1, <3>1a, <3>1b
    <3>2. At(next).k = "RST"
      BY <1>5, <3>1a, <3>1b DEF Accepts, Counting, Marker
    <3>3. next' = next + 1 /\ next \in 1 .. Size
      BY <1>2, <3>1c, <3>2, InTheFile
    <3>4. QED
      BY <1>2, <3>2, <3>3
  <2>2. warning => warning'
    BY <1>1, <1>5
  <2>3. QED
    BY <1>1, <1>2, <1>3, <1>5, <2>1, <2>2, ResumeKeepsMarkerInv
<1>6. CASE ~Accepts(marker, dinfo.expected)
  <2>1. e.keep = dinfo.keep /\ e.saved = dinfo.saved
    BY <1>3a DEF Keeps, Fields
  <2>2. QED
    BY <1>1, <1>2, <1>6, <2>1, DecodingKeepsMarkerInv
<1>7. QED
  BY <1>5, <1>6

LEMMA DiscardKeepsMarkerInv ==
    ASSUME TypeInv, MarkerInv, Discard PROVE MarkerInv'
<1> DEFINE d == [dinfo EXCEPT !.unread = NoMarker]
<1>1. pc = "resync" /\ Resume(d) /\ warning' = warning
  BY DEF Discard, Resync
<1>2. IsObject(dinfo) /\ warning
  BY <1>1, WhileDecoding
<1>3. Keeps(dinfo, d, {"unread"})
  BY <1>2, UnreadField
<1> HIDE DEF d
<1>4. QED
  BY <1>1, <1>2, <1>3, ResumeKeepsMarkerInv

LEMMA SkipKeepsMarkerInv ==
    ASSUME TypeInv, MarkerInv, Skip PROVE MarkerInv'
<1> DEFINE d == [dinfo EXCEPT !.unread = At(NextMarker(next))]
<1>1. pc = "resync" /\ Go(d, pc) /\ warning' = TRUE
  BY DEF Skip, Resync
<1>2. IsObject(dinfo)
  BY <1>1, WhileDecoding
<1>3. Keeps(dinfo, d, {"unread"})
  BY <1>2, UnreadField
<1> HIDE DEF d
<1>4. d.keep = dinfo.keep /\ d.saved = dinfo.saved
  BY <1>3 DEF Keeps, Fields
<1>5. QED
  BY <1>1, <1>4, DecodingKeepsMarkerInv

LEMMA LeaveKeepsMarkerInv ==
    ASSUME TypeInv, MarkerInv, Leave PROVE MarkerInv'
<1>1. pc = "resync" /\ Resume(dinfo) /\ warning' = warning
  BY DEF Leave, Resync
<1>2. IsObject(dinfo) /\ warning
  BY <1>1, WhileDecoding
<1>3. Keeps(dinfo, dinfo, {"unread"})
  BY <1>2 DEF Keeps
<1>4. QED
  BY <1>1, <1>2, <1>3, ResumeKeepsMarkerInv

\* The steps of the decoder keep it.
LEMMA CountedKeepsMarkerInv ==
    ASSUME TypeInv, MarkerInv, pc = "coefficients", NEW d, IsObject(d),
           d.keep = dinfo.keep, d.saved = dinfo.saved, NEW i, Counted(d, i), warning => warning',
           ~warning' => /\ d.unread = NoMarker
                        /\ i \in next .. Size + 1
                        /\ \A j \in next .. i - 1 : At(j).k = "data"
    PROVE  MarkerInv'
<1> DEFINE c == CountedOne(d)
           e == PassOver(d)
<1>1. Keeps(d, c, {"toGo", "mcu"}) /\ Keeps(d, e, {"toGo", "mcu", "consume"})
  BY CountedFields
<1>2. IF c.mcu < d.frame.n
      THEN Go(c, "coefficients") /\ next' = i
      ELSE /\ Go(e, "reading")
           /\ next' \in IF d.unread = NoMarker THEN i..(i + Min2(1, Run(i))) ELSE {i}
  BY DEF Counted, CountedOne, PassOver
<1> HIDE DEF c, e
<1>3. /\ c.keep = dinfo.keep /\ c.saved = dinfo.saved /\ c.unread = d.unread
      /\ e.keep = dinfo.keep /\ e.saved = dinfo.saved /\ e.unread = d.unread
  BY <1>1 DEF Keeps, Fields
<1>4. FileInv /\ next \in 1 .. Size + 1 /\ Size \in Nat
  BY WhileDecoding, SizeIsNat
<1>5. ASSUME ~warning'
      PROVE  /\ next' \in next .. Size + 1
             /\ \A j \in next .. next' - 1 : At(j).k \in {"data", "RST"}
  <2>1. /\ d.unread = NoMarker /\ i \in next .. Size + 1 /\ i \in 1 .. Size + 1
        /\ \A j \in next .. i - 1 : At(j).k = "data"
    BY <1>4, <1>5
  <2>2. CASE c.mcu < d.frame.n
    BY <1>2, <2>1, <2>2
  <2>3. CASE ~(c.mcu < d.frame.n)
    <3>1. next' \in i..(i + Min2(1, Run(i)))
      BY <1>2, <2>1, <2>3
    <3>2. next' \in 1 .. Size + 1 /\ (next' = i \/ (next' = i + 1 /\ At(i).k = "data"))
      BY <1>4, <2>1, <3>1, CountedPlace
    <3>3. CASE next' = i
      BY <2>1, <3>3
    <3>4. CASE next' = i + 1 /\ At(i).k = "data"
      <4>1. next' \in next .. Size + 1
        BY <1>4, <2>1, <3>2, <3>4
      <4>2. ASSUME NEW j \in next .. next' - 1 PROVE At(j).k \in {"data", "RST"}
        <5>1. j \in next .. i - 1 \/ j = i
          BY <1>4, <2>1, <3>4
        <5>2. QED
          BY <2>1, <3>4, <5>1
      <4>3. QED
        BY <4>1, <4>2
    <3>5. QED
      BY <3>2, <3>3, <3>4
  <2>4. QED
    BY <2>2, <2>3
<1>6. CASE c.mcu < d.frame.n
  BY <1>2, <1>3, <1>5, <1>6, DecodingKeepsMarkerInv
<1>7. CASE ~(c.mcu < d.frame.n)
  BY <1>2, <1>3, <1>5, <1>7, DecodingKeepsMarkerInv
<1>8. QED
  BY <1>6, <1>7

LEMMA LeaveMcuKeepsMarkerInv ==
    ASSUME TypeInv, MarkerInv, LeaveMcu PROVE MarkerInv'
<1>1. pc = "coefficients" /\ Counted(dinfo, next) /\ warning' = warning
  BY DEF LeaveMcu, McuDue, Decoding
<1>2. /\ IsObject(dinfo) /\ next \in 1 .. Size + 1 /\ Size \in Nat
      /\ ~warning => dinfo.unread = NoMarker
  BY <1>1, WhileDecoding, SizeIsNat
<1>3. next \in next .. Size + 1 /\ \A j \in next .. next - 1 : At(j).k = "data"
  BY <1>2
<1>4. QED
  BY <1>1, <1>2, <1>3, CountedKeepsMarkerInv

LEMMA StuffZerosKeepsMarkerInv ==
    ASSUME TypeInv, MarkerInv, StuffZeros PROVE MarkerInv'
<1> DEFINE e == [dinfo EXCEPT !.insufficient = TRUE,
                              !.unread = IF @ = NoMarker THEN At(next) ELSE @]
           d == Store(e, [c \in dinfo.scan |-> Bogus])
           i == IF dinfo.unread = NoMarker THEN After(next) ELSE next
<1>1. pc = "coefficients" /\ Counted(d, i) /\ warning' = TRUE
  BY DEF StuffZeros, McuDue, Decoding
<1>2. IsObject(dinfo)
  BY <1>1, WhileDecoding
<1>3. Keeps(dinfo, e, {"insufficient", "unread"})
  BY <1>2 DEF IsObject, Fields, Keeps
<1> HIDE DEF e
<1>4. Keeps(e, d, {"coefs"})
  BY <1>3, StoreFields DEF Keeps
<1> HIDE DEF d, i
<1>5. IsObject(d) /\ d.keep = dinfo.keep /\ d.saved = dinfo.saved
  BY <1>3, <1>4 DEF Keeps, Fields
<1>6. QED
  BY <1>1, <1>5, CountedKeepsMarkerInv

LEMMA StoredKeepsMarkerInv ==
    ASSUME TypeInv, MarkerInv, pc = "coefficients", dinfo.unread = NoMarker, NEW value, NEW last,
           NEW i \in next .. Size + 1, \A j \in next .. i - 1 : At(j).k = "data",
           Counted([Store(dinfo, value) EXCEPT !.last = last], i), warning => warning'
    PROVE  MarkerInv'
<1> DEFINE e == Store(dinfo, value)
           d == [e EXCEPT !.last = last]
<1>1. IsObject(dinfo)
  BY WhileDecoding
<1>2. Keeps(dinfo, e, {"coefs"})
  BY <1>1, StoreFields
<1>3. Counted(d, i)
  OBVIOUS
<1> HIDE DEF e
<1>4. Keeps(e, d, {"last"})
  BY <1>2 DEF Keeps, IsObject, Fields
<1> HIDE DEF d
<1>5. IsObject(d) /\ d.keep = dinfo.keep /\ d.saved = dinfo.saved /\ d.unread = NoMarker
  BY <1>2, <1>4 DEF Keeps, Fields
<1>6. QED
  BY <1>3, <1>5, CountedKeepsMarkerInv

LEMMA DecodeMcuKeepsMarkerInv ==
    ASSUME TypeInv, MarkerInv, DecodeMcu PROVE MarkerInv'
<1>1. /\ pc = "coefficients" /\ dinfo.unread = NoMarker /\ At(next).k = "data"
      /\ Counted([Store(dinfo, At(next).v) EXCEPT !.last = At(next).n], next + 1)
      /\ warning' = warning
  BY DEF DecodeMcu, HasData, McuDue, Decoding
<1>2. FileInv /\ next \in 1 .. Size + 1
  BY <1>1, WhileDecoding
<1>3. next \in 1 .. Size
  BY <1>1, <1>2, InTheFile
<1>4. next + 1 \in next .. Size + 1 /\ \A j \in next .. (next + 1) - 1 : At(j).k = "data"
  BY <1>1, <1>2, <1>3, SizeIsNat
<1>5. QED
  BY <1>1, <1>4, StoredKeepsMarkerInv

LEMMA DecodeOutOfStepKeepsMarkerInv ==
    ASSUME TypeInv, MarkerInv, DecodeOutOfStep PROVE MarkerInv'
<1> DEFINE value == [c \in dinfo.scan |-> Bogus]
<1>1. /\ pc = "coefficients" /\ dinfo.unread = NoMarker
      /\ warning' \in {warning, TRUE}
  BY DEF DecodeOutOfStep, HasData, McuDue, Decoding
<1>2. PICK i \in next..NextMarker(next) : Counted([Store(dinfo, value) EXCEPT !.last = -1], i)
  BY DEF DecodeOutOfStep
<1>3. FileInv /\ next \in 1 .. Size + 1 /\ Size \in Nat
  BY <1>1, WhileDecoding, SizeIsNat
<1>4. /\ NextMarker(next) \in next .. Size + 1
      /\ \A l \in next .. NextMarker(next) - 1 : At(l).k = "data"
  BY <1>3, MarkerIsFound
<1>5. i \in next .. Size + 1 /\ \A l \in next .. i - 1 : At(l).k = "data"
  BY <1>2, <1>3, <1>4
<1>6. warning => warning'
  BY <1>1
<1> HIDE DEF value
<1>7. QED
  BY <1>1, <1>2, <1>5, <1>6, StoredKeepsMarkerInv

\* The end of a call keeps it, and so does the beginning of one.
LEMMA MismatchKeepsMarkerInv ==
    ASSUME TypeInv, Mismatch PROVE MarkerInv'
<1>1. Fail(dinfo) /\ call # "header" /\ IsObject(dinfo)
  BY DEF Mismatch, TypeInv, ObjectOK
<1>2. QED
  BY <1>1, FailKeepsMarkerInv

LEMMA EndCallKeepsMarkerInv ==
    ASSUME TypeInv, EndCall PROVE MarkerInv'
<1>1. pc' = "idle" /\ dinfo' = Abort(dinfo) /\ IsObject(dinfo)
  BY DEF EndCall, TypeInv, ObjectOK
<1>2. dinfo'.state = "START"
  BY <1>1, AbortFields
<1>3. QED
  BY <1>1, <1>2 DEF MarkerInv

\* Nothing of the file has been read.
LEMMA NothingGathered == FileInv => Gathered(<<>>, 0)
<1> SUFFICES ASSUME FileInv PROVE Gathered(<<>>, 0)
  OBVIOUS
<1>1. 0 \in 0 .. Size
  BY SizeIsNat
<1>2. (\A r : Copied(<<>>, 0, r) = Copied(FileRead, 0, r)) /\ Len(<<>>) = 0
  BY EmptyFile, FileReadIsFile, CopiedUnfolds
<1>3. QED
  BY <1>1, <1>2 DEF Gathered

LEMMA BeginCallKeepsMarkerInv ==
    ASSUME TypeInv, MarkerInv, NEW kind \in {"header", "transform"}, NEW file, GoodFile(file),
           BeginCall(kind, file)
    PROVE  MarkerInv'
<1> DEFINE d == [dinfo EXCEPT !.keep = @ \/ kind = "transform"]
           r == Reset(d)
           e == [r EXCEPT !.state = "INHEADER"]
<1>1. /\ pc = "idle" /\ next' = 1 /\ call' = kind /\ pc' = "reading"
      /\ dinfo' = (IF d.state = "START" THEN e ELSE d)
  BY DEF BeginCall
<1>2. IsObject(dinfo)
  BY DEF TypeInv, ObjectOK
<1>3. Keeps(dinfo, d, {"keep"}) /\ (kind = "transform" => d.keep)
  BY <1>2 DEF IsObject, Fields, Keeps
<1> HIDE DEF d
<1>4. Keeps(d, r, {"consume", "multiple", "eoi", "inheaders", "unread", "sawSOI", "frame"})
      /\ r.sawSOI = FALSE
  BY <1>3, ResetFields DEF Keeps
<1> HIDE DEF r
<1>5. Keeps(r, e, {"state"}) /\ e.state = "INHEADER"
  BY <1>4 DEF Keeps, IsObject, Fields
<1> HIDE DEF e
<1>6. e.keep = d.keep /\ e.sawSOI = FALSE
  BY <1>4, <1>5 DEF Keeps, Fields
<1>7. ASSUME kind = "transform" PROVE dinfo'.keep /\ (Doomed(dinfo, pc, next) \/ Following(dinfo, pc, next))'
  <2>1. dinfo'.keep
    BY <1>1, <1>3, <1>6, <1>7
  <2>2. TypeInv'
    BY BeginCallKeepsTypeInv
  <2>3. dinfo'.state # "RDCOEFS"
    BY <1>1, <1>3, <1>5, <2>2 DEF TypeInv, PlaceInv, IdleOK, InHeader, Keeps, Fields
  <2>4. InHeader(dinfo') /\ (~dinfo'.sawSOI => Untouched(dinfo'))
    BY <1>1, <2>2, <2>3 DEF TypeInv, PlaceInv, PlaceOK, ReadingOK, AtStart, InHeader, Untouched
  <2>5. CASE ~dinfo'.sawSOI
    <3>1. dinfo'.saved = <<>> /\ dinfo'.unread = NoMarker
      BY <2>4, <2>5 DEF Untouched
    <3>2. Gathered(<<>>, 0)'
      <4>1. FileInv'
        BY <2>2 DEF TypeInv
      <4>2. FileInv' => Gathered(<<>>, 0)'
        BY NothingGathered, PTL
      <4>3. QED
        BY <4>1, <4>2
    <3>3. next' - 1 = 0 /\ pc' # "finish"
      BY <1>1
    <3>4. Following(dinfo, pc, next)'
      BY <3>1, <3>2, <3>3 DEF Following, Gathered
    <3>5. QED
      BY <2>1, <3>4
  <2>6. CASE dinfo'.sawSOI
    <3>1. d.state # "START" /\ dinfo' = d
      BY <1>1, <1>6, <2>6
    <3>2. dinfo.state = "INHEADER" /\ dinfo.sawSOI
      BY <1>3, <2>4, <2>6, <3>1 DEF InHeader, Keeps, Fields
    <3>3. Stuck(dinfo)
      BY <1>1, <3>2 DEF MarkerInv
    <3>4. Stuck(d)
      BY <1>3, <3>3 DEF Stuck, Keeps, Fields
    <3>5. Doomed(dinfo, pc, next)'
      BY <1>1, <2>4, <3>1, <3>4 DEF Doomed, Stuck, InHeader
    <3>6. QED
      BY <2>1, <3>5
  <2>7. QED
    BY <2>5, <2>6
<1>8. QED
  BY <1>1, <1>7 DEF MarkerInv

LEMMA BeginKeepsMarkerInv ==
    ASSUME TypeInv, MarkerInv, Begin PROVE MarkerInv'
<1>1. PICK kind \in {"header", "transform"} :
        \/ \E file \in Files : BeginCall(kind, file)
        \/ \E name \in DOMAIN Sounds : \E file \in Damaged(name) : BeginCall(kind, file)
  BY DEF Begin
<1>2. CASE \E file \in Files : BeginCall(kind, file)
  BY <1>2, FilesAreGood, BeginCallKeepsMarkerInv
<1>3. CASE \E name \in DOMAIN Sounds : \E file \in Damaged(name) : BeginCall(kind, file)
  BY <1>3, DamagedFilesAreGood, BeginCallKeepsMarkerInv
<1>4. QED
  BY <1>1, <1>2, <1>3

LEMMA StutterKeepsMarkerInv ==
    ASSUME TypeInv, MarkerInv, UNCHANGED vars PROVE MarkerInv'
<1>1. /\ Size' = Size
      /\ \A i : At(i)' = At(i)
  BY SameFile DEF vars
<1>2. FileRead' = FileRead
  BY <1>1 DEF FileRead
<1>3. Following(dinfo, pc, next)' <=> Following(dinfo, pc, next)
  BY <1>1, <1>2 DEF Following, Gathered, vars
<1>4. QED
  BY <1>3 DEF MarkerInv, Doomed, Stuck, vars

\* The invariant holds of every file, damage and sequence of calls.
THEOREM MarkerInvHolds == Spec => []MarkerInv
<1>1. Init => MarkerInv
  BY CreatedFields DEF Init, MarkerInv
<1>2. TypeInv /\ MarkerInv /\ [Next]_vars => MarkerInv'
  <2> SUFFICES ASSUME TypeInv, MarkerInv, [Next]_vars PROVE MarkerInv'
    OBVIOUS
  <2>1. CASE Begin
    BY <2>1, BeginKeepsMarkerInv
  <2>2. CASE ReadMarkers
    BY <2>2, ReadAfterEOIKeepsMarkerInv, FirstMarkerKeepsMarkerInv, NextMarkerOfHeadersKeepsMarkerInv,
       GetSOIKeepsMarkerInv, GetSOFKeepsMarkerInv, GetTablesKeepsMarkerInv, SaveMarkerKeepsMarkerInv,
       SkipMarkerKeepsMarkerInv, UnknownMarkerKeepsMarkerInv, GetSOSKeepsMarkerInv, GetEOIKeepsMarkerInv
       DEF ReadMarkers
  <2>3. CASE ConsumeData
    BY <2>3, ReadRestartMarkerKeepsMarkerInv, DiscardKeepsMarkerInv, SkipKeepsMarkerInv,
       LeaveKeepsMarkerInv, LeaveMcuKeepsMarkerInv, StuffZerosKeepsMarkerInv, DecodeMcuKeepsMarkerInv,
       DecodeOutOfStepKeepsMarkerInv DEF ConsumeData
  <2>4. CASE Mismatch
    BY <2>4, MismatchKeepsMarkerInv
  <2>5. CASE EndCall
    BY <2>5, EndCallKeepsMarkerInv
  <2>6. CASE UNCHANGED vars
    BY <2>6, StutterKeepsMarkerInv
  <2>7. QED
    BY <2>1, <2>2, <2>3, <2>4, <2>5, <2>6 DEF Next, Work
<1>3. QED
  BY <1>1, <1>2, TypeInvHolds, PTL DEF Spec

\* The first EOI is the one that ended the call.
LEMMA EndIsFound ==
    ASSUME Size \in Nat, NEW n \in 1 .. Size, At(n).k = "EOI", \A j \in 1 .. n - 1 : At(j).k # "EOI"
    PROVE  End = n
<1> DEFINE First(i) == At(i).k = "EOI" /\ \A j \in 1..(i - 1) : At(j).k # "EOI"
<1>1. End = CHOOSE i \in 1 .. Size + 1 : First(i)
  BY DEF End
<1>2. n \in 1 .. Size + 1 /\ First(n)
  OBVIOUS
<1>3. End \in 1 .. Size + 1 /\ First(End)
  <2> HIDE DEF First
  <2>1. QED
    BY <1>1, <1>2
<1>4. ~(End < n) /\ ~(n < End)
  BY <1>2, <1>3
<1>5. QED
  BY <1>3, <1>4

\* At the end of a call that is served, all markers have been gathered.
LEMMA MarkerInvKeeps == TypeInv /\ MarkerInv => KeepsTheMarkers
<1> SUFFICES ASSUME TypeInv, MarkerInv, Served PROVE KeepsTheMarkers
  BY DEF KeepsTheMarkers
<1>1. /\ pc = "finish" /\ call = "transform" /\ ~warning
      /\ ObjectOK(dinfo) /\ Ready(dinfo) /\ Size \in Nat
  BY SizeIsNat DEF Served, TypeInv, PlaceInv, PlaceOK, FinishOK
<1>2. /\ next - 1 \in 1 .. Size /\ At(next - 1).k = "EOI"
      /\ Gathered(dinfo.saved, next - 2)
  BY <1>1 DEF MarkerInv, Doomed, Following
<1>3. next \in Int
  BY <1>1 DEF TypeInv, PlaceInv
<1>4. End = next - 1 /\ End - 1 = next - 2
  <2>1. (next - 1) - 1 = next - 2
    BY <1>3
  <2>2. \A j \in 1 .. (next - 1) - 1 : At(j).k # "EOI"
    BY <1>2, <2>1 DEF Gathered
  <2>3. End = next - 1
    BY <1>1, <1>2, <2>2, EndIsFound
  <2>4. QED
    BY <2>1, <2>3
<1>5. KeptOf(dinfo) = Copied(FileRead, End - 1, Replaced(dinfo))
  BY <1>2, <1>4 DEF Gathered, KeptOf
<1>6. QED
  BY <1>1, <1>5, ComposedMarkers DEF KeepsTheMarkers, FileRead

\* KeepsTheMarkers: whatever the file, its damage and the calls before, what a
\* transformation makes without a warning has all markers in front of the end of its
\* file and those of no other file, in their order; the writer's own JFIF or Adobe
\* marker stands for those of the file, once.
THEOREM MarkersAreKept == Spec => []KeepsTheMarkers
BY TypeInvHolds, MarkerInvHolds, MarkerInvKeeps, PTL

(***************************************************************************)
(* Sound files.                                                            *)
(***************************************************************************)

\* The layout of the file of the call: where its frame and its first scan are,
\* its restart interval and its Huffman tables.
Plan == CHOOSE p \in (1..Len(Tokens)) \X (1..Len(Tokens)) \X Intervals(Tokens) \X TableNames(Tokens) :
            Layout(Tokens, p[1], p[2], p[3], p[4])
FrameAt  == Plan[1]
First    == Plan[2]
Interval == Plan[3]
Tables   == Plan[4]

\* How many tokens of the file have taken effect.
Seen(d, n) == IF d.unread = NoMarker THEN n - 1 ELSE n - 2
Before(i, kind) == \E j \in 1 .. i : Tokens[j].k = kind

\* The Adobe marker that the colours are guessed from is one of this file.
AdobeOfFile(d) ==
    d.adobe # NoMarker => /\ \E i \in 1 .. Len(Tokens) : d.adobe = Tokens[i]
                          /\ d.adobe.k = "APP" /\ d.adobe.name = "Adobe"

\* The headers up to place q have taken effect.
Headed(d, q) ==
    /\ d.inheaders /\ ~d.eoi
    /\ q >= 1 <=> d.sawSOI
    /\ d.frame = IF FrameAt <= q THEN Tokens[FrameAt] ELSE NoMarker
    /\ q >= 1 => d.interval = IF Before(q, "DRI") THEN Interval ELSE 0
    /\ q >= 1 => AdobeOfFile(d)
    /\ Before(q, "DQT") => d.quant # None
    /\ Before(q, "DHT") => d.tables = Tables
    /\ call = "transform" /\ ~Before(Size, "DHT") => d.tables \in {None, Tables}

\* All headers have.
TablesMatch(d) == \A c \in DOMAIN d.latched : d.latched[c] \in {None, d.quant}
Scanning(d) ==
    /\ ~d.inheaders /\ d.sawSOI /\ ~d.eoi
    /\ d.frame = Tokens[FrameAt] /\ d.interval = Interval
    /\ d.quant # None /\ d.tables = Tables
    /\ d.multiple <=> (Tokens[First].comps # Tokens[FrameAt].comps)
    /\ TablesMatch(d)

\* The decoder is in step with the data: an MCU is next, or a restart marker.
McuNext(d, n) ==
    /\ Interval = 0 \/ d.toGo > 0
    /\ IsMcu(Tokens[n], d.mcu + 1, d.scan, d.last = 0)
    /\ d.last \in {0, d.mcu}
    /\ Interval > 0 => /\ d.toGo = Interval - (d.mcu % Interval)
                       /\ d.expected = (d.mcu \div Interval) % 8
RestartNext(d, n) ==
    /\ Interval > 0 /\ d.toGo = 0 /\ d.mcu % Interval = 0
    /\ d.expected = ((d.mcu \div Interval) - 1) % 8
    /\ Tokens[n] = Counting("RST", d.expected)
    /\ IsMcu(Tokens[n + 1], d.mcu + 1, d.scan, TRUE)

\* Reading on: the next marker is where the file has it, behind the headers or a scan.
InOrder(d, n) ==
    /\ d.unread # NoMarker => n >= 2 /\ d.unread = Tokens[n - 1]
    /\ Seen(d, n) < Size
    /\ \/ Seen(d, n) < First /\ Headed(d, Seen(d, n))
       \/ /\ Seen(d, n) >= First /\ Scanning(d)
          /\ Tokens[Seen(d, n) + 1].k \notin {"data", "RST"}

\* Decoding on: an MCU or a restart marker is next.
Decodes(d, n) ==
    /\ n - 1 >= First /\ n < Size /\ Scanning(d)
    /\ d.unread = NoMarker /\ ~d.insufficient
    /\ McuNext(d, n) \/ RestartNext(d, n)

\* The call has met nothing wrong at this place of it.
GoodAt(d, l, n, w) ==
    /\ ~w
    /\ \/ l = "reading" /\ InOrder(d, n)
       \/ l = "coefficients" /\ Decodes(d, n)
       \/ l = "finish" /\ IF call = "transform" THEN TablesMatch(d) ELSE ~Unnamed(d.frame)

\* The file needs tables that the object does not have.
Borrowing(d) ==
    /\ call = "transform" /\ ~Has("DHT") /\ d.unread.k # "DHT"
    /\ \E q \in 1 .. Len(Tokens) : Tokens[q].k = "data" /\ d.tables \notin {None, Tokens[q].name}

\* The calls that the property is about.
Attending == calls > 0 /\ IsSound /\ ~inherited /\ ~Nameless /\ ~OddColours

\* On a sound file a call is doing well, unless its file needs other tables.
SoundInv ==
    Attending =>
        IF pc = "idle" THEN result = "ok" \/ Borrowing(dinfo)
        ELSE Borrowing(dinfo) \/ GoodAt(dinfo, pc, next, warning)

\* What a transformation makes is a sound file.
WrittenInv == written # <<>> => IsSoundFile(written)

\* The file of the call is sound and has this layout.
Laid ==
    /\ IsSound /\ IsFile(Tokens)
    /\ Size = Len(Tokens) /\ Size \in Nat
    /\ \A i \in 1 .. Size : At(i) = Tokens[i] /\ ~Starved(i) /\ IsToken(Tokens[i])
    /\ Interval \in Nat /\ First \in 1 .. Size
    /\ Layout(Tokens, FrameAt, First, Interval, Tables)

\* The files that are given are sound before damage, and so are those that are written.
LEMMA TokensAreSound ==
    ASSUME FileInv, WrittenInv, calls > 0
    PROVE  IsSoundFile(Tokens)
<1>1. CASE source.name \in DOMAIN Sounds
  <2>1. source.name # "written"
    BY <1>1, FilesAssumption
  <2>2. QED
    BY <1>1, <2>1, FilesAssumption DEF Tokens
<1>2. CASE source.name = "written"
  <2>1. source.name \notin DOMAIN Sounds
    BY <1>2, FilesAssumption
  <2>2. QED
    BY <1>2, <2>1 DEF Tokens, FileInv, WrittenInv
<1>3. QED
  BY <1>1, <1>2 DEF FileInv

\* They are laid out by their plan.
LEMMA TokensArePlanned ==
    ASSUME IsSoundFile(Tokens)
    PROVE  /\ Interval \in Nat /\ First \in 1 .. Len(Tokens)
           /\ Layout(Tokens, FrameAt, First, Interval, Tables)
<1>1. IsFile(Tokens) /\ Len(Tokens) \in Nat /\ \A i \in 1 .. Len(Tokens) : IsToken(Tokens[i])
  BY FileFacts DEF IsSoundFile
<1> DEFINE Q(p) == Layout(Tokens, p[1], p[2], p[3], p[4])
           Domain == (1..Len(Tokens)) \X (1..Len(Tokens)) \X Intervals(Tokens) \X TableNames(Tokens)
<1>2. \E p \in Domain : Q(p)
  <2>1. PICK frame \in 1..Len(Tokens), s \in 1..Len(Tokens),
             interval \in Intervals(Tokens), tables \in TableNames(Tokens) :
          Layout(Tokens, frame, s, interval, tables)
    BY DEF IsSoundFile
  <2>2. <<frame, s, interval, tables>> \in Domain
    OBVIOUS
  <2>3. Q(<<frame, s, interval, tables>>)
    BY <2>1
  <2> HIDE DEF Q, Domain
  <2>4. QED
    BY <2>2, <2>3
<1>3. Plan = CHOOSE p \in Domain : Q(p)
  BY DEF Plan
<1>4. Plan \in Domain /\ Q(Plan)
  <2> HIDE DEF Q, Domain
  <2>1. QED
    BY <1>2, <1>3
<1>5. Interval \in Nat
  <2>1. Interval \in Intervals(Tokens)
    BY <1>4 DEF Interval
  <2>2. \A i \in DOMAIN Tokens : Tokens[i].n \in Nat
    BY <1>1, FileFacts DEF IsToken
  <2>3. QED
    BY <2>1, <2>2 DEF Intervals
<1>6. QED
  BY <1>4, <1>5 DEF FrameAt, First, Interval, Tables

\* A sound file is read as it is laid out.
LEMMA SoundFilesAreLaid ==
    ASSUME FileInv, WrittenInv, calls > 0, IsSound
    PROVE  Laid
<1>1. /\ Interval \in Nat /\ First \in 1 .. Len(Tokens)
      /\ Layout(Tokens, FrameAt, First, Interval, Tables)
  BY TokensAreSound, TokensArePlanned
<1>2. IsFile(Tokens) /\ Len(Tokens) \in Nat /\ \A i \in 1 .. Len(Tokens) : IsToken(Tokens[i])
  BY TokensAreFile, FileFacts
<1>3. Size = Len(Tokens)
  BY DEF IsSound, Size, None
<1>4. ASSUME NEW i \in 1 .. Size PROVE At(i) = Tokens[i] /\ ~Starved(i)
  BY <1>2, <1>3 DEF IsSound, At, Starved, None
<1>5. QED
  BY <1>1, <1>2, <1>3, <1>4 DEF Laid

\* The kinds of its tokens, by their places.
LEMMA LaidPlaces ==
    ASSUME Laid
    PROVE  /\ Size \in Nat /\ First \in Nat /\ FrameAt \in 2 .. First - 1 /\ First < Size
           /\ Tokens[1].k = "SOI" /\ Tokens[First].k = "SOS" /\ Tokens[Size].k = "EOI"
           /\ Tokens[FrameAt].k = "SOF" /\ Tokens[FrameAt].name = None
           /\ \A i \in 2 .. First - 1 : /\ Tokens[i].k \in {"APP", "DQT", "DHT", "DRI", "SOF"}
                                        /\ Tokens[i].k = "SOF" => i = FrameAt
           /\ \A i \in First .. Size - 1 : Tokens[i].k \in {"APP", "DHT", "SOS", "RST", "data"}
           /\ DOMAIN Tokens = 1 .. Size
<1>1. /\ FrameAt \in 2..(First - 1) /\ First < Size
      /\ Size = Len(Tokens) /\ Size \in Nat /\ DOMAIN Tokens = 1 .. Size
  BY FileFacts DEF Laid, Layout
<1>2. First \in Nat
  BY <1>1 DEF Laid
<1>3. QED
  BY <1>1, <1>2 DEF Laid, Layout

\* What a step leaves alone that does not change the file.
LEMMA SameLayout ==
    ASSUME UNCHANGED <<source, written>>
    PROVE  /\ FrameAt' = FrameAt /\ First' = First /\ Interval' = Interval /\ Tables' = Tables
           /\ Tokens' = Tokens /\ Size' = Size
<1>1. Tokens' = Tokens /\ Size' = Size
  BY SameFile
<1>2. Plan' = Plan
  BY <1>1 DEF Plan
<1>3. QED
  BY <1>1, <1>2 DEF FrameAt, First, Interval, Tables

LEMMA SameAttending ==
    ASSUME UNCHANGED <<source, written, calls, inherited>>
    PROVE  Attending' <=> Attending
<1>1. Tokens' = Tokens
  BY SameFile
<1>2. (Nameless' <=> Nameless) /\ (OddColours' <=> OddColours)
  BY <1>1 DEF Nameless, OddColours
<1>3. QED
  BY <1>2 DEF Attending, IsSound

LEMMA SameBorrowing ==
    ASSUME UNCHANGED <<source, written, call>>, NEW d, dinfo' = d
    PROVE  Borrowing(dinfo)' <=> Borrowing(d)
<1>1. Size' = Size /\ Tokens' = Tokens /\ \A i : At(i)' = At(i)
  BY SameFile
<1>2. QED
  BY <1>1 DEF Borrowing, Has

LEMMA SameGood ==
    ASSUME UNCHANGED <<source, written, call>>, NEW d, dinfo' = d, NEW l, pc' = l
    PROVE  GoodAt(dinfo, pc, next, warning)' <=> GoodAt(d, l, next', warning')
<1>1. /\ FrameAt' = FrameAt /\ First' = First /\ Interval' = Interval /\ Tables' = Tables
      /\ Tokens' = Tokens /\ Size' = Size
  BY SameLayout
<1>2. Scanning(dinfo)' <=> Scanning(d)
  BY <1>1 DEF Scanning, TablesMatch
<1>3. Headed(dinfo, Seen(dinfo, next))' <=> Headed(d, Seen(d, next'))
  BY <1>1 DEF Headed, Seen, Before, AdobeOfFile
<1>4. InOrder(dinfo, next)' <=> InOrder(d, next')
  BY <1>1, <1>2, <1>3 DEF InOrder, Seen
<1>5. McuNext(dinfo, next)' <=> McuNext(d, next')
  BY <1>1 DEF McuNext
<1>6. RestartNext(dinfo, next)' <=> RestartNext(d, next')
  BY <1>1 DEF RestartNext
<1>7. Decodes(dinfo, next)' <=> Decodes(d, next')
  BY <1>1, <1>2, <1>5, <1>6 DEF Decodes
<1>8. TablesMatch(dinfo)' <=> TablesMatch(d)
  BY DEF TablesMatch
<1>9. QED
  BY <1>4, <1>7, <1>8 DEF GoodAt

\* The tables that are missing stay missing.
StillBorrows(d) == d.tables = dinfo.tables /\ d.unread.k # "DHT"
LEMMA BorrowingOn ==
    ASSUME Borrowing(dinfo), NEW d, StillBorrows(d)
    PROVE  Borrowing(d)
BY DEF Borrowing, StillBorrows

LEMMA NoTablesToMeet ==
    ASSUME FileInv, Borrowing(dinfo), NEW i \in 1 .. Size + 1
    PROVE  At(i).k # "DHT"
<1>1. CASE i \in 1 .. Size
  BY <1>1 DEF Borrowing, Has
<1>2. CASE i = Size + 1
  BY <1>2, AtTheEnd, TokenFacts
<1>3. QED
  BY <1>1, <1>2, SizeIsNat

\* What a step has to show for this invariant.
LEMMA GoKeepsSoundInv ==
    ASSUME SoundInv, pc # "idle", NEW d, NEW l, Go(d, l), l # "idle",
           Attending /\ Borrowing(dinfo) => StillBorrows(d),
           Attending /\ GoodAt(dinfo, pc, next, warning) => GoodAt(d, l, next', warning')
    PROVE  SoundInv'
<1>1. dinfo' = d /\ pc' = l /\ UNCHANGED <<source, call, result, written, calls, inherited>>
  BY DEF Go
<1>2. Attending' <=> Attending
  BY <1>1, SameAttending
<1>3. ASSUME Attending PROVE Borrowing(d) \/ GoodAt(d, l, next', warning')
  BY <1>3, BorrowingOn DEF SoundInv
<1>4. ASSUME Attending PROVE (Borrowing(dinfo) \/ GoodAt(dinfo, pc, next, warning))'
  BY <1>1, <1>3, <1>4, SameBorrowing, SameGood
<1>5. QED
  BY <1>1, <1>2, <1>4 DEF SoundInv

\* A call on a sound file fails for want of its tables only.
LEMMA FailKeepsSoundInv ==
    ASSUME SoundInv, pc # "idle", NEW d, IsObject(d), Fail(d),
           Attending /\ Borrowing(dinfo) => StillBorrows(d),
           Attending => ~GoodAt(dinfo, pc, next, warning)
    PROVE  SoundInv'
<1>1. pc' = "idle" /\ UNCHANGED <<source, call, written, calls, inherited>>
      /\ dinfo' = (IF call = "transform" THEN Abort(d) ELSE d)
  BY DEF Fail
<1>2. Attending' <=> Attending
  BY <1>1, SameAttending
<1>3. ASSUME Attending PROVE Borrowing(dinfo)'
  <2>1. Borrowing(dinfo) /\ call = "transform"
    BY <1>3 DEF SoundInv, Borrowing
  <2>2. StillBorrows(d)
    BY <1>3, <2>1
  <2>3. Abort(d).tables = d.tables /\ Abort(d).unread = d.unread
    BY AbortFields DEF Keeps, Fields
  <2>4. StillBorrows(Abort(d))
    BY <2>2, <2>3 DEF StillBorrows
  <2>5. Borrowing(Abort(d))
    BY <2>1, <2>4, BorrowingOn
  <2>6. QED
    BY <1>1, <2>1, <2>5, SameBorrowing
<1>4. QED
  BY <1>1, <1>2, <1>3 DEF SoundInv

\* What holds while a call works on a sound file.
LEMMA WhileAttending ==
    ASSUME TypeInv, WrittenInv, Attending
    PROVE  Laid /\ FileInv
BY SoundFilesAreLaid DEF TypeInv, Attending

\* What the headers are judged by.
SameHeader(d, e) ==
    /\ e.inheaders = d.inheaders /\ e.eoi = d.eoi /\ e.sawSOI = d.sawSOI /\ e.frame = d.frame
    /\ e.interval = d.interval /\ e.quant = d.quant /\ e.tables = d.tables
    /\ e.multiple = d.multiple /\ e.latched = d.latched

LEMMA HeaderStays ==
    ASSUME NEW d, NEW e, SameHeader(d, e)
    PROVE  /\ \A q : Headed(d, q) /\ e.adobe = d.adobe => Headed(e, q)
           /\ Scanning(d) => Scanning(e)
BY DEF SameHeader, Headed, Scanning, TablesMatch, AdobeOfFile

LEMMA UnreadKeepsHeader ==
    ASSUME NEW d, NEW e, Keeps(d, e, {"unread"})
    PROVE  SameHeader(d, e) /\ e.tables = d.tables /\ e.adobe = d.adobe
BY DEF Keeps, SameHeader, Fields

\* A marker in front of the reader is the next marker.
LEMMA MarkerHere ==
    ASSUME FileInv, NEW i \in 1 .. Size + 1, At(i).k # "data"
    PROVE  NextMarker(i) = i
<1>1. /\ NextMarker(i) \in i .. Size + 1 /\ i \in Int
      /\ \A l \in i .. NextMarker(i) - 1 : At(l).k = "data"
  BY MarkerIsFound, SizeIsNat
<1>2. CASE NextMarker(i) > i
  <2>1. i \in i .. NextMarker(i) - 1
    BY <1>1, <1>2, SizeIsNat
  <2>2. QED
    BY <1>1, <2>1
<1>3. CASE ~(NextMarker(i) > i)
  BY <1>1, <1>3, SizeIsNat
<1>4. QED
  BY <1>2, <1>3

\* The steps of read_markers() keep it.
LEMMA ReadAfterEOIKeepsSoundInv ==
    ASSUME TypeInv, SoundInv, ReadAfterEOI PROVE SoundInv'
<1>1. Reading /\ dinfo.eoi /\ Fail(dinfo)
  BY DEF ReadAfterEOI
<1>2. IsObject(dinfo) /\ pc = "reading"
  BY <1>1, WhileReading
<1>3. ~GoodAt(dinfo, pc, next, warning)
  BY <1>1, <1>2 DEF GoodAt, InOrder, Headed, Scanning
<1>4. Borrowing(dinfo) => StillBorrows(dinfo)
  BY DEF Borrowing, StillBorrows
<1>5. QED
  BY <1>1, <1>2, <1>3, <1>4, FailKeepsSoundInv

LEMMA FirstMarkerKeepsSoundInv ==
    ASSUME TypeInv, WrittenInv, SoundInv, FirstMarker PROVE SoundInv'
<1> DEFINE d == [dinfo EXCEPT !.unread = At(next)]
<1>1. /\ Reading /\ ~dinfo.eoi /\ dinfo.unread = NoMarker /\ ~dinfo.sawSOI
      /\ next' = After(next) /\ warning' = (warning \/ Starved(next))
      /\ IF At(next).k = "SOI" THEN Go(d, pc) ELSE Fail(dinfo)
  BY DEF FirstMarker
<1>2. IsObject(dinfo) /\ FileInv /\ next \in 1 .. Size + 1 /\ pc = "reading"
  BY <1>1, WhileReading
<1>3. Keeps(dinfo, d, {"unread"}) /\ d.unread = At(next)
  BY <1>2, UnreadField
<1>4. ASSUME Attending, GoodAt(dinfo, pc, next, warning)
      PROVE  next = 1 /\ Laid /\ Headed(dinfo, 0) /\ ~warning
  <2>1. Laid
    BY <1>4, WhileAttending
  <2>2. InOrder(dinfo, next) /\ Seen(dinfo, next) = next - 1 /\ ~warning
    BY <1>1, <1>2, <1>4 DEF GoodAt, Seen
  <2>3. Headed(dinfo, next - 1)
    BY <1>1, <2>2 DEF InOrder, Scanning
  <2>4. ~(next - 1 >= 1)
    BY <1>1, <2>3 DEF Headed
  <2>5. next = 1 /\ next - 1 = 0
    BY <1>2, <2>1, <2>4, LaidPlaces
  <2>6. QED
    BY <2>1, <2>2, <2>3, <2>5
<1> HIDE DEF d
<1>5. CASE At(next).k = "SOI"
  <2>1. ASSUME Attending, Borrowing(dinfo) PROVE StillBorrows(d)
    BY <1>3, <1>5, <2>1, UnreadKeepsHeader DEF StillBorrows
  <2>2. ASSUME Attending, GoodAt(dinfo, pc, next, warning) PROVE GoodAt(d, pc, next', warning')
    <3>1. next = 1 /\ Laid /\ Headed(dinfo, 0) /\ ~warning
      BY <1>4, <2>2
    <3>2. Size \in Nat /\ First \in Nat /\ FrameAt \in 2 .. First - 1 /\ First < Size
      BY <3>1, LaidPlaces
    <3>3. At(1) = Tokens[1] /\ ~Starved(1)
      BY <3>1, <3>2 DEF Laid
    <3>4. next' = 2 /\ ~warning'
      <4>1. next' = 2
        BY <1>1, <3>1, <3>3 DEF After
      <4>2. ~Starved(next) /\ ~warning
        BY <3>1, <3>3
      <4>3. QED
        BY <1>1, <4>1, <4>2
    <3>5. d.unread # NoMarker
      BY <1>2, <1>3, AtIsToken, TokenFacts
    <3>6. Seen(d, next') = 0
      BY <3>4, <3>5 DEF Seen
    <3>7. Headed(d, 0)
      BY <1>3, <3>1, UnreadKeepsHeader, HeaderStays
    <3>8. d.unread = Tokens[next' - 1]
      BY <1>3, <3>1, <3>3, <3>4
    <3>9. InOrder(d, next')
      BY <3>2, <3>4, <3>6, <3>7, <3>8 DEF InOrder
    <3>10. QED
      BY <1>2, <3>4, <3>9 DEF GoodAt
  <2>3. QED
    BY <1>1, <1>2, <1>5, <2>1, <2>2, GoKeepsSoundInv
<1>6. CASE At(next).k # "SOI"
  <2>1. ASSUME Attending, GoodAt(dinfo, pc, next, warning) PROVE FALSE
    <3>1. At(1) = Tokens[1] /\ Tokens[1].k = "SOI" /\ next = 1
      BY <1>4, <2>1, LaidPlaces DEF Laid
    <3>2. QED
      BY <1>6, <3>1
  <2>2. Borrowing(dinfo) => StillBorrows(dinfo)
    BY DEF Borrowing, StillBorrows
  <2>3. QED
    BY <1>1, <1>2, <1>6, <2>1, <2>2, FailKeepsSoundInv
<1>7. QED
  BY <1>5, <1>6

LEMMA NextMarkerOfHeadersKeepsSoundInv ==
    ASSUME TypeInv, WrittenInv, SoundInv, NextMarkerOfHeaders PROVE SoundInv'
<1> DEFINE found == NextMarker(next)
           d == [dinfo EXCEPT !.unread = At(found)]
<1>1. /\ Reading /\ ~dinfo.eoi /\ dinfo.sawSOI /\ dinfo.unread = NoMarker
      /\ Go(d, pc) /\ next' = After(found)
      /\ warning' = (warning \/ found > next \/ Starved(found))
  BY DEF NextMarkerOfHeaders
<1>2. IsObject(dinfo) /\ FileInv /\ next \in 1 .. Size + 1 /\ pc = "reading" /\ Size \in Nat
  BY <1>1, WhileReading, SizeIsNat
<1>3. Keeps(dinfo, d, {"unread"}) /\ d.unread = At(found)
  BY <1>2, UnreadField
<1>4. found \in 1 .. Size + 1 /\ d.unread # NoMarker
  BY <1>2, <1>3, FoundInFile
<1> HIDE DEF d
<1>5. ASSUME Attending, Borrowing(dinfo) PROVE StillBorrows(d)
  BY <1>2, <1>3, <1>4, <1>5, UnreadKeepsHeader, NoTablesToMeet DEF StillBorrows
<1>6. ASSUME Attending, GoodAt(dinfo, pc, next, warning) PROVE GoodAt(d, pc, next', warning')
  <2>1. Laid
    BY <1>6, WhileAttending
  <2>2. InOrder(dinfo, next) /\ Seen(dinfo, next) = next - 1 /\ ~warning
    BY <1>1, <1>2, <1>6 DEF GoodAt, Seen
  <2>3. next \in 1 .. Size
    BY <1>2, <2>2 DEF InOrder
  <2>4. At(next) = Tokens[next] /\ ~Starved(next)
    BY <2>1, <2>3 DEF Laid
  <2>5. At(next).k # "data"
    <3>1. CASE next - 1 < First
      <4>1. next = 1 \/ next \in 2 .. First - 1 \/ next = First
        BY <2>1, <2>3, <3>1, LaidPlaces
      <4>2. QED
        BY <2>1, <2>4, <4>1, LaidPlaces
    <3>2. CASE ~(next - 1 < First)
      <4>1. Tokens[(next - 1) + 1].k # "data" /\ (next - 1) + 1 = next
        BY <2>2, <2>3, <3>2 DEF InOrder
      <4>2. QED
        BY <2>4, <4>1
    <3>3. QED
      BY <3>1, <3>2
  <2>6. found = next
    BY <1>2, <2>5, MarkerHere
  <2>7. next' = next + 1 /\ ~warning'
    <3>1. next' = next + 1
      BY <1>1, <2>4, <2>6 DEF After
    <3>2. ~(found > next) /\ ~Starved(found) /\ ~warning
      BY <1>2, <2>2, <2>4, <2>6
    <3> HIDE DEF found
    <3>3. QED
      BY <1>1, <3>1, <3>2
  <2>8. d.unread = Tokens[next' - 1] /\ Seen(d, next') = next - 1 /\ next' >= 2
    BY <1>2, <1>3, <1>4, <2>4, <2>6, <2>7 DEF Seen
  <2>9. InOrder(d, next')
    BY <1>3, <2>2, <2>8, UnreadKeepsHeader, HeaderStays DEF InOrder
  <2>10. QED
    BY <1>2, <2>7, <2>9 DEF GoodAt
<1>7. QED
  BY <1>1, <1>2, <1>5, <1>6, GoKeepsSoundInv

\* Where the markers of a sound file are.
KindPlaced(i) ==
    /\ Tokens[i].k = "SOI" => i = 1
    /\ Tokens[i].k = "SOF" => i = FrameAt
    /\ Tokens[i].k = "EOI" => i = Size
    /\ Tokens[i].k \in {"DQT", "DRI"} => i < First /\ i # 1
    /\ Tokens[i].k \in {"DHT", "APP"} => i # 1 /\ i # First /\ i # Size
    /\ Tokens[i].k \notin {"TEM", "RES"}
    /\ Tokens[i].k = "SOS" => i >= First /\ i # Size
    /\ Tokens[i].k \in {"RST", "data"} => i > First /\ i # Size
LEMMA MarkerPlaces ==
    ASSUME Laid, NEW i \in 1 .. Size
    PROVE  KindPlaced(i)
<1>1. Size \in Nat /\ First \in Nat /\ FrameAt \in 2 .. First - 1 /\ First < Size /\ i \in Int
  BY LaidPlaces
<1>2. CASE i = 1
  BY <1>1, <1>2, LaidPlaces DEF KindPlaced
<1>3. CASE i \in 2 .. First - 1
  BY <1>1, <1>3, LaidPlaces DEF KindPlaced
<1>4. CASE i = First
  BY <1>1, <1>4, LaidPlaces DEF KindPlaced
<1>5. CASE i \in First + 1 .. Size - 1
  <2>1. i \in First .. Size - 1
    BY <1>1, <1>5
  <2>2. Tokens[i].k \in {"APP", "DHT", "SOS", "RST", "data"}
    BY <2>1, LaidPlaces
  <2>3. QED
    BY <1>1, <1>5, <2>2 DEF KindPlaced
<1>6. CASE i = Size
  BY <1>1, <1>6, LaidPlaces DEF KindPlaced
<1>7. QED
  BY <1>1, <1>2, <1>3, <1>4, <1>5, <1>6

\* Its tables and its restart interval.
LEMMA LaidTables ==
    ASSUME Laid, NEW i \in 1 .. Size
    PROVE  /\ Tokens[i].k \in {"DHT", "data"} => Tokens[i].name = Tables
           /\ Tokens[i].k = "DRI" => Tokens[i].n = Interval
           /\ Tokens[i].k \in {"DHT", "DQT"} => Tokens[i].name # None
<1>1. i \in DOMAIN Tokens /\ IsToken(Tokens[i])
  BY LaidPlaces DEF Laid
<1>2. Layout(Tokens, FrameAt, First, Interval, Tables)
  BY DEF Laid
<1>3. \A j \in DOMAIN Tokens : Tokens[j].k \in {"DHT", "data"} => Tokens[j].name = Tables
  BY <1>2 DEF Layout
<1>4. \A j \in DOMAIN Tokens : Tokens[j].k = "DRI" => Tokens[j].n = Interval
  BY <1>2 DEF Layout
<1>5. Tokens[i].k \in {"DHT", "DQT"} => Tokens[i].name # None
  BY <1>1 DEF IsToken
<1>6. QED
  BY <1>1, <1>3, <1>4, <1>5

\* What holds of a marker of a sound file while it is parsed.
LEMMA WhilePendingGood ==
    ASSUME TypeInv, WrittenInv, Attending, GoodAt(dinfo, pc, next, warning),
           NEW kinds, Pending(kinds)
    PROVE  /\ Laid /\ next \in 2 .. Size + 1 /\ next - 1 \in 1 .. Size /\ pc = "reading"
           /\ ~warning
           /\ dinfo.unread = Tokens[next - 1] /\ Tokens[next - 1].k \in kinds
           /\ \/ next - 2 < First /\ Headed(dinfo, next - 2)
              \/ /\ next - 2 >= First /\ Scanning(dinfo)
                 /\ Tokens[next - 1].k \notin {"data", "RST"}
<1>1. Laid /\ Size \in Nat
  BY WhileAttending, LaidPlaces
<1>2. Reading /\ dinfo.unread # NoMarker /\ dinfo.unread.k \in kinds
  BY DEF Pending
<1>3. pc = "reading" /\ next \in 1 .. Size + 1
  BY <1>2, WhileReading
<1>4. InOrder(dinfo, next) /\ Seen(dinfo, next) = next - 2 /\ ~warning
  BY <1>2, <1>3 DEF GoodAt, Seen
<1>5. next \in 2 .. Size + 1 /\ next - 1 \in 1 .. Size /\ (next - 2) + 1 = next - 1
  BY <1>1, <1>2, <1>3, <1>4 DEF InOrder
<1>6. QED
  BY <1>1, <1>2, <1>3, <1>4, <1>5 DEF InOrder

LEMMA WhileParsingGood ==
    ASSUME TypeInv, WrittenInv, Attending, GoodAt(dinfo, pc, next, warning),
           NEW kinds, Parsing(kinds)
    PROVE  /\ Laid /\ next \in 2 .. Size + 1 /\ next - 1 \in 1 .. Size /\ pc = "reading"
           /\ next' = next /\ ~warning'
           /\ dinfo.unread = Tokens[next - 1] /\ Tokens[next - 1].k \in kinds
           /\ \/ next - 2 < First /\ Headed(dinfo, next - 2)
              \/ /\ next - 2 >= First /\ Scanning(dinfo)
                 /\ Tokens[next - 1].k \notin {"data", "RST"}
<1>1. Pending(kinds) /\ next' = next /\ warning' = warning
  BY DEF Parsing
<1>2. QED
  BY <1>1, WhilePendingGood

\* A marker of the header has taken effect.
LEMMA TakenInHeader ==
    ASSUME Laid, NEW q \in Nat, q + 1 < First, NEW d, NEW e, Headed(d, q),
           e.sawSOI, e.inheaders = d.inheaders, e.eoi = d.eoi,
           e.frame = IF q + 1 = FrameAt THEN Tokens[FrameAt] ELSE d.frame,
           e.interval = IF q = 0 THEN 0
                        ELSE IF Tokens[q + 1].k = "DRI" THEN Interval ELSE d.interval,
           IF Tokens[q + 1].k = "DQT" THEN e.quant # None ELSE e.quant = d.quant,
           IF Tokens[q + 1].k = "DHT" THEN e.tables = Tables ELSE e.tables = d.tables,
           AdobeOfFile(e) \/ (q # 0 /\ e.adobe = d.adobe)
    PROVE  Headed(e, q + 1)
<1>1. Size \in Nat /\ First \in Nat /\ FrameAt \in 2 .. First - 1 /\ First < Size
  BY LaidPlaces
<1>2. \A kind : Before(q + 1, kind) <=> Before(q, kind) \/ Tokens[q + 1].k = kind
  <2> SUFFICES ASSUME NEW kind
               PROVE  Before(q + 1, kind) <=> Before(q, kind) \/ Tokens[q + 1].k = kind
    OBVIOUS
  <2>1. \A j \in 1 .. q + 1 : j \in 1 .. q \/ j = q + 1
    OBVIOUS
  <2>2. \A j \in 1 .. q : j \in 1 .. q + 1
    OBVIOUS
  <2>3. q + 1 \in 1 .. q + 1
    OBVIOUS
  <2>4. QED
    BY <2>1, <2>2, <2>3 DEF Before
<1>3. Tokens[q + 1].k = "DHT" => Before(Size, "DHT")
  <2>1. q + 1 \in 1 .. Size
    BY <1>1
  <2>2. QED
    BY <2>1 DEF Before
<1>4. e.frame = IF FrameAt <= q + 1 THEN Tokens[FrameAt] ELSE NoMarker
  BY <1>1 DEF Headed
<1>5. e.interval = IF Before(q + 1, "DRI") THEN Interval ELSE 0
  <2>1. CASE q = 0
    <3>1. Tokens[q + 1].k # "DRI" /\ ~Before(0, "DRI")
      BY <1>1, <2>1, LaidPlaces DEF Before
    <3>2. QED
      BY <1>2, <2>1, <3>1
  <2>2. CASE q # 0
    BY <1>2, <2>2 DEF Headed
  <2>3. QED
    BY <2>1, <2>2
<1>6. Before(q + 1, "DQT") => e.quant # None
  BY <1>2 DEF Headed
<1>7. Before(q + 1, "DHT") => e.tables = Tables
  BY <1>2 DEF Headed
<1>8. call = "transform" /\ ~Before(Size, "DHT") => e.tables \in {None, Tables}
  BY <1>3 DEF Headed
<1>9. e.inheaders /\ ~e.eoi /\ q + 1 >= 1
  BY DEF Headed
<1>10. AdobeOfFile(e)
  BY DEF Headed, AdobeOfFile
<1>11. QED
  BY <1>4, <1>5, <1>6, <1>7, <1>8, <1>9, <1>10 DEF Headed

\* A marker has been taken: what follows it is read.
LEMMA ReadsOn ==
    ASSUME Laid, next \in 2 .. Size + 1, next' = next, ~warning', Tokens[next - 1].k # "EOI",
           NEW d, d.unread = NoMarker,
           \/ next - 1 < First /\ Headed(d, next - 1)
           \/ next - 1 >= First /\ Scanning(d) /\ Tokens[next].k \notin {"data", "RST"}
    PROVE  GoodAt(d, "reading", next', warning')
<1>1. next - 1 < Size
  <2>1. next - 1 # Size
    BY LaidPlaces
  <2>2. QED
    BY <2>1, LaidPlaces
<1>2. Seen(d, next) = next - 1 /\ (next - 1) + 1 = next
  BY LaidPlaces DEF Seen
<1>3. InOrder(d, next)
  BY <1>1, <1>2 DEF InOrder
<1>4. QED
  BY <1>3 DEF GoodAt

\* Behind tables and saved markers between the scans there are no data.
LEMMA NoDataBehind ==
    ASSUME Laid, NEW i \in First .. Size - 1, Tokens[i].k \in {"APP", "DHT"}
    PROVE  Tokens[i + 1].k \notin {"data", "RST"}
BY DEF Laid, Layout, Follows

\* Taking a marker that is not for tables leaves the tables missing.
LEMMA ParsingStillBorrows ==
    ASSUME Borrowing(dinfo), NEW d, d.tables = dinfo.tables, d.unread = NoMarker
    PROVE  StillBorrows(d)
BY TokenFacts DEF StillBorrows, None

\* A marker that a sound file would not have had there.
LEMMA ParsingFailsSound ==
    ASSUME TypeInv, SoundInv, NEW kinds, Parsing(kinds), Fail(dinfo),
           Attending => ~GoodAt(dinfo, pc, next, warning)
    PROVE  SoundInv'
<1>1. IsObject(dinfo) /\ pc # "idle"
  BY WhileParsing, WhileReading
<1>2. Borrowing(dinfo) => StillBorrows(dinfo)
  BY DEF Borrowing, StillBorrows
<1>3. QED
  BY <1>1, <1>2, FailKeepsSoundInv

\* A marker of the header that is taken.
LEMMA HeaderTakenKeepsSoundInv ==
    ASSUME TypeInv, WrittenInv, SoundInv, NEW kinds, Parsing(kinds), NEW d, Go(d, pc),
           d.unread = NoMarker, dinfo.unread.k # "DHT" => d.tables = dinfo.tables,
           Attending /\ GoodAt(dinfo, pc, next, warning) =>
               /\ Tokens[next - 1].k # "EOI"
               /\ \/ next - 1 < First /\ Headed(d, next - 1)
                  \/ next - 1 >= First /\ Scanning(d) /\ Tokens[next].k \notin {"data", "RST"}
    PROVE  SoundInv'
<1>1. IsObject(dinfo) /\ pc = "reading"
  BY WhileParsing, WhileReading
<1>2. Attending /\ Borrowing(dinfo) => StillBorrows(d)
  BY ParsingStillBorrows DEF Borrowing
<1>3. ASSUME Attending, GoodAt(dinfo, pc, next, warning) PROVE GoodAt(d, pc, next', warning')
  BY <1>1, <1>3, WhileParsingGood, ReadsOn
<1>4. QED
  BY <1>1, <1>2, <1>3, GoKeepsSoundInv

\* The markers of the headers.
LEMMA GetSOIKeepsSoundInv ==
    ASSUME TypeInv, WrittenInv, SoundInv, GetSOI PROVE SoundInv'
<1> DEFINE d == Opened
<1>1. Parsing({"SOI"}) /\ IF dinfo.sawSOI THEN Fail(dinfo) ELSE Go(d, pc)
  BY DEF GetSOI, Opened
<1>2. IsObject(dinfo)
  BY <1>1, WhileParsing, WhileReading
<1>3. /\ Keeps(dinfo, d, {"sawSOI", "interval", "unread", "jfif", "adobe"})
      /\ d.unread = NoMarker /\ d.sawSOI = TRUE /\ d.interval = 0 /\ d.adobe = NoMarker
  BY <1>2, OpenedFields
<1> HIDE DEF d
<1>4. ASSUME Attending, GoodAt(dinfo, pc, next, warning)
      PROVE  next = 2 /\ Laid /\ Headed(dinfo, 0)
  <2>1. /\ Laid /\ next \in 2 .. Size + 1 /\ next - 1 \in 1 .. Size /\ Tokens[next - 1].k = "SOI"
        /\ \/ next - 2 < First /\ Headed(dinfo, next - 2)
           \/ next - 2 >= First
    BY <1>1, <1>4, WhileParsingGood
  <2>2. next - 1 = 1
    BY <2>1, MarkerPlaces DEF KindPlaced
  <2>3. next = 2 /\ next - 2 = 0
    BY <2>1, <2>2, LaidPlaces
  <2>4. QED
    BY <2>1, <2>3, LaidPlaces
<1>5. CASE dinfo.sawSOI
  <2>1. ASSUME Attending, GoodAt(dinfo, pc, next, warning) PROVE FALSE
    BY <1>4, <1>5, <2>1 DEF Headed
  <2>2. QED
    BY <1>1, <1>5, <2>1, ParsingFailsSound
<1>6. CASE ~dinfo.sawSOI
  <2>1. ASSUME Attending, GoodAt(dinfo, pc, next, warning)
        PROVE  Tokens[next - 1].k # "EOI" /\ next - 1 < First /\ Headed(d, next - 1)
    <3>1. next = 2 /\ Laid /\ Headed(dinfo, 0) /\ next - 1 = 1 /\ 0 + 1 = 1
      BY <1>4, <2>1
    <3>2. 1 < First /\ 1 # FrameAt /\ Tokens[1].k = "SOI"
      BY <3>1, LaidPlaces
    <3>3. /\ d.inheaders = dinfo.inheaders /\ d.eoi = dinfo.eoi /\ d.frame = dinfo.frame
          /\ d.quant = dinfo.quant /\ d.tables = dinfo.tables
      BY <1>3 DEF Keeps, Fields
    <3>4. Headed(d, 0 + 1)
      BY <1>3, <3>1, <3>2, <3>3, TakenInHeader DEF AdobeOfFile
    <3>5. QED
      BY <3>1, <3>2, <3>4
  <2>2. d.tables = dinfo.tables
    BY <1>3 DEF Keeps, Fields
  <2>3. QED
    BY <1>1, <1>3, <1>6, <2>1, <2>2, HeaderTakenKeepsSoundInv
<1>7. QED
  BY <1>5, <1>6

LEMMA GetSOFKeepsSoundInv ==
    ASSUME TypeInv, WrittenInv, SoundInv, GetSOF PROVE SoundInv'
<1> DEFINE d == [dinfo EXCEPT !.frame = dinfo.unread, !.unread = NoMarker]
           bad == Stale \/ dinfo.frame # NoMarker \/ dinfo.unread.name \in {"unsupported", "empty"}
<1>1. Parsing({"SOF"}) /\ IF bad THEN Fail(dinfo) ELSE Go(d, pc)
  BY DEF GetSOF
<1>2. IsObject(dinfo)
  BY <1>1, WhileParsing, WhileReading
<1>3. Keeps(dinfo, d, {"frame", "unread"}) /\ d.unread = NoMarker /\ d.frame = dinfo.unread
  BY <1>2 DEF IsObject, Fields, Keeps
<1> HIDE DEF d
<1>4. ASSUME Attending, GoodAt(dinfo, pc, next, warning)
      PROVE  /\ Laid /\ next - 1 = FrameAt /\ Headed(dinfo, next - 2) /\ next \in Int
             /\ FrameAt \in 2 .. First - 1 /\ First \in Nat
             /\ dinfo.unread = Tokens[FrameAt] /\ Tokens[FrameAt].k = "SOF" /\ Tokens[FrameAt].name = None
  <2>1. /\ Laid /\ next \in 2 .. Size + 1 /\ next - 1 \in 1 .. Size /\ Tokens[next - 1].k = "SOF"
        /\ dinfo.unread = Tokens[next - 1]
        /\ \/ next - 2 < First /\ Headed(dinfo, next - 2)
           \/ next - 2 >= First
    BY <1>1, <1>4, WhileParsingGood
  <2>2. next - 1 = FrameAt
    BY <2>1, MarkerPlaces DEF KindPlaced
  <2>3. QED
    BY <2>1, <2>2, LaidPlaces
<1>5. CASE bad
  <2>1. ASSUME Attending, GoodAt(dinfo, pc, next, warning) PROVE FALSE
    <3>1. ~Stale
      BY <1>4, <2>1 DEF Stale
    <3>2. dinfo.frame = NoMarker
      BY <1>4, <2>1 DEF Headed
    <3>3. QED
      BY <1>4, <1>5, <2>1, <3>1, <3>2 DEF None
  <2>2. QED
    BY <1>1, <1>5, <2>1, ParsingFailsSound
<1>6. CASE ~bad
  <2>1. ASSUME Attending, GoodAt(dinfo, pc, next, warning)
        PROVE  Tokens[next - 1].k # "EOI" /\ next - 1 < First /\ Headed(d, next - 1)
    <3> DEFINE q == next - 2
    <3>1. q \in Nat /\ q # 0 /\ q + 1 = FrameAt /\ q + 1 < First /\ q + 1 = next - 1
      BY <1>4, <2>1
    <3>2. Laid /\ Headed(dinfo, q) /\ Tokens[q + 1].k = "SOF" /\ d.frame = Tokens[FrameAt]
      BY <1>3, <1>4, <2>1, <3>1
    <3>3. /\ d.inheaders = dinfo.inheaders /\ d.eoi = dinfo.eoi /\ d.interval = dinfo.interval
          /\ d.quant = dinfo.quant /\ d.tables = dinfo.tables /\ d.sawSOI = dinfo.sawSOI
          /\ d.adobe = dinfo.adobe
      BY <1>3 DEF Keeps, Fields
    <3> HIDE DEF q
    <3>4. d.sawSOI
      BY <3>1, <3>2, <3>3 DEF Headed
    <3>5. Headed(d, q + 1)
      BY <3>1, <3>2, <3>3, <3>4, TakenInHeader
    <3>6. QED
      BY <3>1, <3>2, <3>5
  <2>2. d.tables = dinfo.tables
    BY <1>3 DEF Keeps, Fields
  <2>3. QED
    BY <1>1, <1>3, <1>6, <2>1, <2>2, HeaderTakenKeepsSoundInv
<1>7. QED
  BY <1>5, <1>6

LEMMA GetTablesKeepsSoundInv ==
    ASSUME TypeInv, WrittenInv, SoundInv, GetTables PROVE SoundInv'
<1> DEFINE m == dinfo.unread
           b == [dinfo EXCEPT !.unread = NoMarker]
           d == CASE m.k = "DHT" -> [b EXCEPT !.tables = m.name]
                  [] m.k = "DQT" -> [b EXCEPT !.quant = m.name]
                  [] m.k = "DRI" -> [b EXCEPT !.interval = m.n]
<1>1. Parsing({"DHT", "DQT", "DRI"}) /\ m.k \in {"DHT", "DQT", "DRI"}
      /\ IF Stale THEN Fail(dinfo) ELSE Go(d, pc)
  BY DEF GetTables, Parsing, Pending
<1>2. IsObject(dinfo)
  BY <1>1, WhileParsing, WhileReading
<1>3. Keeps(dinfo, b, {"unread"}) /\ b.unread = NoMarker
  BY <1>2, UnreadField
<1> HIDE DEF b
<1>4. /\ Keeps(b, d, {"tables", "quant", "interval"})
      /\ d.tables = IF m.k = "DHT" THEN m.name ELSE b.tables
      /\ d.quant = IF m.k = "DQT" THEN m.name ELSE b.quant
      /\ d.interval = IF m.k = "DRI" THEN m.n ELSE b.interval
  <2>1. CASE m.k = "DHT"
    BY <1>3, <2>1 DEF IsObject, Fields, Keeps
  <2>2. CASE m.k = "DQT"
    BY <1>3, <2>2 DEF IsObject, Fields, Keeps
  <2>3. CASE m.k = "DRI"
    BY <1>3, <2>3 DEF IsObject, Fields, Keeps
  <2>4. QED
    BY <1>1, <2>1, <2>2, <2>3
<1> HIDE DEF d
<1>5. /\ d.inheaders = dinfo.inheaders /\ d.eoi = dinfo.eoi /\ d.frame = dinfo.frame
      /\ d.sawSOI = dinfo.sawSOI /\ d.multiple = dinfo.multiple /\ d.latched = dinfo.latched
      /\ d.unread = NoMarker /\ d.adobe = dinfo.adobe
      /\ b.tables = dinfo.tables /\ b.quant = dinfo.quant
      /\ b.interval = dinfo.interval
  BY <1>3, <1>4 DEF Keeps, Fields
<1>6. CASE Stale
  <2>1. ASSUME Attending, GoodAt(dinfo, pc, next, warning) PROVE FALSE
    BY <1>1, <1>6, <2>1, WhileParsingGood DEF Stale
  <2>2. QED
    BY <1>1, <1>6, <2>1, ParsingFailsSound
<1>7. CASE ~Stale
  <2>1. ASSUME Attending, GoodAt(dinfo, pc, next, warning)
        PROVE  /\ Tokens[next - 1].k # "EOI"
               /\ \/ next - 1 < First /\ Headed(d, next - 1)
                  \/ next - 1 >= First /\ Scanning(d) /\ Tokens[next].k \notin {"data", "RST"}
    <3> DEFINE i == next - 1
    <3>1. /\ Laid /\ next \in 2 .. Size + 1 /\ i \in 1 .. Size /\ m = Tokens[i]
          /\ \/ next - 2 < First /\ Headed(dinfo, next - 2)
             \/ next - 2 >= First /\ Scanning(dinfo)
      BY <1>1, <2>1, WhileParsingGood
    <3>2. i # 1 /\ i # First /\ i # Size /\ (m.k # "DHT" => i < First)
      BY <1>1, <3>1, MarkerPlaces, LaidPlaces DEF KindPlaced
    <3>3. /\ m.k = "DHT" => m.name = Tables
          /\ m.k = "DRI" => m.n = Interval
          /\ m.k = "DQT" => m.name # None
      BY <3>1, LaidTables
    <3>4. CASE i < First
      <4> DEFINE q == next - 2
      <4>1. q \in Nat /\ q # 0 /\ q + 1 = i /\ q < First /\ q + 1 < First
        BY <3>1, <3>2, <3>4, LaidPlaces
      <4>2. Headed(dinfo, q) /\ q + 1 # FrameAt
        BY <1>1, <3>1, <4>1, LaidPlaces
      <4> HIDE DEF q, i
      <4>3. d.sawSOI
        BY <1>5, <4>1, <4>2 DEF Headed
      <4>4. d.interval = IF Tokens[q + 1].k = "DRI" THEN Interval ELSE dinfo.interval
        BY <1>4, <1>5, <3>1, <3>3, <4>1
      <4>5. IF Tokens[q + 1].k = "DQT" THEN d.quant # None ELSE d.quant = dinfo.quant
        BY <1>4, <1>5, <3>1, <3>3, <4>1
      <4>6. IF Tokens[q + 1].k = "DHT" THEN d.tables = Tables ELSE d.tables = dinfo.tables
        BY <1>4, <1>5, <3>1, <3>3, <4>1
      <4>7. Headed(d, q + 1)
        BY <1>5, <3>1, <4>1, <4>2, <4>3, <4>4, <4>5, <4>6, TakenInHeader
      <4>8. QED
        BY <1>1, <3>1, <3>4, <4>1, <4>7 DEF i
    <3>5. CASE ~(i < First)
      <4>1. m.k = "DHT" /\ i \in First .. Size - 1 /\ next - 2 >= First /\ i + 1 = next
        BY <1>1, <3>1, <3>2, <3>5, LaidPlaces
      <4>2. Scanning(dinfo)
        BY <3>1, <4>1, LaidPlaces
      <4>3. SameHeader(dinfo, d)
        BY <1>4, <1>5, <3>3, <4>1, <4>2 DEF SameHeader, Scanning
      <4>4. Scanning(d)
        BY <4>2, <4>3, HeaderStays
      <4>5. Tokens[i + 1].k \notin {"data", "RST"}
        BY <3>1, <4>1, NoDataBehind
      <4>6. QED
        BY <3>1, <4>1, <4>4, <4>5, LaidPlaces
    <3>6. QED
      BY <3>4, <3>5
  <2>2. dinfo.unread.k # "DHT" => d.tables = dinfo.tables
    BY <1>4, <1>5
  <2>3. QED
    BY <1>1, <1>5, <1>7, <2>1, <2>2, HeaderTakenKeepsSoundInv
<1>8. QED
  BY <1>6, <1>7

LEMMA SaveMarkerKeepsSoundInv ==
    ASSUME TypeInv, WrittenInv, SoundInv, SaveMarker PROVE SoundInv'
<1> DEFINE d == Saved
<1>1. Parsing({"APP"}) /\ Go(d, pc)
  BY MarkerIsSaved
<1>2. IsObject(dinfo)
  BY <1>1, WhileParsing, WhileReading
<1>3. /\ Keeps(dinfo, d, {"saved", "unread", "jfif", "adobe"}) /\ d.unread = NoMarker
      /\ d.adobe = IF dinfo.unread.name = "Adobe" THEN dinfo.unread ELSE dinfo.adobe
  BY <1>2, SavedFields
<1> HIDE DEF d
<1>4. SameHeader(dinfo, d)
  BY <1>3 DEF SameHeader, Keeps, Fields
<1>5. ASSUME Attending, GoodAt(dinfo, pc, next, warning)
      PROVE  /\ Tokens[next - 1].k # "EOI"
             /\ \/ next - 1 < First /\ Headed(d, next - 1)
                \/ next - 1 >= First /\ Scanning(d) /\ Tokens[next].k \notin {"data", "RST"}
  <2> DEFINE i == next - 1
  <2>1. /\ Laid /\ next \in 2 .. Size + 1 /\ i \in 1 .. Size /\ Tokens[i].k = "APP"
        /\ dinfo.unread = Tokens[i]
        /\ \/ next - 2 < First /\ Headed(dinfo, next - 2)
           \/ next - 2 >= First /\ Scanning(dinfo)
    BY <1>1, <1>5, WhileParsingGood
  <2>2. i # 1 /\ i # First /\ i # Size
    BY <2>1, MarkerPlaces DEF KindPlaced
  <2>3. CASE i < First
    <3> DEFINE q == next - 2
    <3>1. q \in Nat /\ q # 0 /\ q + 1 = i /\ q < First /\ q + 1 < First
      BY <2>1, <2>2, <2>3, LaidPlaces
    <3>2. Headed(dinfo, q) /\ q + 1 # FrameAt
      BY <2>1, <3>1, LaidPlaces
    <3> HIDE DEF q, i
    <3>3. d.sawSOI
      BY <1>4, <3>1, <3>2 DEF Headed, SameHeader
    <3>6. AdobeOfFile(d)
      BY <1>3, <2>1, <3>1, <3>2 DEF AdobeOfFile, Headed, Laid
    <3>4. Headed(d, q + 1)
      BY <1>4, <2>1, <3>1, <3>2, <3>3, <3>6, TakenInHeader DEF SameHeader
    <3>5. QED
      BY <2>1, <2>3, <3>1, <3>4 DEF i
  <2>4. CASE ~(i < First)
    <3>1. i \in First .. Size - 1 /\ next - 2 >= First /\ i + 1 = next
      BY <2>1, <2>2, <2>4, LaidPlaces
    <3>2. Scanning(d)
      BY <1>4, <2>1, <3>1, LaidPlaces, HeaderStays
    <3>3. Tokens[i + 1].k \notin {"data", "RST"}
      BY <2>1, <3>1, NoDataBehind
    <3>4. QED
      BY <2>1, <3>1, <3>2, <3>3, LaidPlaces
  <2>5. QED
    BY <2>3, <2>4
<1>6. d.tables = dinfo.tables
  BY <1>4 DEF SameHeader
<1>7. QED
  BY <1>1, <1>3, <1>5, <1>6, HeaderTakenKeepsSoundInv

LEMMA SkipMarkerKeepsSoundInv ==
    ASSUME TypeInv, WrittenInv, SoundInv, SkipMarker PROVE SoundInv'
<1> DEFINE d == [dinfo EXCEPT !.unread = NoMarker]
<1>1. Parsing({"RST", "TEM"}) /\ Go(d, pc)
  BY DEF SkipMarker
<1>2. IsObject(dinfo)
  BY <1>1, WhileParsing, WhileReading
<1>3. Keeps(dinfo, d, {"unread"}) /\ d.unread = NoMarker
  BY <1>2, UnreadField
<1> HIDE DEF d
<1>4. d.tables = dinfo.tables
  BY <1>3, UnreadKeepsHeader
<1>5. ASSUME Attending, GoodAt(dinfo, pc, next, warning) PROVE FALSE
  <2>1. /\ Laid /\ next \in 2 .. Size + 1 /\ next - 1 \in 1 .. Size
        /\ Tokens[next - 1].k \in {"RST", "TEM"}
        /\ next - 2 < First \/ Tokens[next - 1].k # "RST"
    BY <1>1, <1>5, WhileParsingGood
  <2>2. next - 1 > First
    BY <2>1, MarkerPlaces DEF KindPlaced
  <2>3. Tokens[next - 1].k # "TEM"
    BY <2>1, MarkerPlaces DEF KindPlaced
  <2>4. QED
    BY <2>1, <2>2, <2>3, LaidPlaces
<1>6. QED
  BY <1>1, <1>3, <1>4, <1>5, HeaderTakenKeepsSoundInv

LEMMA UnknownMarkerKeepsSoundInv ==
    ASSUME TypeInv, WrittenInv, SoundInv, UnknownMarker PROVE SoundInv'
<1>1. Parsing({"RES"}) /\ Fail(dinfo)
  BY DEF UnknownMarker
<1>2. ASSUME Attending, GoodAt(dinfo, pc, next, warning) PROVE FALSE
  BY <1>1, <1>2, WhileParsingGood, MarkerPlaces DEF KindPlaced
<1>3. QED
  BY <1>1, <1>2, ParsingFailsSound

\* The headers are complete in front of the first scan.
Complete(d) ==
    /\ d.inheaders /\ d.sawSOI /\ ~d.eoi
    /\ d.frame = Tokens[FrameAt] /\ d.interval = Interval /\ d.quant # None
    /\ call = "transform" => Tables = IF d.tables = None THEN "standard" ELSE d.tables
LEMMA HeadersAreComplete ==
    ASSUME Laid, NEW d, Headed(d, First - 1)
    PROVE  Complete(d)
<1>1. Size \in Nat /\ First \in Nat /\ FrameAt \in 2 .. First - 1 /\ First < Size
      /\ DOMAIN Tokens = 1 .. Size
  BY LaidPlaces
<1>2. Layout(Tokens, FrameAt, First, Interval, Tables)
  BY DEF Laid
<1>3. d.inheaders /\ d.sawSOI /\ ~d.eoi /\ d.frame = Tokens[FrameAt]
  BY <1>1 DEF Headed
<1>4. \A i \in 2 .. First - 1 : i \in 1 .. First - 1
  BY <1>1
<1>5. d.quant # None
  <2>1. \E i \in 2 .. First - 1 : Tokens[i].k = "DQT"
    BY <1>2 DEF Layout
  <2>2. Before(First - 1, "DQT")
    BY <1>4, <2>1 DEF Before
  <2>3. QED
    BY <2>2 DEF Headed
<1>6. d.interval = Interval
  <2>1. d.interval = IF Before(First - 1, "DRI") THEN Interval ELSE 0
    BY <1>1 DEF Headed
  <2>2. (\E i \in 2 .. First - 1 : Tokens[i].k = "DRI") \/ Interval = 0
    BY <1>2 DEF Layout
  <2>3. Before(First - 1, "DRI") \/ Interval = 0
    BY <1>4, <2>2 DEF Before
  <2>4. QED
    BY <2>1, <2>3
<1>7. ASSUME call = "transform" PROVE Tables = IF d.tables = None THEN "standard" ELSE d.tables
  <2>1. \/ \E i \in 2 .. First - 1 : Tokens[i].k = "DHT"
        \/ Tables = "standard" /\ \A i \in DOMAIN Tokens : Tokens[i].k # "DHT"
    BY <1>2 DEF Layout
  <2>2. CASE \E i \in 2 .. First - 1 : Tokens[i].k = "DHT"
    <3>1. PICK i \in 2 .. First - 1 : Tokens[i].k = "DHT"
      BY <2>2
    <3>2. i \in 1 .. Size
      BY <1>1
    <3>3. Tables # None
      BY <3>1, <3>2, LaidTables
    <3>4. Before(First - 1, "DHT")
      BY <1>4, <2>2 DEF Before
    <3>5. QED
      BY <3>3, <3>4 DEF Headed
  <2>3. CASE Tables = "standard" /\ \A i \in DOMAIN Tokens : Tokens[i].k # "DHT"
    <3>1. ~Before(Size, "DHT")
      BY <1>1, <2>3 DEF Before
    <3>2. d.tables \in {None, Tables}
      BY <1>7, <3>1 DEF Headed
    <3>3. QED
      BY <2>3, <3>2
  <2>4. QED
    BY <2>1, <2>2, <2>3
<1>8. QED
  BY <1>3, <1>5, <1>6, <1>7 DEF Complete

\* A scan of a sound file begins.
Starts(d) ==
    /\ Laid /\ Scanning(d) /\ next - 1 \in First .. Size - 1 /\ Tokens[next - 1].k = "SOS"
    /\ d.scan = Tokens[next - 1].comps /\ d.unread = NoMarker /\ d.expected = 0
    /\ next' = next /\ ~warning'
LEMMA StartedPass ==
    ASSUME NEW d, IsObject(d), Starts(d), next \in Int
    PROVE  GoodAt(PassStarted(d), "coefficients", next', warning')
<1> DEFINE e == PassStarted(d)
<1>1. /\ Keeps(d, e, {"consume", "mcu", "insufficient", "toGo", "last", "latched"})
      /\ e.mcu = 0 /\ e.insufficient = FALSE /\ e.toGo = d.interval
      /\ e.last = 0 /\ e.latched = Latched(d)
  BY PassStartedFields
<1>2. /\ Laid /\ Scanning(d) /\ next - 1 \in First .. Size - 1 /\ Tokens[next - 1].k = "SOS"
      /\ d.scan = Tokens[next - 1].comps /\ d.unread = NoMarker /\ d.expected = 0
      /\ next' = next /\ ~warning'
  BY DEF Starts
<1>3. /\ First \in Nat /\ Size \in Nat /\ next \in 1 .. Size /\ (next - 1) + 1 = next
      /\ next - 1 >= First
  BY <1>2, LaidPlaces
<1> HIDE DEF e
<1>4. /\ e.inheaders = d.inheaders /\ e.eoi = d.eoi /\ e.frame = d.frame /\ e.scan = d.scan
      /\ e.sawSOI = d.sawSOI /\ e.multiple = d.multiple /\ e.tables = d.tables
      /\ e.quant = d.quant /\ e.interval = d.interval /\ e.unread = d.unread
      /\ e.expected = d.expected
  BY <1>1 DEF Keeps, Fields
<1>5. TablesMatch(e)
  <2>1. \A c \in DOMAIN Latched(d) : Latched(d)[c] \in {None, d.quant}
    BY <1>2 DEF Latched, Scanning, TablesMatch
  <2>2. QED
    BY <1>1, <1>4, <2>1 DEF TablesMatch
<1>6. Scanning(e)
  BY <1>2, <1>4, <1>5 DEF Scanning
<1>7. IsMcu(Tokens[next], 1, d.scan, TRUE)
  <2>1. Follows(Tokens, next - 1, Tokens[FrameAt].n, Interval)
    BY <1>2 DEF Laid, Layout
  <2>2. QED
    BY <1>2, <1>3, <2>1 DEF Follows
<1>8. next # Size
  BY <1>2, <1>7, LaidPlaces DEF IsMcu
<1>9. Interval \in Nat /\ d.interval = Interval
  BY <1>2 DEF Laid, Scanning
<1>10. McuNext(e, next)
  <2>1. Interval = 0 \/ e.toGo > 0
    BY <1>1, <1>9
  <2>2. IsMcu(Tokens[next], e.mcu + 1, e.scan, e.last = 0)
    <3>1. e.mcu + 1 = 1 /\ (e.last = 0) = TRUE
      BY <1>1
    <3>2. QED
      BY <1>4, <1>7, <3>1
  <2>3. Interval > 0 => e.toGo = Interval - (e.mcu % Interval) /\ e.expected = (e.mcu \div Interval) % 8
    <3>1. Interval > 0 => 0 % Interval = 0 /\ 0 \div Interval = 0
      BY <1>9
    <3>2. QED
      BY <1>1, <1>2, <1>4, <1>9, <3>1
  <2>4. QED
    BY <1>1, <2>1, <2>2, <2>3 DEF McuNext
<1>11. Decodes(e, next)
  BY <1>1, <1>2, <1>3, <1>4, <1>6, <1>8, <1>10 DEF Decodes
<1>12. QED
  BY <1>2, <1>11 DEF GoodAt, e

\* start_input_pass() finds its quantization table.
LEMMA StartKeepsSoundInv ==
    ASSUME TypeInv, SoundInv, pc = "reading", NEW d, IsObject(d), StartInputPass(d),
           next \in Int, d.unread = NoMarker,
           Attending /\ Borrowing(dinfo) => d.tables = dinfo.tables,
           Attending /\ GoodAt(dinfo, pc, next, warning) => Starts(d)
    PROVE  SoundInv'
<1>1. pc # "idle"
  OBVIOUS
<1>2. CASE d.quant = None
  <2>1. Fail(d)
    BY <1>2, InputPass
  <2>2. Attending => ~GoodAt(dinfo, pc, next, warning)
    BY <1>2 DEF Starts, Scanning
  <2>3. Attending /\ Borrowing(dinfo) => StillBorrows(d)
    BY ParsingStillBorrows
  <2>4. QED
    BY <1>1, <2>1, <2>2, <2>3, FailKeepsSoundInv
<1>3. CASE d.quant # None
  <2> DEFINE e == PassStarted(d)
  <2>1. Go(e, "coefficients")
    BY <1>3, InputPass
  <2>2. Keeps(d, e, {"consume", "mcu", "insufficient", "toGo", "last", "latched"})
    BY PassStartedFields
  <2>3. ASSUME Attending, GoodAt(dinfo, pc, next, warning)
        PROVE  GoodAt(e, "coefficients", next', warning')
    BY <2>3, StartedPass
  <2> HIDE DEF e
  <2>31. e.tables = d.tables /\ e.unread = d.unread
    BY <2>2 DEF Keeps, Fields
  <2>4. Attending /\ Borrowing(dinfo) => StillBorrows(e)
    BY <2>31, ParsingStillBorrows
  <2>5. QED
    BY <1>1, <2>1, <2>3, <2>4, GoKeepsSoundInv
<1>4. QED
  BY <1>2, <1>3

\* An SOS of a sound file: the first one ends its headers.
LEMMA LaidScans ==
    ASSUME Laid, NEW i \in First .. Size - 1, Tokens[i].k = "SOS"
    PROVE  /\ Tokens[i].comps \subseteq Tokens[FrameAt].comps
           /\ i # First => Tokens[First].comps # Tokens[FrameAt].comps
<1>1. First \in Nat /\ Size \in Nat /\ Size = Len(Tokens)
  BY LaidPlaces DEF Laid
<1>2. i \in First .. Len(Tokens) /\ (i # First => i > First)
  BY <1>1
<1>3. Layout(Tokens, FrameAt, First, Interval, Tables)
  BY DEF Laid
<1>4. QED
  BY <1>2, <1>3 DEF Layout

\* What holds at an SOS of a sound file.
LEMMA SOSInOrder ==
    ASSUME TypeInv, WrittenInv, Attending, GoodAt(dinfo, pc, next, warning), Pending({"SOS"})
    PROVE  /\ Laid /\ next - 1 \in First .. Size - 1 /\ next \in Int /\ ~Stale
           /\ ~warning /\ ~Puzzled /\ ~Unnamed(dinfo.frame)
           /\ dinfo.unread = Tokens[next - 1] /\ Tokens[next - 1].k = "SOS"
           /\ Tokens[next - 1].comps \subseteq dinfo.frame.comps
           /\ dinfo.frame = Tokens[FrameAt] /\ dinfo.frame.name = None
           /\ IF dinfo.inheaders
              THEN next - 1 = First /\ Complete(dinfo)
              ELSE Scanning(dinfo) /\ dinfo.multiple
<1>1. /\ Laid /\ next \in 2 .. Size + 1 /\ next - 1 \in 1 .. Size /\ ~warning
      /\ dinfo.unread = Tokens[next - 1] /\ Tokens[next - 1].k = "SOS"
      /\ \/ next - 2 < First /\ Headed(dinfo, next - 2)
         \/ next - 2 >= First /\ Scanning(dinfo)
  BY WhilePendingGood
<1>2. next - 1 >= First /\ next - 1 # Size
  BY <1>1, MarkerPlaces DEF KindPlaced
<1>3. First \in Nat /\ Size \in Nat /\ Tokens[FrameAt].name = None
  BY <1>1, LaidPlaces
<1>4. next - 1 \in First .. Size - 1 /\ next \in Int /\ ~Stale
  BY <1>1, <1>2, <1>3 DEF Stale
<1>5. /\ Tokens[next - 1].comps \subseteq Tokens[FrameAt].comps
      /\ next - 1 # First => Tokens[First].comps # Tokens[FrameAt].comps
  BY <1>1, <1>4, LaidScans
<1>9. FrameAt \in 1 .. Len(Tokens) /\ Tokens[FrameAt].k = "SOF"
  BY <1>1, LaidPlaces DEF Laid
<1>10. ~Unnamed(Tokens[FrameAt])
  BY <1>9 DEF Attending, Nameless
<1>6. CASE next - 2 < First /\ Headed(dinfo, next - 2)
  <2>1. next - 1 = First /\ next - 2 = First - 1 /\ First - 1 >= 1
    BY <1>1, <1>3, <1>4, <1>6, LaidPlaces
  <2>2. Complete(dinfo)
    BY <1>1, <1>6, <2>1, HeadersAreComplete
  <2>3. ~Puzzled
    <3> SUFFICES ASSUME Puzzled PROVE FALSE
      OBVIOUS
    <3>1. Puzzling(Tokens[FrameAt].comps, FALSE, dinfo.adobe) /\ dinfo.adobe # NoMarker
      BY <2>2 DEF Puzzled, Puzzling, Complete
    <3>2. PICK j \in 1 .. Len(Tokens) : dinfo.adobe = Tokens[j]
      BY <1>6, <2>1, <3>1 DEF Headed, AdobeOfFile
    <3>3. Tokens[j].k = "APP" /\ Tokens[j].name = "Adobe"
      BY <1>6, <2>1, <3>1, <3>2 DEF Headed, AdobeOfFile
    <3>4. QED
      BY <1>9, <3>1, <3>2, <3>3 DEF Attending, OddColours
  <2>4. QED
    BY <1>1, <1>3, <1>4, <1>5, <1>10, <2>1, <2>2, <2>3 DEF Complete
<1>7. CASE next - 2 >= First /\ Scanning(dinfo)
  <2>1. next - 1 # First
    BY <1>3, <1>4, <1>7
  <2>2. dinfo.multiple /\ ~dinfo.inheaders /\ dinfo.frame = Tokens[FrameAt]
    BY <1>5, <1>7, <2>1 DEF Scanning
  <2>3. QED
    BY <1>1, <1>3, <1>4, <1>5, <1>7, <1>10, <2>2 DEF Puzzled
<1>8. QED
  BY <1>1, <1>6, <1>7

\* SOS begins a scan, EOI ends the call.
LEMMA GetSOSKeepsSoundInv ==
    ASSUME TypeInv, WrittenInv, SoundInv, GetSOS PROVE SoundInv'
<1> DEFINE comps == dinfo.unread.comps
           d == ScanBegun
           headers == HeaderEnded
           e == Select(headers)
           G == Attending /\ GoodAt(dinfo, pc, next, warning)
           B == Attending /\ Borrowing(dinfo)
<1>1. Pending({"SOS"})
  BY ScanHeader
<1>2. IsObject(dinfo) /\ pc = "reading" /\ next \in Int /\ call \in {"header", "transform"}
  <2>1. Reading /\ Size \in Nat
    BY <1>1, WhilePending, SizeIsNat DEF TypeInv
  <2>2. QED
    BY <2>1, WhileReading
<1>3. /\ Keeps(dinfo, d, {"unread", "scan", "expected"})
      /\ d.unread = NoMarker /\ d.scan = comps /\ d.expected = 0
  BY <1>2, ScanFields
<1>4. /\ Keeps(d, headers, {"inheaders", "state", "multiple", "colours"})
      /\ headers.inheaders = FALSE /\ headers.multiple = (comps # dinfo.frame.comps)
  BY <1>2, ScanFields
<1>5. /\ Keeps(headers, e, {"state", "tables", "latched", "coefs"})
      /\ e.tables = IF headers.tables = None THEN "standard" ELSE headers.tables
      /\ e.latched = [c \in headers.frame.comps |-> None]
  BY <1>4, SelectFields DEF Keeps
<1>6. /\ BadScan => Fail(dinfo) /\ Parsing({"SOS"})
      /\ ~BadScan =>
            IF ~d.inheaders
            THEN IF d.multiple THEN StartInputPass(d) ELSE Fail(d)
            ELSE IF d.frame.name # None THEN Fail(d)
            ELSE IF call = "header" THEN Go(headers, "finish")
            ELSE IF Unnamed(headers.frame) THEN Fail(headers) ELSE StartInputPass(e)
  BY ScanHeader
<1>7. G => /\ Laid /\ next - 1 \in First .. Size - 1 /\ ~BadScan
           /\ next' = next /\ ~warning' /\ ~Unnamed(dinfo.frame)
           /\ comps = Tokens[next - 1].comps /\ Tokens[next - 1].k = "SOS"
           /\ comps \subseteq dinfo.frame.comps
           /\ dinfo.frame = Tokens[FrameAt] /\ dinfo.frame.name = None
           /\ IF dinfo.inheaders
              THEN next - 1 = First /\ Complete(dinfo)
              ELSE Scanning(dinfo) /\ dinfo.multiple
  <2> SUFFICES ASSUME G PROVE next' = next /\ ~warning'
    BY <1>1, SOSInOrder DEF BadScan
  <2>1. ~Puzzled /\ ~warning
    BY <1>1, SOSInOrder
  <2>2. QED
    BY <2>1, ScanHeader DEF Parsing
<1> HIDE DEF d, headers, e, comps
<1>8. /\ IsObject(d) /\ IsObject(headers) /\ IsObject(e)
      /\ d.inheaders = dinfo.inheaders /\ d.frame = dinfo.frame /\ d.multiple = dinfo.multiple
      /\ d.tables = dinfo.tables /\ headers.tables = dinfo.tables /\ headers.frame = dinfo.frame
      /\ headers.unread = NoMarker
      /\ SameHeader(dinfo, d)
  BY <1>3, <1>4, <1>5 DEF Keeps, Fields, SameHeader
<1>9. B => StillBorrows(d)
  BY <1>3, <1>8, ParsingStillBorrows
<1>10. CASE BadScan
  <2>1. ~G
    BY <1>7, <1>10
  <2>2. QED
    BY <1>6, <1>10, <2>1, ParsingFailsSound
<1>11. CASE ~BadScan /\ ~d.inheaders
  <2>1. CASE ~d.multiple
    <3>1. ~G
      BY <1>7, <1>8, <1>11, <2>1
    <3>2. QED
      BY <1>2, <1>6, <1>8, <1>9, <1>11, <2>1, <3>1, FailKeepsSoundInv
  <2>2. CASE d.multiple
    <3>1. G => Starts(d)
      BY <1>3, <1>7, <1>8, <1>11, HeaderStays DEF Starts
    <3>2. StartInputPass(d)
      BY <1>6, <1>11, <2>2
    <3>3. B => d.tables = dinfo.tables
      BY <1>8
    <3>4. QED
      BY <1>2, <1>3, <1>8, <3>1, <3>2, <3>3, StartKeepsSoundInv
  <2>3. QED
    BY <2>1, <2>2
<1>12. CASE ~BadScan /\ d.inheaders /\ d.frame.name # None
  <2>1. ~G
    BY <1>7, <1>8, <1>12
  <2>2. QED
    BY <1>2, <1>6, <1>8, <1>9, <1>12, <2>1, FailKeepsSoundInv
<1>13. CASE ~BadScan /\ d.inheaders /\ d.frame.name = None /\ call = "header"
  <2>1. Go(headers, "finish")
    BY <1>6, <1>13
  <2>2. G => GoodAt(headers, "finish", next', warning')
    BY <1>7, <1>8, <1>13 DEF GoodAt
  <2>3. ~B
    BY <1>13 DEF Borrowing
  <2>4. QED
    BY <1>2, <2>1, <2>2, <2>3, GoKeepsSoundInv
<1>16. CASE /\ ~BadScan /\ d.inheaders /\ d.frame.name = None /\ call = "transform"
            /\ Unnamed(headers.frame)
  <2>1. Fail(headers) /\ ~G
    BY <1>6, <1>7, <1>8, <1>16
  <2>2. B => StillBorrows(headers)
    BY <1>8, ParsingStillBorrows
  <2>3. QED
    BY <1>2, <1>8, <2>1, <2>2, FailKeepsSoundInv
<1>14. CASE /\ ~BadScan /\ d.inheaders /\ d.frame.name = None /\ call = "transform"
            /\ ~Unnamed(headers.frame)
  <2>1. StartInputPass(e)
    BY <1>6, <1>14
  <2>2. /\ e.inheaders = FALSE /\ e.multiple = (comps # dinfo.frame.comps)
        /\ e.eoi = dinfo.eoi /\ e.frame = dinfo.frame /\ e.scan = comps /\ e.sawSOI = dinfo.sawSOI
        /\ e.quant = dinfo.quant /\ e.interval = dinfo.interval /\ e.unread = NoMarker
        /\ e.expected = 0
        /\ e.tables = IF dinfo.tables = None THEN "standard" ELSE dinfo.tables
    BY <1>3, <1>4, <1>5 DEF Keeps, Fields
  <2>3. TablesMatch(e)
    BY <1>5 DEF TablesMatch
  <2>4. ASSUME G PROVE Starts(e)
    <3>1. next - 1 = First /\ Complete(dinfo)
      BY <1>7, <1>8, <1>14, <2>4
    <3>2. comps = Tokens[First].comps /\ dinfo.frame = Tokens[FrameAt]
      BY <1>7, <2>4, <3>1
    <3>3. e.multiple <=> (Tokens[First].comps # Tokens[FrameAt].comps)
      BY <2>2, <3>2
    <3>4. Scanning(e)
      BY <1>14, <2>2, <2>3, <3>1, <3>3 DEF Scanning, Complete
    <3>5. QED
      BY <1>7, <2>2, <2>4, <3>4 DEF Starts
  <2>5. B => e.tables = dinfo.tables
    BY <2>2 DEF Borrowing
  <2>6. QED
    BY <1>2, <1>8, <2>1, <2>2, <2>4, <2>5, StartKeepsSoundInv
<1>15. QED
  BY <1>2, <1>10, <1>11, <1>12, <1>13, <1>14, <1>16

LEMMA GetEOIKeepsSoundInv ==
    ASSUME TypeInv, WrittenInv, SoundInv, GetEOI PROVE SoundInv'
<1> DEFINE d == [dinfo EXCEPT !.unread = NoMarker, !.eoi = TRUE]
           e == [d EXCEPT !.state = "STOPPING"]
<1>1. Parsing({"EOI"}) /\ IF d.inheaders THEN Fail(d) ELSE Go(e, "finish")
  BY DEF GetEOI
<1>2. IsObject(dinfo) /\ pc = "reading"
  BY <1>1, WhileParsing, WhileReading
<1>3. Keeps(dinfo, d, {"unread", "eoi"}) /\ d.unread = NoMarker
  BY <1>2 DEF IsObject, Fields, Keeps
<1>4. Keeps(dinfo, e, {"unread", "eoi", "state"}) /\ e.unread = NoMarker
  BY <1>2 DEF IsObject, Fields, Keeps
<1> HIDE DEF d, e
<1>5. /\ IsObject(d) /\ d.inheaders = dinfo.inheaders /\ d.tables = dinfo.tables
      /\ e.tables = dinfo.tables /\ e.latched = dinfo.latched /\ e.quant = dinfo.quant
  BY <1>3, <1>4 DEF Keeps, Fields
<1>6. ASSUME Attending, GoodAt(dinfo, pc, next, warning) PROVE Scanning(dinfo) /\ ~warning'
  <2>1. /\ Laid /\ next \in 2 .. Size + 1 /\ next - 1 \in 1 .. Size /\ Tokens[next - 1].k = "EOI"
        /\ ~warning'
        /\ \/ next - 2 < First
           \/ Scanning(dinfo)
    BY <1>1, <1>6, WhileParsingGood
  <2>2. next - 1 = Size
    BY <2>1, MarkerPlaces DEF KindPlaced
  <2>3. ~(next - 2 < First)
    BY <2>1, <2>2, LaidPlaces
  <2>4. QED
    BY <2>1, <2>3
<1>7. CASE d.inheaders
  <2>1. ASSUME Attending, GoodAt(dinfo, pc, next, warning) PROVE FALSE
    BY <1>5, <1>6, <1>7, <2>1 DEF Scanning
  <2>2. Attending /\ Borrowing(dinfo) => StillBorrows(d)
    BY <1>3, <1>5, ParsingStillBorrows
  <2>3. QED
    BY <1>1, <1>2, <1>5, <1>7, <2>1, <2>2, FailKeepsSoundInv
<1>8. CASE ~d.inheaders
  <2>1. ASSUME Attending, GoodAt(dinfo, pc, next, warning)
        PROVE  GoodAt(e, "finish", next', warning')
    <3>1. call = "transform"
      BY <1>1, <1>5, <1>8, WhileParsing, WhileReading DEF InHeader
    <3>2. QED
      BY <1>5, <1>6, <2>1, <3>1 DEF GoodAt, Scanning, TablesMatch
  <2>2. Attending /\ Borrowing(dinfo) => StillBorrows(e)
    BY <1>4, <1>5, ParsingStillBorrows
  <2>3. QED
    BY <1>1, <1>2, <1>8, <2>1, <2>2, GoKeepsSoundInv
<1>9. QED
  BY <1>7, <1>8

\* One more: the remainder goes up by one until it would be the divisor.
NextQuotient(m, b) ==
    IF (m + 1) % b = 0
    THEN m % b = b - 1 /\ (m + 1) \div b = (m \div b) + 1
    ELSE (m + 1) % b = (m % b) + 1 /\ (m + 1) \div b = m \div b

\* The division of the next number.
LEMMA NextQuotients ==
    ASSUME NEW m \in Nat, NEW b \in Nat \ {0}
    PROVE  NextQuotient(m, b)
<1> DEFINE q == m \div b
           r == m % b
<1>1. q \in Nat /\ r \in 0 .. b - 1 /\ m = b * q + r
  OBVIOUS
<1>2. /\ (m + 1) \div b \in Nat /\ (m + 1) % b \in 0 .. b - 1
      /\ m + 1 = b * ((m + 1) \div b) + ((m + 1) % b)
  OBVIOUS
<1>3. b * (q + 1) = b * q + b /\ b * (q + 2) = b * q + b + b /\ b * q \in Nat
  BY <1>1
<1> HIDE DEF q, r
<1>4. CASE r + 1 < b
  <2>1. b * q <= m + 1 /\ m + 1 < b * (q + 1) /\ q \in Nat /\ q + 1 \in Nat /\ m + 1 \in Nat
    BY <1>1, <1>3, <1>4
  <2>2. (m + 1) \div b = q
    <3>1. q <= (m + 1) \div b
      BY <2>1, QuotientAtLeast
    <3>2. (m + 1) \div b < q + 1
      BY <2>1, QuotientBelow
    <3>3. QED
      BY <1>1, <1>2, <3>1, <3>2
  <2>3. m + 1 = b * q + ((m + 1) % b)
    BY <1>2, <2>2
  <2>4. (m + 1) % b = r + 1
    BY <1>1, <1>2, <1>3, <2>3
  <2>5. QED
    BY <1>1, <2>2, <2>4 DEF NextQuotient, q, r
<1>5. CASE r + 1 = b
  <2>1. b * (q + 1) <= m + 1 /\ m + 1 < b * (q + 2) /\ q + 1 \in Nat /\ q + 2 \in Nat /\ m + 1 \in Nat
    BY <1>1, <1>3, <1>5
  <2>2. (m + 1) \div b = q + 1
    <3>1. q + 1 <= (m + 1) \div b
      BY <2>1, QuotientAtLeast
    <3>2. (m + 1) \div b < q + 2
      BY <2>1, QuotientBelow
    <3>3. QED
      BY <1>1, <1>2, <3>1, <3>2
  <2>3. m + 1 = b * (q + 1) + ((m + 1) % b)
    BY <1>2, <2>2
  <2>4. (m + 1) % b = 0 /\ r = b - 1
    BY <1>1, <1>2, <1>3, <1>5, <2>3
  <2>5. QED
    BY <1>1, <2>2, <2>4 DEF NextQuotient, q, r
<1>6. QED
  BY <1>1, <1>4, <1>5

\* What holds during a pass over the data of a sound file.
LEMMA WhileDecodingGood ==
    ASSUME TypeInv, WrittenInv, Attending, GoodAt(dinfo, pc, next, warning), pc = "coefficients"
    PROVE  /\ Laid /\ First \in Nat /\ Size \in Nat /\ next \in First + 1 .. Size - 1
           /\ ~warning /\ warning = FALSE /\ At(next) = Tokens[next] /\ ~Starved(next)
           /\ Scanning(dinfo) /\ Interval \in Nat /\ dinfo.interval = Interval
           /\ dinfo.unread = NoMarker /\ ~dinfo.insufficient
           /\ dinfo.mcu \in Nat /\ dinfo.mcu < dinfo.frame.n
           /\ McuNext(dinfo, next) \/ RestartNext(dinfo, next)
<1>1. Laid /\ First \in Nat /\ Size \in Nat /\ Interval \in Nat
  BY WhileAttending, LaidPlaces DEF Laid
<1>2. /\ next - 1 >= First /\ next < Size /\ Scanning(dinfo)
      /\ dinfo.unread = NoMarker /\ ~dinfo.insufficient
      /\ McuNext(dinfo, next) \/ RestartNext(dinfo, next)
      /\ ~warning
  BY DEF GoodAt, Decodes
<1>3. /\ next \in 1 .. Size + 1 /\ dinfo.mcu \in Nat /\ dinfo.mcu < dinfo.frame.n
      /\ warning \in BOOLEAN
  BY WhileDecoding DEF DecodingOK
<1>4. next \in First + 1 .. Size - 1 /\ next \in 1 .. Size
  BY <1>1, <1>2, <1>3
<1>5. At(next) = Tokens[next] /\ ~Starved(next)
  BY <1>1, <1>4 DEF Laid
<1>6. dinfo.interval = Interval
  BY <1>2 DEF Scanning
<1>7. warning = FALSE
  BY <1>2, <1>3
<1>8. QED
  BY <1>1, <1>2, <1>3, <1>4, <1>5, <1>6, <1>7

\* A pass over data leaves the tables missing.
LEMMA DecodingStillBorrows ==
    ASSUME TypeInv, Borrowing(dinfo), next \in 1 .. Size + 1, NEW d, d.tables = dinfo.tables,
           \/ d.unread = NoMarker \/ d.unread = dinfo.unread
           \/ \E i \in 1 .. Size + 1 : d.unread = At(i)
    PROVE  StillBorrows(d)
<1>1. FileInv
  BY DEF TypeInv
<1>2. d.unread.k # "DHT"
  BY <1>1, NoTablesToMeet, TokenFacts DEF Borrowing, None
<1>3. QED
  BY <1>2 DEF StillBorrows

\* A restart.
LEMMA ResumedInStep ==
    ASSUME Laid, NEW d, IsObject(d), NEW n \in First + 1 .. Size - 1, Scanning(d),
           d.unread = NoMarker, ~d.insufficient, d.mcu \in Nat, RestartNext(d, n)
    PROVE  Decodes(Resumed(d), n + 1)
<1> DEFINE e == Resumed(d)
<1>1. /\ Keeps(d, e, {"expected", "toGo", "last", "insufficient"})
      /\ e.expected = (d.expected + 1) % 8
      /\ e.toGo = d.interval /\ e.last = 0
      /\ e.insufficient = (d.insufficient /\ d.unread # NoMarker)
  BY ResumedFields
<1> HIDE DEF e
<1>2. /\ SameHeader(d, e) /\ e.mcu = d.mcu /\ e.scan = d.scan /\ e.unread = d.unread
  BY <1>1 DEF SameHeader, Keeps, Fields
<1>3. Scanning(e) /\ d.interval = Interval /\ Interval \in Nat
  BY <1>2, HeaderStays DEF Laid, Scanning
<1>4. /\ Interval > 0 /\ d.toGo = 0 /\ d.mcu % Interval = 0
      /\ d.expected = ((d.mcu \div Interval) - 1) % 8
      /\ IsMcu(Tokens[n + 1], d.mcu + 1, d.scan, TRUE)
  BY DEF RestartNext
<1>5. First \in Nat /\ Size \in Nat /\ n + 1 \in 1 .. Size
  BY LaidPlaces
<1>6. n + 1 # Size
  BY <1>4, LaidPlaces DEF IsMcu
<1>7. e.expected = (d.mcu \div Interval) % 8
  <2>1. d.mcu \div Interval \in Nat
    BY <1>3, <1>4
  <2> DEFINE x == d.mcu \div Interval
  <2>2. x \in Nat /\ e.expected = (((x - 1) % 8) + 1) % 8
    BY <1>1, <1>4, <2>1
  <2> HIDE DEF x
  <2>3. e.expected = x % 8
    BY <2>2
  <2>4. QED
    BY <2>3 DEF x
<1>8. IsMcu(Tokens[n + 1], e.mcu + 1, e.scan, e.last = 0)
  <2>1. (e.last = 0) = TRUE
    BY <1>1
  <2>2. QED
    BY <1>2, <1>4, <2>1
<1>9. McuNext(e, n + 1)
  BY <1>1, <1>2, <1>3, <1>4, <1>7, <1>8 DEF McuNext
<1>10. e.insufficient = FALSE
  BY <1>1
<1>11. (n + 1) - 1 >= First /\ n + 1 < Size
  BY <1>5, <1>6
<1>12. QED
  BY <1>2, <1>3, <1>9, <1>10, <1>11 DEF Decodes, e

\* A restart keeps the invariant.
LEMMA ResumeKeepsSoundInv ==
    ASSUME TypeInv, SoundInv, pc \in {"coefficients", "resync"}, NEW d, IsObject(d), Resume(d),
           Attending /\ Borrowing(dinfo) => StillBorrows(d),
           Attending /\ GoodAt(dinfo, pc, next, warning) =>
               GoodAt(Resumed(d), "coefficients", next', warning')
    PROVE  SoundInv'
<1> DEFINE e == Resumed(d)
<1>1. /\ Go(e, "coefficients")
      /\ Keeps(d, e, {"expected", "toGo", "last", "insufficient"})
  BY ResumedFields
<1> HIDE DEF e
<1>2. e.tables = d.tables /\ e.unread = d.unread
  BY <1>1 DEF Keeps, Fields
<1>3. Attending /\ Borrowing(dinfo) => StillBorrows(e)
  BY <1>2 DEF StillBorrows
<1>4. Attending /\ GoodAt(dinfo, pc, next, warning) => GoodAt(e, "coefficients", next', warning')
  BY DEF e
<1>5. pc # "idle"
  OBVIOUS
<1>6. QED
  BY <1>1, <1>3, <1>4, <1>5, GoKeepsSoundInv

LEMMA ReadRestartMarkerKeepsSoundInv ==
    ASSUME TypeInv, WrittenInv, SoundInv, ReadRestartMarker PROVE SoundInv'
<1> DEFINE met == dinfo.unread # NoMarker
           found == NextMarker(next)
           marker == IF met THEN dinfo.unread ELSE At(found)
           d == [dinfo EXCEPT !.unread = NoMarker]
           e == [dinfo EXCEPT !.unread = marker]
           G == Attending /\ GoodAt(dinfo, pc, next, warning)
           B == Attending /\ Borrowing(dinfo)
<1>1. /\ Decoding /\ dinfo.interval > 0 /\ dinfo.toGo = 0
      /\ next' = IF met THEN next ELSE After(found)
      /\ IF Accepts(marker, dinfo.expected)
         THEN Resume(d) /\ warning' = (warning \/ (~met /\ found > next))
         ELSE Go(e, "resync") /\ warning' = TRUE
  BY DEF ReadRestartMarker
<1>2. FileInv /\ IsObject(dinfo) /\ next \in 1 .. Size + 1 /\ pc = "coefficients"
  BY <1>1, WhileDecoding DEF Decoding
<1>3. /\ Keeps(dinfo, d, {"unread"}) /\ d.unread = NoMarker
      /\ Keeps(dinfo, e, {"unread"}) /\ e.unread = marker
  BY <1>2, UnreadField
<1>4. found \in 1 .. Size + 1
  BY <1>2, FoundInFile
<1>5. marker = dinfo.unread \/ \E i \in 1 .. Size + 1 : marker = At(i)
  BY <1>4
<1>6. ASSUME G
      PROVE  /\ ~met /\ found = next /\ marker = Tokens[next] /\ next \in 1 .. Size
             /\ RestartNext(dinfo, next) /\ Accepts(marker, dinfo.expected)
             /\ ~Starved(next) /\ warning = FALSE
  <2>1. /\ Laid /\ First \in Nat /\ Size \in Nat /\ next \in First + 1 .. Size - 1
        /\ ~warning /\ warning = FALSE /\ At(next) = Tokens[next] /\ ~Starved(next)
        /\ dinfo.interval = Interval /\ Interval \in Nat
        /\ dinfo.unread = NoMarker
        /\ McuNext(dinfo, next) \/ RestartNext(dinfo, next)
    BY <1>2, <1>6, WhileDecodingGood
  <2>2. RestartNext(dinfo, next)
    BY <1>1, <2>1 DEF McuNext
  <2>3. Tokens[next] = Counting("RST", dinfo.expected)
    BY <2>2 DEF RestartNext
  <2>4. Tokens[next].k = "RST"
    BY <2>3 DEF Counting, Marker
  <2>5. found = next
    BY <1>2, <2>1, <2>4, MarkerHere
  <2>6. ~met /\ marker = Tokens[next]
    BY <2>1, <2>5
  <2>7. Accepts(marker, dinfo.expected)
    BY <2>3, <2>6 DEF Accepts
  <2>8. QED
    BY <2>1, <2>2, <2>5, <2>6, <2>7
<1> HIDE DEF d, e, marker, found
<1>7. SameHeader(dinfo, d) /\ d.tables = dinfo.tables /\ e.tables = dinfo.tables /\ d.mcu = dinfo.mcu
      /\ d.insufficient = dinfo.insufficient /\ d.expected = dinfo.expected /\ d.scan = dinfo.scan
      /\ d.toGo = dinfo.toGo /\ IsObject(d)
  BY <1>3 DEF SameHeader, Keeps, Fields
<1>8. B => StillBorrows(d)
  BY <1>2, <1>3, <1>7, DecodingStillBorrows
<1>9. B => StillBorrows(e)
  BY <1>2, <1>3, <1>5, <1>7, DecodingStillBorrows
<1>10. CASE Accepts(marker, dinfo.expected)
  <2>1. ASSUME G PROVE GoodAt(Resumed(d), "coefficients", next', warning')
    <3>1. /\ Laid /\ First \in Nat /\ Size \in Nat /\ next \in First + 1 .. Size - 1
          /\ Scanning(dinfo) /\ ~dinfo.insufficient /\ dinfo.mcu \in Nat
      BY <1>2, <2>1, WhileDecodingGood
    <3>2. RestartNext(dinfo, next) /\ ~met /\ found = next /\ ~Starved(next) /\ warning = FALSE
      BY <1>6, <2>1
    <3>3. RestartNext(d, next)
      BY <1>7, <3>2 DEF RestartNext
    <3>4. Scanning(d)
      BY <1>7, <3>1, HeaderStays
    <3>5. Decodes(Resumed(d), next + 1)
      BY <1>3, <1>7, <3>1, <3>3, <3>4, ResumedInStep
    <3>6. next' = next + 1
      BY <1>1, <3>2 DEF After
    <3>7. ~(found > next) /\ warning' = (warning \/ (~met /\ found > next))
      BY <1>1, <1>10, <3>1, <3>2
    <3>8. warning' = FALSE
      BY <3>2, <3>7
    <3>9. QED
      BY <3>5, <3>6, <3>8 DEF GoodAt
  <2>2. QED
    BY <1>1, <1>2, <1>7, <1>8, <1>10, <2>1, ResumeKeepsSoundInv
<1>11. CASE ~Accepts(marker, dinfo.expected)
  <2>1. ~G
    BY <1>6, <1>11
  <2>2. Go(e, "resync")
    BY <1>1, <1>11
  <2>3. QED
    BY <1>2, <1>9, <2>1, <2>2, GoKeepsSoundInv
<1>12. QED
  BY <1>10, <1>11

\* Nothing that goes wrong is met in a sound file.
LEMMA DiscardKeepsSoundInv ==
    ASSUME TypeInv, SoundInv, Discard PROVE SoundInv'
<1> DEFINE d == [dinfo EXCEPT !.unread = NoMarker]
<1>1. pc = "resync" /\ Resume(d)
  BY DEF Discard, Resync
<1>2. IsObject(dinfo) /\ next \in 1 .. Size + 1
  BY <1>1, WhileDecoding
<1>3. Keeps(dinfo, d, {"unread"}) /\ d.unread = NoMarker
  BY <1>2, UnreadField
<1> HIDE DEF d
<1>4. IsObject(d) /\ d.tables = dinfo.tables
  BY <1>3 DEF Keeps, Fields
<1>5. Attending /\ Borrowing(dinfo) => StillBorrows(d)
  BY <1>2, <1>3, <1>4, DecodingStillBorrows
<1>6. ~GoodAt(dinfo, pc, next, warning)
  BY <1>1 DEF GoodAt
<1>7. QED
  BY <1>1, <1>4, <1>5, <1>6, ResumeKeepsSoundInv

LEMMA SkipKeepsSoundInv ==
    ASSUME TypeInv, SoundInv, Skip PROVE SoundInv'
<1> DEFINE found == NextMarker(next)
           d == [dinfo EXCEPT !.unread = At(found)]
<1>1. pc = "resync" /\ Go(d, pc)
  BY DEF Skip, Resync
<1>2. FileInv /\ IsObject(dinfo) /\ next \in 1 .. Size + 1
  BY <1>1, WhileDecoding
<1>3. Keeps(dinfo, d, {"unread"}) /\ d.unread = At(found)
  BY <1>2, UnreadField
<1>4. found \in 1 .. Size + 1
  BY <1>2, FoundInFile
<1> HIDE DEF d, found
<1>5. d.tables = dinfo.tables
  BY <1>3 DEF Keeps, Fields
<1>6. Attending /\ Borrowing(dinfo) => StillBorrows(d)
  BY <1>2, <1>3, <1>4, <1>5, DecodingStillBorrows
<1>7. ~GoodAt(dinfo, pc, next, warning)
  BY <1>1 DEF GoodAt
<1>8. QED
  BY <1>1, <1>6, <1>7, GoKeepsSoundInv

LEMMA LeaveKeepsSoundInv ==
    ASSUME TypeInv, SoundInv, Leave PROVE SoundInv'
<1>1. pc = "resync" /\ Resume(dinfo)
  BY DEF Leave, Resync
<1>2. IsObject(dinfo) /\ next \in 1 .. Size + 1
  BY <1>1, WhileDecoding
<1>3. Attending /\ Borrowing(dinfo) => StillBorrows(dinfo)
  BY <1>2, DecodingStillBorrows
<1>4. ~GoodAt(dinfo, pc, next, warning)
  BY <1>1 DEF GoodAt
<1>5. QED
  BY <1>1, <1>2, <1>3, <1>4, ResumeKeepsSoundInv

\* An MCU has been decoded that was in its place; i is behind it.
Decoded(d, i) ==
    /\ Laid /\ i - 1 \in First + 1 .. Size - 1 /\ i \in Int
    /\ Scanning(d) /\ d.unread = NoMarker /\ ~d.insufficient
    /\ d.mcu \in Nat /\ d.mcu < Tokens[FrameAt].n /\ d.last = d.mcu + 1
    /\ IsMcu(Tokens[i - 1], d.mcu + 1, d.scan, Tokens[i - 1].opens)
    /\ Interval > 0 => /\ d.toGo = Interval - (d.mcu % Interval)
                       /\ d.expected = (d.mcu \div Interval) % 8

LEMMA BehindAnMcu ==
    ASSUME NEW d, NEW i, Decoded(d, i)
    PROVE  LET m == d.mcu + 1
           IN  IF m < Tokens[FrameAt].n
               THEN IF Interval > 0 /\ m % Interval = 0
                    THEN /\ Tokens[i] = Counting("RST", ((m \div Interval) - 1) % 8)
                         /\ IsMcu(Tokens[i + 1], m + 1, d.scan, TRUE)
                    ELSE IsMcu(Tokens[i], m + 1, d.scan, FALSE)
               ELSE Tokens[i].k \notin {"data", "RST"}
<1> DEFINE many == Tokens[FrameAt].n
           t == Tokens[i - 1]
<1>1. /\ Laid /\ i - 1 \in First + 1 .. Size - 1 /\ i \in Int /\ d.mcu \in Nat
      /\ d.mcu < many /\ t.k = "data" /\ t.n = d.mcu + 1 /\ t.comps = d.scan
  BY DEF Decoded, IsMcu
<1>2. First \in Nat /\ Size \in Nat
  BY <1>1, LaidPlaces
<1>3. /\ i - 1 \in First .. Size - 1 /\ (i - 1) + 1 = i /\ (i - 1) + 2 = i + 1
  BY <1>1, <1>2
<1>4. Size = Len(Tokens) /\ Layout(Tokens, FrameAt, First, Interval, Tables)
  BY <1>1 DEF Laid
<1>5. Follows(Tokens, i - 1, many, Interval)
  BY <1>3, <1>4 DEF Layout
<1> HIDE DEF many
<1>6. many \in Nat
  <2>1. FrameAt \in 1 .. Size
    BY <1>1, <1>2, LaidPlaces
  <2>2. QED
    BY <1>1, <2>1 DEF Laid, IsToken, many
<1>7. CASE t.n = many
  <2>1. Tokens[i].k \notin {"data", "RST"}
    BY <1>1, <1>3, <1>5, <1>7 DEF Follows
  <2>2. ~(d.mcu + 1 < many)
    BY <1>1, <1>6, <1>7
  <2>3. QED
    BY <2>1, <2>2 DEF many
<1>8. CASE t.n # many
  <2>1. d.mcu + 1 < many
    BY <1>1, <1>6, <1>8
  <2>2. CASE Interval > 0 /\ t.n % Interval = 0
    <3>1. /\ Tokens[i] = Counting("RST", ((t.n \div Interval) - 1) % 8)
          /\ IsMcu(Tokens[i + 1], t.n + 1, t.comps, TRUE)
      BY <1>1, <1>3, <1>5, <1>8, <2>2 DEF Follows
    <3>2. QED
      BY <1>1, <2>1, <2>2, <3>1 DEF many
  <2>3. CASE ~(Interval > 0 /\ t.n % Interval = 0)
    <3>1. IsMcu(Tokens[i], t.n + 1, t.comps, FALSE)
      BY <1>1, <1>3, <1>5, <1>8, <2>3 DEF Follows
    <3>2. QED
      BY <1>1, <2>1, <2>3, <3>1 DEF many
  <2>4. QED
    BY <2>2, <2>3
<1>9. QED
  BY <1>7, <1>8

\* The decoder goes on to the next MCU or restart marker.
LEMMA CountedInStep ==
    ASSUME NEW d, IsObject(d), NEW i, Decoded(d, i), d.mcu + 1 < Tokens[FrameAt].n
    PROVE  Decodes(CountedOne(d), i)
<1> DEFINE c == CountedOne(d)
           m == d.mcu + 1
<1>1. Keeps(d, c, {"toGo", "mcu"}) /\ c.toGo = d.toGo - 1 /\ c.mcu = m
  BY CountedFields
<1> HIDE DEF c
<1>2. /\ SameHeader(d, c) /\ c.scan = d.scan /\ c.unread = d.unread /\ c.last = d.last
      /\ c.insufficient = d.insufficient /\ c.expected = d.expected
  BY <1>1 DEF SameHeader, Keeps, Fields
<1>3. /\ Laid /\ i - 1 \in First + 1 .. Size - 1 /\ i \in Int
      /\ Scanning(d) /\ d.unread = NoMarker /\ ~d.insufficient
      /\ d.mcu \in Nat /\ d.last = m
      /\ Interval > 0 => /\ d.toGo = Interval - (d.mcu % Interval)
                         /\ d.expected = (d.mcu \div Interval) % 8
  BY DEF Decoded
<1>4. First \in Nat /\ Size \in Nat /\ Interval \in Nat /\ Tokens[Size].k = "EOI" /\ i - 1 >= First
      /\ i <= Size
  <2>1. First \in Nat /\ Size \in Nat /\ Interval \in Nat /\ Tokens[Size].k = "EOI"
    BY <1>3, LaidPlaces DEF Laid
  <2>2. QED
    BY <1>3, <2>1
<1>5. Scanning(c)
  BY <1>2, <1>3, HeaderStays
<1>6. CASE Interval > 0 /\ m % Interval = 0
  <2>1. /\ Tokens[i] = Counting("RST", ((m \div Interval) - 1) % 8)
        /\ IsMcu(Tokens[i + 1], m + 1, d.scan, TRUE)
    BY <1>6, BehindAnMcu
  <2>2. Tokens[i].k = "RST"
    BY <2>1 DEF Counting, Marker
  <2>3. i < Size
    BY <1>3, <1>4, <2>2
  <2>4. d.mcu % Interval = Interval - 1 /\ m \div Interval = (d.mcu \div Interval) + 1
        /\ d.mcu \div Interval \in Nat
    <3>1. NextQuotient(d.mcu, Interval)
      BY <1>3, <1>4, <1>6, NextQuotients
    <3>2. d.mcu \div Interval \in Nat
      BY <1>3, <1>4, <1>6, Quotient
    <3>3. QED
      BY <1>6, <3>1, <3>2 DEF NextQuotient
  <2>5. c.toGo = 0
    BY <1>1, <1>3, <1>4, <1>6, <2>4
  <2>6. (m \div Interval) - 1 = d.mcu \div Interval
    BY <2>4
  <2>7. RestartNext(c, i)
    BY <1>1, <1>2, <1>3, <1>6, <2>1, <2>5, <2>6 DEF RestartNext
  <2>8. QED
    BY <1>2, <1>3, <1>4, <1>5, <2>3, <2>7 DEF Decodes, c
<1>7. CASE ~(Interval > 0 /\ m % Interval = 0)
  <2>1. IsMcu(Tokens[i], m + 1, d.scan, FALSE)
    BY <1>7, BehindAnMcu
  <2>2. i < Size
    BY <1>3, <1>4, <2>1 DEF IsMcu
  <2>3. (c.last = 0) = FALSE /\ c.last \in {0, c.mcu}
    BY <1>1, <1>2, <1>3
  <2>4. IsMcu(Tokens[i], c.mcu + 1, c.scan, c.last = 0)
    BY <1>1, <1>2, <2>1, <2>3
  <2>5. ASSUME Interval > 0
        PROVE  /\ c.toGo = Interval - (c.mcu % Interval) /\ c.toGo > 0
               /\ c.expected = (c.mcu \div Interval) % 8
    <3>1. NextQuotient(d.mcu, Interval)
      BY <1>3, <1>4, <2>5, NextQuotients
    <3>2. m % Interval = (d.mcu % Interval) + 1 /\ m \div Interval = d.mcu \div Interval
      BY <1>7, <2>5, <3>1 DEF NextQuotient
    <3>3. m % Interval \in 0 .. Interval - 1 /\ d.mcu % Interval \in 0 .. Interval - 1
      BY <1>3, <1>4, <2>5
    <3>4. c.toGo = Interval - (d.mcu % Interval) - 1
      BY <1>1, <1>3, <2>5
    <3>5. c.toGo = Interval - (m % Interval) /\ c.toGo > 0
      BY <1>4, <3>2, <3>3, <3>4
    <3>6. QED
      BY <1>1, <1>2, <1>3, <2>5, <3>2, <3>5
  <2>6. McuNext(c, i)
    BY <1>4, <2>3, <2>4, <2>5 DEF McuNext
  <2>7. QED
    BY <1>2, <1>3, <1>4, <1>5, <2>2, <2>6 DEF Decodes, c
<1>8. QED
  BY <1>6, <1>7

\* The pass is over, and no data behind it.
LEMMA CountedToTheEnd ==
    ASSUME TypeInv, NEW d, IsObject(d), NEW i, Decoded(d, i), ~(d.mcu + 1 < Tokens[FrameAt].n),
           NEW j \in i .. (i + Min2(1, Run(i)))
    PROVE  InOrder(PassOver(d), j)
<1> DEFINE e == PassOver(d)
<1>1. Keeps(d, e, {"toGo", "mcu", "consume"})
  BY CountedFields
<1> HIDE DEF e
<1>2. SameHeader(d, e) /\ e.unread = d.unread
  BY <1>1 DEF SameHeader, Keeps, Fields
<1>3. /\ Laid /\ i - 1 \in First + 1 .. Size - 1 /\ i \in Int
      /\ Scanning(d) /\ d.unread = NoMarker
  BY DEF Decoded
<1>4. First \in Nat /\ Size \in Nat /\ i \in 1 .. Size /\ i - 1 >= First /\ i - 1 < Size
      /\ (i - 1) + 1 = i
  <2>1. First \in Nat /\ Size \in Nat
    BY <1>3, LaidPlaces
  <2>2. QED
    BY <1>3, <2>1
<1>5. Tokens[i].k \notin {"data", "RST"} /\ At(i) = Tokens[i]
  BY <1>3, <1>4, BehindAnMcu DEF Laid
<1>6. j = i
  <2>1. FileInv /\ i \in 1 .. Size + 1
    BY <1>4 DEF TypeInv
  <2>2. QED
    BY <1>5, <2>1, CountedPlace
<1>7. Scanning(e)
  BY <1>2, <1>3, HeaderStays
<1>8. Seen(e, i) = i - 1
  BY <1>2, <1>3 DEF Seen
<1>9. InOrder(e, i)
  BY <1>2, <1>3, <1>4, <1>5, <1>7, <1>8 DEF InOrder
<1>10. QED
  BY <1>6, <1>9 DEF e

\* The steps of the decoder keep it.
LEMMA CountedKeepsSoundInv ==
    ASSUME TypeInv, SoundInv, pc = "coefficients", NEW d, IsObject(d), NEW i, Counted(d, i),
           Attending /\ Borrowing(dinfo) => StillBorrows(d),
           Attending /\ GoodAt(dinfo, pc, next, warning) => Decoded(d, i) /\ ~warning'
    PROVE  SoundInv'
<1> DEFINE c == CountedOne(d)
           e == PassOver(d)
           G == Attending /\ GoodAt(dinfo, pc, next, warning)
<1>1. /\ Keeps(d, c, {"toGo", "mcu"}) /\ c.mcu = d.mcu + 1
      /\ Keeps(d, e, {"toGo", "mcu", "consume"})
  BY CountedFields
<1>2. IF c.mcu < d.frame.n
      THEN Go(c, "coefficients") /\ next' = i
      ELSE /\ Go(e, "reading")
           /\ next' \in IF d.unread = NoMarker THEN i..(i + Min2(1, Run(i))) ELSE {i}
  BY DEF Counted, CountedOne, PassOver
<1> HIDE DEF c, e
<1>3. c.tables = d.tables /\ c.unread = d.unread /\ e.tables = d.tables /\ e.unread = d.unread
  BY <1>1 DEF Keeps, Fields
<1>4. /\ Attending /\ Borrowing(dinfo) => StillBorrows(c)
      /\ Attending /\ Borrowing(dinfo) => StillBorrows(e)
  BY <1>3 DEF StillBorrows
<1>5. G => Decoded(d, i) /\ ~warning' /\ d.frame = Tokens[FrameAt] /\ d.unread = NoMarker
  BY DEF Decoded, Scanning
<1>6. CASE c.mcu < d.frame.n
  <2>1. ASSUME G PROVE GoodAt(c, "coefficients", next', warning')
    <3>1. Decoded(d, i) /\ ~warning' /\ d.mcu + 1 < Tokens[FrameAt].n /\ next' = i
      BY <1>1, <1>2, <1>5, <1>6, <2>1
    <3>2. Decodes(c, i)
      BY <3>1, CountedInStep DEF c
    <3>3. QED
      BY <3>1, <3>2 DEF GoodAt
  <2>2. Go(c, "coefficients")
    BY <1>2, <1>6
  <2>3. pc # "idle"
    OBVIOUS
  <2>4. QED
    BY <1>4, <2>1, <2>2, <2>3, GoKeepsSoundInv
<1>7. CASE ~(c.mcu < d.frame.n)
  <2>1. ASSUME G PROVE GoodAt(e, "reading", next', warning')
    <3>1. /\ Decoded(d, i) /\ ~warning' /\ ~(d.mcu + 1 < Tokens[FrameAt].n)
          /\ next' \in i..(i + Min2(1, Run(i)))
      BY <1>1, <1>2, <1>5, <1>7, <2>1
    <3>2. InOrder(e, next')
      BY <3>1, CountedToTheEnd DEF e
    <3>3. QED
      BY <3>1, <3>2 DEF GoodAt
  <2>2. Go(e, "reading")
    BY <1>2, <1>7
  <2>3. pc # "idle"
    OBVIOUS
  <2>4. QED
    BY <1>4, <2>1, <2>2, <2>3, GoKeepsSoundInv
<1>8. QED
  BY <1>6, <1>7

LEMMA LeaveMcuKeepsSoundInv ==
    ASSUME TypeInv, WrittenInv, SoundInv, LeaveMcu PROVE SoundInv'
<1>1. pc = "coefficients" /\ Counted(dinfo, next) /\ dinfo.insufficient
  BY DEF LeaveMcu, McuDue, Decoding
<1>2. IsObject(dinfo) /\ next \in 1 .. Size + 1
  BY <1>1, WhileDecoding
<1>3. Attending /\ Borrowing(dinfo) => StillBorrows(dinfo)
  BY <1>2, DecodingStillBorrows
<1>4. Attending => ~GoodAt(dinfo, pc, next, warning)
  BY <1>1 DEF GoodAt, Decodes
<1>5. QED
  BY <1>1, <1>2, <1>3, <1>4, CountedKeepsSoundInv

\* An MCU that is due is there.
LEMMA McuIsThere ==
    ASSUME TypeInv, WrittenInv, McuDue, Attending, GoodAt(dinfo, pc, next, warning)
    PROVE  /\ McuNext(dinfo, next) /\ dinfo.unread = NoMarker
           /\ At(next).k = "data" /\ At(next) = Tokens[next] /\ InStep(At(next))
<1>1. pc = "coefficients" /\ (dinfo.interval = 0 \/ dinfo.toGo > 0)
  BY DEF McuDue, Decoding
<1>2. /\ Laid /\ First \in Nat /\ Size \in Nat /\ next \in First + 1 .. Size - 1
      /\ At(next) = Tokens[next] /\ Scanning(dinfo) /\ Interval \in Nat
      /\ dinfo.interval = Interval /\ dinfo.unread = NoMarker /\ dinfo.mcu \in Nat
      /\ McuNext(dinfo, next) \/ RestartNext(dinfo, next)
  BY <1>1, WhileDecodingGood
<1>3. ASSUME RestartNext(dinfo, next) PROVE FALSE
  <2>1. Interval > 0 /\ dinfo.toGo = 0
    BY <1>3 DEF RestartNext
  <2>2. ~(dinfo.interval = 0)
    BY <1>2, <2>1
  <2>3. ~(dinfo.toGo > 0)
    BY <2>1
  <2>4. QED
    BY <1>1, <2>2, <2>3
<1>4. McuNext(dinfo, next)
  BY <1>2, <1>3
<1>5. /\ Tokens[next].k = "data" /\ Tokens[next].n = dinfo.mcu + 1
      /\ Tokens[next].comps = dinfo.scan /\ Tokens[next].opens = (dinfo.last = 0)
      /\ dinfo.last \in {0, dinfo.mcu}
  BY <1>4 DEF McuNext, IsMcu
<1>6. Tokens[next].name = dinfo.tables
  <2>1. next \in 1 .. Size
    BY <1>2
  <2>2. QED
    BY <1>2, <1>5, <2>1, LaidTables DEF Scanning
<1>7. CASE dinfo.last = 0
  <2>1. Tokens[next].opens
    BY <1>5, <1>7
  <2>2. QED
    BY <1>2, <1>4, <1>5, <1>6, <1>7, <2>1 DEF InStep
<1>8. CASE dinfo.last # 0
  <2>1. ~Tokens[next].opens
    BY <1>5, <1>8
  <2>2. dinfo.last > 0 /\ Tokens[next].n = dinfo.last + 1
    BY <1>2, <1>5, <1>8
  <2>3. QED
    BY <1>2, <1>4, <1>5, <1>6, <2>1, <2>2 DEF InStep
<1>9. QED
  BY <1>7, <1>8

\* So no zeros are stuffed, the MCU is stored, and none is out of step.
LEMMA StuffZerosKeepsSoundInv ==
    ASSUME TypeInv, WrittenInv, SoundInv, StuffZeros PROVE SoundInv'
<1> DEFINE m == IF dinfo.unread = NoMarker THEN At(next) ELSE dinfo.unread
           e == [dinfo EXCEPT !.insufficient = TRUE,
                              !.unread = IF @ = NoMarker THEN At(next) ELSE @]
           d == Store(e, [c \in dinfo.scan |-> Bogus])
           i == IF dinfo.unread = NoMarker THEN After(next) ELSE next
<1>1. /\ pc = "coefficients" /\ Counted(d, i) /\ McuDue
      /\ dinfo.unread # NoMarker \/ At(next).k # "data"
  BY DEF StuffZeros, McuDue, Decoding
<1>2. IsObject(dinfo) /\ next \in 1 .. Size + 1
  BY <1>1, WhileDecoding
<1>3. Keeps(dinfo, e, {"insufficient", "unread"}) /\ e.unread = m
  BY <1>2 DEF IsObject, Fields, Keeps
<1>4. m = dinfo.unread \/ \E j \in 1 .. Size + 1 : m = At(j)
  BY <1>2
<1> HIDE DEF e, m
<1>5. Keeps(e, d, {"coefs"})
  BY <1>3, StoreFields DEF Keeps
<1> HIDE DEF d, i
<1>6. IsObject(d) /\ d.tables = dinfo.tables /\ d.unread = m
  BY <1>3, <1>5 DEF Keeps, Fields
<1>7. Attending /\ Borrowing(dinfo) => StillBorrows(d)
  BY <1>2, <1>4, <1>6, DecodingStillBorrows
<1>8. Attending => ~GoodAt(dinfo, pc, next, warning)
  BY <1>1, McuIsThere
<1>9. QED
  BY <1>1, <1>6, <1>7, <1>8, CountedKeepsSoundInv

LEMMA DecodeMcuKeepsSoundInv ==
    ASSUME TypeInv, WrittenInv, SoundInv, DecodeMcu PROVE SoundInv'
<1> DEFINE t == At(next)
           e == Store(dinfo, t.v)
           d == [e EXCEPT !.last = t.n]
<1>1. /\ pc = "coefficients" /\ dinfo.unread = NoMarker /\ t.k = "data" /\ McuDue
      /\ Counted(d, next + 1) /\ warning' = warning
  BY DEF DecodeMcu, HasData, McuDue, Decoding
<1>2. IsObject(dinfo) /\ next \in 1 .. Size + 1
  BY <1>1, WhileDecoding
<1>3. Keeps(dinfo, e, {"coefs"})
  BY <1>2, StoreFields
<1> HIDE DEF e
<1>4. Keeps(e, d, {"last"}) /\ d.last = t.n
  BY <1>3 DEF Keeps, IsObject, Fields
<1> HIDE DEF d
<1>5. /\ IsObject(d) /\ SameHeader(dinfo, d) /\ d.tables = dinfo.tables /\ d.unread = NoMarker
      /\ d.mcu = dinfo.mcu /\ d.scan = dinfo.scan /\ d.toGo = dinfo.toGo
      /\ d.expected = dinfo.expected /\ d.insufficient = dinfo.insufficient
  BY <1>1, <1>3, <1>4 DEF Keeps, Fields, SameHeader
<1>6. Attending /\ Borrowing(dinfo) => StillBorrows(d)
  BY <1>2, <1>5, DecodingStillBorrows
<1>7. ASSUME Attending, GoodAt(dinfo, pc, next, warning) PROVE Decoded(d, next + 1) /\ ~warning'
  <2>1. /\ Laid /\ First \in Nat /\ Size \in Nat /\ next \in First + 1 .. Size - 1
        /\ ~warning /\ At(next) = Tokens[next]
        /\ Scanning(dinfo) /\ Interval \in Nat
        /\ ~dinfo.insufficient /\ dinfo.mcu \in Nat /\ dinfo.mcu < dinfo.frame.n
    BY <1>1, <1>7, WhileDecodingGood
  <2>2. McuNext(dinfo, next)
    BY <1>1, <1>7, McuIsThere
  <2>3. /\ t.k = "data" /\ t.n = dinfo.mcu + 1 /\ t.comps = dinfo.scan /\ t = Tokens[next]
        /\ Interval > 0 => /\ dinfo.toGo = Interval - (dinfo.mcu % Interval)
                           /\ dinfo.expected = (dinfo.mcu \div Interval) % 8
    BY <2>1, <2>2 DEF McuNext, IsMcu
  <2> HIDE DEF t
  <2>4. Scanning(d) /\ dinfo.frame = Tokens[FrameAt]
    BY <1>5, <2>1, HeaderStays DEF Scanning
  <2>5. (next + 1) - 1 = next /\ next + 1 \in Int
    BY <2>1
  <2>6. IsMcu(Tokens[next], d.mcu + 1, d.scan, Tokens[next].opens)
    BY <1>5, <2>3 DEF IsMcu
  <2>7. Decoded(d, next + 1)
    BY <1>4, <1>5, <2>1, <2>3, <2>4, <2>5, <2>6 DEF Decoded
  <2>8. QED
    BY <1>1, <2>1, <2>7
<1>8. QED
  BY <1>1, <1>5, <1>6, <1>7, CountedKeepsSoundInv

LEMMA DecodeOutOfStepKeepsSoundInv ==
    ASSUME TypeInv, WrittenInv, SoundInv, DecodeOutOfStep PROVE SoundInv'
<1> DEFINE value == [c \in dinfo.scan |-> Bogus]
           e == Store(dinfo, value)
           d == [e EXCEPT !.last = -1]
<1>1. pc = "coefficients" /\ dinfo.unread = NoMarker /\ McuDue /\ ~InStep(At(next))
  BY DEF DecodeOutOfStep, HasData, McuDue, Decoding
<1>2. PICK i \in next..NextMarker(next) : Counted(d, i)
  BY DEF DecodeOutOfStep
<1>3. IsObject(dinfo) /\ next \in 1 .. Size + 1
  BY <1>1, WhileDecoding
<1> HIDE DEF value
<1>4. Keeps(dinfo, e, {"coefs"})
  BY <1>3, StoreFields
<1> HIDE DEF e
<1>5. Keeps(e, d, {"last"})
  BY <1>4 DEF Keeps, IsObject, Fields
<1> HIDE DEF d
<1>6. IsObject(d) /\ d.tables = dinfo.tables /\ d.unread = NoMarker
  BY <1>1, <1>4, <1>5 DEF Keeps, Fields
<1>7. Attending /\ Borrowing(dinfo) => StillBorrows(d)
  BY <1>3, <1>6, DecodingStillBorrows
<1>8. Attending => ~GoodAt(dinfo, pc, next, warning)
  BY <1>1, McuIsThere
<1>9. QED
  BY <1>1, <1>2, <1>6, <1>7, <1>8, CountedKeepsSoundInv

\* The tokens of a new file: k markers are copied, and there are n MCUs.
MadeOf(d, made, k, n) ==
    /\ IsFile(made) /\ k \in Nat /\ n \in Nat \ {0} /\ n = d.frame.n
    /\ Len(made) = k + n + 6
    /\ made[1].k = "SOI"
    /\ \A i \in 2 .. k + 1 : made[i].k = "APP"
    /\ made[k + 2].k = "DQT" /\ made[k + 3] = d.frame
    /\ made[k + 4].k = "DHT" /\ made[k + 4].name = "standard"
    /\ made[k + 5].k = "SOS" /\ made[k + 5].comps = d.frame.comps
    /\ \A i \in k + 6 .. k + n + 5 : /\ IsMcu(made[i], i - (k + 5), d.frame.comps, i = k + 6)
                                     /\ made[i].name = "standard"
    /\ made[k + n + 6].k = "EOI"
    /\ d.frame.k = "SOF" /\ d.frame.name = None

\* The writer makes such a file.
LEMMA ComposedTokens ==
    ASSUME NEW d, ObjectOK(d), Ready(d)
    PROVE  \E k \in Nat : MadeOf(d, Compose(d), k, d.frame.n)
<1> DEFINE kept == NewMarkers(d)
           made == Compose(d)
           k == Len(kept)
           n == d.frame.n
<1>1. /\ IsFile(kept) /\ IsFile(made)
      /\ \A i \in 1 .. k : kept[i].k = "APP"
      /\ n \in Nat /\ n > 0 /\ d.frame.k = "SOF"
      /\ Composed(d, made, kept, k, n)
  BY ComposedFile
<1>2. k \in Nat /\ n \in Nat \ {0}
  BY <1>1, FileFacts
<1>3. d.frame.name = None
  BY DEF Ready
<1> HIDE DEF made, kept, k
<1>4. n = d.frame.n
  OBVIOUS
<1> HIDE DEF n
<1>5. /\ Len(made) = k + n + 6
      /\ made[1] = Marker("SOI")
      /\ \A i \in 1 .. k : made[i + 1] = kept[i]
      /\ made[k + 2] = Named("DQT", d.quant) /\ made[k + 3] = d.frame
      /\ made[k + 4] = Named("DHT", "standard") /\ made[k + 5] = SOS(d.frame.comps)
      /\ \A i \in 1 .. n : made[k + 5 + i] = McuOf(d, i)
      /\ made[k + n + 6] = EOI
  BY <1>1 DEF Composed
<1>6. /\ made[1].k = "SOI" /\ made[k + 2].k = "DQT"
      /\ made[k + 4].k = "DHT" /\ made[k + 4].name = "standard"
      /\ made[k + 5].k = "SOS" /\ made[k + 5].comps = d.frame.comps
      /\ made[k + n + 6].k = "EOI"
  BY <1>5, NamedFields, SOSFields DEF Marker, EOI
<1>7. ASSUME NEW i \in 2 .. k + 1 PROVE made[i].k = "APP"
  <2>1. i - 1 \in 1 .. k /\ (i - 1) + 1 = i
    BY <1>2
  <2>2. QED
    BY <1>1, <1>5, <2>1
<1>8. ASSUME NEW i \in k + 6 .. k + n + 5
      PROVE  IsMcu(made[i], i - (k + 5), d.frame.comps, i = k + 6) /\ made[i].name = "standard"
  <2> DEFINE j == i - (k + 5)
  <2>1. j \in 1 .. n /\ k + 5 + j = i /\ (j = 1 <=> i = k + 6)
    BY <1>2
  <2>2. made[i] = McuOf(d, j)
    BY <1>5, <2>1
  <2> DEFINE v == [c \in d.frame.comps |-> d.coefs[c][j]]
  <2> HIDE DEF j
  <2>3. made[i] = Data(j, v, "standard", j = 1) /\ DOMAIN v = d.frame.comps
    BY <2>2 DEF McuOf
  <2> HIDE DEF v
  <2>4. /\ made[i].k = "data" /\ made[i].n = j /\ made[i].name = "standard"
        /\ made[i].comps = d.frame.comps /\ made[i].opens = (j = 1)
    BY <2>3, DataFields
  <2>5. (j = 1) = (i = k + 6)
    BY <2>1
  <2>6. QED
    BY <2>4, <2>5 DEF IsMcu, j
<1>9. MadeOf(d, made, k, n)
  BY <1>1, <1>2, <1>3, <1>4, <1>5, <1>6, <1>7, <1>8 DEF MadeOf
<1>10. QED
  BY <1>2, <1>9 DEF made, n

\* Its one scan is complete and in order.
LEMMA MadeFollows ==
    ASSUME NEW d, NEW f, NEW k \in Nat, NEW n, MadeOf(d, f, k, n),
           NEW i \in k + 5 .. k + n + 5
    PROVE  f[i].k \in {"SOS", "data"} /\ Follows(f, i, n, 0)
<1>1. /\ n \in Nat \ {0} /\ f[k + 5].k = "SOS" /\ f[k + 5].comps = d.frame.comps
      /\ \A j \in k + 6 .. k + n + 5 : IsMcu(f[j], j - (k + 5), d.frame.comps, j = k + 6)
      /\ f[k + n + 6].k = "EOI"
  BY DEF MadeOf
<1>2. CASE i = k + 5
  <2>1. k + 6 \in k + 6 .. k + n + 5 /\ (k + 6) - (k + 5) = 1 /\ i + 1 = k + 6
    BY <1>1, <1>2
  <2>2. IsMcu(f[k + 6], 1, d.frame.comps, TRUE)
    BY <1>1, <2>1 DEF IsMcu
  <2>3. QED
    BY <1>1, <1>2, <2>1, <2>2 DEF Follows
<1>3. CASE i # k + 5
  <2>1. i \in k + 6 .. k + n + 5
    BY <1>1, <1>3
  <2>2. f[i].k = "data" /\ f[i].n = i - (k + 5) /\ f[i].comps = d.frame.comps
    BY <1>1, <2>1 DEF IsMcu
  <2>3. CASE f[i].n = n
    <3>1. i + 1 = k + n + 6
      BY <1>1, <2>2, <2>3
    <3>2. f[i + 1].k = "EOI"
      BY <1>1, <3>1
    <3>3. f[i].k = "data" /\ f[i].n = n /\ f[i + 1].k \notin {"data", "RST"}
      BY <2>2, <2>3, <3>2
    <3>4. f[i].k \in {"SOS", "data"} /\ f[i].k # "SOS"
      BY <3>3
    <3>5. QED
      BY <3>3, <3>4, Zenon DEF Follows
  <2>4. CASE f[i].n # n
    <3>1. /\ i + 1 \in k + 6 .. k + n + 5 /\ (i + 1) - (k + 5) = f[i].n + 1 /\ (i + 1 = k + 6) = FALSE
      BY <1>1, <2>1, <2>2, <2>4
    <3>2. IsMcu(f[i + 1], f[i].n + 1, f[i].comps, FALSE)
      BY <1>1, <2>2, <3>1
    <3>3. /\ f[i].k = "data" /\ f[i].k # "SOS" /\ f[i].k \in {"SOS", "data"}
          /\ f[i].k \notin {"APP", "DHT"}
      BY <2>2
    <3>4. ~(0 > 0)
      OBVIOUS
    <3>5. QED
      BY <2>4, <3>2, <3>3, <3>4, Zenon DEF Follows
  <2>5. QED
    BY <2>3, <2>4
<1>4. QED
  BY <1>2, <1>3

\* It has the layout of a sound file.
LEMMA MadeIsLaid ==
    ASSUME NEW d, NEW f, NEW k \in Nat, NEW n, MadeOf(d, f, k, n)
    PROVE  Layout(f, k + 3, k + 5, 0, "standard")
<1>1. /\ IsFile(f) /\ k \in Nat /\ n \in Nat \ {0} /\ n = d.frame.n
      /\ Len(f) = k + n + 6
      /\ f[1].k = "SOI"
      /\ \A i \in 2 .. k + 1 : f[i].k = "APP"
      /\ f[k + 2].k = "DQT" /\ f[k + 3] = d.frame
      /\ f[k + 4].k = "DHT" /\ f[k + 4].name = "standard"
      /\ f[k + 5].k = "SOS" /\ f[k + 5].comps = d.frame.comps
      /\ \A i \in k + 6 .. k + n + 5 : /\ IsMcu(f[i], i - (k + 5), d.frame.comps, i = k + 6)
                                       /\ f[i].name = "standard"
      /\ f[k + n + 6].k = "EOI"
      /\ d.frame.k = "SOF" /\ d.frame.name = None
  BY DEF MadeOf
<1>2. DOMAIN f = 1 .. k + n + 6
  BY <1>1, FileFacts
<1>3. ASSUME NEW i \in 2 .. (k + 5) - 1
      PROVE  f[i].k \in {"APP", "DQT", "DHT", "DRI", "SOF"} /\ (f[i].k = "SOF" => i = k + 3)
  <2>1. k \in Nat /\ n \in Nat
    BY <1>1
  <2>2. i \in 2 .. k + 1 \/ i = k + 2 \/ i = k + 3 \/ i = k + 4
    BY <2>1
  <2>3. CASE i \in 2 .. k + 1
    BY <1>1, <2>3
  <2>4. CASE i = k + 2
    BY <1>1, <2>4
  <2>5. CASE i = k + 3
    BY <1>1, <2>5
  <2>6. CASE i = k + 4
    BY <1>1, <2>6
  <2>7. QED
    BY <2>2, <2>3, <2>4, <2>5, <2>6
<1>4. ASSUME NEW i \in k + 5 .. Len(f) - 1
      PROVE  f[i].k \in {"APP", "DHT", "SOS", "RST", "data"} /\ Follows(f, i, f[k + 3].n, 0)
  <2>1. i \in k + 5 .. k + n + 5
    BY <1>1
  <2>2. f[i].k \in {"SOS", "data"} /\ Follows(f, i, n, 0)
    BY <2>1, MadeFollows
  <2>3. f[k + 3].n = n
    <3>1. f[k + 3] = d.frame /\ n = d.frame.n
      BY <1>1
    <3>2. QED
      BY <3>1, Zenon
  <2>4. Follows(f, i, f[k + 3].n, 0)
    BY <2>2, <2>3, Zenon
  <2>5. QED
    BY <2>2, <2>4
<1>5. ASSUME NEW i \in k + 6 .. k + n + 5 PROVE f[i].k = "data" /\ f[i].name = "standard"
  BY <1>1 DEF IsMcu
<1>6. ASSUME NEW i \in 1 .. k + n + 6
      PROVE  \/ i = 1 \/ i \in 2 .. (k + 5) - 1 \/ i = k + 5 \/ i \in k + 6 .. k + n + 5 \/ i = k + n + 6
  <2>1. k \in Nat /\ n \in Nat
    BY <1>1
  <2>2. QED
    BY <2>1
<1>7. ASSUME NEW i \in k + 5 .. Len(f), f[i].k = "SOS" PROVE i = k + 5
  <2>1. i \in 1 .. k + n + 6 /\ i # 1 /\ i \notin 2 .. (k + 5) - 1
    BY <1>1
  <2>2. i = k + 5 \/ i \in k + 6 .. k + n + 5 \/ i = k + n + 6
    BY <1>6, <2>1
  <2>3. QED
    BY <1>1, <1>5, <1>7, <2>2
<1>8. ASSUME NEW i \in 1 .. k + n + 6
      PROVE  f[i].k # "DRI" /\ (f[i].k \in {"DHT", "data"} => f[i].name = "standard")
  <2>1. CASE i \in 2 .. (k + 5) - 1
    <3>1. i \in 2 .. k + 1 \/ i = k + 2 \/ i = k + 3 \/ i = k + 4
      BY <1>1, <2>1
    <3>2. QED
      BY <1>1, <3>1
  <2>2. QED
    BY <1>1, <1>5, <1>6, <2>1
<1>9. /\ k + 3 \in 2..((k + 5) - 1) /\ k + 5 < Len(f)
      /\ k + 2 \in 2..((k + 5) - 1) /\ k + 4 \in 2..((k + 5) - 1)
  BY <1>1
<1>10. \A i \in (k + 5)..Len(f) : f[i].k = "SOS" =>
           /\ f[i].comps \subseteq f[k + 3].comps
           /\ i > k + 5 => f[k + 5].comps # f[k + 3].comps
  <2> SUFFICES ASSUME NEW i \in (k + 5)..Len(f), f[i].k = "SOS"
               PROVE  f[i].comps \subseteq f[k + 3].comps /\ ~(i > k + 5)
    OBVIOUS
  <2>1. i = k + 5
    BY <1>7
  <2>2. ~(i > k + 5)
    BY <2>1
  <2>3. f[k + 3] = d.frame /\ f[k + 5].comps = d.frame.comps
    BY <1>1
  <2>4. f[i].comps \subseteq f[k + 3].comps
    BY <2>1, <2>3, Zenon
  <2>5. QED
    BY <2>2, <2>4
<1>11. f[Len(f)].k = "EOI" /\ f[k + 3].k = "SOF" /\ f[k + 3].name = None
  BY <1>1
<1>12. /\ \E i \in 2..((k + 5) - 1) : f[i].k = "DQT"
       /\ \E i \in 2..((k + 5) - 1) : f[i].k = "DHT"
  BY <1>1, <1>9
<1>13. /\ \A i \in DOMAIN f : f[i].k = "DRI" => f[i].n = 0
       /\ \A i \in DOMAIN f : f[i].k \in {"DHT", "data"} => f[i].name = "standard"
  BY <1>2, <1>8
<1>14. QED
  BY <1>1, <1>3, <1>4, <1>9, <1>10, <1>11, <1>12, <1>13 DEF Layout

\* It has one scan.
LEMMA MadeHasOneScan ==
    ASSUME NEW d, NEW f, NEW k \in Nat, NEW n, MadeOf(d, f, k, n)
    PROVE  OneScan(f)
<1>1. n \in Nat /\ DOMAIN f = 1 .. k + n + 6
  BY FileFacts DEF MadeOf
<1>2. ASSUME NEW i \in DOMAIN f, f[i].k = "SOS" PROVE i = k + 5
  <2>1. \/ i = 1 \/ i \in 2 .. k + 1 \/ i = k + 2 \/ i = k + 4 \/ i = k + 5 \/ i = k + n + 6
        \/ i = k + 3 \/ i \in k + 6 .. k + n + 5
    BY <1>1
  <2>2. f[k + 3].k = "SOF"
    BY Zenon DEF MadeOf
  <2>3. QED
    BY <1>2, <2>1, <2>2 DEF MadeOf, IsMcu
<1>3. QED
  BY <1>2 DEF OneScan

\* What a transformation writes can be read again.
LEMMA ComposedIsSound ==
    ASSUME NEW d, ObjectOK(d), Ready(d)
    PROVE  IsSoundFile(Compose(d))
<1> DEFINE f == Compose(d)
<1>1. PICK k \in Nat : MadeOf(d, f, k, d.frame.n)
  BY ComposedTokens
<1> HIDE DEF f
<1>2. Layout(f, k + 3, k + 5, 0, "standard")
  BY <1>1, MadeIsLaid
<1>3. IsFile(f) /\ k + 3 \in 1 .. Len(f) /\ k + 5 \in 1 .. Len(f)
  BY <1>1 DEF MadeOf
<1>4. 0 \in Intervals(f) /\ "standard" \in TableNames(f)
  BY DEF Intervals, TableNames
<1> DEFINE L(frame, s, interval, tables) == Layout(f, frame, s, interval, tables)
<1>5. L(k + 3, k + 5, 0, "standard")
  BY <1>2
<1> HIDE DEF L
<1>6. \E frame, s \in 1..Len(f), interval \in Intervals(f), tables \in TableNames(f) :
          L(frame, s, interval, tables)
  BY <1>3, <1>4, <1>5
<1>7. OneScan(f)
  BY <1>1, MadeHasOneScan
<1>8. QED
  BY <1>3, <1>6, <1>7 DEF IsSoundFile, L, f

\* At the end of a call the tables are those that were used.
LEMMA MismatchKeepsSoundInv ==
    ASSUME TypeInv, SoundInv, Mismatch PROVE SoundInv'
<1>1. pc = "finish" /\ call = "transform" /\ Mismatched /\ Fail(dinfo) /\ IsObject(dinfo)
  BY DEF Mismatch, Finishing, TypeInv, ObjectOK
<1>2. ~GoodAt(dinfo, pc, next, warning)
  BY <1>1 DEF GoodAt, Mismatched, TablesMatch
<1>3. Borrowing(dinfo) => StillBorrows(dinfo)
  BY DEF Borrowing, StillBorrows
<1>4. pc # "idle"
  BY <1>1
<1>5. QED
  BY <1>1, <1>2, <1>3, <1>4, FailKeepsSoundInv

\* A call that has met nothing wrong ends well.
LEMMA EndCallKeepsSoundInv ==
    ASSUME TypeInv, SoundInv, EndCall PROVE SoundInv'
<1>1. /\ pc = "finish" /\ dinfo' = Abort(dinfo) /\ pc' = "idle"
      /\ UNCHANGED <<source, call, calls, inherited>> /\ IsObject(dinfo)
      /\ warning \/ call # "transform" => written' = written
      /\ ~warning /\ (call = "transform" \/ ~Unnamed(dinfo.frame)) => result' = "ok"
  BY DEF EndCall, Finishing, TypeInv, PlaceInv, ObjectOK
<1>2. CASE result' = "ok"
  BY <1>1, <1>2 DEF SoundInv
<1>3. CASE result' # "ok"
  <2>1. /\ warning \/ (call = "header" /\ Unnamed(dinfo.frame))
        /\ written' = written
    BY <1>1, <1>3 DEF TypeInv, PlaceInv
  <2>2. Attending' <=> Attending
    BY <1>1, <2>1, SameAttending
  <2>3. ASSUME Attending PROVE Borrowing(dinfo)'
    <3>1. Borrowing(dinfo)
      BY <1>1, <2>1, <2>3 DEF SoundInv, GoodAt
    <3>2. Abort(dinfo).tables = dinfo.tables /\ Abort(dinfo).unread = dinfo.unread
      BY <1>1, AbortFields DEF Keeps, Fields
    <3>3. StillBorrows(Abort(dinfo))
      BY <3>1, <3>2 DEF StillBorrows, Borrowing
    <3>4. Borrowing(Abort(dinfo))
      BY <3>1, <3>3, BorrowingOn
    <3>5. QED
      BY <1>1, <2>1, <3>4, SameBorrowing
  <2>4. QED
    BY <1>1, <2>2, <2>3 DEF SoundInv
<1>4. QED
  BY <1>2, <1>3

\* A new object at the start of a sound file.
Fresh ==
    /\ FileInv /\ WrittenInv /\ Attending
    /\ pc = "reading" /\ next = 1 /\ ~warning
    /\ dinfo.inheaders /\ ~dinfo.eoi /\ ~dinfo.sawSOI
    /\ dinfo.frame = NoMarker /\ dinfo.unread = NoMarker
GoodOrBorrowing == Borrowing(dinfo) \/ GoodAt(dinfo, pc, next, warning)

\* Such a call is doing well or needs other tables.
LEMMA FreshIsGood == Fresh => GoodOrBorrowing
<1> SUFFICES ASSUME Fresh, ~Borrowing(dinfo) PROVE GoodAt(dinfo, pc, next, warning)
  BY DEF GoodOrBorrowing
<1>1. Laid
  BY SoundFilesAreLaid DEF Fresh, Attending
<1>2. /\ Size \in Nat /\ First \in Nat /\ FrameAt \in 2 .. First - 1 /\ First < Size
      /\ Size = Len(Tokens) /\ Tokens[First].k = "SOS"
      /\ \A i \in 1 .. Size : At(i) = Tokens[i]
  BY <1>1, LaidPlaces DEF Laid
<1>3. ASSUME call = "transform", ~Before(Size, "DHT") PROVE dinfo.tables \in {None, Tables}
  <2>1. First + 1 \in 1 .. Size /\ First \in First .. Size - 1
    BY <1>2
  <2>2. Follows(Tokens, First, Tokens[FrameAt].n, Interval)
    BY <1>1, <1>2, <2>1 DEF Laid, Layout
  <2>3. Tokens[First + 1].k = "data"
    BY <1>2, <2>2 DEF Follows, IsMcu
  <2>4. Tokens[First + 1].name = Tables
    BY <1>1, <2>1, <2>3, LaidTables
  <2>5. ~Has("DHT")
    BY <1>2, <1>3 DEF Has, Before
  <2>6. dinfo.unread.k # "DHT"
    BY TokenFacts DEF Fresh, None
  <2>7. dinfo.tables \in {None, Tokens[First + 1].name}
    BY <1>2, <1>3, <2>1, <2>3, <2>5, <2>6 DEF Borrowing
  <2>8. QED
    BY <2>4, <2>7
<1>4. \A kind : ~Before(0, kind)
  BY DEF Before
<1>5. ~(FrameAt <= 0) /\ ~(0 >= 1) /\ 0 < First /\ 0 < Size
  BY <1>2
<1>6. Headed(dinfo, 0)
  BY <1>3, <1>4, <1>5 DEF Fresh, Headed
<1>7. Seen(dinfo, next) = 0
  BY DEF Fresh, Seen
<1>8. InOrder(dinfo, next)
  BY <1>5, <1>6, <1>7 DEF InOrder, Fresh
<1>9. QED
  BY <1>8 DEF Fresh, GoodAt

\* A call begins with a new object, unless it inherits a busy one.
LEMMA BeginCallKeepsSoundInv ==
    ASSUME TypeInv, WrittenInv, TypeInv', NEW kind \in {"header", "transform"}, NEW file,
           BeginCall(kind, file)
    PROVE  SoundInv'
<1> DEFINE d == [dinfo EXCEPT !.keep = @ \/ kind = "transform"]
           r == Reset(d)
           e == [r EXCEPT !.state = "INHEADER"]
<1>1. /\ pc = "idle" /\ source' = file /\ next' = 1 /\ warning' = FALSE
      /\ call' = kind /\ pc' = "reading" /\ result' = None /\ calls' = calls + 1
      /\ inherited' = (dinfo.state # "START")
      /\ dinfo' = (IF d.state = "START" THEN e ELSE d) /\ written' = written
  BY DEF BeginCall
<1>2. IsObject(dinfo) /\ IdleOK(dinfo, call, result)
  BY <1>1 DEF TypeInv, PlaceInv, ObjectOK
<1>3. Keeps(dinfo, d, {"keep"})
  BY <1>2 DEF IsObject, Fields, Keeps
<1> HIDE DEF d
<1>4. /\ Keeps(d, r, {"consume", "multiple", "eoi", "inheaders", "unread", "sawSOI", "frame"})
      /\ r.eoi = FALSE /\ r.inheaders = TRUE /\ r.sawSOI = FALSE
      /\ r.unread = NoMarker /\ r.frame = NoMarker
  BY <1>3, ResetFields DEF Keeps
<1> HIDE DEF r
<1>5. Keeps(r, e, {"state"})
  BY <1>4 DEF Keeps, IsObject, Fields
<1> HIDE DEF e
<1>6. /\ ~e.eoi /\ e.inheaders /\ ~e.sawSOI /\ e.unread = NoMarker /\ e.frame = NoMarker
  BY <1>4, <1>5 DEF Keeps, Fields
<1>7. ASSUME Attending' PROVE Fresh'
  <2>2. dinfo.state = "START"
    BY <1>1, <1>7 DEF Attending
  <2>3. d.state = "START"
    BY <1>3, <2>2 DEF Keeps, Fields
  <2>4. dinfo' = e
    BY <1>1, <2>3
  <2>5. WrittenInv' /\ FileInv'
    BY <1>1 DEF WrittenInv, TypeInv
  <2>6. QED
    BY <1>1, <1>6, <1>7, <2>4, <2>5 DEF Fresh
<1>8. Fresh' => GoodOrBorrowing'
  BY FreshIsGood, PTL
<1>9. pc' # "idle"
  BY <1>1
<1>10. QED
  BY <1>7, <1>8, <1>9 DEF SoundInv, GoodOrBorrowing

LEMMA BeginKeepsSoundInv ==
    ASSUME TypeInv, WrittenInv, Begin PROVE SoundInv'
<1>1. TypeInv'
  BY BeginKeepsTypeInv
<1>2. \E kind \in {"header", "transform"} : \E file : BeginCall(kind, file)
  BY DEF Begin
<1>3. QED
  BY <1>1, <1>2, BeginCallKeepsSoundInv

\* A step in which nothing changes.
LEMMA StutterKeepsSoundInv ==
    ASSUME SoundInv, UNCHANGED vars PROVE SoundInv'
<1>1. /\ UNCHANGED <<source, written, call>> /\ dinfo' = dinfo /\ pc' = pc
      /\ next' = next /\ warning' = warning /\ result' = result
      /\ calls' = calls /\ inherited' = inherited
  BY DEF vars
<1>2. Borrowing(dinfo)' <=> Borrowing(dinfo)
  BY <1>1, SameBorrowing
<1>3. GoodAt(dinfo, pc, next, warning)' <=> GoodAt(dinfo, pc, next, warning)
  <2>1. GoodAt(dinfo, pc, next, warning)' <=> GoodAt(dinfo, pc, next', warning')
    BY <1>1, SameGood
  <2>2. QED
    BY <1>1, <2>1
<1>4. Attending' <=> Attending
  BY <1>1, SameAttending
<1>5. QED
  BY <1>1, <1>2, <1>3, <1>4 DEF SoundInv

\* Only the end of a transformation writes a file, and a sound one.
LEMMA WritesSoundFiles ==
    ASSUME TypeInv, WrittenInv, EndCall PROVE WrittenInv'
<1>1. CASE call = "transform" /\ ~warning
  <2>1. PICK d \in {dinfo, TurnedSideways(dinfo)} : pc = "finish" /\ written' = Compose(d)
    BY <1>1 DEF EndCall, Finishing
  <2>2. ObjectOK(d) /\ Ready(d)
    BY <1>1, <2>1, TurnedIsReady DEF TypeInv, PlaceInv, PlaceOK, FinishOK
  <2>3. QED
    BY <2>1, <2>2, ComposedIsSound DEF WrittenInv
<1>2. CASE ~(call = "transform" /\ ~warning)
  BY <1>2 DEF EndCall, WrittenInv
<1>3. QED
  BY <1>1, <1>2

\* Other steps leave the file that was written alone.
LEMMA KeepsWritten ==
    ASSUME Begin \/ ReadMarkers \/ ConsumeData \/ Mismatch PROVE written' = written
<1>1. CASE Begin
  BY <1>1 DEF Begin, BeginCall
<1>2. CASE ReadMarkers
  <2>1. \A d, l : Go(d, l) => written' = written
    BY DEF Go
  <2>2. \A d : Fail(d) => written' = written
    BY DEF Fail
  <2>3. \A d : StartInputPass(d) => written' = written
    BY <2>1, <2>2 DEF StartInputPass
  <2>4. GetSOS => written' = written
    BY <2>1, <2>2, <2>3 DEF GetSOS, ReadCoefficients
  <2>5. GetTables => written' = written
    <3>1. GetTables => dinfo.unread.k \in {"DHT", "DQT", "DRI"}
      BY DEF GetTables, Parsing, Pending
    <3>2. QED
      BY <2>1, <2>2, <3>1 DEF GetTables
  <2>6. QED
    BY <1>2, <2>1, <2>2, <2>4, <2>5 DEF ReadMarkers, ReadAfterEOI, FirstMarker, NextMarkerOfHeaders,
       GetSOI, GetSOF, SaveMarker, SkipMarker, UnknownMarker, GetEOI
<1>3. CASE ConsumeData
  <2>1. \A d, l : Go(d, l) => written' = written
    BY DEF Go
  <2>2. \A d : Resume(d) => written' = written
    BY <2>1 DEF Resume
  <2>3. \A d, i : Counted(d, i) => written' = written
    BY <2>1 DEF Counted
  <2>4. QED
    BY <1>3, <2>1, <2>2, <2>3 DEF ConsumeData, ReadRestartMarker, Discard, Skip, Leave,
       LeaveMcu, StuffZeros, DecodeMcu, DecodeOutOfStep
<1>4. CASE Mismatch
  BY <1>4 DEF Mismatch, Fail
<1>5. QED
  BY <1>1, <1>2, <1>3, <1>4

\* Both invariants together: a file that was written may be read again.
SoundFiles == WrittenInv /\ SoundInv

\* They hold of all sound files, any number of calls and whatever came before.
THEOREM SoundFilesHold == Spec => []SoundFiles
<1>1. Init => SoundFiles
  BY DEF Init, SoundFiles, WrittenInv, SoundInv, Attending
<1>2. TypeInv /\ SoundFiles /\ [Next]_vars => SoundFiles'
  <2> SUFFICES ASSUME TypeInv, WrittenInv, SoundInv, [Next]_vars PROVE WrittenInv' /\ SoundInv'
    BY DEF SoundFiles
  <2>1. WrittenInv'
    <3>1. CASE EndCall
      BY <3>1, WritesSoundFiles
    <3>2. CASE Begin \/ ReadMarkers \/ ConsumeData \/ Mismatch \/ UNCHANGED vars
      BY <3>2, KeepsWritten DEF WrittenInv, vars
    <3>3. QED
      BY <3>1, <3>2 DEF Next, Work
  <2>2. CASE Begin
    BY <2>1, <2>2, BeginKeepsSoundInv
  <2>3. CASE ReadMarkers
    BY <2>1, <2>3, ReadAfterEOIKeepsSoundInv, FirstMarkerKeepsSoundInv,
       NextMarkerOfHeadersKeepsSoundInv, GetSOIKeepsSoundInv, GetSOFKeepsSoundInv,
       GetTablesKeepsSoundInv, SaveMarkerKeepsSoundInv, SkipMarkerKeepsSoundInv,
       UnknownMarkerKeepsSoundInv, GetSOSKeepsSoundInv, GetEOIKeepsSoundInv DEF ReadMarkers
  <2>4. CASE ConsumeData
    BY <2>1, <2>4, ReadRestartMarkerKeepsSoundInv, DiscardKeepsSoundInv, SkipKeepsSoundInv,
       LeaveKeepsSoundInv, LeaveMcuKeepsSoundInv, StuffZerosKeepsSoundInv,
       DecodeMcuKeepsSoundInv, DecodeOutOfStepKeepsSoundInv DEF ConsumeData
  <2>5. CASE Mismatch
    BY <2>1, <2>5, MismatchKeepsSoundInv
  <2>6. CASE EndCall
    BY <2>1, <2>6, EndCallKeepsSoundInv
  <2>7. CASE UNCHANGED vars
    BY <2>1, <2>7, StutterKeepsSoundInv
  <2>8. QED
    BY <2>2, <2>3, <2>4, <2>5, <2>6, <2>7 DEF Next, Work
<1>3. QED
  BY <1>1, <1>2, TypeInvHolds, PTL DEF Spec

\* SoundFilesAreServed: a sound file is served, one that tjTransform() made as well,
\* whatever the calls before, but for a header call that failed, a sampling without a
\* name, an Adobe marker of other colours and missing tables.
THEOREM SoundFilesGetServed == Spec => []SoundFilesAreServed
<1>1. SoundFiles => SoundFilesAreServed
  BY DEF SoundFiles, SoundInv, Attending, SoundFilesAreServed, Done, Borrowing, Borrows
<1>2. QED
  BY <1>1, SoundFilesHold, PTL

(***************************************************************************)
(* Damaged files.                                                          *)
(***************************************************************************)

\* Damage puts in strays.
StrayInv == source.damage \in {"inserted", "replaced"} => source.stray \in Strays

\* Before Cut and from Rest on the damaged file is the one it was, there Shift tokens
\* further on; between them there is a stray or nothing.
Cut == CASE source.damage = None       -> 1
         [] source.damage = "repeated" -> source.to + 1
         [] OTHER                      -> source.from
Rest == IF source.damage \in {"inserted", "replaced"} THEN Cut + 1 ELSE Cut
Shift == Len(Tokens) - Size

\* A stray is no frame header that is accepted, no tables and no data of an MCU.
IsNoise(t) == /\ t.k = "data" => t.comps = {} /\ ~t.opens
              /\ t.k # "DHT"
              /\ t.k = "SOF" => t.name # None

InTokens(p) == p \in 1 .. Len(Tokens)
\* The file of the call around its damage: a place in front of Cut or from Rest on is a
\* place of the file, and the file has the layout of a sound one.
Torn ==
    /\ IsFile(Tokens) /\ Len(Tokens) \in Nat /\ Size \in Nat
    /\ Cut \in Nat /\ Cut >= 1 /\ Cut <= Size + 1
    /\ Rest = Cut \/ (Rest = Cut + 1 /\ Cut <= Size /\ IsNoise(At(Cut)))
    /\ Shift \in Int /\ Size + Shift = Len(Tokens)
    /\ \A i \in 1 .. Size : /\ i < Cut => At(i) = Tokens[i] /\ InTokens(i)
                            /\ i >= Rest => At(i) = Tokens[i + Shift] /\ InTokens(i + Shift)
    /\ Rest = Cut + 1 => Rest + Shift \in {Cut, Cut + 1}
    /\ Interval \in Nat /\ First \in 1 .. Len(Tokens)
    /\ Layout(Tokens, FrameAt, First, Interval, Tables)
    /\ OneScan(Tokens)

LEMMA StraysAreNoise ==
    ASSUME NEW t \in Strays
    PROVE  IsNoise(t)
<1>1. Junk.comps = {} /\ ~Junk.opens
  BY DEF Junk, Named, Marker
<1>2. QED
  BY <1>1, StraysAssumption DEF IsNoise

\* Any file, of any damage, is like that.
LEMMA FilesAreTorn ==
    ASSUME FileInv, StrayInv, WrittenInv, calls > 0
    PROVE  Torn
<1>1. IsSoundFile(Tokens) /\ OneScan(Tokens)
  BY TokensAreSound DEF IsSoundFile
<1>2. /\ Interval \in Nat /\ First \in 1 .. Len(Tokens)
      /\ Layout(Tokens, FrameAt, First, Interval, Tables)
  BY <1>1, TokensArePlanned
<1>3. IsFile(Tokens) /\ Len(Tokens) \in Nat /\ Size \in Nat
  BY TokensAreFile, FileFacts, SizeIsNat
<1> DEFINE Places == \A i \in 1 .. Size :
                        /\ i < Cut => At(i) = Tokens[i] /\ InTokens(i)
                        /\ i >= Rest => At(i) = Tokens[i + Shift] /\ InTokens(i + Shift)
<1>4. \A i \in 1 .. Size : ~Starved(i)
  BY <1>3 DEF Starved
<1>5. ASSUME source.damage = None
      PROVE  Cut = 1 /\ Rest = Cut /\ Shift = 0 /\ Places
  <2>1. Cut = 1 /\ Rest = 1 /\ Size = Len(Tokens)
    BY <1>5 DEF Cut, Rest, Size, None
  <2>2. Shift = 0
    BY <2>1, <1>3 DEF Shift
  <2>3. \A i \in 1 .. Size : At(i) = Tokens[i]
    BY <1>3, <1>4, <1>5 DEF At, None
  <2>4. QED
    BY <1>3, <2>1, <2>2, <2>3 DEF InTokens
<1>6. ASSUME source.damage = "lost"
      PROVE  Cut \in Nat /\ Cut >= 1 /\ Cut <= Size + 1 /\ Rest = Cut /\ Places
  <2>1. source.from \in 1 .. Len(Tokens) /\ source.to \in source.from .. Len(Tokens)
    BY <1>6 DEF FileInv, None
  <2>2. Cut = source.from /\ Rest = Cut /\ Size = Len(Tokens) - Width /\ Width = source.to - source.from + 1
    BY <1>6 DEF Cut, Rest, Size, None, Width
  <2>3. Shift = Width
    BY <2>1, <2>2, <1>3 DEF Shift
  <2>4. \A i \in 1 .. Size : At(i) = Tokens[IF i >= source.from THEN i + Width ELSE i]
    BY <1>3, <1>4, <1>6 DEF At, None
  <2>5. Width \in Nat /\ Cut \in Nat /\ Cut >= 1 /\ Cut <= Size + 1
    BY <1>3, <2>1, <2>2
  <2>6. ASSUME NEW i \in 1 .. Size
        PROVE  /\ i < Cut => At(i) = Tokens[i] /\ InTokens(i)
               /\ i >= Rest => At(i) = Tokens[i + Shift] /\ InTokens(i + Shift)
    <3>1. i \in Nat /\ i <= Size /\ i >= 1
      BY <1>3
    <3>2. CASE i < Cut
      <4>1. ~(i >= source.from) /\ ~(i >= Rest)
        BY <2>1, <2>2, <3>1, <3>2
      <4>2. At(i) = Tokens[i]
        BY <2>4, <4>1
      <4>3. InTokens(i)
        BY <1>3, <2>2, <2>5, <3>1 DEF InTokens
      <4>4. QED
        BY <4>1, <4>2, <4>3
    <3>3. CASE i >= Cut
      <4>1. i >= source.from /\ ~(i < Cut)
        BY <2>1, <2>2, <2>5, <3>1, <3>3
      <4>2. At(i) = Tokens[i + Shift]
        BY <2>3, <2>4, <4>1
      <4>3. InTokens(i + Shift)
        BY <1>3, <2>2, <2>3, <2>5, <3>1 DEF InTokens
      <4>4. QED
        BY <4>1, <4>2, <4>3
    <3>4. QED
      BY <2>5, <3>1, <3>2, <3>3
  <2>7. QED
    BY <2>2, <2>5, <2>6
<1>7. ASSUME source.damage = "repeated"
      PROVE  Cut \in Nat /\ Cut >= 1 /\ Cut <= Size + 1 /\ Rest = Cut /\ Places
  <2> DEFINE from == source.from
             to == source.to
  <2>1. from \in 1 .. Len(Tokens) /\ to \in from .. Len(Tokens)
    BY <1>7 DEF FileInv, None
  <2>2. Cut = to + 1 /\ Rest = Cut /\ Size = Len(Tokens) + Width /\ Width = to - from + 1
    BY <1>7 DEF Cut, Rest, Size, None, Width
  <2>3. Shift = 0 - Width
    BY <2>1, <2>2, <1>3 DEF Shift
  <2>4. \A i \in 1 .. Size : At(i) = Tokens[IF i > to THEN i - Width ELSE i]
    BY <1>3, <1>4, <1>7 DEF At, None
  <2> HIDE DEF from, to
  <2>5. Width \in Nat /\ Width <= to /\ Cut \in Nat /\ Cut >= 1 /\ Cut <= Size + 1 /\ to <= Len(Tokens)
    BY <1>3, <2>1, <2>2
  <2>6. ASSUME NEW i \in 1 .. Size
        PROVE  /\ i < Cut => At(i) = Tokens[i] /\ InTokens(i)
               /\ i >= Rest => At(i) = Tokens[i + Shift] /\ InTokens(i + Shift)
    <3>1. i \in Nat /\ i <= Size /\ i >= 1
      BY <1>3
    <3>2. CASE i < Cut
      <4>1. ~(i > to) /\ ~(i >= Rest) /\ i <= to
        BY <2>1, <2>2, <3>1, <3>2
      <4>2. At(i) = Tokens[i]
        BY <2>4, <4>1
      <4>3. InTokens(i)
        BY <1>3, <2>1, <2>5, <3>1, <4>1 DEF InTokens
      <4>4. QED
        BY <4>1, <4>2, <4>3
    <3>3. CASE i >= Cut
      <4>1. i > to /\ ~(i < Cut)
        BY <2>1, <2>2, <2>5, <3>1, <3>3
      <4>2. At(i) = Tokens[i - Width] /\ i - Width = i + Shift
        BY <2>3, <2>4, <2>5, <3>1, <4>1
      <4>3. InTokens(i + Shift)
        BY <1>3, <2>1, <2>2, <2>3, <2>5, <3>1, <4>1 DEF InTokens
      <4>4. QED
        BY <4>1, <4>2, <4>3
    <3>4. QED
      BY <2>5, <3>1, <3>2, <3>3
  <2>7. QED
    BY <2>2, <2>5, <2>6
<1>8. ASSUME source.damage \in {"inserted", "replaced"}
      PROVE  /\ Cut \in Nat /\ Cut >= 1 /\ Cut <= Size /\ Rest = Cut + 1 /\ Places
             /\ Rest + Shift \in {Cut, Cut + 1} /\ IsNoise(At(Cut))
  <2>1. source.from \in 1 .. Len(Tokens) /\ source.stray \in Strays
    BY <1>8 DEF FileInv, None, StrayInv
  <2>2. Cut = source.from /\ Rest = Cut + 1
    BY <1>8 DEF Cut, Rest, None
  <2>3. CASE source.damage = "inserted"
    <3>1. Size = Len(Tokens) + 1 /\ Shift = 0 - 1
      BY <2>3, <1>3 DEF Size, Shift
    <3>2. \A i \in 1 .. Size : At(i) = IF i = source.from THEN source.stray
                                       ELSE Tokens[IF i > source.from THEN i - 1 ELSE i]
      BY <1>3, <1>4, <2>3 DEF At, None
    <3>3. Places
      BY <1>3, <2>1, <2>2, <3>1, <3>2 DEF InTokens
    <3>4. /\ Cut \in Nat /\ Cut >= 1 /\ Cut <= Size
          /\ Rest + Shift = Cut \/ Rest + Shift = Cut + 1
      BY <1>3, <2>1, <2>2, <3>1
    <3>5. IsNoise(At(Cut))
      BY <2>1, <2>2, <3>2, <3>4, StraysAreNoise
    <3> HIDE DEF Places
    <3>6. QED
      BY <2>2, <3>3, <3>4, <3>5
  <2>4. CASE source.damage = "replaced"
    <3>1. Size = Len(Tokens) /\ Shift = 0
      BY <2>4, <1>3 DEF Size, Shift
    <3>2. \A i \in 1 .. Size : At(i) = IF i = source.from THEN source.stray ELSE Tokens[i]
      BY <1>3, <1>4, <2>4 DEF At, None
    <3>3. Places
      BY <1>3, <2>1, <2>2, <3>1, <3>2 DEF InTokens
    <3>4. /\ Cut \in Nat /\ Cut >= 1 /\ Cut <= Size
          /\ Rest + Shift = Cut \/ Rest + Shift = Cut + 1
      BY <1>3, <2>1, <2>2, <3>1
    <3>5. IsNoise(At(Cut))
      BY <2>1, <2>2, <3>2, <3>4, StraysAreNoise
    <3> HIDE DEF Places
    <3>6. QED
      BY <2>2, <3>3, <3>4, <3>5
  <2>5. QED
    BY <1>8, <2>3, <2>4
<1>9. Shift \in Int /\ Size + Shift = Len(Tokens)
  BY <1>3 DEF Shift
<1> HIDE DEF Places
<1>10. /\ Cut \in Nat /\ Cut >= 1 /\ Cut <= Size + 1 /\ Places
       /\ Rest = Cut \/ (Rest = Cut + 1 /\ Cut <= Size /\ IsNoise(At(Cut)))
       /\ Rest = Cut + 1 => Rest + Shift \in {Cut, Cut + 1}
  BY <1>3, <1>5, <1>6, <1>7, <1>8 DEF FileInv
<1>11. QED
  BY <1>1, <1>2, <1>3, <1>9, <1>10 DEF Torn, Places

\* The number of MCUs.
Many == Tokens[FrameAt].n

\* The tokens of the file by their neighbours.
LEMMA TornPlaces ==
    ASSUME Torn
    PROVE  /\ First \in Nat /\ FrameAt \in 2 .. First - 1 /\ First < Len(Tokens) /\ First > 2
           /\ Tokens[1].k = "SOI" /\ Tokens[First].k = "SOS" /\ Tokens[Len(Tokens)].k = "EOI"
           /\ Tokens[FrameAt].k = "SOF" /\ Tokens[FrameAt].name = None
           /\ Many \in Nat /\ Many > 0
           /\ DOMAIN Tokens = 1 .. Len(Tokens)
           /\ \A p \in 1 .. Len(Tokens) : IsToken(Tokens[p])
           /\ \A p \in First .. Len(Tokens) - 1 : Follows(Tokens, p, Many, Interval)
           /\ \A p \in 1 .. Len(Tokens) : Tokens[p].k \in {"data", "SOS", "RST"} => p \in First .. Len(Tokens) - 1
           /\ \A p \in 1 .. Len(Tokens) : Tokens[p].k \in {"DHT", "data"} => Tokens[p].name = Tables
           /\ \A p \in 1 .. Len(Tokens) : Tokens[p].k = "DRI" => Tokens[p].n = Interval
           /\ \A p \in 1 .. Len(Tokens) : Tokens[p].k = "SOF" => p = FrameAt
           /\ \A p \in First .. Len(Tokens) - 1 : Tokens[p].k \in {"APP", "DHT", "SOS", "RST", "data"}
           /\ \A p \in 1 .. Len(Tokens) : Tokens[p].k = "SOS" => Tokens[p].comps \subseteq Tokens[FrameAt].comps
           /\ Before(First - 1, "DRI") \/ Interval = 0
<1>1. /\ Len(Tokens) \in Nat /\ DOMAIN Tokens = 1 .. Len(Tokens)
      /\ \A p \in 1 .. Len(Tokens) : IsToken(Tokens[p])
  BY FileFacts DEF Torn
<1>2. First \in 1 .. Len(Tokens) /\ Interval \in Nat /\ Len(Tokens) \in Nat
  BY DEF Torn
<1>3. /\ FrameAt \in 2..(First - 1) /\ First < Len(Tokens)
      /\ Tokens[1].k = "SOI" /\ Tokens[Len(Tokens)].k = "EOI"
      /\ \A i \in 2..(First - 1) : /\ Tokens[i].k \in {"APP", "DQT", "DHT", "DRI", "SOF"}
                                   /\ Tokens[i].k = "SOF" => i = FrameAt
      /\ \A i \in First..(Len(Tokens) - 1) : /\ Tokens[i].k \in {"APP", "DHT", "SOS", "RST", "data"}
                                             /\ Follows(Tokens, i, Many, Interval)
      /\ Tokens[FrameAt].k = "SOF" /\ Tokens[FrameAt].name = None /\ Tokens[First].k = "SOS"
      /\ \A i \in First..Len(Tokens) : Tokens[i].k = "SOS" => Tokens[i].comps \subseteq Tokens[FrameAt].comps
      /\ (\E i \in 2..(First - 1) : Tokens[i].k = "DRI") \/ Interval = 0
      /\ \A i \in DOMAIN Tokens : Tokens[i].k = "DRI" => Tokens[i].n = Interval
      /\ \A i \in DOMAIN Tokens : Tokens[i].k \in {"DHT", "data"} => Tokens[i].name = Tables
  BY DEF Torn, Layout, Many
<1>4. Many \in Nat /\ Many > 0
  <2>1. IsToken(Tokens[FrameAt])
    BY <1>1, <1>2, <1>3
  <2>2. QED
    BY <1>3, <2>1 DEF Many, IsToken
<1>5. ASSUME NEW p \in 1 .. Len(Tokens)
      PROVE  p = 1 \/ p \in 2 .. First - 1 \/ p \in First .. Len(Tokens) - 1 \/ p = Len(Tokens)
  <2>1. p \in Nat /\ p >= 1 /\ p <= Len(Tokens) /\ First \in Nat /\ Len(Tokens) \in Nat
    BY <1>2
  <2>2. QED
    BY <2>1
<1>6. ASSUME NEW p \in 1 .. Len(Tokens), Tokens[p].k \in {"data", "SOS", "RST"}
      PROVE  p \in First .. Len(Tokens) - 1
  BY <1>3, <1>5, <1>6
<1>7. ASSUME NEW p \in 1 .. Len(Tokens), Tokens[p].k = "SOF"
      PROVE  p = FrameAt
  BY <1>3, <1>5, <1>7
<1>8. ASSUME NEW p \in 1 .. Len(Tokens), Tokens[p].k = "SOS"
      PROVE  Tokens[p].comps \subseteq Tokens[FrameAt].comps
  <2>1. p \in First .. Len(Tokens)
    BY <1>1, <1>2, <1>6, <1>8
  <2>2. QED
    BY <1>3, <1>8, <2>1
<1>9. Before(First - 1, "DRI") \/ Interval = 0
  <2>1. ASSUME NEW i \in 2 .. First - 1 PROVE i \in 1 .. First - 1
    BY <1>2
  <2>2. QED
    BY <1>3, <2>1 DEF Before
<1>10. First > 2 /\ First \in Nat
  BY <1>2, <1>3
<1>11. QED
  BY <1>1, <1>3, <1>4, <1>6, <1>7, <1>8, <1>9, <1>10

\* What the token at place p is like if it is data or a restart marker.
IsDataOf(t, first) ==
    /\ t.n \in 1 .. Many /\ t.comps \subseteq Tokens[FrameAt].comps
    /\ t.opens = first
    /\ first => (IF Interval = 0 THEN t.n = 1 ELSE (t.n - 1) % Interval = 0)
\* The restart marker at place p is between two MCUs of one scan.
RestartBehind(p) ==
    /\ Tokens[p - 1].k = "data" /\ Interval > 0 /\ Tokens[p - 1].n % Interval = 0
    /\ Tokens[p - 1].n \in 1 .. Many - 1 /\ Tokens[p - 1].comps \subseteq Tokens[FrameAt].comps
    /\ IsMcu(Tokens[p + 1], Tokens[p - 1].n + 1, Tokens[p - 1].comps, TRUE)
Shaped(p) ==
    /\ Tokens[p].k = "data" =>
           /\ Tokens[p - 1].k \in {"SOS", "RST", "data"}
           /\ IsDataOf(Tokens[p], Tokens[p - 1].k # "data")
    /\ Tokens[p].k = "RST" => RestartBehind(p)

\* All data and restart markers of the file are so, by induction on their places.
LEMMA NextIsShaped ==
    ASSUME Torn, NEW p \in First .. Len(Tokens) - 2, Shaped(p)
    PROVE  Shaped(p + 1)
<1> DEFINE t == Tokens[p]
           u == Tokens[p + 1]
<1>0. /\ p \in Nat /\ p + 1 \in First .. Len(Tokens) - 1 /\ p \in First .. Len(Tokens) - 1
      /\ p \in 1 .. Len(Tokens) /\ (p + 1) - 1 = p /\ (p + 1) + 1 = p + 2
  BY TornPlaces DEF Torn
<1>1. /\ t.k \in {"APP", "DHT", "SOS", "RST", "data"} /\ Follows(Tokens, p, Many, Interval)
      /\ t.n \in Nat /\ Many \in Nat /\ Many > 0 /\ Interval \in Nat
  BY <1>0, TornPlaces DEF IsToken, Torn
<1>2. /\ t.k = "SOS" => IsMcu(u, 1, t.comps, TRUE)
      /\ t.k = "data" /\ t.n # Many /\ Interval > 0 /\ t.n % Interval = 0 =>
             /\ u.k = "RST" /\ IsMcu(Tokens[p + 2], t.n + 1, t.comps, TRUE)
      /\ t.k = "data" /\ t.n # Many /\ ~(Interval > 0 /\ t.n % Interval = 0) =>
             IsMcu(u, t.n + 1, t.comps, FALSE)
      /\ (t.k = "data" /\ t.n = Many) \/ t.k \in {"APP", "DHT"} => u.k \notin {"data", "RST"}
  <2>1. Counting("RST", (t.n \div Interval - 1) % 8).k = "RST"
    BY DEF Counting, Marker
  <2>2. QED
    BY <1>1, <2>1 DEF Follows
<1>3. CASE t.k = "SOS"
  <2>1. IsMcu(u, 1, t.comps, TRUE) /\ t.comps \subseteq Tokens[FrameAt].comps
    BY <1>0, <1>2, <1>3, TornPlaces
  <2>2. u.k = "data" /\ u.n = 1 /\ u.comps = t.comps /\ u.opens = TRUE
    BY <2>1 DEF IsMcu
  <2>3. Interval > 0 => (1 - 1) % Interval = 0
    BY <1>1
  <2>4. IsDataOf(u, TRUE)
    BY <1>1, <2>1, <2>2, <2>3 DEF IsDataOf
  <2>5. QED
    BY <1>0, <1>3, <2>2, <2>4 DEF Shaped
<1>4. CASE t.k = "data"
  <2>1. t.n \in 1 .. Many /\ t.comps \subseteq Tokens[FrameAt].comps
    BY <1>4 DEF Shaped, IsDataOf
  <2>2. CASE t.n = Many
    BY <1>2, <1>4, <2>2 DEF Shaped
  <2>3. CASE t.n # Many /\ Interval > 0 /\ t.n % Interval = 0
    <3>1. u.k = "RST" /\ IsMcu(Tokens[p + 2], t.n + 1, t.comps, TRUE)
      BY <1>2, <1>4, <2>3
    <3>11. t.n \in 1 .. Many - 1
      BY <1>1, <2>1, <2>3
    <3>2. RestartBehind(p + 1)
      BY <1>0, <1>4, <2>1, <2>3, <3>1, <3>11 DEF RestartBehind
    <3>3. QED
      BY <3>1, <3>2 DEF Shaped
  <2>4. CASE t.n # Many /\ ~(Interval > 0 /\ t.n % Interval = 0)
    <3>1. IsMcu(u, t.n + 1, t.comps, FALSE)
      BY <1>2, <1>4, <2>4
    <3>2. u.k = "data" /\ u.n = t.n + 1 /\ u.comps = t.comps /\ u.opens = FALSE
      BY <3>1 DEF IsMcu
    <3>3. u.n \in 1 .. Many
      BY <1>1, <2>1, <2>4, <3>2
    <3>4. IsDataOf(u, FALSE)
      BY <2>1, <3>2, <3>3 DEF IsDataOf
    <3>5. QED
      BY <1>0, <1>4, <3>2, <3>4 DEF Shaped
  <2>5. QED
    BY <2>2, <2>3, <2>4
<1>5. CASE t.k = "RST"
  <2> DEFINE s == Tokens[p - 1]
  <2>1. /\ s.k = "data" /\ Interval > 0 /\ s.n % Interval = 0
        /\ s.n \in 1 .. Many - 1 /\ s.comps \subseteq Tokens[FrameAt].comps
        /\ IsMcu(u, s.n + 1, s.comps, TRUE)
    BY <1>5 DEF Shaped, RestartBehind
  <2>2. u.k = "data" /\ u.n = s.n + 1 /\ u.comps = s.comps /\ u.opens = TRUE
    BY <2>1 DEF IsMcu
  <2> HIDE DEF s
  <2>3. u.n \in 1 .. Many /\ u.n - 1 = s.n
    BY <1>1, <2>1, <2>2
  <2>4. IsDataOf(u, TRUE)
    BY <1>1, <2>1, <2>2, <2>3 DEF IsDataOf
  <2>5. QED
    BY <1>0, <1>5, <2>2, <2>4 DEF Shaped
<1>6. CASE t.k \in {"APP", "DHT"}
  BY <1>2, <1>6 DEF Shaped
<1>7. QED
  BY <1>1, <1>3, <1>4, <1>5, <1>6

LEMMA AllAreShaped ==
    ASSUME Torn
    PROVE  \A p \in 1 .. Len(Tokens) : Shaped(p)
<1> DEFINE S == {i \in Nat : Shaped(First + i)}
           m == Len(Tokens) - 1 - First
<1>1. First \in Nat /\ Len(Tokens) \in Nat /\ First < Len(Tokens)
  BY TornPlaces DEF Torn
<1>2. 0 \in S
  <2>1. Shaped(First) /\ First + 0 = First
    BY <1>1, TornPlaces DEF Shaped
  <2>2. QED
    BY <2>1
<1>3. m \in Nat /\ \A i \in 0 .. m - 1 : i \in S => i + 1 \in S
  <2>1. m \in Nat
    BY <1>1
  <2>2. ASSUME NEW i \in 0 .. m - 1, i \in S PROVE Shaped(First + (i + 1)) /\ i + 1 \in Nat
    <3>1. First + i \in First .. Len(Tokens) - 2 /\ (First + i) + 1 = First + (i + 1) /\ i + 1 \in Nat
      BY <1>1
    <3>2. Shaped(First + i)
      BY <2>2
    <3> HIDE DEF S, m
    <3>3. Shaped((First + i) + 1)
      BY <3>1, <3>2, NextIsShaped
    <3>4. QED
      BY <3>1, <3>3
  <2>3. QED
    BY <2>1, <2>2
<1>4. \A p \in First .. Len(Tokens) - 1 : Shaped(p)
  <2>1. 0 .. m \subseteq S
    <3> HIDE DEF S, m
    <3>1. QED
      BY <1>2, <1>3, BoundedInduction
  <2>2. TAKE p \in First .. Len(Tokens) - 1
  <2>3. p - First \in 0 .. m /\ First + (p - First) = p
    BY <1>1
  <2>4. p - First \in S
    BY <2>1, <2>3
  <2>5. QED
    BY <2>3, <2>4
<1>5. ASSUME NEW p \in 1 .. Len(Tokens), Tokens[p].k \in {"data", "RST"} PROVE Shaped(p)
  BY <1>4, <1>5, TornPlaces
<1>6. QED
  BY <1>5 DEF Shaped

\* Neighbours in the damaged file that were neighbours in the file.
Whole(n) == n < Cut \/ n > Rest
Adjoin(n) == \E p \in 2 .. Len(Tokens) : At(n - 1) = Tokens[p - 1] /\ At(n) = Tokens[p]

LEMMA WholeAdjoin ==
    ASSUME Torn, NEW n \in 2 .. Size, Whole(n)
    PROVE  Adjoin(n)
<1>1. n \in Nat /\ n - 1 \in 1 .. Size /\ n \in 1 .. Size /\ Size \in Nat /\ Cut \in Nat /\ Rest \in Nat
      /\ Shift \in Int /\ Len(Tokens) \in Nat
  BY DEF Torn
<1>2. CASE n < Cut
  <2>1. At(n - 1) = Tokens[n - 1] /\ At(n) = Tokens[n] /\ InTokens(n)
    BY <1>1, <1>2 DEF Torn
  <2>2. n \in 2 .. Len(Tokens)
    BY <1>1, <2>1 DEF InTokens
  <2>3. QED
    BY <2>1, <2>2 DEF Adjoin
<1>3. CASE n > Rest
  <2>1. n >= Rest /\ n - 1 >= Rest
    BY <1>1, <1>3
  <2>2. /\ At(n - 1) = Tokens[(n - 1) + Shift] /\ InTokens((n - 1) + Shift)
        /\ At(n) = Tokens[n + Shift] /\ InTokens(n + Shift)
    BY <1>1, <2>1 DEF Torn
  <2>3. n + Shift \in 2 .. Len(Tokens) /\ (n - 1) + Shift = (n + Shift) - 1
    BY <1>1, <2>2 DEF InTokens
  <2>4. QED
    BY <2>2, <2>3 DEF Adjoin
<1>4. QED
  BY <1>2, <1>3 DEF Whole

LEMMA WholeInFile ==
    ASSUME Torn, FileInv, NEW n \in 2 .. Size + 1, Whole(n), At(n - 1).k # "EOI"
    PROVE  n <= Size
<1>1. n \in Nat /\ n - 1 \in 1 .. Size /\ Size \in Nat /\ Cut \in Nat /\ Rest \in Nat
      /\ Shift \in Int /\ Len(Tokens) \in Nat /\ Size + Shift = Len(Tokens) /\ Cut <= Size + 1
  BY DEF Torn
<1>2. CASE n < Cut
  BY <1>1, <1>2
<1>3. CASE n > Rest
  <2>1. SUFFICES ASSUME n = Size + 1 PROVE FALSE
    BY <1>1
  <2>2. Size \in 1 .. Size /\ Size >= Rest /\ n - 1 = Size
    BY <1>1, <1>3, <2>1
  <2>3. At(Size) = Tokens[Size + Shift]
    BY <2>2 DEF Torn
  <2>4. At(n - 1).k = "EOI"
    BY <1>1, <2>2, <2>3, TornPlaces
  <2>5. QED
    BY <2>4
<1>4. QED
  BY <1>2, <1>3 DEF Whole

\* What may stand side by side in the file.
SideBySide(t, u) ==
    /\ t.k = "SOS" => IsMcu(u, 1, t.comps, TRUE)
    /\ t.k = "RST" => u.k = "data"
    /\ t.k = "data" => /\ t.n \in 1 .. Many
                       /\ t.n # Many => u.k \in {"data", "RST"}
                       /\ t.n = Many => u.k \notin {"data", "RST"}
                       /\ u.k = "data" => /\ IsMcu(u, t.n + 1, t.comps, FALSE)
                                          /\ ~(Interval > 0 /\ t.n % Interval = 0)
                       /\ u.k = "RST" => Interval > 0 /\ t.n % Interval = 0

\* It holds of all neighbours in the file, and of those that damage has not parted.
LEMMA NeighboursFit ==
    ASSUME Torn, NEW p \in 2 .. Len(Tokens)
    PROVE  SideBySide(Tokens[p - 1], Tokens[p])
<1> DEFINE t == Tokens[p - 1]
           u == Tokens[p]
<1>1. /\ p \in Nat /\ p \in 1 .. Len(Tokens) /\ p - 1 \in 1 .. Len(Tokens) /\ (p - 1) + 1 = p
      /\ (p - 1) + 2 = p + 1
  BY DEF Torn
<1>2. SUFFICES ASSUME t.k \in {"SOS", "RST", "data"} PROVE SideBySide(t, u)
  BY DEF SideBySide
<1>3. p - 1 \in First .. Len(Tokens) - 1
  BY <1>1, <1>2, TornPlaces
<1>4. /\ Follows(Tokens, p - 1, Many, Interval) /\ Many \in Nat /\ Interval \in Nat
      /\ Shaped(p - 1)
  BY <1>1, <1>3, TornPlaces, AllAreShaped DEF Torn
<1>5. /\ t.k = "SOS" => IsMcu(u, 1, t.comps, TRUE)
      /\ t.k = "data" /\ t.n # Many /\ Interval > 0 /\ t.n % Interval = 0 => u.k = "RST"
      /\ t.k = "data" /\ t.n # Many /\ ~(Interval > 0 /\ t.n % Interval = 0) =>
             IsMcu(u, t.n + 1, t.comps, FALSE)
      /\ t.k = "data" /\ t.n = Many => u.k \notin {"data", "RST"}
  <2>1. Counting("RST", (t.n \div Interval - 1) % 8).k = "RST"
    BY DEF Counting, Marker
  <2>2. QED
    BY <1>1, <1>4, <2>1 DEF Follows
<1>6. CASE t.k = "SOS"
  BY <1>5, <1>6 DEF SideBySide
<1>7. CASE t.k = "RST"
  <2>1. IsMcu(u, Tokens[(p - 1) - 1].n + 1, Tokens[(p - 1) - 1].comps, TRUE)
    BY <1>1, <1>4, <1>7 DEF Shaped, RestartBehind
  <2>2. QED
    BY <1>7, <2>1 DEF SideBySide, IsMcu
<1>8. CASE t.k = "data"
  <2>1. t.n \in 1 .. Many
    BY <1>4, <1>8 DEF Shaped, IsDataOf
  <2>2. CASE t.n = Many
    BY <1>5, <1>8, <2>1, <2>2 DEF SideBySide
  <2>3. CASE t.n # Many /\ Interval > 0 /\ t.n % Interval = 0
    BY <1>5, <1>8, <2>1, <2>3 DEF SideBySide
  <2>4. CASE t.n # Many /\ ~(Interval > 0 /\ t.n % Interval = 0)
    <3>1. IsMcu(u, t.n + 1, t.comps, FALSE)
      BY <1>5, <1>8, <2>4
    <3>2. u.k = "data"
      BY <3>1 DEF IsMcu
    <3>3. QED
      BY <1>8, <2>1, <2>4, <3>1, <3>2 DEF SideBySide
  <2>5. QED
    BY <2>2, <2>3, <2>4
<1>9. QED
  BY <1>2, <1>6, <1>7, <1>8

\* The same of the damaged file where it is whole.
LEMMA WholeFits ==
    ASSUME Torn, FileInv, NEW n \in 2 .. Size + 1, Whole(n), At(n - 1).k \in {"data", "SOS", "RST"}
    PROVE  n \in 2 .. Size /\ SideBySide(At(n - 1), At(n))
<1>1. n \in 2 .. Size
  <2>1. n <= Size
    BY WholeInFile
  <2>2. QED
    BY <2>1 DEF Torn
<1>2. PICK p \in 2 .. Len(Tokens) : At(n - 1) = Tokens[p - 1] /\ At(n) = Tokens[p]
  BY <1>1, WholeAdjoin DEF Adjoin
<1>3. QED
  BY <1>1, <1>2, NeighboursFit

\* Behind a restart marker the next MCU follows, if damage has not parted the three.
LEMMA RestartFits ==
    ASSUME Torn, FileInv, NEW n \in 2 .. Size, n + 1 < Cut \/ n > Rest,
           At(n - 1).k = "data", At(n).k = "RST"
    PROVE  IsMcu(At(n + 1), At(n - 1).n + 1, At(n - 1).comps, TRUE)
<1>1. n \in Nat /\ n - 1 \in 1 .. Size /\ n \in 1 .. Size /\ Size \in Nat /\ Cut \in Nat /\ Rest \in Nat
      /\ Shift \in Int /\ Len(Tokens) \in Nat /\ n + 1 \in 2 .. Size + 1 /\ (n + 1) - 1 = n
  BY DEF Torn
<1>2. Whole(n + 1) /\ n + 1 \in 1 .. Size
  <2>1. Whole(n + 1)
    BY <1>1 DEF Whole
  <2>2. n + 1 <= Size
    BY <1>1, <2>1, WholeInFile
  <2>3. QED
    BY <1>1, <2>1, <2>2
<1>3. CASE n + 1 < Cut
  <2>1. /\ At(n - 1) = Tokens[n - 1] /\ At(n) = Tokens[n] /\ At(n + 1) = Tokens[n + 1]
        /\ n \in 1 .. Len(Tokens)
    BY <1>1, <1>2, <1>3 DEF Torn, InTokens
  <2>2. Shaped(n)
    BY <2>1, AllAreShaped
  <2>3. QED
    BY <2>1, <2>2 DEF Shaped, RestartBehind
<1>4. CASE n > Rest
  <2> DEFINE p == n + Shift
  <2>1. n - 1 >= Rest /\ n >= Rest /\ n + 1 >= Rest
    BY <1>1, <1>4
  <2>2. /\ At(n - 1) = Tokens[(n - 1) + Shift] /\ At(n) = Tokens[p] /\ At(n + 1) = Tokens[(n + 1) + Shift]
        /\ p \in 1 .. Len(Tokens)
    BY <1>1, <1>2, <2>1 DEF Torn, InTokens
  <2>3. (n - 1) + Shift = p - 1 /\ (n + 1) + Shift = p + 1
    BY <1>1
  <2>4. Shaped(p)
    BY <2>2, AllAreShaped
  <2> HIDE DEF p
  <2>5. QED
    BY <2>2, <2>3, <2>4 DEF Shaped, RestartBehind
<1>5. QED
  BY <1>3, <1>4

\* The data of MCUs is data of the file.
OfFile(t) ==
    /\ \E p \in 1 .. Len(Tokens) : t = Tokens[p]
    /\ t.name = Tables /\ IsDataOf(t, t.opens)
LEMMA DataIsOfFile ==
    ASSUME Torn, NEW n \in 1 .. Size, At(n).k = "data"
    PROVE  \/ At(n).comps = {} /\ ~At(n).opens
           \/ OfFile(At(n))
<1>1. n \in Nat /\ Size \in Nat /\ Cut \in Nat /\ Rest \in Nat /\ Shift \in Int
  BY DEF Torn
<1>2. ASSUME NEW p \in 1 .. Len(Tokens), At(n) = Tokens[p] PROVE OfFile(At(n))
  <2>1. Shaped(p) /\ Tokens[p].k = "data" /\ Tokens[p].name = Tables
    BY <1>2, TornPlaces, AllAreShaped
  <2>2. IsDataOf(Tokens[p], Tokens[p].opens)
    BY <2>1 DEF Shaped, IsDataOf
  <2>3. QED
    BY <1>2, <2>1, <2>2 DEF OfFile
<1>3. CASE n < Cut
  BY <1>2, <1>3 DEF Torn, InTokens
<1>4. CASE n >= Rest
  BY <1>2, <1>4 DEF Torn, InTokens
<1>5. CASE n = Cut /\ Rest = Cut + 1
  <2>1. IsNoise(At(n))
    BY <1>1, <1>5 DEF Torn
  <2>2. QED
    BY <2>1 DEF IsNoise
<1>6. Rest = Cut \/ Rest = Cut + 1
  BY DEF Torn
<1>7. QED
  BY <1>1, <1>3, <1>4, <1>5, <1>6

\* The number of MCUs that are coded up to place p of a scan, and its components.
Coded(p) == CASE Tokens[p].k = "data" -> Tokens[p].n
             [] Tokens[p].k = "RST"  -> Tokens[p - 1].n
             [] OTHER                -> 0
Scanned(p) == IF Tokens[p].k = "RST" THEN Tokens[p - 1].comps ELSE Tokens[p].comps

\* How a place of a scan continues the one in front of it.
Continues(p) ==
    /\ Tokens[p - 1].k \in {"SOS", "RST", "data"} /\ Scanned(p) = Scanned(p - 1)
    /\ Coded(p - 1) \in Nat /\ Coded(p - 1) <= Many
    /\ Coded(p) = IF Tokens[p].k = "data" THEN Coded(p - 1) + 1 ELSE Coded(p - 1)
OpensInPlace(p) ==
    Tokens[p].k = "data" =>
        /\ Tokens[p].opens <=> Tokens[p - 1].k # "data"
        /\ Tokens[p - 1].k = "data" => ~(Interval > 0 /\ Coded(p - 1) % Interval = 0)
RestartsInPlace(p) ==
    Tokens[p].k = "RST" =>
        /\ Tokens[p - 1].k = "data" /\ Interval > 0 /\ Coded(p) % Interval = 0 /\ Coded(p) < Many
        /\ Tokens[p].n = (Coded(p) \div Interval - 1) % 8
        /\ IsMcu(Tokens[p + 1], Coded(p) + 1, Scanned(p), TRUE)

LEMMA AllContinue ==
    ASSUME Torn, NEW p \in 2 .. Len(Tokens), Tokens[p].k \in {"RST", "data"}
    PROVE  /\ Continues(p) /\ OpensInPlace(p) /\ RestartsInPlace(p)
           /\ p - 1 \in First .. Len(Tokens) - 1
<1> DEFINE t == Tokens[p - 1]
           u == Tokens[p]
<1>1. /\ p \in Nat /\ p \in 1 .. Len(Tokens) /\ p - 1 \in 1 .. Len(Tokens) /\ (p - 1) + 1 = p
      /\ (p - 1) + 2 = p + 1 /\ Many \in Nat /\ Interval \in Nat
  BY TornPlaces DEF Torn
<1>2. Shaped(p) /\ Shaped(p - 1) /\ SideBySide(t, u)
  BY <1>1, AllAreShaped, NeighboursFit
<1>3. t.k \in {"SOS", "RST", "data"}
  BY <1>2 DEF Shaped, RestartBehind
<1>4. p - 1 \in First .. Len(Tokens) - 1 /\ Follows(Tokens, p - 1, Many, Interval)
  BY <1>1, <1>3, TornPlaces
<1>5. CASE u.k = "RST"
  <2>1. /\ t.k = "data" /\ Interval > 0 /\ t.n % Interval = 0 /\ t.n \in 1 .. Many - 1
        /\ IsMcu(Tokens[p + 1], t.n + 1, t.comps, TRUE)
    BY <1>2, <1>5 DEF Shaped, RestartBehind
  <2>2. u = Counting("RST", (t.n \div Interval - 1) % 8)
    <3>1. t.n # Many
      BY <1>1, <2>1
    <3>2. QED
      BY <1>1, <1>4, <2>1, <3>1 DEF Follows
  <2>3. u.n = (t.n \div Interval - 1) % 8
    BY <2>2 DEF Counting, Marker
  <2>4. Coded(p) = t.n /\ Coded(p - 1) = t.n /\ Scanned(p) = t.comps /\ Scanned(p - 1) = t.comps
    BY <1>5, <2>1 DEF Coded, Scanned
  <2>5. t.n \in Nat /\ t.n <= Many /\ t.n < Many
    BY <1>1, <2>1
  <2>6. QED
    BY <1>3, <1>4, <1>5, <2>1, <2>3, <2>4, <2>5 DEF Continues, OpensInPlace, RestartsInPlace
<1>6. CASE u.k = "data" /\ t.k = "data"
  <2>1. /\ IsMcu(u, t.n + 1, t.comps, FALSE) /\ ~(Interval > 0 /\ t.n % Interval = 0)
        /\ t.n \in 1 .. Many
    BY <1>2, <1>6 DEF SideBySide
  <2>2. u.n = t.n + 1 /\ u.comps = t.comps /\ u.opens = FALSE
    BY <2>1 DEF IsMcu
  <2>3. Coded(p) = u.n /\ Coded(p - 1) = t.n /\ Scanned(p) = u.comps /\ Scanned(p - 1) = t.comps
    BY <1>6 DEF Coded, Scanned
  <2>4. t.n \in Nat /\ t.n <= Many
    BY <2>1, <1>1
  <2>5. QED
    BY <1>3, <1>4, <1>6, <2>1, <2>2, <2>3, <2>4 DEF Continues, OpensInPlace, RestartsInPlace
<1>7. CASE u.k = "data" /\ t.k = "SOS"
  <2>1. u.n = 1 /\ u.comps = t.comps /\ u.opens = TRUE
    BY <1>2, <1>7 DEF SideBySide, IsMcu
  <2>2. Coded(p) = u.n /\ Coded(p - 1) = 0 /\ Scanned(p) = u.comps /\ Scanned(p - 1) = t.comps
    BY <1>7 DEF Coded, Scanned
  <2>3. 0 \in Nat /\ 0 <= Many
    BY <1>1
  <2>4. QED
    BY <1>3, <1>4, <1>7, <2>1, <2>2, <2>3 DEF Continues, OpensInPlace, RestartsInPlace
<1>8. CASE u.k = "data" /\ t.k = "RST"
  <2> DEFINE s == Tokens[(p - 1) - 1]
  <2>1. s.n \in 1 .. Many - 1 /\ IsMcu(u, s.n + 1, s.comps, TRUE)
    BY <1>1, <1>2, <1>8 DEF Shaped, RestartBehind
  <2>2. u.n = s.n + 1 /\ u.comps = s.comps /\ u.opens = TRUE
    BY <2>1 DEF IsMcu
  <2>3. Coded(p) = u.n /\ Coded(p - 1) = s.n /\ Scanned(p) = u.comps /\ Scanned(p - 1) = s.comps
    BY <1>8 DEF Coded, Scanned
  <2> HIDE DEF s
  <2>4. s.n \in Nat /\ s.n <= Many
    BY <2>1, <1>1
  <2>5. QED
    BY <1>3, <1>4, <1>8, <2>2, <2>3, <2>4 DEF Continues, OpensInPlace, RestartsInPlace
<1>9. QED
  BY <1>3, <1>5, <1>6, <1>7, <1>8

\* A stretch of a scan, and what is coded along it.
Stretch(a, b) == \A i \in a .. b : Tokens[i].k \in {"RST", "data"}
Along(a, p) ==
    /\ Scanned(p) = Scanned(a - 1) /\ Coded(p) \in Nat /\ Coded(a - 1) \in Nat /\ Coded(p) >= Coded(a - 1)
    /\ \A i \in a .. p : Tokens[i].k = "data" => Coded(a - 1) < Coded(p)
LEMMA WalksOn ==
    ASSUME Torn, NEW a \in 2 .. Len(Tokens), NEW b \in a .. Len(Tokens), Stretch(a, b)
    PROVE  \A p \in a .. b : Along(a, p)
<1> DEFINE S == {i \in Nat : Along(a, a + i)}
           m == b - a
<1>1. a \in Nat /\ b \in Nat /\ m \in Nat /\ Len(Tokens) \in Nat /\ Many \in Nat
  BY TornPlaces DEF Torn
<1>2. ASSUME NEW p \in a .. b
      PROVE  Continues(p) /\ Tokens[p].k \in {"RST", "data"} /\ Coded(p - 1) \in Nat /\ Coded(p) \in Nat
  <2>1. p \in 2 .. Len(Tokens) /\ Tokens[p].k \in {"RST", "data"}
    BY <1>1 DEF Stretch
  <2>2. Continues(p)
    BY <2>1, AllContinue
  <2>3. Coded(p - 1) \in Nat /\ Coded(p) \in Nat
    <3>1. Coded(p - 1) \in Nat
      BY <1>1, <2>2 DEF Continues
    <3>2. QED
      BY <2>1, <2>2, <3>1 DEF Continues
  <2>4. QED
    BY <2>1, <2>2, <2>3
<1>3. 0 \in S
  <2>1. a \in a .. b /\ a + 0 = a /\ a .. a = {a}
    BY <1>1
  <2>2. Continues(a) /\ Tokens[a].k \in {"RST", "data"} /\ Coded(a - 1) \in Nat /\ Coded(a) \in Nat
    BY <1>2, <2>1
  <2>3. Along(a, a)
    BY <2>1, <2>2 DEF Continues, Along
  <2>4. QED
    BY <2>1, <2>3
<1>4. ASSUME NEW i \in 0 .. m - 1, i \in S
      PROVE  i + 1 \in S
  <2> DEFINE p == a + i
             q == a + (i + 1)
  <2>1. q \in a .. b /\ q - 1 = p /\ i + 1 \in Nat /\ a .. q = (a .. p) \cup {q}
    BY <1>1
  <2>2. Along(a, p)
    BY <1>4
  <2> HIDE DEF p, q
  <2>3. Continues(q) /\ Tokens[q].k \in {"RST", "data"} /\ Coded(p) \in Nat /\ Coded(q) \in Nat
    BY <1>2, <2>1
  <2>4. /\ Scanned(q) = Scanned(a - 1) /\ Coded(a - 1) \in Nat /\ Coded(q) >= Coded(a - 1)
        /\ Coded(q) >= Coded(p)
    BY <2>1, <2>2, <2>3 DEF Continues, Along
  <2>5. ASSUME NEW j \in a .. q, Tokens[j].k = "data" PROVE Coded(a - 1) < Coded(q)
    <3>1. CASE j \in a .. p
      BY <2>2, <2>3, <2>4, <2>5, <3>1 DEF Along
    <3>2. CASE j = q
      BY <2>1, <2>2, <2>3, <2>5, <3>2 DEF Along, Continues
    <3>3. QED
      BY <2>1, <3>1, <3>2
  <2>6. Along(a, q)
    BY <2>3, <2>4, <2>5 DEF Along
  <2>7. QED
    BY <2>1, <2>6 DEF q
<1>5. 0 .. m \subseteq S
  <2> HIDE DEF S, m
  <2>1. QED
    BY <1>1, <1>3, <1>4, BoundedInduction
<1>6. TAKE p \in a .. b
<1>7. p - a \in 0 .. m /\ a + (p - a) = p
  BY <1>1
<1>8. QED
  BY <1>5, <1>7

\* Each place of a scan has the header of its scan in front of it.
BeginsAt(s, p) == Tokens[s].k = "SOS" /\ Tokens[s].comps = Scanned(p) /\ Stretch(s + 1, p)
Begun(p) == Tokens[p].k \in {"SOS", "RST", "data"} => \E s \in First .. p : BeginsAt(s, p)
LEMMA AllBegun ==
    ASSUME Torn
    PROVE  \A p \in 1 .. Len(Tokens) : Begun(p)
<1> DEFINE S == {i \in Nat : Begun(First + i)}
           m == Len(Tokens) - 1 - First
<1>1. First \in Nat /\ Len(Tokens) \in Nat /\ m \in Nat /\ First > 2
  BY TornPlaces DEF Torn
<1>2. ASSUME NEW p \in First .. Len(Tokens), Tokens[p].k = "SOS" PROVE Begun(p)
  <2>1. Tokens[p].comps = Scanned(p)
    BY <1>2 DEF Scanned
  <2>2. Stretch(p + 1, p)
    <3>1. p + 1 .. p = {}
      BY <1>1
    <3>2. QED
      BY <3>1 DEF Stretch
  <2>3. p \in First .. p
    BY <1>1
  <2>4. QED
    BY <1>2, <2>1, <2>2, <2>3 DEF Begun, BeginsAt
<1>3. 0 \in S
  <2>1. First \in First .. Len(Tokens) /\ First + 0 = First /\ Tokens[First].k = "SOS"
    BY <1>1, TornPlaces
  <2>2. QED
    BY <1>2, <2>1
<1>4. ASSUME NEW i \in 0 .. m - 1, i \in S PROVE i + 1 \in S
  <2> DEFINE p == First + i
             q == First + (i + 1)
  <2>1. q \in First .. Len(Tokens) /\ q \in 2 .. Len(Tokens) /\ q - 1 = p /\ i + 1 \in Nat /\ q \in Nat /\ p \in Nat
    BY <1>1
  <2>2. Begun(p)
    BY <1>4
  <2> SUFFICES Begun(q)
    BY <2>1
  <2> HIDE DEF p, q, S, m
  <2>3. CASE Tokens[q].k \in {"RST", "data"}
    <3>1. Continues(q)
      BY <2>1, <2>3, AllContinue
    <3>2. PICK s \in First .. p : BeginsAt(s, p)
      BY <2>1, <2>2, <3>1 DEF Begun, Continues
    <3>3. Tokens[s].k = "SOS" /\ Tokens[s].comps = Scanned(q)
      BY <2>1, <3>1, <3>2 DEF BeginsAt, Continues
    <3>4. Stretch(s + 1, q)
      <4>1. s + 1 .. q = (s + 1 .. p) \cup {q} /\ s \in First .. q
        BY <1>1, <2>1, <3>2
      <4>2. QED
        BY <2>3, <3>2, <4>1 DEF BeginsAt, Stretch
    <3>5. s \in First .. q
      BY <1>1, <2>1
    <3>6. QED
      BY <3>3, <3>4, <3>5 DEF Begun, BeginsAt
  <2>4. CASE Tokens[q].k \notin {"RST", "data"}
    BY <1>2, <2>1, <2>4 DEF Begun
  <2>5. QED
    BY <2>3, <2>4
<1>5. 0 .. m \subseteq S
  <2> HIDE DEF S, m
  <2>1. QED
    BY <1>1, <1>3, <1>4, BoundedInduction
<1>6. ASSUME NEW p \in 1 .. Len(Tokens), Tokens[p].k \in {"SOS", "RST", "data"} PROVE Begun(p)
  <2>1. p \in First .. Len(Tokens) - 1
    BY <1>6, TornPlaces
  <2>2. p - First \in 0 .. m /\ First + (p - First) = p
    BY <1>1, <2>1
  <2>3. QED
    BY <1>5, <2>2
<1>7. QED
  BY <1>6 DEF Begun

\* In a scan the MCUs are in order.
LEMMA DataInOrder ==
    ASSUME Torn, NEW s \in 1 .. Len(Tokens), NEW x \in 1 .. Len(Tokens), NEW y \in 1 .. Len(Tokens),
           s < x, x < y, Stretch(s + 1, y), Tokens[y].k = "data"
    PROVE  Scanned(x) = Scanned(y) /\ Coded(x) < Coded(y)
<1>1. s \in Nat /\ x \in Nat /\ y \in Nat /\ Len(Tokens) \in Nat
  BY DEF Torn
<1>2. /\ x + 1 \in 2 .. Len(Tokens) /\ y \in x + 1 .. Len(Tokens) /\ y \in x + 1 .. y
      /\ \A i \in x + 1 .. y : i \in s + 1 .. y
  BY <1>1
<1>3. Stretch(x + 1, y)
  BY <1>2 DEF Stretch
<1>4. Along(x + 1, y) /\ (x + 1) - 1 = x
  BY <1>1, <1>2, <1>3, WalksOn
<1>5. QED
  BY <1>2, <1>4 DEF Along

\* No component of an MCU is coded twice.
LEMMA DataDiffers ==
    ASSUME Torn, NEW x \in 1 .. Len(Tokens), NEW y \in 1 .. Len(Tokens),
           Tokens[x].k = "data", Tokens[y].k = "data", Tokens[x].n = Tokens[y].n,
           Tokens[x].comps \cap Tokens[y].comps # {}
    PROVE  x = y
<1>1. PICK s \in First .. x : BeginsAt(s, x)
  BY AllBegun DEF Begun
<1>2. PICK r \in First .. y : BeginsAt(r, y)
  BY AllBegun DEF Begun
<1>3. First \in Nat /\ First > 2 /\ Len(Tokens) \in Nat /\ DOMAIN Tokens = 1 .. Len(Tokens)
  BY TornPlaces DEF Torn
<1>4. /\ First \in Nat /\ First > 2 /\ Len(Tokens) \in Nat /\ x \in Nat /\ y \in Nat
      /\ s \in 1 .. Len(Tokens) /\ r \in 1 .. Len(Tokens)
      /\ s <= x /\ r <= y /\ DOMAIN Tokens = 1 .. Len(Tokens)
  BY <1>3
<1>5. /\ Tokens[s].k = "SOS" /\ Tokens[s].comps = Tokens[x].comps /\ Stretch(s + 1, x)
      /\ Tokens[r].k = "SOS" /\ Tokens[r].comps = Tokens[y].comps /\ Stretch(r + 1, y)
  BY <1>1, <1>2 DEF BeginsAt, Scanned
<1>6. s = r
  <2>1. OneScan(Tokens)
    BY DEF Torn
  <2>2. QED
    BY <1>4, <1>5, <2>1 DEF OneScan
<1>7. s # x /\ s # y
  BY <1>5, <1>6
<1>8. Coded(x) = Tokens[x].n /\ Coded(y) = Tokens[y].n /\ Coded(x) \in Nat
  <2>1. x \in 2 .. Len(Tokens) /\ x \in Nat
    BY <1>4, <1>7
  <2>2. Continues(x)
    BY <2>1, AllContinue
  <2>3. QED
    BY <2>2 DEF Coded, Continues
<1>9. CASE x < y
  <2>1. Coded(x) < Coded(y)
    BY <1>4, <1>5, <1>6, <1>7, <1>9, DataInOrder
  <2>2. QED
    BY <1>8, <2>1
<1>10. CASE y < x
  <2>1. Coded(y) < Coded(x)
    BY <1>4, <1>5, <1>6, <1>7, <1>10, DataInOrder
  <2>2. QED
    BY <1>8, <2>1
<1>11. QED
  BY <1>4, <1>9, <1>10

\* A block has one value, however often it is coded.
OneValue(f) ==
    \A i, j \in DOMAIN f : f[i].k = "data" /\ f[j].k = "data" /\ f[i].n = f[j].n =>
        \A c \in f[i].comps \cap f[j].comps : f[i].v[c] = f[j].v[c]

LEMMA BlocksHaveOneValue ==
    ASSUME Torn
    PROVE  OneValue(Tokens)
<1>1. DOMAIN Tokens = 1 .. Len(Tokens)
  BY TornPlaces
<1>2. QED
  BY <1>1, DataDiffers DEF OneValue

\* The first q tokens hold one of this kind.
Met(q, kind) == \E j \in 1 .. q : At(j).k = kind

\* What has been learnt from the first q tokens.
Knows(d, q) ==
    /\ d.sawSOI => d.interval \in Nat
    /\ d.sawSOI /\ q < Cut => d.interval = IF Before(q, "DRI") THEN Interval ELSE 0
    /\ Met(q, "DHT") => d.tables = Tables

\* Block m of component c: it is the one of the file, or Bogus with a reason.
Spoilt == \E i \in 1 .. Size : At(i).k = "data" /\ ~Intact(i)
Right(d, c, m) ==
    \A q \in 1 .. Len(Tokens) :
        Tokens[q].k = "data" /\ c \in Tokens[q].comps /\ Tokens[q].n = m => d.coefs[c][m] = Tokens[q].v[c]
Sure(d, c, m) ==
    \/ d.coefs[c][m] = Bogus /\ Spoilt
    \/ Right(d, c, m)
\* Each block is blank or sure, and those of the scans behind are sure up to this MCU.
Blocks(d) ==
    \A c \in d.frame.comps : /\ DOMAIN d.coefs[c] = 1 .. d.frame.n
                             /\ \A m \in 1 .. d.frame.n : d.coefs[c][m] = Blank \/ Sure(d, c, m)
Filled(d, q, upto) ==
    \A j \in 1 .. q : At(j).k = "SOS" =>
        \A c \in At(j).comps \cap d.frame.comps : \A m \in 1 .. (IF c \in d.scan THEN upto ELSE d.frame.n) : Sure(d, c, m)

\* Where the decoder is in a pass.
LatestScan(d, n) ==
    \E s \in 1 .. n - 1 : /\ At(s).k = "SOS" /\ At(s).comps = d.scan
                          /\ \A l \in s + 1 .. n - 1 : At(l).k # "SOS"
\* The restart counter agrees with the number of the next MCU.
Counts(d) ==
    /\ d.interval \in Nat /\ d.mcu \in Nat
    /\ d.interval > 0 => d.toGo \in 0 .. d.interval /\ (d.mcu + d.toGo) % d.interval = 0
\* MCU pos of the file has been taken for MCU d.mcu, whole intervals away.
Off(d, pos) == pos # d.mcu /\ d.interval > 0 /\ (d.mcu - pos) % d.interval = 0
\* The decoder is in front of the first MCU of a segment: the right one, unless the damage
\* is behind it.
Opening(d, n) ==
    /\ d.last = 0 /\ At(n - 1).k \in {"SOS", "RST"}
    /\ d.toGo = d.interval
    /\ d.interval = 0 => d.mcu = 0
    /\ \/ n >= Cut /\ d.interval = Interval
       \/ At(n).k = "data" => IsMcu(At(n), d.mcu + 1, d.scan, TRUE)
\* It has just decoded the MCU that it takes it for.
InPlace(d, n) == d.last = d.mcu /\ d.mcu > 0 /\ IsMcu(At(n - 1), d.mcu, d.scan, At(n - 1).opens)
\* It is out of step, because of data that is not intact.
Adrift(d, n) == d.last = -1 /\ n >= Cut /\ d.interval = Interval /\ Spoilt
\* It is whole intervals beside its place: this needs restart markers and damage behind it,
\* and more or fewer MCUs than the scan has are left, so that the pass cannot end well.
DisplacedData(d, n) == Off(d, d.last) /\ IsMcu(At(n - 1), d.last, d.scan, At(n - 1).opens)
DisplacedRestart(d, n) ==
    /\ d.last = 0 /\ At(n - 1).k = "RST" /\ d.toGo = d.interval
    /\ Off(d, At(n).n - 1) /\ IsMcu(At(n), At(n).n, d.scan, TRUE)
Displaced(d, n) ==
    /\ n > Rest /\ d.interval = Interval /\ d.tables = Tables
    /\ DisplacedData(d, n) \/ DisplacedRestart(d, n)
\* With other tables than the file's all its data is Bogus.
InOrBeside(d, n) == d.tables # Tables \/ Opening(d, n) \/ InPlace(d, n) \/ Adrift(d, n)
\* What a pass keeps: it has met no marker, and knows its scan.
Busy(d, n) ==
    /\ ~d.insufficient /\ d.unread = NoMarker /\ d.tables # None /\ d.frame = Tokens[FrameAt]
    /\ LatestScan(d, n) /\ Knows(d, n - 1)
Pass(d, n) ==
    /\ Busy(d, n) /\ Counts(d)
    /\ \/ Displaced(d, n)
       \/ Blocks(d) /\ Filled(d, n - 1, d.mcu) /\ InOrBeside(d, n)

\* Data is left behind a pass: it will be skipped with a warning.
DataAhead(d, n) ==
    /\ d.state = "RDCOEFS"
    /\ \/ d.unread = NoMarker /\ (At(n).k = "data" \/ (At(n).k = "RST" /\ At(n + 1).k = "data"))
       \/ d.unread.k = "RST" /\ At(n).k = "data"
\* What the first q tokens have made of the frame and the coefficients.
Sought(d, q) ==
    IF d.inheaders THEN /\ d.frame.name = None => d.frame \in {NoMarker, Tokens[FrameAt]}
                        /\ ~Met(q, "SOS")
                   ELSE /\ d.frame = Tokens[FrameAt] /\ d.tables # None
                        /\ Blocks(d) /\ Filled(d, q, d.frame.n)
ReadOn(d, n) == Knows(d, Seen(d, n)) /\ Sought(d, Seen(d, n))
Ended(d, n) == d.frame = Tokens[FrameAt] /\ Blocks(d) /\ Filled(d, n - 1, d.frame.n)
\* The call agrees with its file, as far as it has been read.
Track(d, l, n) ==
    \/ l = "reading" /\ (ReadOn(d, n) \/ DataAhead(d, n))
    \/ l = "coefficients" /\ Pass(d, n)
    \/ l = "finish" /\ Ended(d, n)
\* A transformation is on its track, has warned, will fail, or needs other tables.
TrackInv ==
    call = "transform" /\ pc # "idle" =>
        warning \/ Doomed(dinfo, pc, next) \/ Borrowing(dinfo) \/ Track(dinfo, pc, next)

-----------------------------------------------------------------------------
\* Intact() in parts.
HasOwnScan(i) ==
    \E l \in 1 .. i - 1 : /\ At(l).k = "SOS" /\ At(l).comps = At(i).comps
                          /\ \A m \in l + 1 .. i - 1 : At(m).k # "SOS"
OpensAt(j, i) ==
    /\ At(j).k = "SOS" \/ (At(j).k = "RST" /\ At(j + 1).opens)
    /\ \A l \in j + 1 .. i : At(l).k = "data" /\ At(l).n = At(i).n - (i - l) /\ (At(l).opens = (l = j + 1))
    /\ At(j).k = "SOS" => At(j + 1).n = 1
    /\ At(j).k = "RST" => \E q \in 1 .. Len(Tokens) - 1 : Tokens[q] = At(j) /\ Tokens[q + 1] = At(j + 1)
HasOwnSegment(i) == \E j \in 1 .. i - 1 : OpensAt(j, i)
IntactInParts ==
    \A i : Intact(i) <=> /\ At(i).k = "data"
                         /\ Has("DHT") => \E l \in 1 .. i - 1 : At(l).k = "DHT"
                         /\ HasOwnScan(i) /\ HasOwnSegment(i)
LEMMA IntactParts == IntactInParts
BY DEF IntactInParts, Intact, HasOwnScan, HasOwnSegment, OpensAt

\* What depends only on the file stays while the file does.
LEMMA SameDamage ==
    ASSUME UNCHANGED <<source, written>>
    PROVE  /\ Cut' = Cut /\ Rest' = Rest /\ (Spoilt' <=> Spoilt)
           /\ FrameAt' = FrameAt /\ First' = First /\ Interval' = Interval /\ Tables' = Tables
           /\ Tokens' = Tokens /\ Size' = Size
           /\ \A i : At(i)' = At(i)
<1>1. Cut' = Cut
  BY DEF Cut
<1>2. Rest' = Rest
  BY <1>1 DEF Rest
<1>3. Tokens' = Tokens /\ Size' = Size /\ \A i : At(i)' = At(i)
  BY SameFile
<1>4. \A i : Intact(i)' <=> Intact(i)
  <2>1. TAKE i
  <2>2. Has("DHT")' <=> Has("DHT")
    BY <1>3 DEF Has
  <2>3. HasOwnScan(i)' <=> HasOwnScan(i)
    BY <1>3 DEF HasOwnScan
  <2>4. HasOwnSegment(i)' <=> HasOwnSegment(i)
    BY <1>3 DEF HasOwnSegment, OpensAt
  <2>5. (Has("DHT") => \E l \in 1 .. i - 1 : At(l).k = "DHT")'
        <=> (Has("DHT") => \E l \in 1 .. i - 1 : At(l).k = "DHT")
    BY <1>3, <2>2
  <2>6. QED
    <3>1. IntactInParts /\ IntactInParts'
      BY IntactParts, PTL
    <3>2. (At(i).k = "data")' <=> At(i).k = "data"
      BY <1>3
    <3>3. QED
      BY <2>3, <2>4, <2>5, <3>1, <3>2 DEF IntactInParts
<1>5. Spoilt' <=> Spoilt
  BY <1>3, <1>4 DEF Spoilt
<1>6. QED
  BY <1>1, <1>2, <1>3, <1>5, SameLayout

LEMMA SameTrack ==
    ASSUME UNCHANGED <<source, written, call>>, NEW d, dinfo' = d, NEW l, pc' = l
    PROVE  Track(dinfo, pc, next)' <=> Track(d, l, next')
<1> DEFINE n == next'
<1>1. /\ Cut' = Cut /\ Rest' = Rest /\ (Spoilt' <=> Spoilt)
      /\ FrameAt' = FrameAt /\ First' = First /\ Interval' = Interval /\ Tables' = Tables
      /\ Tokens' = Tokens /\ Size' = Size
      /\ \A i : At(i)' = At(i)
  BY SameDamage
<1>2. ASSUME NEW q PROVE /\ \A kind : Met(q, kind)' <=> Met(q, kind)
                         /\ \A kind : Before(q, kind)' <=> Before(q, kind)
  BY <1>1 DEF Met, Before
<1>3. ASSUME NEW c, NEW m PROVE Sure(dinfo, c, m)' <=> Sure(d, c, m)
  BY <1>1 DEF Sure, Right
<1>4. Blocks(dinfo)' <=> Blocks(d)
  BY <1>3 DEF Blocks
<1>5. ASSUME NEW q, NEW upto PROVE Filled(dinfo, q, upto)' <=> Filled(d, q, upto)
  BY <1>1, <1>3 DEF Filled
<1>6. ASSUME NEW q PROVE Knows(dinfo, q)' <=> Knows(d, q)
  BY <1>1, <1>2 DEF Knows
<1>7. /\ Knows(dinfo, Seen(dinfo, next))' <=> Knows(d, Seen(d, n))
      /\ Knows(dinfo, next - 1)' <=> Knows(d, n - 1)
  BY <1>1, <1>2 DEF Knows, Seen
<1>8. /\ Filled(dinfo, next - 1, dinfo.mcu)' <=> Filled(d, n - 1, d.mcu)
      /\ Filled(dinfo, next - 1, dinfo.frame.n)' <=> Filled(d, n - 1, d.frame.n)
      /\ Filled(dinfo, Seen(dinfo, next), dinfo.frame.n)' <=> Filled(d, Seen(d, n), d.frame.n)
  BY <1>1, <1>3 DEF Filled, Seen
<1>9. Sought(dinfo, Seen(dinfo, next))' <=> Sought(d, Seen(d, n))
  <2>1. Met(Seen(dinfo, next), "SOS")' <=> Met(Seen(d, n), "SOS")
    BY <1>1 DEF Met, Seen
  <2>2. QED
    BY <1>1, <1>4, <1>8, <2>1 DEF Sought
<1>10. ReadOn(dinfo, next)' <=> ReadOn(d, n)
  BY <1>7, <1>9 DEF ReadOn
<1>11. DataAhead(dinfo, next)' <=> DataAhead(d, n)
  BY <1>1 DEF DataAhead
<1>12. Ended(dinfo, next)' <=> Ended(d, n)
  BY <1>1, <1>4, <1>8 DEF Ended
<1>13. Displaced(dinfo, next)' <=> Displaced(d, n)
  BY <1>1 DEF Displaced, DisplacedData, DisplacedRestart, Off, IsMcu
<1>14. InOrBeside(dinfo, next)' <=> InOrBeside(d, n)
  BY <1>1 DEF InOrBeside, Opening, InPlace, Adrift, IsMcu
<1>15. LatestScan(dinfo, next)' <=> LatestScan(d, n)
  BY <1>1 DEF LatestScan
<1>16. Pass(dinfo, next)' <=> Pass(d, n)
  BY <1>1, <1>4, <1>7, <1>8, <1>13, <1>14, <1>15 DEF Pass, Busy, Counts
<1>17. QED
  BY <1>10, <1>11, <1>12, <1>16 DEF Track

\* The state of a transformation that has met nothing wrong yet, or has not noticed.
OnTrack == /\ call = "transform" /\ pc # "idle" /\ ~warning
           /\ ~Doomed(dinfo, pc, next) /\ ~Borrowing(dinfo)
           /\ Track(dinfo, pc, next)

\* A step within a call keeps the invariant, if it keeps the track.
LEMMA GoKeepsTrackInv ==
    ASSUME TrackInv, pc # "idle", NEW d, NEW l, Go(d, l), l # "idle",
           warning => warning',
           Borrowing(dinfo) => StillBorrows(d),
           Doomed(dinfo, pc, next) => warning' \/ Doomed(d, l, next'),
           OnTrack => warning' \/ Borrowing(d) \/ Track(d, l, next')
    PROVE  TrackInv'
<1>1. dinfo' = d /\ pc' = l /\ UNCHANGED <<source, call, result, written, calls, inherited>>
  BY DEF Go
<1>2. SUFFICES ASSUME call = "transform", ~warning'
               PROVE  (Doomed(dinfo, pc, next) \/ Borrowing(dinfo) \/ Track(dinfo, pc, next))'
  BY <1>1 DEF TrackInv
<1>3. Doomed(d, l, next') \/ Borrowing(d) \/ Track(d, l, next')
  BY <1>2, BorrowingOn DEF TrackInv, OnTrack
<1>4. Doomed(dinfo, pc, next)' <=> Doomed(d, l, next')
  BY <1>1 DEF Doomed, Stuck
<1>5. Borrowing(dinfo)' <=> Borrowing(d)
  BY <1>1, SameBorrowing
<1>6. Track(dinfo, pc, next)' <=> Track(d, l, next')
  BY <1>1, SameTrack
<1>7. QED
  BY <1>3, <1>4, <1>5, <1>6

\* A call that fails has nothing to justify.
\* A warning excuses everything.
LEMMA WarningsKeepTrackInv ==
    ASSUME warning' PROVE TrackInv'
BY DEF TrackInv

LEMMA FailKeepsTrackInv ==
    ASSUME NEW d, Fail(d)
    PROVE  TrackInv'
BY DEF Fail, TrackInv

\* What holds then.
LEMMA WhileOnTrack ==
    ASSUME TypeInv, MarkerInv, StrayInv, WrittenInv, OnTrack
    PROVE  /\ Torn /\ FileInv /\ Following(dinfo, pc, next) /\ next \in 1 .. Size + 1 /\ ~warning
           /\ pc = "reading" => ReadOn(dinfo, next) \/ DataAhead(dinfo, next)
           /\ pc = "coefficients" => Pass(dinfo, next)
           /\ pc = "finish" => Ended(dinfo, next)
<1>1. calls > 0 /\ FileInv /\ next \in 1 .. Size + 1
  BY DEF TypeInv, PlaceInv, OnTrack
<1>2. Torn
  BY <1>1, FilesAreTorn
<1>3. QED
  BY <1>1, <1>2 DEF OnTrack, MarkerInv, Track

\* Multiples of a number.
LEMMA MultipleHasFactor ==
    ASSUME NEW a \in Int, NEW b \in Nat \ {0}, a % b = 0
    PROVE  \E k \in Int : a = b * k
<1> DEFINE k == a \div b
<1>1. k \in Int /\ a = b * k + (a % b)
  OBVIOUS
<1> HIDE DEF k
<1>2. b * k \in Int
  BY <1>1
<1>3. a = b * k
  BY <1>1, <1>2
<1>4. QED
  BY <1>1, <1>3

LEMMA FactorMakesMultiple ==
    ASSUME NEW k \in Int, NEW b \in Nat \ {0}
    PROVE  (b * k) % b = 0
<1> DEFINE a == b * k
           q == a \div b
           r == a % b
<1>1. a \in Int /\ q \in Int /\ r \in 0 .. b - 1 /\ a = b * q + r
  OBVIOUS
<1>2. a = b * k
  OBVIOUS
<1> HIDE DEF a, q, r
<1>3. CASE k = q
  <2>1. b * q \in Int /\ a = b * q
    BY <1>1, <1>2, <1>3
  <2>2. r = 0
    BY <1>1, <2>1
  <2>3. QED
    BY <2>2 DEF r, a
<1>4. CASE k > q
  <2>1. PICK e \in Nat : k = q + 1 + e
    <3>1. k - q - 1 \in Nat /\ k = q + 1 + (k - q - 1)
      BY <1>1, <1>4
    <3>2. QED
      BY <3>1
  <2>2. b * k = b * q + b + b * e
    BY <1>1, <2>1
  <2>3. b * e \in Nat /\ b * q \in Int
    BY <1>1, <2>1
  <2>4. QED
    BY <1>1, <1>2, <2>2, <2>3
<1>5. CASE k < q
  <2>1. PICK e \in Nat : q = k + 1 + e
    <3>1. q - k - 1 \in Nat /\ q = k + 1 + (q - k - 1)
      BY <1>1, <1>5
    <3>2. QED
      BY <3>1
  <2>2. b * q = b * k + b + b * e
    BY <1>1, <2>1
  <2>3. b * e \in Nat /\ b * k \in Int
    BY <1>1, <2>1
  <2>4. QED
    BY <1>1, <1>2, <2>2, <2>3
<1>6. QED
  BY <1>1, <1>3, <1>4, <1>5

LEMMA MultiplesAdd ==
    ASSUME NEW b \in Nat \ {0}, NEW a \in Int, NEW c \in Int, a % b = 0, c % b = 0
    PROVE  (a + c) % b = 0 /\ (a - c) % b = 0
<1>1. PICK k \in Int : a = b * k
  BY MultipleHasFactor
<1>2. PICK l \in Int : c = b * l
  BY MultipleHasFactor
<1>3. a + c = b * (k + l) /\ a - c = b * (k - l)
  BY <1>1, <1>2
<1>4. QED
  BY <1>3, FactorMakesMultiple

LEMMA MultipleOfItself ==
    ASSUME NEW b \in Nat \ {0}
    PROVE  b % b = 0
<1>1. (b * 1) % b = 0
  BY FactorMakesMultiple
<1>2. QED
  BY <1>1

LEMMA OneIsNoMultiple ==
    ASSUME NEW b \in Nat, b > 1
    PROVE  1 % b # 0
<1>1. SUFFICES ASSUME 1 % b = 0 PROVE FALSE
  OBVIOUS
<1>2. PICK k \in Int : 1 = b * k
  BY <1>1, MultipleHasFactor
<1>3. CASE k <= 0
  <2>1. PICK e \in Nat : k = 0 - e
    <3>1. 0 - k \in Nat /\ k = 0 - (0 - k)
      BY <1>3
    <3>2. QED
      BY <3>1
  <2>2. b * k = 0 - b * e /\ b * e \in Nat
    BY <2>1
  <2>3. QED
    BY <1>2, <2>2
<1>4. CASE k > 0
  <2>1. PICK e \in Nat : k = 1 + e
    <3>1. k - 1 \in Nat /\ k = 1 + (k - 1)
      BY <1>4
    <3>2. QED
      BY <3>1
  <2>2. b * k = b + b * e /\ b * e \in Nat
    BY <2>1
  <2>3. QED
    BY <1>2, <2>2
<1>5. QED
  BY <1>3, <1>4

\* InStep() of any object.
Matches(d, t) ==
    /\ t.comps = d.scan /\ t.name = d.tables
    /\ IF t.opens THEN d.last = 0 ELSE d.last > 0 /\ t.n = d.last + 1

\* The scan of a pass has components, which the data of a stray has not.
LEMMA ScanHasComponents ==
    ASSUME FileInv, NEW n \in 1 .. Size + 1, NEW d, LatestScan(d, n)
    PROVE  d.scan # {} /\ n >= 2
<1>1. PICK s \in 1 .. n - 1 : At(s).k = "SOS" /\ At(s).comps = d.scan
  BY DEF LatestScan
<1>2. s \in 1 .. Size + 1 /\ n >= 2
  BY <1>1, SizeIsNat
<1>3. IsToken(At(s))
  BY <1>2, AtIsToken
<1>4. QED
  BY <1>1, <1>2, <1>3 DEF IsToken

\* Data of the components of a scan is the file's.
LEMMA ScanDataIsOfFile ==
    ASSUME Torn, FileInv, NEW n \in 1 .. Size, NEW d, d.scan # {}, At(n).k = "data", At(n).comps = d.scan
    PROVE  OfFile(At(n)) /\ At(n).n \in 1 .. Many /\ At(n).n \in Nat /\ Many \in Nat
<1>1. OfFile(At(n))
  BY DataIsOfFile
<1>2. At(n).n \in 1 .. Many /\ Many \in Nat
  BY <1>1, TornPlaces DEF OfFile, IsDataOf
<1>3. QED
  BY <1>1, <1>2

\* Data that is intact is in step with a decoder that is where it should be.
LEMMA IntactIsInStep ==
    ASSUME Torn, FileInv, NEW n \in 1 .. Size, NEW d, LatestScan(d, n), d.tables = Tables, Intact(n),
           \/ d.last = 0 /\ At(n - 1).k \in {"SOS", "RST"}
           \/ d.last \in Nat /\ d.last > 0 /\ At(n - 1).k = "data" /\ At(n - 1).n = d.last
    PROVE  Matches(d, At(n))
<1>1. At(n).k = "data" /\ HasOwnScan(n) /\ HasOwnSegment(n)
  BY IntactParts DEF IntactInParts
<1>2. n \in Nat /\ Size \in Nat /\ n \in 1 .. Size + 1
  BY SizeIsNat
<1>3. At(n).comps = d.scan
  <2>1. PICK s \in 1 .. n - 1 : /\ At(s).k = "SOS" /\ At(s).comps = d.scan
                                /\ \A l \in s + 1 .. n - 1 : At(l).k # "SOS"
    BY DEF LatestScan
  <2>2. PICK l \in 1 .. n - 1 : /\ At(l).k = "SOS" /\ At(l).comps = At(n).comps
                                /\ \A m \in l + 1 .. n - 1 : At(m).k # "SOS"
    BY <1>1 DEF HasOwnScan
  <2>3. ~(s < l) /\ ~(l < s)
    BY <1>2, <2>1, <2>2
  <2>4. s = l
    BY <1>2, <2>3
  <2>5. QED
    BY <2>1, <2>2, <2>4
<1>4. OfFile(At(n)) /\ At(n).n \in Nat
  BY <1>1, <1>2, <1>3, ScanHasComponents, ScanDataIsOfFile
<1>5. At(n).name = d.tables
  BY <1>4 DEF OfFile
<1>6. PICK j \in 1 .. n - 1 : OpensAt(j, n)
  BY <1>1 DEF HasOwnSegment
<1>7. \A l \in j + 1 .. n : At(l).k = "data" /\ At(l).n = At(n).n - (n - l) /\ (At(l).opens = (l = j + 1))
  BY <1>6 DEF OpensAt
<1>8. n \in j + 1 .. n /\ (At(n).opens = (n = j + 1))
  BY <1>2, <1>6, <1>7
<1>9. CASE n = j + 1
  <2>0. n - 1 = j
    BY <1>2, <1>6, <1>9
  <2>01. At(n).opens = TRUE
    BY <1>8, <1>9
  <2>1. n - 1 = j /\ At(n).opens = TRUE
    BY <2>0, <2>01
  <2>2. At(n - 1).k # "data"
    BY <1>6, <2>1 DEF OpensAt
  <2>3. QED
    BY <1>3, <1>5, <2>1, <2>2 DEF Matches
<1>10. CASE n # j + 1
  <2>0. n - 1 \in j + 1 .. n /\ n - (n - 1) = 1
    BY <1>2, <1>6, <1>10
  <2>01. At(n).opens = FALSE
    BY <1>8, <1>10
  <2>1. n - 1 \in j + 1 .. n /\ ~At(n).opens /\ n - (n - 1) = 1
    BY <2>0, <2>01
  <2>2. At(n - 1).k = "data" /\ At(n - 1).n = At(n).n - 1
    BY <1>7, <2>1
  <2>3. d.last > 0 /\ At(n).n = d.last + 1
    BY <1>4, <2>2
  <2>4. QED
    BY <1>3, <1>5, <2>1, <2>3 DEF Matches
<1>11. QED
  BY <1>9, <1>10

\* Data with other tables than the object's is not intact.
LEMMA OtherTablesSpoil ==
    ASSUME Torn, NEW n \in 1 .. Size, NEW d, Knows(d, n - 1), d.tables # Tables, d.tables # None,
           d.unread = NoMarker, call = "transform", ~Borrowing(d), At(n).k = "data"
    PROVE  Spoilt
<1>1. \E q \in 1 .. Len(Tokens) : Tokens[q].k = "data" /\ Tokens[q].name = Tables
  <2>1. First + 1 \in 1 .. Len(Tokens) /\ First \in First .. Len(Tokens) - 1
    BY TornPlaces DEF Torn
  <2>2. Follows(Tokens, First, Many, Interval) /\ Tokens[First].k = "SOS"
    BY <2>1, TornPlaces
  <2>3. Tokens[First + 1].k = "data"
    BY <2>2 DEF Follows, IsMcu
  <2>4. QED
    BY <2>1, <2>3, TornPlaces
<1>2. Has("DHT")
  <2>1. d.unread.k # "DHT"
    BY DEF NoMarker, Marker, None
  <2>2. QED
    BY <1>1, <2>1 DEF Borrowing
<1>3. ~Met(n - 1, "DHT")
  BY DEF Knows
<1>4. ~Intact(n)
  BY <1>2, <1>3, IntactParts DEF IntactInParts, Met
<1>5. QED
  BY <1>4 DEF Spoilt

\* Behind the first scan the interval is known where the file is whole so far.
LEMMA IntervalIsKnown ==
    ASSUME Torn, NEW d, NEW q \in Nat, Knows(d, q), d.sawSOI, q < Cut, q + 1 >= First
    PROVE  d.interval = Interval
<1>1. First \in Nat /\ First > 2 /\ (Before(First - 1, "DRI") \/ Interval = 0)
  BY TornPlaces
<1>2. d.interval = IF Before(q, "DRI") THEN Interval ELSE 0
  BY DEF Knows
<1>3. ASSUME Before(First - 1, "DRI") PROVE Before(q, "DRI")
  <2>1. PICK j \in 1 .. First - 1 : Tokens[j].k = "DRI"
    BY <1>3 DEF Before
  <2>2. j \in 1 .. q
    BY <1>1, <2>1
  <2>3. QED
    BY <2>1, <2>2 DEF Before
<1>4. QED
  BY <1>1, <1>2, <1>3

\* Where a scan or its data is in front of the cut, the first scan is as well.
LEMMA IntervalInScan ==
    ASSUME Torn, NEW d, NEW n \in 1 .. Size + 1, NEW j \in 1 .. n - 1, Knows(d, n - 1), d.sawSOI,
           n - 1 < Cut, At(j).k \in {"SOS", "RST", "data"}
    PROVE  d.interval = Interval
<1>1. n \in Nat /\ j \in Nat /\ j \in 1 .. Size /\ j < Cut /\ Cut \in Nat /\ Size \in Nat
  BY DEF Torn
<1>2. At(j) = Tokens[j] /\ j \in 1 .. Len(Tokens)
  BY <1>1 DEF Torn, InTokens
<1>3. j >= First /\ First \in Nat
  BY <1>1, <1>2, TornPlaces
<1>4. n - 1 \in Nat /\ (n - 1) + 1 >= First
  BY <1>1, <1>3
<1>5. QED
  BY <1>4, IntervalIsKnown

\* The next data of the file matches.
LEMMA NextMatches ==
    ASSUME Torn, FileInv, NEW n \in 2 .. Size, Whole(n), NEW d, d.scan # {}, d.tables = Tables,
           NEW pos, IsMcu(At(n - 1), pos, d.scan, At(n - 1).opens), d.last = pos, At(n).k = "data"
    PROVE  Matches(d, At(n)) /\ At(n).n = pos + 1 /\ ~At(n).opens
<1>1. At(n - 1).k = "data" /\ At(n - 1).n = pos /\ At(n - 1).comps = d.scan
  BY DEF IsMcu
<1>2. n - 1 \in 1 .. Size /\ n \in 1 .. Size /\ n \in 2 .. Size + 1
  BY DEF Torn
<1>3. SideBySide(At(n - 1), At(n))
  BY <1>1, <1>2, WholeFits
<1>4. IsMcu(At(n), pos + 1, d.scan, FALSE)
  BY <1>1, <1>3 DEF SideBySide
<1>5. At(n).n = pos + 1 /\ At(n).comps = d.scan /\ ~At(n).opens
  BY <1>4 DEF IsMcu
<1>6. pos \in Nat /\ pos > 0
  BY <1>1, <1>2, ScanDataIsOfFile
<1>7. At(n).name = Tables
  BY <1>2, <1>5, ScanDataIsOfFile DEF OfFile
<1>8. QED
  BY <1>5, <1>6, <1>7 DEF Matches

\* So does the first MCU of a segment behind its marker.
LEMMA OpeningMatches ==
    ASSUME Torn, FileInv, NEW n \in 1 .. Size, NEW d, d.scan # {}, d.tables = Tables,
           NEW pos, IsMcu(At(n), pos, d.scan, TRUE), d.last = 0
    PROVE  Matches(d, At(n))
<1>1. At(n).k = "data" /\ At(n).comps = d.scan /\ At(n).opens = TRUE
  BY DEF IsMcu
<1>2. At(n).name = Tables
  BY <1>1, ScanDataIsOfFile DEF OfFile
<1>3. QED
  BY <1>1, <1>2 DEF Matches

\* Where data of a scan is, there is no stray.
LEMMA NoStrayData ==
    ASSUME Torn, NEW n \in 1 .. Size, NEW d, d.scan # {}, At(n).k = "data", At(n).comps = d.scan
    PROVE  ~(n = Cut /\ Rest = Cut + 1)
<1>1. Cut \in Nat
  BY DEF Torn
<1>2. SUFFICES ASSUME n = Cut, Rest = Cut + 1 PROVE FALSE
  OBVIOUS
<1>3. IsNoise(At(n))
  BY <1>1, <1>2 DEF Torn
<1>4. QED
  BY <1>3 DEF IsNoise

\* An object out of step has been led astray.
LEMMA OutOfStep ==
    ASSUME Torn, FileInv, NEW n \in 1 .. Size, NEW d, Pass(d, n), d.sawSOI, At(n).k = "data",
           ~Matches(d, At(n)), call = "transform", ~Borrowing(d)
    PROVE  /\ Blocks(d) /\ Filled(d, n - 1, d.mcu) /\ Spoilt
           /\ d.tables # Tables \/ (n >= Cut /\ d.interval = Interval)
<1>0. /\ n \in Nat /\ Size \in Nat /\ n \in 1 .. Size + 1 /\ Cut \in Nat
      /\ Rest = Cut \/ Rest = Cut + 1
  BY DEF Torn
<1>1. d.scan # {} /\ n >= 2 /\ LatestScan(d, n) /\ Knows(d, n - 1)
  BY <1>0, ScanHasComponents DEF Pass, Busy
<1>2. n \in 2 .. Size
  BY <1>0, <1>1
<1>3. ~Displaced(d, n)
  <2>1. SUFFICES ASSUME Displaced(d, n) PROVE FALSE
    OBVIOUS
  <2>2. Whole(n) /\ d.tables = Tables
    BY <2>1 DEF Displaced, Whole
  <2>3. CASE DisplacedData(d, n)
    BY <1>1, <1>2, <2>2, <2>3, NextMatches DEF DisplacedData
  <2>4. CASE DisplacedRestart(d, n)
    BY <1>1, <2>2, <2>4, OpeningMatches DEF DisplacedRestart
  <2>5. QED
    BY <2>1, <2>3, <2>4 DEF Displaced
<1>4. Blocks(d) /\ Filled(d, n - 1, d.mcu) /\ InOrBeside(d, n)
  BY <1>3 DEF Pass, Busy
<1>5. CASE d.tables # Tables
  <2>1. Spoilt
    BY <1>1, <1>5, OtherTablesSpoil DEF Pass, Busy
  <2>2. QED
    BY <1>4, <1>5, <2>1
<1>6. CASE d.tables = Tables /\ Opening(d, n)
  <2>1. d.last = 0 /\ At(n - 1).k \in {"SOS", "RST"}
    BY <1>6 DEF Opening
  <2>2. ~IsMcu(At(n), d.mcu + 1, d.scan, TRUE)
    BY <1>1, <1>6, <2>1, OpeningMatches
  <2>3. n >= Cut /\ d.interval = Interval
    BY <1>6, <2>2 DEF Opening
  <2>4. ~Intact(n)
    BY <1>1, <1>6, <2>1, IntactIsInStep
  <2>5. QED
    BY <1>4, <2>3, <2>4 DEF Spoilt
<1>7. CASE d.tables = Tables /\ InPlace(d, n)
  <2>1. /\ d.last = d.mcu /\ d.mcu > 0 /\ At(n - 1).k = "data" /\ At(n - 1).n = d.mcu
        /\ At(n - 1).comps = d.scan /\ IsMcu(At(n - 1), d.mcu, d.scan, At(n - 1).opens)
    BY <1>7 DEF InPlace, IsMcu
  <2>2. d.mcu \in Nat
    BY DEF Pass, Busy, Counts
  <2>3. ~Intact(n)
    BY <1>1, <1>7, <2>1, <2>2, IntactIsInStep
  <2>4. ~Whole(n)
    BY <1>1, <1>2, <1>7, <2>1, NextMatches
  <2>5. n - 1 \in 1 .. Size /\ n - 1 \in 1 .. n - 1
    BY <1>0, <1>2
  <2>6. ~(n - 1 = Cut /\ Rest = Cut + 1)
    BY <1>1, <2>1, <2>5, NoStrayData
  <2>7. n = Cut
    <3>1. ~(n < Cut) /\ ~(n > Rest)
      BY <2>4 DEF Whole
    <3>2. QED
      BY <1>0, <2>6, <3>1
  <2>8. d.interval = Interval
    <3>1. n - 1 < Cut
      BY <1>0, <2>7
    <3>2. QED
      BY <1>0, <1>1, <2>1, <2>5, <3>1, IntervalInScan
  <2>9. QED
    BY <1>0, <1>4, <2>3, <2>7, <2>8 DEF Spoilt
<1>8. CASE Adrift(d, n)
  BY <1>4, <1>8 DEF Adrift
<1>9. QED
  BY <1>4, <1>5, <1>6, <1>7, <1>8 DEF InOrBeside

\* An object in step is in place, or by whole intervals out of it.
Misplaced(d, n) ==
    /\ At(n).n # d.mcu + 1 /\ d.interval = Interval /\ d.interval > 0
    /\ (d.mcu + 1 - At(n).n) % d.interval = 0 /\ n + 1 > Rest

\* Data that is in step is the MCU that is due, or the decoder is beside its place.
LEMMA InStepPlace ==
    ASSUME Torn, FileInv, NEW n \in 1 .. Size, NEW d, Pass(d, n), At(n).k = "data", Matches(d, At(n))
    PROVE  /\ OfFile(At(n)) /\ At(n).n \in 1 .. Many /\ d.tables = Tables
           /\ \/ Blocks(d) /\ Filled(d, n - 1, d.mcu) /\ At(n).n = d.mcu + 1
              \/ Misplaced(d, n)
<1>0. /\ n \in Nat /\ Size \in Nat /\ n \in 1 .. Size + 1 /\ Cut \in Nat /\ Rest \in Nat
      /\ Rest = Cut \/ Rest = Cut + 1
  BY DEF Torn
<1>1. d.scan # {} /\ n >= 2 /\ Counts(d) /\ d.mcu \in Nat /\ d.interval \in Nat
  BY <1>0, ScanHasComponents DEF Pass, Busy, Counts
<1>2. n \in 2 .. Size
  BY <1>0, <1>1
<1>3. At(n).comps = d.scan /\ At(n).name = d.tables
  BY DEF Matches
<1>4. OfFile(At(n)) /\ At(n).n \in 1 .. Many /\ At(n).n \in Nat
  BY <1>1, <1>3, ScanDataIsOfFile
<1>5. d.tables = Tables
  BY <1>3, <1>4 DEF OfFile
<1>6. CASE Displaced(d, n)
  <2>1. Whole(n) /\ n > Rest /\ d.interval = Interval
    BY <1>6 DEF Displaced, Whole
  <2>2. n + 1 > Rest
    BY <1>0, <2>1
  <2>3. CASE DisplacedData(d, n)
    <3>1. At(n).n = d.last + 1 /\ Off(d, d.last)
      BY <1>1, <1>2, <1>5, <2>1, <2>3, NextMatches DEF DisplacedData
    <3>2. d.last \in Nat
      <4>1. n - 1 \in 1 .. Size /\ At(n - 1).k = "data" /\ At(n - 1).n = d.last /\ At(n - 1).comps = d.scan
        BY <1>0, <1>2, <2>3 DEF DisplacedData, IsMcu
      <4>2. QED
        BY <1>1, <4>1, ScanDataIsOfFile
    <3>3. d.mcu + 1 - At(n).n = d.mcu - d.last
      BY <1>1, <3>1, <3>2
    <3>4. At(n).n # d.mcu + 1
      BY <1>1, <3>1, <3>2 DEF Off
    <3>5. QED
      BY <1>4, <1>5, <2>1, <2>2, <3>1, <3>3, <3>4 DEF Misplaced, Off
  <2>4. CASE DisplacedRestart(d, n)
    <3>1. Off(d, At(n).n - 1)
      BY <2>4 DEF DisplacedRestart
    <3>2. d.mcu + 1 - At(n).n = d.mcu - (At(n).n - 1)
      BY <1>1, <1>4
    <3>3. At(n).n # d.mcu + 1
      BY <1>1, <1>4, <3>1 DEF Off
    <3>4. QED
      BY <1>4, <1>5, <2>1, <2>2, <3>1, <3>2, <3>3 DEF Misplaced, Off
  <2>5. QED
    BY <1>6, <2>3, <2>4 DEF Displaced
<1>7. CASE ~Displaced(d, n)
  <2>1. Blocks(d) /\ Filled(d, n - 1, d.mcu) /\ (Opening(d, n) \/ InPlace(d, n) \/ Adrift(d, n))
    BY <1>5, <1>7 DEF Pass, Busy, InOrBeside
  <2>2. CASE Opening(d, n)
    <3>1. d.last = 0 /\ d.toGo = d.interval /\ (d.interval = 0 => d.mcu = 0)
      BY <2>2 DEF Opening
    <3>2. At(n).opens
      BY <3>1 DEF Matches
    <3>3. IF Interval = 0 THEN At(n).n = 1 ELSE (At(n).n - 1) % Interval = 0
      BY <1>4, <3>2 DEF OfFile, IsDataOf
    <3>4. CASE IsMcu(At(n), d.mcu + 1, d.scan, TRUE)
      BY <1>4, <1>5, <2>1, <3>4 DEF IsMcu
    <3>5. CASE n >= Cut /\ d.interval = Interval /\ At(n).n # d.mcu + 1
      <4>1. d.interval \in Nat \ {0} /\ d.interval > 0
        BY <1>1, <3>1, <3>3, <3>5
      <4>2. (d.mcu + d.interval) % d.interval = 0
        BY <1>1, <3>1, <4>1 DEF Counts
      <4>3. ((d.mcu + d.interval) - d.interval) % d.interval = 0
        BY <1>1, <4>1, <4>2, MultipleOfItself, MultiplesAdd
      <4>4. d.mcu % d.interval = 0
        <5>1. (d.mcu + d.interval) - d.interval = d.mcu
          BY <1>1
        <5>2. QED
          BY <4>3, <5>1
      <4>5. (At(n).n - 1) % d.interval = 0
        BY <3>3, <3>5, <4>1
      <4>6. (d.mcu - (At(n).n - 1)) % d.interval = 0
        <5>1. d.mcu \in Int /\ At(n).n - 1 \in Int
          BY <1>1, <1>4
        <5>2. QED
          BY <4>1, <4>4, <4>5, <5>1, MultiplesAdd
      <4>7. d.mcu - (At(n).n - 1) = d.mcu + 1 - At(n).n
        BY <1>1, <1>4
      <4>8. n + 1 > Rest
        <5>1. ~(n = Cut /\ Rest = Cut + 1)
          BY <1>1, <1>3, NoStrayData
        <5>2. QED
          BY <1>0, <3>5, <5>1
      <4>9. QED
        BY <1>4, <1>5, <3>5, <4>1, <4>6, <4>7, <4>8 DEF Misplaced
    <3>6. QED
      BY <1>4, <1>5, <2>1, <2>2, <3>4, <3>5 DEF Opening
  <2>3. CASE InPlace(d, n)
    <3>1. d.last = d.mcu /\ d.mcu > 0
      BY <2>3 DEF InPlace
    <3>2. At(n).n = d.mcu + 1
      BY <1>1, <3>1 DEF Matches
    <3>3. QED
      BY <1>4, <1>5, <2>1, <3>2
  <2>4. CASE Adrift(d, n)
    BY <2>4 DEF Adrift, Matches
  <2>5. QED
    BY <2>1, <2>2, <2>3, <2>4
<1>8. QED
  BY <1>6, <1>7

\* What is put into block m of component c.
SureAs(c, m, x) ==
    \/ x = Bogus /\ Spoilt
    \/ \A q \in 1 .. Len(Tokens) :
          Tokens[q].k = "data" /\ c \in Tokens[q].comps /\ Tokens[q].n = m => x = Tokens[q].v[c]
LEMMA SureIsSure ==
    ASSUME NEW d, NEW c, NEW m
    PROVE  Sure(d, c, m) <=> SureAs(c, m, d.coefs[c][m])
BY DEF Sure, Right, SureAs

\* What is stored is sure: data of the file in its place, or Bogus with a reason.
LEMMA DataIsSure ==
    ASSUME Torn, NEW t, t.k = "data", OfFile(t), NEW c \in t.comps, NEW old, old = Blank \/ SureAs(c, t.n, old)
    PROVE  SureAs(c, t.n, Over(old, t.v[c]))
<1>1. PICK p \in 1 .. Len(Tokens) : t = Tokens[p]
  BY DEF OfFile
<1>2. OneValue(Tokens) /\ DOMAIN Tokens = 1 .. Len(Tokens)
  BY TornPlaces, BlocksHaveOneValue
<1>3. \A q \in 1 .. Len(Tokens) :
          Tokens[q].k = "data" /\ c \in Tokens[q].comps /\ Tokens[q].n = t.n => t.v[c] = Tokens[q].v[c]
  BY <1>1, <1>2 DEF OneValue
<1>4. CASE old \in {Blank, t.v[c]}
  BY <1>3, <1>4 DEF Over, SureAs
<1>5. CASE old \notin {Blank, t.v[c]}
  <2>1. Over(old, t.v[c]) = Bogus
    BY <1>5 DEF Over
  <2>2. old # t.v[c] /\ SureAs(c, t.n, old)
    BY <1>5
  <2>3. Spoilt
    BY <1>1, <2>2 DEF SureAs
  <2>4. QED
    BY <2>1, <2>3 DEF SureAs
<1>6. QED
  BY <1>4, <1>5

LEMMA BogusIsSure ==
    ASSUME Spoilt, NEW c, NEW m, NEW old
    PROVE  SureAs(c, m, Over(old, Bogus))
BY DEF SureAs, Over

\* An MCU that is stored keeps the blocks, and fills its own.
LEMMA StoredIsSure ==
    ASSUME NEW d, NEW e, NEW value, NEW q, Blocks(d), Filled(d, q, d.mcu),
           DOMAIN d.coefs = d.frame.comps, d.scan \subseteq d.frame.comps,
           d.mcu \in Nat, d.frame.n \in Nat, d.mcu < d.frame.n,
           e.coefs = Stored(d, value), e.frame = d.frame, e.scan = d.scan,
           \A c \in d.scan : d.coefs[c][d.mcu + 1] = Blank \/ SureAs(c, d.mcu + 1, d.coefs[c][d.mcu + 1])
                             => SureAs(c, d.mcu + 1, Over(d.coefs[c][d.mcu + 1], value[c]))
    PROVE  Blocks(e) /\ Filled(e, q, d.mcu + 1)
<1> DEFINE m0 == d.mcu + 1
<1>0. m0 \in 1 .. d.frame.n /\ m0 \in Nat
  OBVIOUS
<1>1. ASSUME NEW c \in d.frame.comps, c \notin d.scan PROVE e.coefs[c] = d.coefs[c]
  BY <1>1 DEF Stored
<1>2. ASSUME NEW c \in d.scan
      PROVE  e.coefs[c] = [d.coefs[c] EXCEPT ![m0] = Over(d.coefs[c][m0], value[c])]
  BY <1>2 DEF Stored
<1>3. ASSUME NEW c \in d.frame.comps
      PROVE  /\ DOMAIN d.coefs[c] = 1 .. d.frame.n
             /\ \A m \in 1 .. d.frame.n : d.coefs[c][m] = Blank \/ SureAs(c, m, d.coefs[c][m])
  BY SureIsSure DEF Blocks
<1>4. ASSUME NEW c \in d.scan PROVE SureAs(c, m0, Over(d.coefs[c][m0], value[c]))
  BY <1>0, <1>3
<1> HIDE DEF m0
<1>5. ASSUME NEW c \in d.scan
      PROVE  /\ DOMAIN e.coefs[c] = 1 .. d.frame.n
             /\ Sure(e, c, m0)
             /\ \A m \in 1 .. d.frame.n : m # m0 => e.coefs[c][m] = d.coefs[c][m]
  <2>1. e.coefs[c] = [d.coefs[c] EXCEPT ![m0] = Over(d.coefs[c][m0], value[c])] /\ DOMAIN d.coefs[c] = 1 .. d.frame.n
    BY <1>2, <1>3
  <2>2. e.coefs[c][m0] = Over(d.coefs[c][m0], value[c])
    BY <1>0, <2>1
  <2>3. Sure(e, c, m0)
    BY <1>4, <2>2, SureIsSure
  <2>4. QED
    BY <2>1, <2>3
<1>6. ASSUME NEW c \in d.frame.comps, NEW m \in 1 .. d.frame.n, c \in d.scan => m # m0
      PROVE  (d.coefs[c][m] = e.coefs[c][m]) /\ (Sure(d, c, m) => Sure(e, c, m))
  <2>1. e.coefs[c][m] = d.coefs[c][m]
    BY <1>1, <1>5, <1>6
  <2>2. QED
    BY <2>1, SureIsSure
<1>7. Blocks(e)
  <2>1. ASSUME NEW c \in d.frame.comps PROVE DOMAIN e.coefs[c] = 1 .. d.frame.n
    BY <1>1, <1>3, <1>5
  <2>2. ASSUME NEW c \in d.frame.comps, NEW m \in 1 .. d.frame.n PROVE e.coefs[c][m] = Blank \/ Sure(e, c, m)
    <3>1. CASE c \in d.scan /\ m = m0
      BY <1>5, <3>1
    <3>2. CASE ~(c \in d.scan /\ m = m0)
      <4>1. d.coefs[c][m] = Blank \/ Sure(d, c, m)
        BY DEF Blocks
      <4>2. QED
        BY <1>6, <3>2, <4>1
    <3>3. QED
      BY <3>1, <3>2
  <2>3. QED
    BY <2>1, <2>2 DEF Blocks
<1>8. ASSUME NEW j \in 1 .. q, At(j).k = "SOS", NEW c \in At(j).comps \cap d.frame.comps,
             NEW m \in 1 .. (IF c \in d.scan THEN m0 ELSE d.frame.n)
      PROVE  Sure(e, c, m)
  <2>1. CASE c \in d.scan /\ m = m0
    BY <1>5, <2>1
  <2>2. CASE ~(c \in d.scan /\ m = m0)
    <3>1. m \in 1 .. (IF c \in d.scan THEN d.mcu ELSE d.frame.n) /\ m \in 1 .. d.frame.n
      <4>1. CASE c \in d.scan
        <5>1. m \in 1 .. m0 /\ m # m0
          BY <2>2, <4>1
        <5>2. QED
          BY <1>0, <4>1, <5>1 DEF m0
      <4>2. CASE c \notin d.scan
        BY <4>2
      <4>3. QED
        BY <4>1, <4>2
    <3>2. Sure(d, c, m)
      BY <1>8, <3>1 DEF Filled
    <3>3. QED
      BY <1>6, <2>2, <3>1, <3>2
  <2>3. QED
    BY <2>1, <2>2
<1>9. Filled(e, q, m0)
  BY <1>8 DEF Filled
<1>10. QED
  BY <1>7, <1>9 DEF m0

\* Data and restart markers behind a place change nothing of this.
LEMMA FilledOn ==
    ASSUME NEW d, NEW q \in Nat, NEW r \in Nat, NEW upto, Filled(d, q, upto), \A j \in q + 1 .. r : At(j).k # "SOS"
    PROVE  Filled(d, r, upto)
<1>1. ASSUME NEW j \in 1 .. r, At(j).k = "SOS" PROVE j \in 1 .. q
  BY <1>1
<1>2. QED
  BY <1>1 DEF Filled

\* What is known stays so over tokens that change no table and no interval.
LEMMA KnowsOn ==
    ASSUME Torn, NEW d, NEW e, NEW q \in Nat, NEW r \in q .. Size, Knows(d, q),
           \A j \in q + 1 .. r : At(j).k \notin {"DHT", "DRI"},
           e.sawSOI = d.sawSOI, e.interval = d.interval, e.tables = d.tables
    PROVE  Knows(e, r)
<1>1. /\ Size \in Nat /\ Cut \in Nat /\ r \in Nat
  BY DEF Torn
<1>2. ASSUME Met(r, "DHT") PROVE e.tables = Tables
  <2>1. PICK j \in 1 .. r : At(j).k = "DHT"
    BY <1>2 DEF Met
  <2>2. j \in 1 .. q
    BY <1>1, <2>1
  <2>3. QED
    BY <2>1, <2>2 DEF Knows, Met
<1>3. ASSUME e.sawSOI, r < Cut PROVE e.interval = IF Before(r, "DRI") THEN Interval ELSE 0
  <2>1. q < Cut /\ d.interval = IF Before(q, "DRI") THEN Interval ELSE 0
    BY <1>1, <1>3 DEF Knows
  <2>2. Before(r, "DRI") <=> Before(q, "DRI")
    <3>1. ASSUME NEW j \in 1 .. r, Tokens[j].k = "DRI" PROVE j \in 1 .. q
      <4>1. At(j) = Tokens[j]
        BY <1>1, <1>3 DEF Torn
      <4>2. QED
        BY <1>1, <3>1, <4>1
    <3>2. ASSUME NEW j \in 1 .. q PROVE j \in 1 .. r
      BY <1>1
    <3>3. QED
      BY <3>1, <3>2 DEF Before
  <2>3. QED
    BY <2>1, <2>2
<1>4. QED
  BY <1>2, <1>3 DEF Knows

LEMMA LatestOn ==
    ASSUME NEW d, NEW e, NEW n \in Nat, NEW i \in Nat, n <= i, LatestScan(d, n),
           \A j \in n .. i - 1 : At(j).k # "SOS", e.scan = d.scan
    PROVE  LatestScan(e, i)
<1>1. PICK s \in 1 .. n - 1 : /\ At(s).k = "SOS" /\ At(s).comps = d.scan
                              /\ \A l \in s + 1 .. n - 1 : At(l).k # "SOS"
  BY DEF LatestScan
<1>2. s \in 1 .. i - 1
  BY <1>1
<1>3. ASSUME NEW l \in s + 1 .. i - 1 PROVE At(l).k # "SOS"
  <2>1. l \in s + 1 .. n - 1 \/ l \in n .. i - 1
    BY <1>1
  <2>2. QED
    BY <1>1, <2>1
<1>4. QED
  BY <1>1, <1>2, <1>3 DEF LatestScan

\* The fields that a pass does not change; the segment does not end early.
SameDuty(d, e) ==
    /\ (e.insufficient => d.insufficient) /\ e.unread = d.unread /\ e.tables = d.tables
    /\ e.frame = d.frame /\ e.scan = d.scan /\ e.sawSOI = d.sawSOI /\ e.interval = d.interval
LEMMA BusyOn ==
    ASSUME Torn, FileInv, NEW d, NEW e, NEW n \in 1 .. Size + 1, NEW i \in n .. Size + 1, Busy(d, n), SameDuty(d, e),
           \A j \in n .. i - 1 : At(j).k \in {"data", "RST"}
    PROVE  Busy(e, i)
<1>1. n \in Nat /\ i \in Nat /\ n <= i /\ n - 1 \in Nat /\ i - 1 \in n - 1 .. Size /\ Size \in Nat
  BY SizeIsNat
<1>2. LatestScan(e, i)
  BY <1>1, LatestOn DEF Busy, SameDuty
<1>3. \A j \in (n - 1) + 1 .. i - 1 : At(j).k \notin {"DHT", "DRI"}
  BY <1>1
<1>4. Knows(e, i - 1)
  BY <1>1, <1>3, KnowsOn DEF Busy, SameDuty
<1>5. QED
  BY <1>2, <1>4 DEF Busy, SameDuty

\* The blocks depend on the coefficients, the frame and the scan.
LEMMA SameBlocks ==
    ASSUME NEW d, NEW e, e.coefs = d.coefs, e.frame = d.frame, e.scan = d.scan
    PROVE  /\ Blocks(d) => Blocks(e)
           /\ \A q, upto : Filled(d, q, upto) => Filled(e, q, upto)
BY DEF Blocks, Filled, Sure, Right

\* What an object is in a pass.
Storing(d) ==
    /\ DOMAIN d.coefs = d.frame.comps /\ d.scan \subseteq d.frame.comps
    /\ d.mcu \in Nat /\ d.frame.n \in Nat /\ d.mcu < d.frame.n

\* An MCU is counted for the restart interval as well.
LEMMA CountsOn ==
    ASSUME NEW d, NEW e, Counts(d), d.interval = 0 \/ d.toGo > 0, e.interval = d.interval,
           e.mcu = d.mcu + 1, e.toGo = d.toGo - 1
    PROVE  Counts(e)
<1>1. d.interval \in Nat /\ d.mcu \in Nat
  BY DEF Counts
<1>2. ASSUME d.interval > 0 PROVE e.toGo \in 0 .. e.interval /\ (e.mcu + e.toGo) % e.interval = 0
  <2>1. d.toGo \in 0 .. d.interval /\ (d.mcu + d.toGo) % d.interval = 0 /\ d.toGo > 0
    BY <1>1, <1>2 DEF Counts
  <2>2. e.mcu + e.toGo = d.mcu + d.toGo /\ e.toGo \in 0 .. d.interval
    BY <1>1, <2>1
  <2>3. QED
    BY <2>1, <2>2
<1>3. QED
  BY <1>1, <1>2 DEF Counts

\* An MCU that is decoded in step.
LEMMA DecodedOn ==
    ASSUME Torn, FileInv, NEW n \in 1 .. Size, NEW d, NEW e, Pass(d, n), Storing(d), At(n).k = "data",
           Matches(d, At(n)), d.interval = 0 \/ d.toGo > 0, SameDuty(d, e),
           e.coefs = Stored(d, At(n).v), e.last = At(n).n, e.mcu = d.mcu + 1, e.toGo = d.toGo - 1
    PROVE  Pass(e, n + 1)
<1> DEFINE t == At(n)
<1>1. n \in Nat /\ Size \in Nat /\ n \in 1 .. Size + 1 /\ n + 1 \in n .. Size + 1 /\ (n + 1) - 1 = n
      /\ n - 1 \in Nat
  BY DEF Torn
<1>2. Busy(e, n + 1)
  <2>1. \A j \in n .. (n + 1) - 1 : At(j).k \in {"data", "RST"}
    BY <1>1
  <2>2. QED
    BY <1>1, <2>1, BusyOn DEF Pass
<1>3. Counts(e)
  BY CountsOn DEF Pass, SameDuty
<1>4. /\ OfFile(t) /\ t.n \in 1 .. Many /\ d.tables = Tables
      /\ \/ Blocks(d) /\ Filled(d, n - 1, d.mcu) /\ t.n = d.mcu + 1
         \/ Misplaced(d, n)
  BY InStepPlace
<1>5. t.comps = d.scan /\ e.scan = d.scan /\ e.frame = d.frame /\ e.tables = d.tables
      /\ e.interval = d.interval
  BY DEF Matches, SameDuty
<1>6. d.mcu \in Nat /\ Many \in Nat /\ t.n \in Nat
  BY <1>4, TornPlaces DEF Storing
<1>7. CASE Misplaced(d, n)
  <2>1. IsMcu(At((n + 1) - 1), e.last, e.scan, At((n + 1) - 1).opens)
    BY <1>1, <1>5 DEF IsMcu
  <2>2. Off(e, e.last)
    <3>1. e.mcu = d.mcu + 1 /\ e.last = At(n).n
      OBVIOUS
    <3>0. e.last # e.mcu /\ (d.mcu + 1 - At(n).n) % d.interval = 0
      BY <1>7, <3>1 DEF Misplaced
    <3> HIDE DEF t
    <3>2. (e.mcu - e.last) % e.interval = 0 /\ e.interval > 0
      <4>1. e.mcu - e.last = d.mcu + 1 - At(n).n
        BY <1>6, <3>1 DEF t
      <4>2. e.interval = d.interval /\ d.interval > 0
        BY <1>5, <1>7 DEF Misplaced
      <4>3. QED
        BY ONLY <3>0, <4>1, <4>2
    <3>3. QED
      BY <3>0, <3>2 DEF Off
  <2>3. Displaced(e, n + 1)
    BY <1>4, <1>5, <1>7, <2>1, <2>2 DEF Displaced, DisplacedData, Misplaced
  <2>4. QED
    BY <1>2, <1>3, <2>3 DEF Pass
<1>8. CASE Blocks(d) /\ Filled(d, n - 1, d.mcu) /\ t.n = d.mcu + 1
  <2>1. ASSUME NEW c \in d.scan,
               d.coefs[c][d.mcu + 1] = Blank \/ SureAs(c, d.mcu + 1, d.coefs[c][d.mcu + 1])
        PROVE  SureAs(c, d.mcu + 1, Over(d.coefs[c][d.mcu + 1], t.v[c]))
    <3>1. c \in t.comps /\ t.k = "data"
      BY <1>5
    <3> HIDE DEF t
    <3>2. QED
      BY <1>4, <1>8, <2>1, <3>1, DataIsSure
  <2>2. Blocks(e) /\ Filled(e, n - 1, d.mcu + 1)
    BY <1>5, <1>8, <2>1, StoredIsSure DEF Storing
  <2>3. Filled(e, (n + 1) - 1, e.mcu)
    <3>1. \A j \in (n - 1) + 1 .. n : At(j).k # "SOS"
      BY <1>1
    <3>2. QED
      BY <1>1, <2>2, <3>1, FilledOn
  <2>4. InPlace(e, n + 1)
    <3>1. e.last = e.mcu /\ e.mcu > 0
      BY <1>6, <1>8
    <3>2. IsMcu(At((n + 1) - 1), e.mcu, e.scan, At((n + 1) - 1).opens)
      BY <1>1, <1>5, <1>8 DEF IsMcu
    <3>3. QED
      BY <3>1, <3>2 DEF InPlace
  <2>5. QED
    BY <1>2, <1>3, <2>2, <2>3, <2>4 DEF Pass, InOrBeside
<1>9. QED
  BY <1>4, <1>7, <1>8

\* One that is decoded out of step.
LEMMA AstrayOn ==
    ASSUME Torn, FileInv, NEW n \in 1 .. Size, NEW d, NEW e, Pass(d, n), Storing(d), At(n).k = "data",
           ~Matches(d, At(n)), d.sawSOI, call = "transform", ~Borrowing(d),
           d.interval = 0 \/ d.toGo > 0, SameDuty(d, e),
           e.coefs = Stored(d, [c \in d.scan |-> Bogus]), e.last = -1, e.mcu = d.mcu + 1, e.toGo = d.toGo - 1,
           NEW i \in n .. Size + 1, \A j \in n .. i - 1 : At(j).k = "data"
    PROVE  Pass(e, i)
<1>1. n \in Nat /\ Size \in Nat /\ n \in 1 .. Size + 1 /\ i \in Nat /\ i >= n /\ n - 1 \in Nat /\ i - 1 \in Nat
      /\ Cut \in Nat
  BY DEF Torn
<1>2. Busy(e, i)
  BY <1>1, BusyOn DEF Pass
<1>3. Counts(e)
  BY CountsOn DEF Pass, SameDuty
<1>4. /\ Blocks(d) /\ Filled(d, n - 1, d.mcu) /\ Spoilt
      /\ d.tables # Tables \/ (n >= Cut /\ d.interval = Interval)
  BY OutOfStep
<1>5. e.scan = d.scan /\ e.frame = d.frame /\ e.tables = d.tables /\ e.interval = d.interval
  BY DEF SameDuty
<1>6. Blocks(e) /\ Filled(e, n - 1, d.mcu + 1)
  <2> DEFINE value == [c \in d.scan |-> Bogus]
  <2>1. ASSUME NEW c \in d.scan PROVE SureAs(c, d.mcu + 1, Over(d.coefs[c][d.mcu + 1], value[c]))
    BY <1>4, BogusIsSure
  <2> HIDE DEF value
  <2>2. e.coefs = Stored(d, value)
    BY DEF value
  <2>3. QED
    BY <1>4, <1>5, <2>1, <2>2, StoredIsSure DEF Storing
<1>7. Filled(e, i - 1, e.mcu)
  <2>1. \A j \in (n - 1) + 1 .. i - 1 : At(j).k # "SOS"
    BY <1>1
  <2>2. QED
    BY <1>1, <1>6, <2>1, FilledOn
<1>8. InOrBeside(e, i)
  <2>1. CASE d.tables # Tables
    BY <1>5, <2>1 DEF InOrBeside
  <2>2. CASE n >= Cut /\ d.interval = Interval
    <3>1. i >= Cut
      BY <1>1, <2>2
    <3>2. QED
      BY <1>4, <1>5, <2>2, <3>1 DEF InOrBeside, Adrift
  <2>3. QED
    BY <1>4, <2>1, <2>2
<1>9. QED
  BY <1>2, <1>3, <1>6, <1>7, <1>8 DEF Pass

\* A restart marker that is accepted.
LEMMA RestartOn ==
    ASSUME Torn, FileInv, NEW n \in 1 .. Size, NEW d, NEW e, Pass(d, n), d.sawSOI, At(n).k = "RST",
           d.interval > 0, d.toGo = 0, SameDuty(d, e), e.coefs = d.coefs, e.mcu = d.mcu,
           e.last = 0, e.toGo = d.interval
    PROVE  Pass(e, n + 1)
<1>1. /\ n \in Nat /\ Size \in Nat /\ n \in 1 .. Size + 1 /\ n + 1 \in n .. Size + 1 /\ (n + 1) - 1 = n
      /\ n - 1 \in Nat /\ Cut \in Nat /\ Rest \in Nat /\ (Rest = Cut \/ Rest = Cut + 1)
  BY DEF Torn
<1>2. Busy(e, n + 1)
  <2>1. \A j \in n .. (n + 1) - 1 : At(j).k \in {"data", "RST"}
    BY <1>1
  <2>2. QED
    BY <1>1, <2>1, BusyOn DEF Pass
<1>3. e.scan = d.scan /\ e.frame = d.frame /\ e.tables = d.tables /\ e.interval = d.interval
  BY DEF SameDuty
<1>4. d.scan # {} /\ n >= 2 /\ Knows(d, n - 1) /\ d.interval \in Nat /\ d.mcu \in Nat
  BY <1>1, ScanHasComponents DEF Pass, Busy, Counts
<1>5. n \in 2 .. Size /\ n - 1 \in 1 .. Size /\ n - 1 \in 1 .. n - 1
  BY <1>1, <1>4
<1>6. Counts(e)
  <2>1. (d.mcu + 0) % d.interval = 0
    BY DEF Pass, Counts
  <2>2. (d.mcu + d.interval) % d.interval = 0
    <3>1. d.interval \in Nat \ {0} /\ d.mcu \in Int
      BY <1>4
    <3>2. d.mcu + 0 = d.mcu
      BY <1>4
    <3>3. QED
      BY <2>1, <3>1, <3>2, MultipleOfItself, MultiplesAdd
  <2>3. d.interval \in 0 .. d.interval
    BY <1>4
  <2>4. QED
    BY <1>3, <1>4, <2>2, <2>3 DEF Counts
<1>7. CASE Displaced(d, n)
  <2>1. n > Rest /\ d.interval = Interval /\ d.tables = Tables /\ DisplacedData(d, n)
    <3>1. ~DisplacedRestart(d, n)
      BY DEF DisplacedRestart, IsMcu
    <3>2. QED
      BY <1>7, <3>1 DEF Displaced
  <2>2. At(n - 1).k = "data" /\ At(n - 1).n = d.last /\ At(n - 1).comps = d.scan /\ Off(d, d.last)
    BY <2>1 DEF DisplacedData, IsMcu
  <2>3. IsMcu(At(n + 1), d.last + 1, d.scan, TRUE)
    BY <1>5, <2>1, <2>2, RestartFits
  <2>4. d.last \in Nat
    BY <1>4, <1>5, <2>2, ScanDataIsOfFile
  <2>5. At(n + 1).n = d.last + 1 /\ At(n + 1).n - 1 = d.last
    BY <2>3, <2>4 DEF IsMcu
  <2>6. Off(e, At(n + 1).n - 1)
    BY <1>3, <2>2, <2>5 DEF Off
  <2>7. DisplacedRestart(e, n + 1)
    BY <1>1, <1>3, <2>3, <2>5, <2>6 DEF DisplacedRestart
  <2>8. n + 1 > Rest
    BY <1>1, <2>1
  <2>9. Displaced(e, n + 1)
    BY <1>3, <2>1, <2>7, <2>8 DEF Displaced
  <2>10. QED
    BY <1>2, <1>6, <2>9 DEF Pass
<1>8. CASE ~Displaced(d, n)
  <2>1. Blocks(d) /\ Filled(d, n - 1, d.mcu) /\ InOrBeside(d, n)
    BY <1>8 DEF Pass
  <2>2. Blocks(e) /\ Filled(e, n - 1, e.mcu)
    BY <1>3, <2>1, SameBlocks
  <2>3. Filled(e, (n + 1) - 1, e.mcu)
    <3>1. \A j \in (n - 1) + 1 .. n : At(j).k # "SOS"
      BY <1>1
    <3>2. QED
      BY <1>1, <2>2, <3>1, FilledOn
  <2>0. /\ e.last = 0 /\ At((n + 1) - 1).k = "RST" /\ e.toGo = e.interval /\ e.interval # 0
        /\ e.mcu + 1 = d.mcu + 1
    BY <1>1, <1>3
  <2>4. ASSUME n + 1 >= Cut /\ d.interval = Interval PROVE InOrBeside(e, n + 1)
    <3>1. Opening(e, n + 1)
      BY <1>3, <2>0, <2>4 DEF Opening
    <3>2. QED
      BY <3>1 DEF InOrBeside
  <2>5. InOrBeside(e, n + 1)
    <3>1. CASE d.tables # Tables
      BY <1>3, <3>1 DEF InOrBeside
    <3>2. CASE Opening(d, n)
      BY <3>2 DEF Opening
    <3>3. CASE InPlace(d, n)
      <4>1. At(n - 1).k = "data" /\ At(n - 1).n = d.mcu /\ At(n - 1).comps = d.scan
        BY <3>3 DEF InPlace, IsMcu
      <4>2. CASE n + 1 < Cut \/ n > Rest
        <5>1. IsMcu(At(n + 1), d.mcu + 1, d.scan, TRUE)
          BY <1>5, <4>1, <4>2, RestartFits
        <5>2. IsMcu(At(n + 1), e.mcu + 1, e.scan, TRUE)
          BY <1>3, <5>1
        <5>3. Opening(e, n + 1)
          BY <2>0, <5>2 DEF Opening
        <5>4. QED
          BY <5>3 DEF InOrBeside
      <4>3. CASE ~(n + 1 < Cut \/ n > Rest)
        <5>1. ~(n - 1 = Cut /\ Rest = Cut + 1)
          BY <1>4, <1>5, <4>1, NoStrayData
        <5>2. n + 1 >= Cut /\ n - 1 < Cut
          BY <1>1, <4>3, <5>1
        <5>3. d.interval = Interval
          BY <1>1, <1>4, <1>5, <4>1, <5>2, IntervalInScan
        <5>4. QED
          BY <2>4, <5>2, <5>3
      <4>4. QED
        BY <4>2, <4>3
    <3>4. CASE Adrift(d, n)
      <4>1. n + 1 >= Cut /\ d.interval = Interval
        BY <1>1, <3>4 DEF Adrift
      <4>2. QED
        BY <2>4, <4>1
    <3>5. QED
      BY <2>1, <3>1, <3>2, <3>3, <3>4 DEF InOrBeside
  <2>6. QED
    BY <1>2, <1>6, <2>2, <2>3, <2>5 DEF Pass
<1>9. QED
  BY <1>7, <1>8

\* A pass that ends out of place has data left behind it.
LEMMA DataIsLeft ==
    ASSUME Torn, FileInv, NEW n \in 1 .. Size + 1, NEW e, n >= 2, e.scan # {}, Displaced(e, n), DisplacedData(e, n),
           e.mcu = Many, NEW f, f.state = "RDCOEFS", f.unread = NoMarker
    PROVE  /\ DataAhead(f, n)
           /\ At(n).k = "data" => DataAhead(f, n + 1)
<1>1. /\ n \in Nat /\ Size \in Nat /\ Rest \in Nat /\ n \in 2 .. Size + 1 /\ n > Rest
      /\ n - 1 \in 1 .. Size /\ Many \in Nat /\ e.interval = Interval
  BY TornPlaces DEF Torn, Displaced
<1> DEFINE pos == e.last
<1>2. /\ At(n - 1).k = "data" /\ At(n - 1).n = pos /\ At(n - 1).comps = e.scan
      /\ pos # Many /\ Interval > 0 /\ (Many - pos) % Interval = 0
  BY <1>1 DEF DisplacedData, IsMcu, Off
<1>3. pos \in 1 .. Many
  BY <1>1, <1>2, ScanDataIsOfFile
<1>4. n \in 2 .. Size /\ SideBySide(At(n - 1), At(n))
  BY <1>1, <1>2, WholeFits DEF Whole
<1> HIDE DEF pos
<1>5. At(n).k \in {"data", "RST"}
  BY <1>2, <1>4 DEF SideBySide
<1>6. ASSUME At(n).k = "RST" PROVE At(n + 1).k = "data"
  BY <1>1, <1>2, <1>4, <1>6, RestartFits DEF IsMcu
<1>7. ASSUME At(n).k = "data"
      PROVE  At(n + 1).k = "data" \/ (At(n + 1).k = "RST" /\ At((n + 1) + 1).k = "data")
  <2>1. At(n).n = pos + 1 /\ ~(Interval > 0 /\ pos % Interval = 0)
    BY <1>2, <1>4, <1>7 DEF SideBySide, IsMcu
  <2>2. pos + 1 # Many
    <3>1. SUFFICES ASSUME pos + 1 = Many PROVE FALSE
      OBVIOUS
    <3>2. Many - pos = 1 /\ pos \in Nat
      BY <1>1, <1>3, <3>1
    <3>3. 1 % Interval = 0
      BY <1>2, <3>2
    <3>4. Interval \in Nat
      BY DEF Torn
    <3>5. Interval = 1
      BY <1>2, <3>3, <3>4, OneIsNoMultiple
    <3>6. (1 * pos) % 1 = 0 /\ 1 * pos = pos
      <4>1. 1 * pos = pos
        BY <3>2
      <4>2. (1 * pos) % 1 = 0
        BY <3>2, FactorMakesMultiple
      <4>3. QED
        BY <4>1, <4>2
    <3>7. QED
      BY <2>1, <3>5, <3>6
  <2>3. n + 1 \in 2 .. Size + 1 /\ n + 1 > Rest /\ (n + 1) - 1 = n
    BY <1>1, <1>4
  <2>4. n + 1 \in 2 .. Size /\ SideBySide(At(n), At(n + 1))
    BY <1>7, <2>3, WholeFits DEF Whole
  <2>5. At(n + 1).k \in {"data", "RST"}
    BY <1>7, <2>1, <2>2, <2>4 DEF SideBySide
  <2>6. ASSUME At(n + 1).k = "RST" PROVE At((n + 1) + 1).k = "data"
    BY <1>7, <2>3, <2>4, <2>6, RestartFits DEF IsMcu
  <2>7. QED
    BY <2>5, <2>6
<1>8. QED
  BY <1>5, <1>6, <1>7 DEF DataAhead

\* The end of a pass.
LEMMA PassEnds ==
    ASSUME Torn, FileInv, NEW n \in 1 .. Size + 1, NEW e, NEW f, Pass(e, n), e.mcu = e.frame.n, e.last # 0,
           e.sawSOI, SameDuty(e, f), f.coefs = e.coefs, f.state = "RDCOEFS", ~f.inheaders,
           NEW m \in 1 .. Size + 1, m = n \/ (m = n + 1 /\ At(n).k = "data")
    PROVE  ReadOn(f, m) \/ DataAhead(f, m)
<1>1. /\ n \in Nat /\ Size \in Nat /\ m \in Nat /\ n - 1 \in Nat /\ m - 1 \in n - 1 .. Size /\ m - 1 \in Nat
      /\ \A j \in (n - 1) + 1 .. m - 1 : At(j).k = "data"
  BY DEF Torn
<1>2. Busy(e, n) /\ e.scan # {} /\ n >= 2
  BY ScanHasComponents DEF Pass, Busy
<1>3. f.unread = NoMarker /\ f.frame = e.frame /\ f.scan = e.scan /\ f.tables = e.tables
      /\ e.frame = Tokens[FrameAt] /\ e.tables # None
  BY <1>2 DEF SameDuty, Busy
<1>4. CASE Displaced(e, n)
  <2>1. DisplacedData(e, n) /\ e.mcu = Many
    BY <1>3, <1>4 DEF Displaced, DisplacedRestart, Many
  <2>2. QED
    BY <1>2, <1>3, <1>4, <2>1, DataIsLeft
<1>5. CASE ~Displaced(e, n)
  <2>1. Blocks(e) /\ Filled(e, n - 1, e.frame.n)
    BY <1>5 DEF Pass
  <2>2. Blocks(f) /\ Filled(f, n - 1, f.frame.n)
    BY <1>3, <2>1, SameBlocks
  <2>3. Filled(f, m - 1, f.frame.n)
    BY <1>1, <2>2, FilledOn
  <2>4. Knows(f, m - 1)
    <3>1. \A j \in (n - 1) + 1 .. m - 1 : At(j).k \notin {"DHT", "DRI"}
      BY <1>1
    <3>2. QED
      BY <1>1, <1>2, <3>1, KnowsOn DEF SameDuty, Busy
  <2>5. Seen(f, m) = m - 1
    BY <1>3 DEF Seen
  <2>6. QED
    BY <1>3, <2>2, <2>3, <2>4, <2>5 DEF ReadOn, Sought
<1>6. QED
  BY <1>4, <1>5

\* A call that fails, and one that ends, is no more on any track.
LEMMA FailuresKeepTrackInv ==
    ASSUME ReadAfterEOI \/ UnknownMarker \/ Mismatch \/ EndCall PROVE TrackInv'
<1>1. CASE Fail(dinfo)
  BY <1>1, FailKeepsTrackInv
<1>2. CASE EndCall
  BY <1>2 DEF EndCall, TrackInv
<1>3. QED
  BY <1>1, <1>2 DEF ReadAfterEOI, UnknownMarker, Mismatch

\* A marker that is met has not taken effect.
LEMMA MarkerAhead ==
    ASSUME NEW d, NEW e, Keeps(d, e, {"unread"}), NEW n \in Nat, d.unread = NoMarker, e.unread # NoMarker,
           ReadOn(d, n)
    PROVE  ReadOn(e, n + 1)
<1>1. Seen(d, n) = n - 1 /\ Seen(e, n + 1) = n - 1
  BY DEF Seen
<1>2. /\ e.sawSOI = d.sawSOI /\ e.interval = d.interval /\ e.tables = d.tables
      /\ e.inheaders = d.inheaders /\ e.frame = d.frame /\ e.coefs = d.coefs /\ e.scan = d.scan
  BY DEF Keeps, Fields
<1>3. Knows(d, n - 1) /\ Sought(d, n - 1)
  BY <1>1 DEF ReadOn
<1>4. Knows(e, n - 1)
  BY <1>2, <1>3 DEF Knows
<1>5. Sought(e, n - 1)
  BY <1>2, <1>3, SameBlocks DEF Sought
<1>6. QED
  BY <1>1, <1>4, <1>5 DEF ReadOn

\* Finding a marker keeps the invariant: SOI, and those behind it.
LEMMA FirstMarkerKeepsTrackInv ==
    ASSUME TypeInv, MarkerInv, StrayInv, WrittenInv, TrackInv, FirstMarker PROVE TrackInv'
<1> DEFINE d == [dinfo EXCEPT !.unread = At(next)]
<1>1. /\ Reading /\ ~dinfo.eoi /\ dinfo.unread = NoMarker /\ ~dinfo.sawSOI
      /\ next' = After(next) /\ warning' = (warning \/ Starved(next))
      /\ IF At(next).k = "SOI" THEN Go(d, pc) ELSE Fail(dinfo)
  BY DEF FirstMarker
<1>2. IsObject(dinfo) /\ FileInv /\ next \in 1 .. Size + 1 /\ pc = "reading" /\ Size \in Nat
      /\ ReadingOK(dinfo, next, call) /\ warning \in BOOLEAN
  BY <1>1, WhileReading, SizeIsNat
<1>3. Keeps(dinfo, d, {"unread"}) /\ d.unread = At(next)
  BY <1>2, UnreadField
<1> HIDE DEF d
<1>4. CASE At(next).k = "SOI"
  <2>1. Go(d, pc) /\ d.unread # NoMarker /\ d.unread.k # "DHT"
    BY <1>1, <1>2, <1>3, <1>4, AtIsToken, TokenFacts
  <2>2. Borrowing(dinfo) => StillBorrows(d)
    BY <1>3, <2>1, UnreadKeepsHeader DEF StillBorrows
  <2>3. ~Doomed(dinfo, pc, next)
    BY <1>1 DEF Doomed, Stuck
  <2>4. ASSUME OnTrack PROVE Track(d, pc, next')
    <3>1. ReadOn(dinfo, next)
      <4>1. ReadOn(dinfo, next) \/ DataAhead(dinfo, next)
        BY <1>2, <2>4, WhileOnTrack
      <4>2. dinfo.state # "RDCOEFS"
        BY <1>1, <1>2 DEF ReadingOK, InHeader, Ready
      <4>3. QED
        BY <4>1, <4>2 DEF DataAhead
    <3>2. next' = next + 1
      BY <1>1, <1>2, <1>4, InTheFile
    <3>3. next \in Nat
      BY <1>2
    <3>4. ReadOn(d, next')
      BY <1>1, <1>3, <2>1, <3>1, <3>2, <3>3, MarkerAhead
    <3>5. QED
      BY <1>2, <3>4 DEF Track
  <2>5. warning => warning'
    BY <1>1
  <2>6. QED
    BY <1>2, <2>1, <2>2, <2>3, <2>4, <2>5, GoKeepsTrackInv
<1>5. CASE At(next).k # "SOI"
  BY <1>1, <1>5, FailKeepsTrackInv
<1>6. QED
  BY <1>4, <1>5

LEMMA NextMarkerOfHeadersKeepsTrackInv ==
    ASSUME TypeInv, MarkerInv, StrayInv, WrittenInv, TrackInv, NextMarkerOfHeaders PROVE TrackInv'
<1> DEFINE found == NextMarker(next)
           d == [dinfo EXCEPT !.unread = At(found)]
<1>1. /\ Reading /\ ~dinfo.eoi /\ dinfo.sawSOI /\ dinfo.unread = NoMarker
      /\ Go(d, pc) /\ next' = After(found)
      /\ warning' = (warning \/ found > next \/ Starved(found))
  BY DEF NextMarkerOfHeaders
<1>2. IsObject(dinfo) /\ FileInv /\ next \in 1 .. Size + 1 /\ pc = "reading" /\ Size \in Nat
      /\ warning \in BOOLEAN
  BY <1>1, WhileReading, SizeIsNat
<1>3. Keeps(dinfo, d, {"unread"}) /\ d.unread = At(found)
  BY <1>2, UnreadField
<1>4. found \in 1 .. Size + 1 /\ found >= next /\ d.unread # NoMarker
  BY <1>2, <1>3, FoundInFile
<1>5. At(next).k # "data" => found = next
  BY <1>2, MarkerHere
<1>6. At(next).k = "data" => found > next
  BY <1>2, <1>4, MarkerIsFound, SizeIsNat
<1> HIDE DEF d, found
<1>7. Borrowing(dinfo) => StillBorrows(d)
  BY <1>2, <1>3, <1>4, UnreadKeepsHeader, NoTablesToMeet DEF StillBorrows
<1>8. Doomed(dinfo, pc, next) => Doomed(d, pc, next')
  <2>1. Stuck(dinfo) => dinfo.frame.name # None
    BY <1>1, TokenFacts DEF Stuck, None
  <2>2. QED
    BY <1>3, <2>1 DEF Doomed, Stuck, Keeps, Fields
<1>9. ASSUME OnTrack, ~warning' PROVE Track(d, pc, next')
  <2>0. ~(found > next) /\ ~Starved(found)
    BY <1>1, <1>9
  <2>1. found = next /\ ~Starved(next) /\ next \in Nat
    <3>1. found = next /\ next \in Nat
      BY <1>2, <1>4, <2>0
    <3>2. QED
      BY <2>0, <3>1
  <2>2. next' = next + 1 /\ At(next).k # "data" /\ d.unread = At(next)
    BY <1>1, <1>2, <1>3, <1>6, <2>1 DEF After
  <2>3. CASE ReadOn(dinfo, next)
    <3>1. ReadOn(d, next')
      BY <1>1, <1>3, <1>4, <2>1, <2>2, <2>3, MarkerAhead
    <3>2. QED
      BY <1>2, <3>1 DEF Track
  <2>4. CASE DataAhead(dinfo, next)
    <3>1. dinfo.state = "RDCOEFS" /\ At(next).k = "RST" /\ At(next + 1).k = "data"
      BY <1>1, <2>2, <2>4, TokenFacts DEF DataAhead, None
    <3>2. d.state = "RDCOEFS"
      BY <1>3, <3>1 DEF Keeps, Fields
    <3>3. DataAhead(d, next')
      BY <2>2, <3>1, <3>2 DEF DataAhead
    <3>4. QED
      BY <1>2, <3>3 DEF Track
  <2>5. QED
    BY <1>2, <1>9, <2>3, <2>4, WhileOnTrack
<1>10. QED
  <2>1. pc # "idle" /\ (warning => warning')
    BY <1>1, <1>2
  <2>2. QED
    BY <1>1, <1>7, <1>8, <1>9, <2>1, GoKeepsTrackInv

\* A marker that is parsed on the track.
LEMMA PendingOnTrack ==
    ASSUME TypeInv, MarkerInv, StrayInv, WrittenInv, OnTrack, NEW kinds, Pending(kinds)
    PROVE  /\ Torn /\ FileInv /\ pc = "reading" /\ next \in 2 .. Size + 1
           /\ next \in Nat /\ Size \in Nat /\ ~warning
           /\ next - 1 \in 1 .. Size /\ next - 2 \in Nat /\ (next - 2) + 1 = next - 1
           /\ dinfo.unread = At(next - 1)
           /\ Seen(dinfo, next) = next - 2
           /\ \/ Knows(dinfo, next - 2) /\ Sought(dinfo, next - 2)
              \/ DataAhead(dinfo, next) /\ dinfo.unread.k = "RST" /\ At(next).k = "data"
<1>1. /\ Torn /\ FileInv /\ Following(dinfo, pc, next) /\ next \in 1 .. Size + 1 /\ ~warning
      /\ pc = "reading" /\ dinfo.unread # NoMarker
      /\ ReadOn(dinfo, next) \/ DataAhead(dinfo, next)
  BY WhileOnTrack, WhilePending, WhileReading
<1>2. dinfo.unread = At(next - 1) /\ next - 1 \in 1 .. Size /\ (next - 2) + 1 = next - 1
      /\ Size \in Nat
  BY <1>1, ParsedMarker, SizeIsNat
<1>3. Seen(dinfo, next) = next - 2
  BY <1>1 DEF Seen
<1>4. DataAhead(dinfo, next) => dinfo.unread.k = "RST" /\ At(next).k = "data"
  BY <1>1 DEF DataAhead
<1>5. QED
  BY <1>1, <1>2, <1>3, <1>4 DEF ReadOn

LEMMA ParsedOnTrack ==
    ASSUME TypeInv, MarkerInv, StrayInv, WrittenInv, OnTrack, NEW kinds, Parsing(kinds)
    PROVE  /\ Torn /\ FileInv /\ pc = "reading" /\ next' = next /\ next \in 2 .. Size + 1
           /\ next \in Nat /\ Size \in Nat /\ ~warning
           /\ next - 1 \in 1 .. Size /\ next - 2 \in Nat /\ (next - 2) + 1 = next - 1
           /\ dinfo.unread = At(next - 1)
           /\ Seen(dinfo, next) = next - 2
           /\ \/ Knows(dinfo, next - 2) /\ Sought(dinfo, next - 2)
              \/ DataAhead(dinfo, next) /\ dinfo.unread.k = "RST" /\ At(next).k = "data"
<1>1. Pending(kinds) /\ next' = next
  BY DEF Parsing
<1>2. QED
  BY <1>1, PendingOnTrack

\* What is sought behind a marker that is no SOS.
LEMMA SoughtOn ==
    ASSUME NEW d, NEW e, NEW q \in Nat, Sought(d, q), At(q + 1).k # "SOS",
           e.inheaders = d.inheaders, e.coefs = d.coefs, e.scan = d.scan,
           d.tables # None => e.tables # None,
           \/ e.frame = d.frame
           \/ d.inheaders /\ (e.frame.name = None => e.frame = Tokens[FrameAt])
    PROVE  Sought(e, q + 1)
<1>1. Met(q + 1, "SOS") => Met(q, "SOS")
  <2>1. ASSUME NEW j \in 1 .. q + 1, At(j).k = "SOS" PROVE j \in 1 .. q
    BY <2>1
  <2>2. QED
    BY <2>1 DEF Met
<1>2. CASE d.inheaders
  BY <1>1, <1>2 DEF Sought
<1>3. CASE ~d.inheaders
  <2>1. Blocks(d) /\ Filled(d, q, d.frame.n) /\ e.frame = d.frame
    BY <1>3 DEF Sought
  <2>2. Blocks(e) /\ Filled(e, q, e.frame.n)
    BY <2>1, SameBlocks
  <2>3. Filled(e, q + 1, e.frame.n)
    <3>1. \A j \in q + 1 .. q + 1 : At(j).k # "SOS"
      OBVIOUS
    <3>2. QED
      BY <2>2, <3>1, FilledOn
  <2>4. QED
    BY <1>3, <2>1, <2>2, <2>3 DEF Sought
<1>4. QED
  BY <1>2, <1>3

\* A marker that is taken.
LEMMA TakenKeepsTrackInv ==
    ASSUME TypeInv, MarkerInv, StrayInv, WrittenInv, TrackInv, NEW kinds, Parsing(kinds),
           dinfo.unread.k # "SOS", NEW d, Go(d, pc), d.unread = NoMarker, d.state = dinfo.state,
           d.inheaders = dinfo.inheaders, d.coefs = dinfo.coefs, d.scan = dinfo.scan,
           dinfo.unread.k # "DHT" => d.tables = dinfo.tables,
           dinfo.tables # None => d.tables # None,
           Doomed(dinfo, pc, next) => Doomed(d, pc, next'),
           OnTrack /\ Knows(dinfo, next - 2) =>
               /\ Knows(d, next - 1)
               /\ \/ d.frame = dinfo.frame
                  \/ dinfo.inheaders /\ (d.frame.name = None => d.frame = Tokens[FrameAt])
    PROVE  TrackInv'
<1>1. pc # "idle" /\ pc = "reading" /\ warning' = warning
  BY WhileParsing, WhileReading
<1>2. Borrowing(dinfo) => StillBorrows(d)
  BY ParsingStillBorrows DEF Borrowing
<1>3. ASSUME OnTrack PROVE Track(d, pc, next')
  <2>1. /\ next' = next /\ next - 2 \in Nat /\ (next - 2) + 1 = next - 1
        /\ dinfo.unread = At(next - 1)
        /\ \/ Knows(dinfo, next - 2) /\ Sought(dinfo, next - 2)
           \/ DataAhead(dinfo, next) /\ dinfo.unread.k = "RST" /\ At(next).k = "data"
    BY <1>3, ParsedOnTrack
  <2>2. CASE Knows(dinfo, next - 2) /\ Sought(dinfo, next - 2)
    <3>1. Sought(d, (next - 2) + 1)
      BY <1>3, <2>1, <2>2, SoughtOn
    <3>2. Seen(d, next) = next - 1
      BY DEF Seen
    <3>3. ReadOn(d, next)
      BY <1>3, <2>1, <2>2, <3>1, <3>2 DEF ReadOn
    <3>4. QED
      BY <1>1, <2>1, <3>3 DEF Track
  <2>3. CASE DataAhead(dinfo, next) /\ dinfo.unread.k = "RST" /\ At(next).k = "data"
    <3>1. DataAhead(d, next)
      BY <2>3 DEF DataAhead
    <3>2. QED
      BY <1>1, <2>1, <3>1 DEF Track
  <2>4. QED
    BY <2>1, <2>2, <2>3
<1>4. QED
  BY <1>1, <1>2, <1>3, GoKeepsTrackInv

\* What is known behind a marker that says nothing new.
LEMMA KnowsBehind ==
    ASSUME TypeInv, MarkerInv, StrayInv, WrittenInv, OnTrack, NEW kinds, Parsing(kinds),
           Knows(dinfo, next - 2), dinfo.unread.k \notin {"DHT", "DRI"}, NEW d,
           d.sawSOI = dinfo.sawSOI, d.interval = dinfo.interval, d.tables = dinfo.tables
    PROVE  Knows(d, next - 1)
<1>1. /\ Torn /\ Size \in Nat /\ next \in Nat /\ next - 1 \in 1 .. Size /\ next - 2 \in Nat
      /\ (next - 2) + 1 = next - 1 /\ dinfo.unread = At(next - 1)
  BY ParsedOnTrack
<1>2. next - 1 \in next - 2 .. Size
  BY <1>1
<1>3. \A j \in (next - 2) + 1 .. next - 1 : At(j).k \notin {"DHT", "DRI"}
  BY <1>1
<1>4. QED
  BY <1>1, <1>2, <1>3, KnowsOn

\* The markers of a header keep it.
LEMMA SaveMarkerKeepsTrackInv ==
    ASSUME TypeInv, MarkerInv, StrayInv, WrittenInv, TrackInv, SaveMarker PROVE TrackInv'
<1> DEFINE d == Saved
<1>1. Parsing({"APP"}) /\ Go(d, pc)
  BY MarkerIsSaved
<1>2. IsObject(dinfo) /\ dinfo.unread.k = "APP"
  BY <1>1, WhileParsing, WhileReading
<1>3. Keeps(dinfo, d, {"unread", "saved", "jfif", "adobe"}) /\ d.unread = NoMarker
  BY <1>2, SavedFields DEF Keeps
<1> HIDE DEF d
<1>4. Doomed(dinfo, pc, next) => Doomed(d, pc, next')
  BY <1>1, <1>2, <1>3, DoomedByFrame
<1>5. /\ d.state = dinfo.state /\ d.inheaders = dinfo.inheaders /\ d.coefs = dinfo.coefs
      /\ d.scan = dinfo.scan /\ d.tables = dinfo.tables /\ d.frame = dinfo.frame
      /\ d.sawSOI = dinfo.sawSOI /\ d.interval = dinfo.interval
  BY <1>3 DEF Keeps, Fields
<1>6. OnTrack /\ Knows(dinfo, next - 2) => Knows(d, next - 1)
  BY <1>1, <1>2, <1>5, KnowsBehind
<1>7. QED
  BY <1>1, <1>2, <1>3, <1>4, <1>5, <1>6, TakenKeepsTrackInv

LEMMA SkipMarkerKeepsTrackInv ==
    ASSUME TypeInv, MarkerInv, StrayInv, WrittenInv, TrackInv, SkipMarker PROVE TrackInv'
<1> DEFINE d == [dinfo EXCEPT !.unread = NoMarker]
<1>1. Parsing({"RST", "TEM"}) /\ Go(d, pc)
  BY DEF SkipMarker
<1>2. IsObject(dinfo) /\ dinfo.unread.k \in {"RST", "TEM"}
  BY <1>1, WhileParsing, WhileReading
<1>3. Keeps(dinfo, d, {"unread"}) /\ d.unread = NoMarker
  BY <1>2, UnreadField
<1> HIDE DEF d
<1>4. Doomed(dinfo, pc, next) => Doomed(d, pc, next')
  <2>1. Keeps(dinfo, d, {"unread", "saved", "jfif", "adobe"})
    BY <1>3 DEF Keeps
  <2>2. QED
    BY <1>1, <1>2, <2>1, DoomedByFrame
<1>5. /\ d.state = dinfo.state /\ d.inheaders = dinfo.inheaders /\ d.coefs = dinfo.coefs
      /\ d.scan = dinfo.scan /\ d.tables = dinfo.tables /\ d.frame = dinfo.frame
      /\ d.sawSOI = dinfo.sawSOI /\ d.interval = dinfo.interval
  BY <1>3 DEF Keeps, Fields
<1>6. OnTrack /\ Knows(dinfo, next - 2) => Knows(d, next - 1)
  BY <1>1, <1>2, <1>5, KnowsBehind
<1>7. QED
  BY <1>1, <1>2, <1>3, <1>4, <1>5, <1>6, TakenKeepsTrackInv

LEMMA GetSOIKeepsTrackInv ==
    ASSUME TypeInv, MarkerInv, StrayInv, WrittenInv, TrackInv, GetSOI PROVE TrackInv'
<1> DEFINE d == Opened
<1>1. Parsing({"SOI"}) /\ IF dinfo.sawSOI THEN Fail(dinfo) ELSE Go(d, pc)
  BY DEF GetSOI, Opened
<1>2. IsObject(dinfo) /\ dinfo.unread.k = "SOI" /\ dinfo.unread # NoMarker /\ Reading
  BY <1>1, WhileParsing, WhileReading
<1>3. /\ Keeps(dinfo, d, {"sawSOI", "interval", "unread", "jfif", "adobe"})
      /\ d.unread = NoMarker /\ d.sawSOI /\ d.interval = 0
  BY <1>2, OpenedFields
<1> HIDE DEF d
<1>4. CASE dinfo.sawSOI
  BY <1>1, <1>4, FailKeepsTrackInv
<1>5. CASE ~dinfo.sawSOI
  <2>1. ~Doomed(dinfo, pc, next)
    BY <1>5 DEF Doomed, Stuck
  <2>2. next = 2 /\ At(1).k = "SOI"
    BY <1>2, <1>5, WhileReading DEF ReadingOK, AtStart, Untouched, Ready
  <2>3. /\ d.state = dinfo.state /\ d.inheaders = dinfo.inheaders /\ d.coefs = dinfo.coefs
        /\ d.scan = dinfo.scan /\ d.tables = dinfo.tables /\ d.frame = dinfo.frame
    BY <1>3 DEF Keeps, Fields
  <2>4. ASSUME OnTrack PROVE Knows(d, next - 1)
    <3>1. Torn /\ next - 1 = 1
      BY <1>1, <2>2, <2>4, ParsedOnTrack
    <3>2. ~Met(1, "DHT")
      BY <2>2 DEF Met
    <3>3. ~Before(1, "DRI")
      BY <3>1, TornPlaces DEF Before
    <3>4. QED
      BY <1>3, <3>1, <3>2, <3>3 DEF Knows
  <2>5. QED
    BY <1>1, <1>2, <1>3, <1>5, <2>1, <2>3, <2>4, TakenKeepsTrackInv
<1>6. QED
  BY <1>4, <1>5

LEMMA GetSOFKeepsTrackInv ==
    ASSUME TypeInv, MarkerInv, StrayInv, WrittenInv, TrackInv, GetSOF PROVE TrackInv'
<1> DEFINE d == [dinfo EXCEPT !.frame = dinfo.unread, !.unread = NoMarker]
<1>1. Parsing({"SOF"})
      /\ IF Stale \/ dinfo.frame # NoMarker \/ dinfo.unread.name \in {"unsupported", "empty"}
         THEN Fail(dinfo) ELSE Go(d, pc)
  BY DEF GetSOF
<1>2. IsObject(dinfo) /\ dinfo.unread.k = "SOF" /\ dinfo.unread # NoMarker /\ Reading /\ ~dinfo.eoi
      /\ ReadingOK(dinfo, next, call)
  BY <1>1, WhileParsing, WhileReading
<1>3. Keeps(dinfo, d, {"frame", "unread"}) /\ d.unread = NoMarker /\ d.frame = dinfo.unread
  BY <1>2 DEF IsObject, Fields, Keeps
<1> HIDE DEF d
<1>4. CASE Stale \/ dinfo.frame # NoMarker \/ dinfo.unread.name \in {"unsupported", "empty"}
  BY <1>1, <1>4, FailKeepsTrackInv
<1>5. CASE ~(Stale \/ dinfo.frame # NoMarker \/ dinfo.unread.name \in {"unsupported", "empty"})
  <2>1. ~Doomed(dinfo, pc, next)
    BY <1>2, <1>5, TokenFacts DEF Doomed, Stuck, Stale
  <2>2. /\ d.state = dinfo.state /\ d.inheaders = dinfo.inheaders /\ d.coefs = dinfo.coefs
        /\ d.scan = dinfo.scan /\ d.tables = dinfo.tables
        /\ d.sawSOI = dinfo.sawSOI /\ d.interval = dinfo.interval
    BY <1>3 DEF Keeps, Fields
  <2>3. OnTrack /\ Knows(dinfo, next - 2) => Knows(d, next - 1)
    BY <1>1, <1>2, <2>2, KnowsBehind
  <2>4. dinfo.inheaders
    BY <1>2, <1>5 DEF ReadingOK, InHeader, Ready
  <2>5. ASSUME OnTrack, d.frame.name = None PROVE d.frame = Tokens[FrameAt]
    <3> DEFINE p == next - 1
    <3>1. Torn /\ p \in 1 .. Size /\ dinfo.unread = At(p) /\ Size \in Nat
      BY <1>1, <2>5, ParsedOnTrack
    <3>2. At(p).k = "SOF" /\ At(p).name = None
      BY <1>2, <1>3, <2>5, <3>1
    <3> HIDE DEF p
    <3>3. ~(p = Cut /\ Rest = Cut + 1)
      <4>1. ~(Rest = Cut + 1 /\ p = Cut /\ IsNoise(At(p)))
        BY <3>2 DEF IsNoise
      <4>2. Cut \in Nat
        BY <3>1 DEF Torn
      <4>3. QED
        BY <3>1, <4>1, <4>2 DEF Torn
    <3>4. p < Cut \/ p >= Rest
      BY <3>1, <3>3 DEF Torn
    <3>5. \E i \in 1 .. Len(Tokens) : At(p) = Tokens[i]
      BY <3>1, <3>4 DEF Torn, InTokens
    <3>6. QED
      BY <1>3, <3>1, <3>2, <3>5, TornPlaces
  <2>6. QED
    BY <1>1, <1>2, <1>3, <1>5, <2>1, <2>2, <2>3, <2>4, <2>5, TakenKeepsTrackInv
<1>6. QED
  BY <1>4, <1>5

LEMMA GetTablesKeepsTrackInv ==
    ASSUME TypeInv, MarkerInv, StrayInv, WrittenInv, TrackInv, GetTables PROVE TrackInv'
<1> DEFINE m == dinfo.unread
           b == [dinfo EXCEPT !.unread = NoMarker]
           d == CASE m.k = "DHT" -> [b EXCEPT !.tables = m.name]
                  [] m.k = "DQT" -> [b EXCEPT !.quant = m.name]
                  [] m.k = "DRI" -> [b EXCEPT !.interval = m.n]
<1>1. Parsing({"DHT", "DQT", "DRI"}) /\ m.k \in {"DHT", "DQT", "DRI"}
      /\ IF Stale THEN Fail(dinfo) ELSE Go(d, pc)
  BY DEF GetTables, Parsing, Pending
<1>2. IsObject(dinfo) /\ IsToken(m) /\ ~dinfo.eoi
  BY <1>1, WhileParsing, WhileReading
<1>3. Keeps(dinfo, b, {"unread"}) /\ b.unread = NoMarker
  BY <1>2, UnreadField
<1> HIDE DEF b
<1>4. /\ Keeps(b, d, {"tables", "quant", "interval"})
      /\ d.tables = IF m.k = "DHT" THEN m.name ELSE b.tables
      /\ d.interval = IF m.k = "DRI" THEN m.n ELSE b.interval
  <2>1. CASE m.k = "DHT"
    BY <1>3, <2>1 DEF IsObject, Fields, Keeps
  <2>2. CASE m.k = "DQT"
    BY <1>3, <2>2 DEF IsObject, Fields, Keeps
  <2>3. CASE m.k = "DRI"
    BY <1>3, <2>3 DEF IsObject, Fields, Keeps
  <2>4. QED
    BY <1>1, <2>1, <2>2, <2>3
<1> HIDE DEF d
<1>5. /\ d.state = dinfo.state /\ d.inheaders = dinfo.inheaders /\ d.coefs = dinfo.coefs
      /\ d.scan = dinfo.scan /\ d.frame = dinfo.frame /\ d.sawSOI = dinfo.sawSOI
      /\ d.unread = NoMarker /\ d.eoi = dinfo.eoi
      /\ d.tables = (IF m.k = "DHT" THEN m.name ELSE dinfo.tables)
      /\ d.interval = (IF m.k = "DRI" THEN m.n ELSE dinfo.interval)
  BY <1>3, <1>4 DEF Keeps, Fields
<1>6. CASE Stale
  BY <1>1, <1>6, FailKeepsTrackInv
<1>7. CASE ~Stale
  <2>1. Doomed(dinfo, pc, next) => Doomed(d, pc, next')
    BY <1>2, <1>5, <1>7 DEF Doomed, Stuck, Stale
  <2>2. dinfo.tables # None => d.tables # None
    BY <1>2, <1>5 DEF IsToken
  <2>3. ASSUME OnTrack, Knows(dinfo, next - 2) PROVE Knows(d, next - 1)
    <3> DEFINE p == next - 1
               q == next - 2
    <3>1. /\ Torn /\ Size \in Nat /\ p \in 1 .. Size /\ q \in Nat /\ q + 1 = p /\ m = At(p) /\ Knows(dinfo, q)
      BY <1>1, <2>3, ParsedOnTrack
    <3> HIDE DEF p, q, m
    <3>2. ASSUME m.k = "DHT" PROVE m.name = Tables
      <4>1. ~(p = Cut /\ Rest = Cut + 1)
        <5>1. ~(Rest = Cut + 1 /\ p = Cut /\ IsNoise(At(p)))
          BY <3>1, <3>2 DEF IsNoise
        <5>2. Cut \in Nat
          BY <3>1 DEF Torn
        <5>3. QED
          BY <3>1, <5>1, <5>2 DEF Torn
      <4>2. p < Cut \/ p >= Rest
        BY <3>1, <4>1 DEF Torn
      <4>3. \E i \in 1 .. Len(Tokens) : At(p) = Tokens[i]
        BY <3>1, <4>2 DEF Torn, InTokens
      <4>4. QED
        BY <3>1, <3>2, <4>3, TornPlaces
    <3>3. ASSUME Met(p, "DHT") PROVE d.tables = Tables
      <4>1. CASE m.k = "DHT"
        BY <1>5, <3>2, <4>1
      <4>2. CASE m.k # "DHT"
        <5>1. \A j \in 1 .. p : j \in 1 .. q \/ j = p
          BY <3>1
        <5>2. Met(q, "DHT")
          BY <3>1, <3>3, <4>2, <5>1 DEF Met
        <5>3. QED
          BY <1>5, <3>1, <4>2, <5>2 DEF Knows
      <4>3. QED
        BY <4>1, <4>2
    <3>4. ASSUME d.sawSOI PROVE d.interval \in Nat
      BY <1>2, <1>5, <3>1, <3>4 DEF Knows, IsToken
    <3>5. ASSUME d.sawSOI, p < Cut PROVE d.interval = IF Before(p, "DRI") THEN Interval ELSE 0
      <4>1. At(p) = Tokens[p] /\ p \in 1 .. Len(Tokens) /\ q < Cut
        BY <3>1, <3>5 DEF Torn, InTokens
      <4>2. CASE m.k = "DRI"
        <5>1. Before(p, "DRI")
          <6>1. p \in 1 .. p /\ Tokens[p].k = "DRI"
            BY <3>1, <4>1, <4>2
          <6>2. QED
            BY <6>1 DEF Before
        <5>2. m.n = Interval
          BY <3>1, <4>1, <4>2, TornPlaces
        <5>3. QED
          BY <1>5, <4>2, <5>1, <5>2
      <4>3. CASE m.k # "DRI"
        <5>1. \A j \in 1 .. p : j \in 1 .. q \/ j = p
          BY <3>1
        <5>2. \A j \in 1 .. q : j \in 1 .. p
          BY <3>1
        <5>3. Before(p, "DRI") <=> Before(q, "DRI")
          BY <3>1, <4>1, <4>3, <5>1, <5>2 DEF Before
        <5>4. dinfo.interval = IF Before(q, "DRI") THEN Interval ELSE 0
          BY <1>5, <3>1, <3>5, <4>1 DEF Knows
        <5>5. QED
          BY <1>5, <4>3, <5>3, <5>4
      <4>4. QED
        BY <4>2, <4>3
    <3>6. QED
      BY <3>3, <3>4, <3>5 DEF Knows, p
  <2>4. dinfo.unread.k # "SOS" /\ (dinfo.unread.k # "DHT" => d.tables = dinfo.tables)
    BY <1>1, <1>5
  <2>5. Go(d, pc)
    BY <1>1, <1>7
  <2> HIDE DEF m
  <2>6. QED
    BY <1>1, <1>5, <2>1, <2>2, <2>3, <2>4, <2>5, TakenKeepsTrackInv
<1>8. QED
  BY <1>6, <1>7

\* EOI ends a call on its track: all blocks of the scans behind are sure.
LEMMA GetEOIKeepsTrackInv ==
    ASSUME TypeInv, MarkerInv, StrayInv, WrittenInv, TrackInv, GetEOI PROVE TrackInv'
<1> DEFINE d == [dinfo EXCEPT !.unread = NoMarker, !.eoi = TRUE]
           e == [d EXCEPT !.state = "STOPPING"]
<1>1. Parsing({"EOI"}) /\ IF d.inheaders THEN Fail(d) ELSE Go(e, "finish")
  BY DEF GetEOI
<1>2. IsObject(dinfo) /\ pc # "idle" /\ dinfo.unread.k = "EOI" /\ warning' = warning
  BY <1>1, WhileParsing, WhileReading
<1>3. Keeps(dinfo, d, {"unread", "eoi"})
  BY <1>2 DEF IsObject, Fields, Keeps
<1>4. Keeps(dinfo, e, {"unread", "eoi", "state"}) /\ e.unread = NoMarker
  BY <1>2 DEF IsObject, Fields, Keeps
<1> HIDE DEF d, e
<1>5. /\ d.inheaders = dinfo.inheaders /\ e.inheaders = dinfo.inheaders /\ e.coefs = dinfo.coefs
      /\ e.scan = dinfo.scan /\ e.frame = dinfo.frame /\ e.tables = dinfo.tables
  BY <1>3, <1>4 DEF Keeps, Fields
<1>6. CASE d.inheaders
  BY <1>1, <1>6, FailKeepsTrackInv
<1>7. CASE ~d.inheaders
  <2>1. ~Doomed(dinfo, pc, next)
    BY <1>5, <1>7 DEF Doomed, Stuck
  <2>2. Borrowing(dinfo) => StillBorrows(e)
    BY <1>4, <1>5, ParsingStillBorrows
  <2>3. ASSUME OnTrack PROVE Track(e, "finish", next')
    <3>1. /\ next' = next /\ next - 2 \in Nat /\ (next - 2) + 1 = next - 1
          /\ dinfo.unread = At(next - 1) /\ Sought(dinfo, next - 2)
      BY <1>1, <1>2, <2>3, ParsedOnTrack
    <3>2. Sought(e, next - 1)
      <4>1. Sought(e, (next - 2) + 1)
        BY <1>2, <1>5, <3>1, SoughtOn
      <4>2. QED
        BY <3>1, <4>1
    <3>3. Ended(e, next)
      BY <1>5, <1>7, <3>2 DEF Sought, Ended
    <3>4. QED
      BY <3>1, <3>3 DEF Track
  <2>4. Go(e, "finish") /\ (warning => warning')
    BY <1>1, <1>2, <1>7
  <2>5. QED
    BY <1>2, <2>1, <2>2, <2>3, <2>4, GoKeepsTrackInv
<1>8. QED
  BY <1>6, <1>7

\* Behind the header of a scan its data opens, or the interval is known.
LEMMA OpeningHere ==
    ASSUME Torn, FileInv, NEW n \in 2 .. Size + 1, NEW d, Knows(d, n - 2), Knows(d, n - 1), d.sawSOI,
           At(n - 1).k = "SOS", At(n - 1).comps = d.scan, d.last = 0, d.toGo = d.interval, d.mcu = 0
    PROVE  Opening(d, n)
<1>1. /\ n \in Nat /\ Size \in Nat /\ Cut \in Nat /\ Rest \in Nat /\ n \in 1 .. Size + 1
      /\ n - 1 \in 1 .. Size /\ n - 1 \in 1 .. n - 1 /\ n - 2 \in Nat /\ Shift \in Int
      /\ Rest = Cut \/ Rest = Cut + 1
  BY DEF Torn
<1>2. ASSUME At(n).k = "data"
      PROVE  (n >= Cut /\ d.interval = Interval) \/ IsMcu(At(n), d.mcu + 1, d.scan, TRUE)
  <2>1. CASE Whole(n)
    <3>1. SideBySide(At(n - 1), At(n))
      BY <2>1, WholeFits
    <3>2. d.mcu + 1 = 1
      OBVIOUS
    <3>3. QED
      BY <3>1, <3>2 DEF SideBySide
  <2>2. CASE n = Cut
    <3>1. d.interval = Interval
      BY <1>1, <2>2, IntervalInScan
    <3>2. QED
      BY <1>1, <2>2, <3>1
  <2>3. CASE n = Cut + 1 /\ Rest = Cut + 1
    <3>1. n \in 1 .. Size
      <4>1. n # Size + 1
        BY <1>2, AtTheEnd, TokenFacts
      <4>2. QED
        BY <1>1, <4>1
    <3>2. At(n) = Tokens[n + Shift] /\ n + Shift \in 1 .. Len(Tokens) /\ n + Shift \in {Cut, Cut + 1}
      <4>1. n >= Rest
        BY <1>1, <2>3
      <4>2. QED
        BY <2>3, <3>1, <4>1 DEF Torn, InTokens
    <3>3. First \in Nat /\ n + Shift >= First /\ n + Shift # First
      BY <1>2, <3>2, TornPlaces
    <3>4. n - 2 < Cut /\ (n - 2) + 1 >= First
      <4> DEFINE k == n + Shift
      <4>1. k \in {Cut, Cut + 1} /\ k >= First /\ k # First /\ First \in Nat
        BY <3>2, <3>3
      <4> HIDE DEF k
      <4>2. Cut >= First
        BY <1>1, <4>1
      <4>3. n = Cut + 1
        BY <2>3
      <4>4. QED
        BY ONLY <1>1, <3>3, <4>2, <4>3
    <3>5. d.interval = Interval
      BY <1>1, <3>4, IntervalIsKnown
    <3>6. n >= Cut
      BY <1>1, <2>3
    <3>7. QED
      BY <3>5, <3>6
  <2>4. n < Cut \/ n > Rest \/ n = Cut \/ (n = Cut + 1 /\ Rest = Cut + 1)
    BY <1>1
  <2>5. QED
    BY <2>1, <2>2, <2>3, <2>4 DEF Whole
<1>3. QED
  BY <1>2 DEF Opening

\* The tables of the file are tables.
LEMMA TablesAreThere ==
    ASSUME Torn PROVE Tables # None
<1>1. /\ Layout(Tokens, FrameAt, First, Interval, Tables) /\ DOMAIN Tokens = 1 .. Len(Tokens)
      /\ \A p \in 1 .. Len(Tokens) : IsToken(Tokens[p])
      /\ First \in Nat /\ First < Len(Tokens) /\ Len(Tokens) \in Nat
  BY TornPlaces DEF Torn
<1>2. CASE \E i \in 2 .. First - 1 : Tokens[i].k = "DHT"
  <2>1. PICK i \in 2 .. First - 1 : Tokens[i].k = "DHT"
    BY <1>2
  <2>2. i \in 1 .. Len(Tokens)
    BY <1>1
  <2>3. Tokens[i].name = Tables
    BY <2>1, <2>2, TornPlaces
  <2>4. QED
    BY <1>1, <2>1, <2>2, <2>3 DEF IsToken
<1>3. CASE Tables = "standard"
  BY <1>3 DEF None
<1>4. QED
  BY <1>1, <1>2, <1>3 DEF Layout

\* What an object is when a pass is about to begin: d is the one that was reading.
Begins(d, e, n) ==
    /\ e.unread = NoMarker /\ e.scan = At(n - 1).comps
    /\ e.frame = d.frame /\ e.sawSOI = d.sawSOI /\ e.interval = d.interval
    /\ IF d.inheaders
       THEN /\ e.tables = (IF d.tables = None THEN "standard" ELSE d.tables)
            /\ e.coefs = [c \in e.frame.comps |-> [i \in 1 .. e.frame.n |-> Blank]]
       ELSE e.tables = d.tables /\ e.coefs = d.coefs

\* What a pass begins with.
LEMMA BlocksAtFirst ==
    ASSUME NEW d, NEW e, NEW n \in Nat, n >= 2, Begins(d, e, n), Sought(d, n - 2), At(n - 1).k = "SOS",
           d.frame = Tokens[FrameAt], d.frame.n \in Nat
    PROVE  Blocks(e) /\ Filled(e, n - 1, 0)
<1>1. n - 2 \in Nat /\ n - 1 \in Nat /\ \A j \in 1 .. n - 1 : j \in 1 .. n - 2 \/ j = n - 1
  OBVIOUS
<1>2. CASE d.inheaders
  <2>1. ASSUME NEW c \in e.frame.comps
        PROVE  /\ DOMAIN e.coefs[c] = 1 .. e.frame.n
               /\ \A m \in 1 .. e.frame.n : e.coefs[c][m] = Blank
    BY <1>2 DEF Begins
  <2>2. Blocks(e)
    BY <2>1 DEF Blocks
  <2>3. ASSUME NEW j \in 1 .. n - 1, At(j).k = "SOS" PROVE At(j).comps = e.scan
    BY <1>1, <1>2, <2>3 DEF Begins, Sought, Met
  <2>4. 1 .. 0 = {}
    OBVIOUS
  <2>5. Filled(e, n - 1, 0)
    BY <2>3, <2>4 DEF Filled
  <2>6. QED
    BY <2>2, <2>5
<1>3. CASE ~d.inheaders
  <2>1. Blocks(d) /\ Filled(d, n - 2, d.frame.n) /\ e.coefs = d.coefs /\ e.frame = d.frame
    BY <1>3 DEF Begins, Sought
  <2>2. \A c, m : Sure(e, c, m) <=> Sure(d, c, m)
    BY <2>1 DEF Sure, Right
  <2>3. Blocks(e)
    BY <2>1, <2>2 DEF Blocks
  <2>4. ASSUME NEW j \in 1 .. n - 1, At(j).k = "SOS", NEW c \in At(j).comps \cap e.frame.comps,
               NEW m \in 1 .. (IF c \in e.scan THEN 0 ELSE e.frame.n)
        PROVE  Sure(e, c, m)
    <3>1. c \notin e.scan /\ m \in 1 .. e.frame.n
      BY <2>4
    <3>2. j \in 1 .. n - 2
      BY <1>1, <3>1 DEF Begins
    <3>3. Sure(d, c, m)
      BY <2>1, <2>4, <3>1, <3>2 DEF Filled
    <3>4. QED
      BY <2>2, <3>3
  <2>5. Filled(e, n - 1, 0)
    BY <2>4 DEF Filled
  <2>6. QED
    BY <2>3, <2>5
<1>4. QED
  BY <1>2, <1>3

\* A pass that begins so is on its track.
LEMMA PassBegins ==
    ASSUME Torn, FileInv, NEW n \in 2 .. Size + 1, NEW d, NEW e, IsObject(e), Begins(d, e, n),
           Knows(d, n - 2), Sought(d, n - 2), d.sawSOI, At(n - 1).k = "SOS",
           d.frame = Tokens[FrameAt], d.frame.n \in Nat
    PROVE  Pass(PassStarted(e), n)
<1> DEFINE f == PassStarted(e)
<1>1. n \in Nat /\ Size \in Nat /\ n - 1 \in 1 .. Size /\ n - 2 \in Nat /\ n - 1 \in n - 2 .. Size
      /\ (n - 2) + 1 = n - 1
  BY DEF Torn
<1>0. /\ Keeps(e, f, {"consume", "mcu", "insufficient", "toGo", "last", "latched"})
      /\ f.mcu = 0 /\ f.insufficient = FALSE /\ f.toGo = e.interval /\ f.last = 0
  BY PassStartedFields
<1> HIDE DEF f
<1>2. /\ ~f.insufficient /\ f.unread = NoMarker /\ f.scan = e.scan /\ f.frame = e.frame
      /\ f.tables = e.tables /\ f.sawSOI = e.sawSOI /\ f.interval = e.interval
      /\ f.coefs = e.coefs /\ f.mcu = 0 /\ f.last = 0 /\ f.toGo = f.interval
  BY <1>0 DEF Keeps, Begins, Fields
<1>3. e.sawSOI /\ e.interval = d.interval /\ e.frame = d.frame /\ e.scan = At(n - 1).comps
  BY DEF Begins
<1>4. Knows(f, n - 2)
  <2>1. Met(n - 2, "DHT") => e.tables = Tables
    BY TablesAreThere DEF Knows, Begins
  <2>2. QED
    BY <1>2, <1>3, <2>1 DEF Knows
<1>5. Knows(f, n - 1)
  <2>1. \A j \in (n - 2) + 1 .. n - 1 : At(j).k \notin {"DHT", "DRI"}
    BY <1>1
  <2>2. QED
    BY <1>1, <1>4, <2>1, KnowsOn
<1>6. f.tables # None
  BY <1>2 DEF Begins, Sought, None
<1>7. LatestScan(f, n)
  <2>1. n - 1 \in 1 .. n - 1 /\ \A l \in (n - 1) + 1 .. n - 1 : At(l).k # "SOS"
    BY <1>1
  <2>2. QED
    BY <1>2, <1>3, <2>1 DEF LatestScan
<1>8. Busy(f, n)
  BY <1>2, <1>3, <1>5, <1>6, <1>7 DEF Busy
<1>9. Counts(f)
  <2>1. f.interval \in Nat
    BY <1>2, <1>3, <1>4 DEF Knows
  <2>2. ASSUME f.interval > 0 PROVE f.toGo \in 0 .. f.interval /\ (f.mcu + f.toGo) % f.interval = 0
    <3>1. 0 + f.interval = f.interval /\ f.interval % f.interval = 0 /\ f.interval \in 0 .. f.interval
      BY <2>1, <2>2
    <3>2. QED
      BY <1>2, <3>1
  <2>3. f.mcu \in Nat
    BY <1>2
  <2>4. QED
    BY <2>1, <2>2, <2>3 DEF Counts
<1>10. Blocks(f) /\ Filled(f, n - 1, f.mcu)
  <2>1. Blocks(e) /\ Filled(e, n - 1, 0)
    BY <1>1, BlocksAtFirst
  <2>2. QED
    BY <1>2, <2>1, SameBlocks
<1>11. Opening(f, n)
  BY <1>2, <1>3, <1>4, <1>5, OpeningHere
<1>12. QED
  BY <1>8, <1>9, <1>10, <1>11 DEF Pass, InOrBeside, f

LEMMA StartKeepsTrackInv ==
    ASSUME TypeInv, MarkerInv, StrayInv, WrittenInv, TrackInv, Parsing({"SOS"}), NEW e, IsObject(e),
           StartInputPass(e), ~Doomed(dinfo, pc, next),
           dinfo.tables # None => e.tables = dinfo.tables, e.unread = NoMarker,
           OnTrack => Begins(dinfo, e, next), OnTrack => dinfo.frame = Tokens[FrameAt]
    PROVE  TrackInv'
<1>1. pc # "idle" /\ dinfo.unread.k = "SOS" /\ dinfo.sawSOI /\ warning' = warning
  BY WhileParsing, WhileReading
<1>2. CASE e.quant = None
  <2>1. Fail(e)
    BY <1>2, InputPass
  <2>2. QED
    BY <2>1, FailKeepsTrackInv
<1>3. CASE e.quant # None
  <2> DEFINE f == PassStarted(e)
  <2>1. Go(f, "coefficients")
    BY <1>3, InputPass
  <2>2. f.unread = e.unread /\ f.tables = e.tables
    <3>1. Keeps(e, f, {"consume", "mcu", "insufficient", "toGo", "last", "latched"})
      BY PassStartedFields
    <3> HIDE DEF f
    <3>2. QED
      BY <3>1 DEF Keeps, Fields
  <2>3. Borrowing(dinfo) => StillBorrows(f)
    <3>1. ASSUME Borrowing(dinfo) PROVE e.tables = dinfo.tables /\ e.unread = NoMarker
      BY <3>1 DEF Borrowing
    <3> HIDE DEF f
    <3>2. QED
      BY <2>2, <3>1, ParsingStillBorrows
  <2>4. ASSUME OnTrack PROVE Track(f, "coefficients", next')
    <3>1. /\ Torn /\ FileInv /\ next' = next /\ next \in 2 .. Size + 1 /\ At(next - 1).k = "SOS"
          /\ Knows(dinfo, next - 2) /\ Sought(dinfo, next - 2)
      BY <1>1, <2>4, ParsedOnTrack
    <3>2. dinfo.frame = Tokens[FrameAt] /\ dinfo.frame.n \in Nat
      BY <2>4, <3>1, TornPlaces DEF Many
    <3>3. Pass(f, next)
      BY <1>1, <2>4, <3>1, <3>2, PassBegins
    <3> HIDE DEF f
    <3>4. QED
      BY <3>1, <3>3 DEF Track
  <2> HIDE DEF f
  <2>5. QED
    BY <1>1, <2>1, <2>3, <2>4, GoKeepsTrackInv
<1>4. QED
  BY <1>2, <1>3

\* SOS begins a pass, of the first scan or a later one.
LEMMA GetSOSKeepsTrackInv ==
    ASSUME TypeInv, MarkerInv, StrayInv, WrittenInv, TrackInv, GetSOS PROVE TrackInv'
<1>0. CASE warning'
  BY <1>0, WarningsKeepTrackInv
<1> SUFFICES ASSUME ~warning' PROVE TrackInv'
  BY <1>0
<1> DEFINE comps == dinfo.unread.comps
           d == ScanBegun
           headers == HeaderEnded
           e == Select(headers)
<1>1. Parsing({"SOS"})
  BY ScanHeader
<1>2. /\ IsObject(dinfo) /\ call \in {"header", "transform"} /\ ~dinfo.eoi /\ IsToken(dinfo.unread)
      /\ dinfo.unread.k = "SOS" /\ ReadingOK(dinfo, next, call)
  BY <1>1, WhileParsing, WhileReading
<1>3. /\ Keeps(dinfo, d, {"unread", "scan", "expected"})
      /\ d.unread = NoMarker /\ d.scan = comps
  BY <1>2, ScanFields
<1>4. Keeps(d, headers, {"inheaders", "state", "multiple", "colours"})
  BY <1>2, ScanFields
<1>5. /\ Keeps(headers, e, {"state", "tables", "latched", "coefs"})
      /\ e.tables = (IF headers.tables = None THEN "standard" ELSE headers.tables)
      /\ e.coefs = [c \in headers.frame.comps |-> [i \in 1 .. headers.frame.n |-> Blank]]
  BY <1>4, SelectFields DEF Keeps
<1>6. IF BadScan THEN Fail(dinfo)
      ELSE IF ~d.inheaders
           THEN IF d.multiple THEN StartInputPass(d) ELSE Fail(d)
           ELSE IF d.frame.name # None THEN Fail(d)
           ELSE IF call = "header" THEN Go(headers, "finish")
           ELSE IF Unnamed(headers.frame) THEN Fail(headers) ELSE StartInputPass(e)
  BY ScanHeader
<1>7. comps = dinfo.unread.comps /\ comps # {}
  BY <1>2 DEF IsToken
<1> HIDE DEF d, headers, e, comps
<1>8. /\ IsObject(d) /\ IsObject(headers) /\ IsObject(e)
      /\ d.inheaders = dinfo.inheaders /\ d.frame = dinfo.frame /\ d.tables = dinfo.tables
      /\ d.sawSOI = dinfo.sawSOI /\ d.interval = dinfo.interval /\ d.coefs = dinfo.coefs
  BY <1>3, <1>4, <1>5 DEF Keeps, Fields
<1>9. /\ e.unread = NoMarker /\ e.scan = comps /\ e.frame = dinfo.frame /\ e.sawSOI = dinfo.sawSOI
      /\ e.interval = dinfo.interval
      /\ e.tables = (IF dinfo.tables = None THEN "standard" ELSE dinfo.tables)
      /\ e.coefs = [c \in e.frame.comps |-> [i \in 1 .. e.frame.n |-> Blank]]
  BY <1>3, <1>4, <1>5 DEF Keeps, Fields
<1>10. CASE Fail(dinfo) \/ Fail(d) \/ Fail(headers)
  BY <1>10, FailKeepsTrackInv
<1>11. CASE Go(headers, "finish") /\ call = "header"
  BY <1>11 DEF Go, TrackInv
<1>12. CASE /\ ~Stale /\ comps \subseteq dinfo.frame.comps
            /\ \/ ~dinfo.inheaders /\ StartInputPass(d)
               \/ dinfo.inheaders /\ dinfo.frame.name = None /\ StartInputPass(e)
  <2>1. ~Doomed(dinfo, pc, next)
    BY <1>2, <1>12 DEF Doomed, Stuck, Stale
  <2>2. ASSUME OnTrack PROVE dinfo.frame = Tokens[FrameAt]
    <3>1. Sought(dinfo, next - 2)
      BY <1>1, <1>2, <2>2, ParsedOnTrack
    <3>2. dinfo.frame # NoMarker
      BY <1>7, <1>12, TokenFacts
    <3>3. QED
      BY <1>12, <3>1, <3>2 DEF Sought
  <2>3. ASSUME OnTrack PROVE comps = At(next - 1).comps
    BY <1>1, <1>7, <2>3, ParsedOnTrack
  <2>4. CASE ~dinfo.inheaders /\ StartInputPass(d)
    <3>1. OnTrack => Begins(dinfo, d, next)
      BY <1>3, <1>8, <2>3, <2>4 DEF Begins
    <3>2. dinfo.tables = d.tables /\ d.unread = NoMarker
      BY <1>3, <1>8
    <3>3. QED
      BY <1>1, <1>8, <2>1, <2>2, <2>4, <3>1, <3>2, StartKeepsTrackInv
  <2>5. CASE dinfo.inheaders /\ StartInputPass(e)
    <3>1. OnTrack => Begins(dinfo, e, next)
      BY <1>9, <2>3, <2>5 DEF Begins
    <3>2. (dinfo.tables # None => e.tables = dinfo.tables) /\ e.unread = NoMarker
      BY <1>9
    <3>3. QED
      BY <1>1, <1>8, <2>1, <2>2, <2>5, <3>1, <3>2, StartKeepsTrackInv
  <2>6. QED
    BY <1>12, <2>4, <2>5
<1>13. QED
  BY <1>2, <1>6, <1>7, <1>8, <1>10, <1>11, <1>12 DEF BadScan

\* An unexpected marker and missing data are warned of.
LEMMA ResyncKeepsTrackInv ==
    ASSUME TypeInv, Discard \/ Skip \/ Leave \/ StuffZeros PROVE TrackInv'
<1>1. CASE StuffZeros \/ Skip
  BY <1>1, WarningsKeepTrackInv DEF StuffZeros, Skip
<1>2. CASE Discard \/ Leave
  <2>1. pc = "resync" /\ warning' = warning
    BY <1>2 DEF Discard, Leave, Resync
  <2>2. warning
    BY <2>1, WhileDecoding
  <2>3. QED
    BY <2>1, <2>2, WarningsKeepTrackInv
<1>3. QED
  BY <1>1, <1>2

\* A restart marker that is due is accepted on the track, or it is warned of.
LEMMA ReadRestartMarkerKeepsTrackInv ==
    ASSUME TypeInv, MarkerInv, StrayInv, WrittenInv, TrackInv, ReadRestartMarker PROVE TrackInv'
<1> DEFINE met == dinfo.unread # NoMarker
           found == NextMarker(next)
           marker == IF met THEN dinfo.unread ELSE At(found)
           d == [dinfo EXCEPT !.unread = NoMarker]
<1>1. /\ Decoding /\ dinfo.interval > 0 /\ dinfo.toGo = 0
      /\ next' = IF met THEN next ELSE After(found)
      /\ \/ Accepts(marker, dinfo.expected) /\ Resume(d) /\ warning' = (warning \/ (~met /\ found > next))
         \/ warning' = TRUE
  BY DEF ReadRestartMarker
<1>2. /\ FileInv /\ IsObject(dinfo) /\ next \in 1 .. Size + 1 /\ pc = "coefficients" /\ Size \in Nat
      /\ DecodingOK(dinfo, call) /\ warning \in BOOLEAN
      /\ ~warning => dinfo.unread = NoMarker
  BY <1>1, WhileDecoding, SizeIsNat DEF Decoding
<1>3. Keeps(dinfo, d, {"unread"}) /\ d.unread = NoMarker
  BY <1>2, UnreadField
<1>4. found \in 1 .. Size + 1 /\ found >= next
  BY <1>2, FoundInFile
<1> HIDE DEF d, found
<1> DEFINE e == Resumed(d)
<1>5. /\ IsObject(d) /\ Keeps(d, e, {"expected", "toGo", "last", "insufficient"})
      /\ e.toGo = d.interval /\ e.last = 0 /\ (e.insufficient => d.insufficient)
  BY <1>3, ResumedFields DEF Keeps
<1>6. CASE warning'
  BY <1>6, WarningsKeepTrackInv
<1>7. CASE ~warning'
  <2>1. /\ Accepts(marker, dinfo.expected) /\ Go(e, "coefficients") /\ ~warning /\ ~(~met /\ found > next)
    BY <1>1, <1>5, <1>7, ResumedFields
  <2> HIDE DEF e
  <2>2. ~met /\ found = next /\ marker = At(next)
    <3>1. ~met
      BY <1>2, <2>1
    <3>2. found = next
      BY <1>2, <1>4, <2>1, <3>1
    <3>3. QED
      BY <3>1, <3>2
  <2>3. At(next).k = "RST"
    BY <2>1, <2>2 DEF Accepts, Counting, Marker
  <2>4. next \in 1 .. Size /\ next' = next + 1
    BY <1>1, <1>2, <2>2, <2>3, InTheFile
  <2>5. /\ d.tables = dinfo.tables /\ SameDuty(dinfo, e) /\ e.coefs = dinfo.coefs /\ e.mcu = dinfo.mcu
        /\ e.toGo = dinfo.interval /\ e.last = 0
    BY <1>3, <1>5, <2>2 DEF Keeps, Fields, SameDuty
  <2>6. Borrowing(dinfo) => StillBorrows(e)
    BY <1>2, <2>2, <2>5, DecodingStillBorrows DEF SameDuty
  <2>7. ~Doomed(dinfo, pc, next)
    BY <1>2 DEF Doomed
  <2>8. ASSUME OnTrack PROVE Track(e, "coefficients", next')
    <3>1. Torn /\ Pass(dinfo, next)
      BY <1>2, <2>8, WhileOnTrack
    <3>2. dinfo.sawSOI
      BY <1>2 DEF DecodingOK, Ready
    <3>3. Pass(e, next + 1)
      BY <1>1, <1>2, <2>3, <2>4, <2>5, <3>1, <3>2, RestartOn
    <3>4. QED
      BY <2>4, <3>3 DEF Track
  <2>9. pc # "idle" /\ (warning => warning')
    BY <1>2, <2>1
  <2>10. QED
    BY <2>1, <2>6, <2>7, <2>8, <2>9, GoKeepsTrackInv
<1>8. QED
  BY <1>6, <1>7

\* The MCU that has been stored is counted, and may be the last of the pass.
LEMMA CountedKeepsTrackInv ==
    ASSUME TypeInv, MarkerInv, StrayInv, WrittenInv, TrackInv, pc = "coefficients", NEW d,
           Keeps(dinfo, d, {"coefs", "last"}), NEW i \in 1 .. Size + 1, Counted(d, i), warning => warning',
           OnTrack => Pass(CountedOne(d), i) /\ d.last # 0
    PROVE  TrackInv'
<1> DEFINE c == CountedOne(d)
           e == PassOver(d)
<1>1. /\ FileInv /\ IsObject(dinfo) /\ next \in 1 .. Size + 1 /\ Size \in Nat
      /\ DecodingOK(dinfo, call) /\ dinfo.frame.n \in Nat
      /\ ~warning => dinfo.unread = NoMarker
  BY WhileDecoding, SizeIsNat
<1>2. /\ d.unread = dinfo.unread /\ d.frame = dinfo.frame /\ d.tables = dinfo.tables /\ d.mcu = dinfo.mcu
      /\ d.state = dinfo.state /\ d.inheaders = dinfo.inheaders /\ d.sawSOI = dinfo.sawSOI
      /\ IsObject(d)
  BY DEF Keeps, Fields
<1>3. /\ Keeps(d, c, {"toGo", "mcu"}) /\ c.mcu = d.mcu + 1
      /\ Keeps(d, e, {"toGo", "mcu", "consume"})
  BY <1>2, CountedFields
<1>4. IF c.mcu < d.frame.n
      THEN Go(c, "coefficients") /\ next' = i
      ELSE /\ Go(e, "reading")
           /\ next' \in IF d.unread = NoMarker THEN i..(i + Min2(1, Run(i))) ELSE {i}
  BY DEF Counted, CountedOne, PassOver
<1>5. OnTrack => Pass(c, i)
  OBVIOUS
<1> HIDE DEF c, e
<1>6. /\ c.tables = d.tables /\ c.unread = d.unread /\ e.tables = d.tables /\ e.unread = d.unread
      /\ c.frame = d.frame /\ c.last = d.last /\ c.sawSOI = d.sawSOI
      /\ SameDuty(c, e) /\ e.coefs = c.coefs /\ e.state = d.state /\ e.inheaders = d.inheaders
  BY <1>3 DEF Keeps, Fields, SameDuty
<1>7. Borrowing(dinfo) => StillBorrows(c) /\ StillBorrows(e)
  BY <1>2, <1>6 DEF StillBorrows, Borrowing
<1>8. ~Doomed(dinfo, pc, next) /\ pc # "idle"
  BY DEF Doomed
<1>9. CASE c.mcu < d.frame.n
  <2>1. Go(c, "coefficients") /\ next' = i
    BY <1>4, <1>9
  <2>2. OnTrack => Track(c, "coefficients", next')
    BY <1>5, <2>1 DEF Track
  <2>3. QED
    BY <1>7, <1>8, <2>1, <2>2, GoKeepsTrackInv
<1>10. CASE ~(c.mcu < d.frame.n)
  <2>1. Go(e, "reading")
        /\ next' \in IF d.unread = NoMarker THEN i..(i + Min2(1, Run(i))) ELSE {i}
    BY <1>4, <1>10
  <2>2. ASSUME OnTrack PROVE Track(e, "reading", next')
    <3>1. Torn /\ ~warning
      BY <2>2, WhileOnTrack
    <3>2. next' \in i..(i + Min2(1, Run(i)))
      BY <1>1, <1>2, <2>1, <3>1
    <3>3. next' \in 1 .. Size + 1 /\ (next' = i \/ (next' = i + 1 /\ At(i).k = "data"))
      BY <1>1, <3>2, CountedPlace
    <3>4. c.mcu = c.frame.n
      BY <1>1, <1>2, <1>3, <1>6, <1>10 DEF DecodingOK
    <3>5. e.state = "RDCOEFS" /\ ~e.inheaders /\ c.sawSOI /\ c.last # 0
      BY <1>1, <1>2, <1>6, <2>2 DEF DecodingOK, Ready
    <3>6. ReadOn(e, next') \/ DataAhead(e, next')
      BY <1>1, <1>5, <1>6, <2>2, <3>1, <3>3, <3>4, <3>5, PassEnds
    <3>7. QED
      BY <3>6 DEF Track
  <2>3. QED
    BY <1>7, <1>8, <2>1, <2>2, GoKeepsTrackInv
<1>11. QED
  BY <1>9, <1>10

\* On the track no segment has ended early.
LEMMA LeaveMcuKeepsTrackInv ==
    ASSUME TypeInv, MarkerInv, StrayInv, WrittenInv, TrackInv, LeaveMcu PROVE TrackInv'
<1>1. pc = "coefficients" /\ Counted(dinfo, next) /\ dinfo.insufficient /\ warning' = warning
  BY DEF LeaveMcu, McuDue, Decoding
<1>2. IsObject(dinfo) /\ next \in 1 .. Size + 1
  BY <1>1, WhileDecoding
<1>3. Keeps(dinfo, dinfo, {"coefs", "last"})
  BY <1>2 DEF Keeps
<1>4. ~OnTrack
  BY <1>1, WhileOnTrack DEF Pass, Busy
<1>5. QED
  BY <1>1, <1>2, <1>3, <1>4, CountedKeepsTrackInv

\* What holds when there is data for an MCU.
LEMMA WhileStoring ==
    ASSUME TypeInv, MarkerInv, StrayInv, WrittenInv, HasData
    PROVE  /\ pc = "coefficients" /\ IsObject(dinfo) /\ FileInv /\ next \in 1 .. Size
           /\ next + 1 \in 1 .. Size + 1
           /\ At(next).k = "data" /\ Storing(dinfo) /\ dinfo.sawSOI /\ call = "transform"
           /\ dinfo.interval = 0 \/ dinfo.toGo > 0
           /\ OnTrack => Torn /\ Pass(dinfo, next) /\ ~Borrowing(dinfo)
<1>1. /\ pc = "coefficients" /\ At(next).k = "data" /\ (dinfo.interval = 0 \/ dinfo.toGo > 0)
  BY DEF HasData, McuDue, Decoding
<1>2. /\ IsObject(dinfo) /\ FileInv /\ next \in 1 .. Size + 1 /\ DecodingOK(dinfo, call)
      /\ dinfo.frame.n \in Nat /\ call = "transform" /\ Size \in Nat
  BY <1>1, WhileDecoding, SizeIsNat
<1>3. next \in 1 .. Size
  BY <1>1, <1>2, InTheFile
<1>4. next + 1 \in 1 .. Size + 1
  BY <1>2, <1>3
<1>5. Storing(dinfo) /\ dinfo.sawSOI
  BY <1>2 DEF DecodingOK, Ready, Storing
<1>6. OnTrack => Torn /\ Pass(dinfo, next) /\ ~Borrowing(dinfo)
  BY <1>1, WhileOnTrack DEF OnTrack
<1>7. QED
  BY <1>1, <1>2, <1>3, <1>4, <1>5, <1>6

\* The object when the MCU has been stored and counted.
StoredIn(d, value, last) ==
    /\ Keeps(dinfo, d, {"coefs", "last"}) /\ d.last = last
    /\ SameDuty(dinfo, CountedOne(d)) /\ CountedOne(d).coefs = Stored(dinfo, value)
    /\ CountedOne(d).last = last /\ CountedOne(d).mcu = dinfo.mcu + 1
    /\ CountedOne(d).toGo = dinfo.toGo - 1
LEMMA StoredAndCounted ==
    ASSUME IsObject(dinfo), NEW value, NEW last
    PROVE  StoredIn([Store(dinfo, value) EXCEPT !.last = last], value, last)
<1> DEFINE e == Store(dinfo, value)
           d == [e EXCEPT !.last = last]
           c == CountedOne(d)
<1>1. Keeps(dinfo, e, {"coefs"}) /\ e.coefs = Stored(dinfo, value)
  BY StoreFields
<1> HIDE DEF e
<1>2. Keeps(e, d, {"last"}) /\ d.last = last
  BY <1>1 DEF Keeps, IsObject, Fields
<1> HIDE DEF d
<1>3. Keeps(d, c, {"toGo", "mcu"}) /\ c.mcu = d.mcu + 1 /\ c.toGo = d.toGo - 1
  BY <1>1, <1>2, CountedFields DEF Keeps
<1> HIDE DEF c
<1>4. StoredIn(d, value, last)
  BY <1>1, <1>2, <1>3 DEF Keeps, Fields, SameDuty, StoredIn, c
<1>5. QED
  BY <1>4 DEF d, e

\* Decoding keeps the track, in step with the data or not.
LEMMA DecodeMcuKeepsTrackInv ==
    ASSUME TypeInv, MarkerInv, StrayInv, WrittenInv, TrackInv, DecodeMcu PROVE TrackInv'
<1> DEFINE t == At(next)
           d == [Store(dinfo, t.v) EXCEPT !.last = t.n]
<1>1. HasData /\ InStep(t) /\ Counted(d, next + 1) /\ warning' = warning
  BY DEF DecodeMcu
<1>2. /\ pc = "coefficients" /\ IsObject(dinfo) /\ FileInv /\ next \in 1 .. Size
      /\ next + 1 \in 1 .. Size + 1
      /\ t.k = "data" /\ Storing(dinfo) /\ dinfo.sawSOI /\ call = "transform"
      /\ dinfo.interval = 0 \/ dinfo.toGo > 0
      /\ OnTrack => Torn /\ Pass(dinfo, next) /\ ~Borrowing(dinfo)
  BY <1>1, WhileStoring
<1>3. /\ Keeps(dinfo, d, {"coefs", "last"}) /\ d.last = t.n
      /\ SameDuty(dinfo, CountedOne(d)) /\ CountedOne(d).coefs = Stored(dinfo, t.v)
      /\ CountedOne(d).last = t.n /\ CountedOne(d).mcu = dinfo.mcu + 1
      /\ CountedOne(d).toGo = dinfo.toGo - 1
  <2>1. StoredIn(d, t.v, t.n)
    BY <1>2, StoredAndCounted
  <2> HIDE DEF d, t
  <2>2. QED
    BY <2>1 DEF StoredIn
<1> HIDE DEF d
<1>4. Matches(dinfo, t)
  BY <1>1 DEF InStep, Matches
<1>5. ASSUME OnTrack PROVE Pass(CountedOne(d), next + 1) /\ d.last # 0
  <2>1. Torn /\ Pass(dinfo, next)
    BY <1>2, <1>5
  <2>2. Pass(CountedOne(d), next + 1)
    BY <1>2, <1>3, <1>4, <2>1, DecodedOn
  <2>3. t.n \in 1 .. Many
    BY <1>2, <1>4, <2>1, InStepPlace
  <2>4. QED
    BY <1>3, <2>2, <2>3
<1>6. QED
  BY <1>1, <1>2, <1>3, <1>5, CountedKeepsTrackInv

LEMMA DecodeOutOfStepKeepsTrackInv ==
    ASSUME TypeInv, MarkerInv, StrayInv, WrittenInv, TrackInv, DecodeOutOfStep PROVE TrackInv'
<1> DEFINE value == [c \in dinfo.scan |-> Bogus]
           d == [Store(dinfo, value) EXCEPT !.last = -1]
<1>1. HasData /\ ~InStep(At(next)) /\ warning' \in {warning, TRUE}
  BY DEF DecodeOutOfStep
<1>2. PICK i \in next..NextMarker(next) : Counted(d, i)
  BY DEF DecodeOutOfStep
<1>3. /\ pc = "coefficients" /\ IsObject(dinfo) /\ FileInv /\ next \in 1 .. Size
      /\ At(next).k = "data" /\ Storing(dinfo) /\ dinfo.sawSOI /\ call = "transform"
      /\ dinfo.interval = 0 \/ dinfo.toGo > 0
      /\ OnTrack => Torn /\ Pass(dinfo, next) /\ ~Borrowing(dinfo)
  BY <1>1, WhileStoring
<1>4. i \in next .. Size + 1 /\ \A j \in next .. i - 1 : At(j).k = "data"
  <2>1. Size \in Nat /\ next \in 1 .. Size + 1
    BY <1>3, SizeIsNat
  <2>2. NextMarker(next) \in next .. Size + 1 /\ \A j \in next .. NextMarker(next) - 1 : At(j).k = "data"
    BY <1>3, <2>1, MarkerIsFound
  <2> DEFINE m == NextMarker(next)
  <2>3. i \in next .. m /\ m \in next .. Size + 1 /\ \A j \in next .. m - 1 : At(j).k = "data"
    BY <1>2, <2>2
  <2> HIDE DEF m
  <2>4. QED
    BY <2>1, <2>3
<1>5. i \in 1 .. Size + 1
  BY <1>3, <1>4, SizeIsNat
<1> HIDE DEF value
<1>6. /\ Keeps(dinfo, d, {"coefs", "last"}) /\ d.last = -1
      /\ SameDuty(dinfo, CountedOne(d)) /\ CountedOne(d).coefs = Stored(dinfo, value)
      /\ CountedOne(d).last = -1 /\ CountedOne(d).mcu = dinfo.mcu + 1
      /\ CountedOne(d).toGo = dinfo.toGo - 1
  <2>1. StoredIn(d, value, -1)
    BY <1>3, StoredAndCounted
  <2> HIDE DEF d
  <2>2. QED
    BY <2>1 DEF StoredIn
<1> HIDE DEF d
<1>7. ~Matches(dinfo, At(next))
  BY <1>1 DEF InStep, Matches
<1>8. ASSUME OnTrack PROVE Pass(CountedOne(d), i) /\ d.last # 0
  <2>1. Torn /\ Pass(dinfo, next) /\ ~Borrowing(dinfo)
    BY <1>3, <1>8
  <2>2. CountedOne(d).coefs = Stored(dinfo, [c \in dinfo.scan |-> Bogus])
    BY <1>6 DEF value
  <2>3. Pass(CountedOne(d), i)
    BY <1>3, <1>4, <1>6, <1>7, <2>1, <2>2, AstrayOn
  <2>4. QED
    BY <1>6, <2>3
<1>9. warning => warning'
  BY <1>1
<1>10. QED
  BY <1>2, <1>3, <1>5, <1>6, <1>8, <1>9, CountedKeepsTrackInv

\* At the start of a file nothing has been met.
Unread ==
    /\ pc = "reading" /\ next = 1 /\ dinfo.unread = NoMarker
    /\ dinfo.inheaders /\ ~dinfo.sawSOI /\ dinfo.frame = NoMarker
StartsOnTrack == Unread => Track(dinfo, pc, next)
LEMMA UnreadIsOnTrack == StartsOnTrack
<1> SUFFICES ASSUME Unread PROVE Track(dinfo, pc, next)
  BY DEF StartsOnTrack
<1>1. Seen(dinfo, next) = 0
  BY DEF Unread, Seen
<1>2. \A kind : ~Met(0, kind)
  BY DEF Met
<1>3. Knows(dinfo, 0)
  BY <1>2 DEF Unread, Knows
<1>4. Sought(dinfo, 0)
  BY <1>2 DEF Unread, Sought
<1>5. QED
  BY <1>1, <1>3, <1>4 DEF Unread, Track, ReadOn

\* A call begins on its track or, with an object that is stuck, doomed.
LEMMA BeginCallKeepsTrackInv ==
    ASSUME TypeInv, MarkerInv, NEW kind \in {"header", "transform"}, NEW file, BeginCall(kind, file)
    PROVE  TrackInv'
<1> DEFINE d == [dinfo EXCEPT !.keep = @ \/ kind = "transform"]
           r == Reset(d)
           e == [r EXCEPT !.state = "INHEADER"]
<1>1. /\ pc = "idle" /\ next' = 1 /\ pc' = "reading"
      /\ dinfo' = (IF d.state = "START" THEN e ELSE d)
  BY DEF BeginCall
<1>2. IsObject(dinfo) /\ IdleOK(dinfo, call, result)
  BY <1>1 DEF TypeInv, PlaceInv, ObjectOK
<1>3. Keeps(dinfo, d, {"keep"})
  BY <1>2 DEF IsObject, Fields, Keeps
<1> HIDE DEF d
<1>4. /\ Keeps(d, r, {"consume", "multiple", "eoi", "inheaders", "unread", "sawSOI", "frame"})
      /\ r.inheaders = TRUE /\ r.sawSOI = FALSE /\ r.unread = NoMarker /\ r.frame = NoMarker
  BY <1>3, ResetFields DEF Keeps
<1> HIDE DEF r
<1>5. Keeps(r, e, {"state"})
  BY <1>4 DEF Keeps, IsObject, Fields
<1> HIDE DEF e
<1>6. StartsOnTrack'
  BY UnreadIsOnTrack, PTL
<1>7. CASE d.state = "START"
  <2>1. e.inheaders /\ ~e.sawSOI /\ e.unread = NoMarker /\ e.frame = NoMarker
    BY <1>4, <1>5 DEF Keeps, Fields
  <2>2. Unread'
    BY <1>1, <1>7, <2>1 DEF Unread
  <2>3. QED
    BY <1>6, <2>2 DEF StartsOnTrack, TrackInv
<1>8. CASE d.state # "START"
  <2>1. dinfo' = d /\ dinfo.state # "START"
    BY <1>1, <1>3, <1>8 DEF Keeps, Fields
  <2>2. InHeader(dinfo) /\ (~dinfo.sawSOI => Untouched(dinfo))
    BY <1>2, <2>1 DEF IdleOK
  <2>3. /\ d.state = "INHEADER" /\ d.inheaders = dinfo.inheaders /\ d.sawSOI = dinfo.sawSOI
        /\ d.eoi = dinfo.eoi /\ d.frame = dinfo.frame /\ d.unread = dinfo.unread /\ d.inheaders
    BY <1>3, <2>2 DEF Keeps, Fields, InHeader
  <2>4. CASE ~dinfo.sawSOI
    <3>1. Unread'
      BY <1>1, <2>1, <2>2, <2>3, <2>4 DEF Unread, Untouched
    <3>2. QED
      BY <1>6, <3>1 DEF StartsOnTrack, TrackInv
  <2>5. CASE dinfo.sawSOI
    <3>1. Stuck(dinfo)
      BY <1>1, <2>2, <2>5 DEF MarkerInv, InHeader
    <3>2. Stuck(d)
      BY <2>3, <3>1 DEF Stuck
    <3>3. Doomed(dinfo, pc, next)'
      BY <1>1, <2>1, <2>3, <3>2 DEF Doomed, Stuck
    <3>4. QED
      BY <3>3 DEF TrackInv
  <2>6. QED
    BY <2>4, <2>5
<1>9. QED
  BY <1>7, <1>8

LEMMA BeginKeepsTrackInv ==
    ASSUME TypeInv, MarkerInv, Begin PROVE TrackInv'
<1>1. \E kind \in {"header", "transform"} : \E file : BeginCall(kind, file)
  BY DEF Begin
<1>2. QED
  BY <1>1, BeginCallKeepsTrackInv

LEMMA StutterKeepsTrackInv ==
    ASSUME TrackInv, UNCHANGED vars PROVE TrackInv'
<1>1. /\ UNCHANGED <<source, written, call>> /\ dinfo' = dinfo /\ pc' = pc
      /\ next' = next /\ warning' = warning
  BY DEF vars
<1>2. Borrowing(dinfo)' <=> Borrowing(dinfo)
  BY <1>1, SameBorrowing
<1>3. Track(dinfo, pc, next)' <=> Track(dinfo, pc, next)
  <2>1. Track(dinfo, pc, next)' <=> Track(dinfo, pc, next')
    BY <1>1, SameTrack
  <2>2. QED
    BY <1>1, <2>1
<1>4. Doomed(dinfo, pc, next)' <=> Doomed(dinfo, pc, next)
  BY <1>1 DEF Doomed, Stuck
<1>5. QED
  BY <1>1, <1>2, <1>3, <1>4 DEF TrackInv

\* Damage puts in what it may.
LEMMA DamageIsOfStrays ==
    ASSUME NEW name \in DOMAIN Sounds, NEW file \in Damaged(name)
    PROVE  file.damage \in {"inserted", "replaced"} => file.stray \in Strays
<1> DEFINE size == Len(Sounds[name])
           Stretches == {r \in (1..size) \X (1..size) : r[1] <= r[2] /\ r[2] < r[1] + Span}
<1>1. ASSUME NEW damage \in {"lost", "repeated"}, NEW from, NEW to, file = File(name, damage, from, to, EOI)
      PROVE  file.damage \notin {"inserted", "replaced"}
  BY <1>1 DEF File
<1>2. \/ \E damage \in {"lost", "repeated"}, r \in Stretches : file = File(name, damage, r[1], r[2], EOI)
      \/ \E i \in 2 .. size : file = File(name, "lost", i, size, EOI)
      \/ \E damage \in {"inserted", "replaced"}, i \in 1 .. size, t \in Strays :
             file = File(name, damage, i, i, t)
  BY DEF Damaged
<1> HIDE DEF size, Stretches
<1>3. CASE \E damage \in {"lost", "repeated"}, r \in Stretches : file = File(name, damage, r[1], r[2], EOI)
  BY <1>1, <1>3
<1>4. CASE \E i \in 2 .. size : file = File(name, "lost", i, size, EOI)
  BY <1>1, <1>4
<1>5. CASE \E damage \in {"inserted", "replaced"}, i \in 1 .. size, t \in Strays :
             file = File(name, damage, i, i, t)
  BY <1>5 DEF File
<1>6. QED
  BY <1>2, <1>3, <1>4, <1>5

\* Steps within a call and its end leave the source alone.
LEMMA KeepsSource ==
    ASSUME Work PROVE source' = source
<1>1. CASE ReadMarkers
  <2>1. \A d, l : Go(d, l) => source' = source
    BY DEF Go
  <2>2. \A d : Fail(d) => source' = source
    BY DEF Fail
  <2>3. \A d : StartInputPass(d) => source' = source
    BY <2>1, <2>2 DEF StartInputPass
  <2>4. GetSOS => source' = source
    BY <2>1, <2>2, <2>3 DEF GetSOS, ReadCoefficients
  <2>5. GetTables => source' = source
    <3>1. GetTables => dinfo.unread.k \in {"DHT", "DQT", "DRI"}
      BY DEF GetTables, Parsing, Pending
    <3>2. QED
      BY <2>1, <2>2, <3>1 DEF GetTables
  <2>6. QED
    BY <1>1, <2>1, <2>2, <2>4, <2>5 DEF ReadMarkers, ReadAfterEOI, FirstMarker, NextMarkerOfHeaders,
       GetSOI, GetSOF, SaveMarker, SkipMarker, UnknownMarker, GetEOI
<1>2. CASE ConsumeData
  <2>1. \A d, l : Go(d, l) => source' = source
    BY DEF Go
  <2>2. \A d : Resume(d) => source' = source
    BY <2>1 DEF Resume
  <2>3. \A d, i : Counted(d, i) => source' = source
    BY <2>1 DEF Counted
  <2>4. QED
    BY <1>2, <2>1, <2>2, <2>3 DEF ConsumeData, ReadRestartMarker, Discard, Skip, Leave,
       LeaveMcu, StuffZeros, DecodeMcu, DecodeOutOfStep
<1>3. CASE Mismatch \/ EndCall
  BY <1>3 DEF Mismatch, EndCall, Fail
<1>4. QED
  BY <1>1, <1>2, <1>3 DEF Work

\* Only the beginning of a call chooses a file and its damage.
LEMMA StrayInvHolds == Spec => []StrayInv
<1>1. Init => StrayInv
  BY DEF Init, StrayInv, Sound, File, None
<1>2. StrayInv /\ [Next]_vars => StrayInv'
  <2> SUFFICES ASSUME StrayInv, [Next]_vars PROVE StrayInv'
    OBVIOUS
  <2>1. CASE Begin
    <3>1. source' \in Files \/ \E name \in DOMAIN Sounds : source' \in Damaged(name)
      BY <2>1 DEF Begin, BeginCall
    <3>2. source' \in Files => source'.damage = None
      BY DEF Files, Sound, File
    <3>3. QED
      BY <3>1, <3>2, DamageIsOfStrays DEF StrayInv, None
  <2>2. CASE Work
    BY <2>2, KeepsSource DEF StrayInv
  <2>3. CASE UNCHANGED vars
    BY <2>3 DEF StrayInv, vars
  <2>4. QED
    BY <2>1, <2>2, <2>3 DEF Next
<1>3. QED
  BY <1>1, <1>2, PTL DEF Spec

\* The invariant holds of every file, damage and sequence of calls.
THEOREM TrackInvHolds == Spec => []TrackInv
<1>1. Init => TrackInv
  BY DEF Init, TrackInv
<1>2. TypeInv /\ MarkerInv /\ StrayInv /\ WrittenInv /\ TrackInv /\ [Next]_vars => TrackInv'
  <2> SUFFICES ASSUME TypeInv, MarkerInv, StrayInv, WrittenInv, TrackInv, [Next]_vars PROVE TrackInv'
    OBVIOUS
  <2>1. CASE Begin
    BY <2>1, BeginKeepsTrackInv
  <2>2. CASE ReadMarkers
    BY <2>2, FailuresKeepTrackInv, FirstMarkerKeepsTrackInv, NextMarkerOfHeadersKeepsTrackInv,
       GetSOIKeepsTrackInv, GetSOFKeepsTrackInv, GetTablesKeepsTrackInv, SaveMarkerKeepsTrackInv,
       SkipMarkerKeepsTrackInv, GetSOSKeepsTrackInv, GetEOIKeepsTrackInv DEF ReadMarkers
  <2>3. CASE ConsumeData
    BY <2>3, WarningsKeepTrackInv, ReadRestartMarkerKeepsTrackInv, ResyncKeepsTrackInv, LeaveMcuKeepsTrackInv,
       DecodeMcuKeepsTrackInv, DecodeOutOfStepKeepsTrackInv DEF ConsumeData
  <2>4. CASE Mismatch \/ EndCall
    BY <2>4, FailuresKeepTrackInv
  <2>5. CASE UNCHANGED vars
    BY <2>5, StutterKeepsTrackInv
  <2>6. QED
    BY <2>1, <2>2, <2>3, <2>4, <2>5 DEF Next, Work
<1>3. SoundFiles => WrittenInv
  BY DEF SoundFiles
<1>4. QED
  BY <1>1, <1>2, <1>3, TypeInvHolds, MarkerInvHolds, StrayInvHolds, SoundFilesHold, PTL DEF Spec

\* At the end of a call that is served, the blocks are sure or their scans missing.
LEMMA TrackInvJustifies ==
    TypeInv /\ MarkerInv /\ StrayInv /\ WrittenInv /\ TrackInv => SilenceIsJustified
<1> SUFFICES ASSUME TypeInv, MarkerInv, StrayInv, WrittenInv, TrackInv, Served, ~Borrows,
                    NEW q \in 1 .. Len(Tokens), Tokens[q].k = "data", NEW c \in Tokens[q].comps
             PROVE  LET value == dinfo.coefs[c][Tokens[q].n]
                    IN  \/ value = Tokens[q].v[c]
                        \/ value = Blank /\ Misses(c)
                        \/ value = Bogus /\ Spoilt
  BY DEF SilenceIsJustified, Spoilt
<1>1. /\ pc = "finish" /\ call = "transform" /\ ~warning
      /\ ~Doomed(dinfo, pc, next) /\ ~Borrowing(dinfo)
  BY DEF Served, Doomed, Borrowing, Borrows
<1>2. OnTrack
  BY <1>1 DEF TrackInv, OnTrack
<1>3. /\ Torn /\ FileInv /\ Following(dinfo, pc, next) /\ next \in 1 .. Size + 1
      /\ Ended(dinfo, next)
  BY <1>1, <1>2, WhileOnTrack
<1>4. /\ dinfo.frame = Tokens[FrameAt] /\ dinfo.frame.n = Many /\ Blocks(dinfo)
      /\ Filled(dinfo, next - 1, Many)
  BY <1>3 DEF Ended, Many
<1>5. next - 1 \in 1 .. Size /\ At(next - 1).k = "EOI" /\ next \in Nat /\ Size \in Nat
  BY <1>1, <1>3, SizeIsNat DEF Following
<1>6. Tokens[q].n \in 1 .. Many /\ c \in dinfo.frame.comps
  BY <1>3, <1>4, AllAreShaped DEF Shaped, IsDataOf
<1> DEFINE m == Tokens[q].n
           value == dinfo.coefs[c][m]
<1>7. value = Blank \/ Sure(dinfo, c, m)
  BY <1>4, <1>6 DEF Blocks
<1>8. CASE Sure(dinfo, c, m)
  BY <1>8 DEF Sure, Right
<1>9. CASE value = Blank /\ ~Sure(dinfo, c, m)
  <2>1. ASSUME NEW i \in 1 .. Size, At(i).k = "SOS", c \in At(i).comps
        PROVE  \E j \in 1 .. i : At(j).k = "EOI"
    <3>1. CASE i \in 1 .. next - 1
      <4>1. c \in At(i).comps \cap dinfo.frame.comps
        BY <1>6, <2>1
      <4>2. \A x \in 1 .. Many : Sure(dinfo, c, x)
        BY <1>4, <2>1, <3>1, <4>1 DEF Filled
      <4>3. QED
        BY <1>6, <1>9, <4>2
    <3>2. CASE i \notin 1 .. next - 1
      <4>1. next - 1 \in 1 .. i
        BY <1>5, <3>2
      <4>2. QED
        BY <1>5, <4>1
    <3>3. QED
      BY <3>1, <3>2
  <2>2. QED
    BY <1>9, <2>1 DEF Misses
<1>10. QED
  BY <1>7, <1>8, <1>9

\* SilenceIsJustified: whatever the damage and the calls before, a transformation
\* that returns without a warning has put no MCU in another's place, and left blank
\* only what has no scan.
THEOREM SilenceHasACause == Spec => []SilenceIsJustified
<1>1. SoundFiles => WrittenInv
  BY DEF SoundFiles
<1>2. QED
  BY <1>1, TypeInvHolds, MarkerInvHolds, StrayInvHolds, SoundFilesHold, TrackInvHolds, TrackInvJustifies, PTL
=============================================================================
