-------------------------- MODULE JpegImageProofs --------------------------
(***************************************************************************)
(* What holds of JpegImage for every source, rectangle, size and angle;    *)
(* and, for a careful caller, that it implements the eager image.          *)
(***************************************************************************)
EXTENDS JpegImageCareful, TLAPS

(***************************************************************************)
(* What the operations on pictures return and preserve.                    *)
(***************************************************************************)

\* A picture has the sizes of its rectangle, turned or not.
LEMMA SizesOfPicture ==
    ASSUME NEW p \in Picture
    PROVE  /\ WidthOf(p) \in Int /\ HeightOf(p) \in Int
           /\ p.rect \in Rect /\ p.frame \in Size /\ p.mcu \in Size
BY DEF Picture, Rect, Size, WidthOf, HeightOf, Sideways

\* Changing coordinates keeps a rectangle a rectangle.
LEMMA CoordinatesType ==
    ASSUME NEW p \in Picture, NEW r \in Rect
    PROVE  Unflipped(p, Unturned(p, r)) \in Rect
<1>1. p.rect \in Rect /\ p.turns \in 0..3
  BY DEF Picture
<1>2. Unturned(p, r) \in Rect
  BY <1>1 DEF Unturned, Box, Rect
<1>3. QED
  BY <1>1, <1>2 DEF Unflipped, Rect

\* A rectangle of what the viewer sees is one of the upright picture.
LEMMA CoordinatesInside ==
    ASSUME NEW p \in Picture, NEW r \in Rect,
           Inside(r, WidthOf(p), HeightOf(p))
    PROVE  Inside(Unflipped(p, Unturned(p, r)), p.rect.w, p.rect.h)
<1>1. p.rect \in Rect /\ p.turns \in 0..3
  BY DEF Picture
<1> DEFINE u == Unturned(p, r)
<1>2. u \in Rect /\ Inside(u, p.rect.w, p.rect.h)
  <2>1. CASE p.turns = 0
    BY <1>1, <2>1 DEF Unturned, Box, Rect, Inside, WidthOf, HeightOf, Sideways
  <2>2. CASE p.turns = 1
    BY <1>1, <2>2 DEF Unturned, Box, Rect, Inside, WidthOf, HeightOf, Sideways
  <2>3. CASE p.turns = 2
    BY <1>1, <2>3 DEF Unturned, Box, Rect, Inside, WidthOf, HeightOf, Sideways
  <2>4. CASE p.turns = 3
    BY <1>1, <2>4 DEF Unturned, Box, Rect, Inside, WidthOf, HeightOf, Sideways
  <2>5. QED
    BY <1>1, <2>1, <2>2, <2>3, <2>4
<1> HIDE DEF u
<1>3. Inside(Unflipped(p, u), p.rect.w, p.rect.h)
  BY <1>1, <1>2 DEF Unflipped, Rect, Inside
<1>4. QED
  BY <1>3 DEF u

\* Cropping a picture gives a picture.
LEMMA CroppedType ==
    ASSUME NEW p \in Picture, NEW r \in Rect
    PROVE  Cropped(p, r) \in Picture
<1> DEFINE q == Unflipped(p, Unturned(p, r))
           b == Box(p.rect.x + q.x, p.rect.y + q.y, q.w, q.h)
<1>1. q \in Rect
  BY CoordinatesType
<1>2. p.rect \in Rect
  BY DEF Picture
<1> HIDE DEF q
<1>3. b \in Rect
  BY <1>1, <1>2 DEF Box, Rect
<1> HIDE DEF b
<1>4. [p EXCEPT !.rect = b] \in Picture
  BY <1>3 DEF Picture
<1>5. QED
  BY <1>4 DEF Cropped, b, q

\* A crop inside what the viewer sees stays inside the frame.
LEMMA CroppedInFrame ==
    ASSUME NEW p \in Picture, NEW r \in Rect, InFrame(p),
           Inside(r, WidthOf(p), HeightOf(p))
    PROVE  InFrame(Cropped(p, r))
<1> DEFINE q == Unflipped(p, Unturned(p, r))
           b == Box(p.rect.x + q.x, p.rect.y + q.y, q.w, q.h)
<1>1. q \in Rect /\ Inside(q, p.rect.w, p.rect.h)
  BY CoordinatesType, CoordinatesInside
<1>2. p.rect \in Rect /\ p.frame \in Size
  BY DEF Picture
<1> HIDE DEF q
<1>3. Inside(b, p.frame.w, p.frame.h)
  BY <1>1, <1>2 DEF Box, Rect, Size, Inside, InFrame
<1> HIDE DEF b
<1>4. Cropped(p, r).rect = b /\ Cropped(p, r).frame = p.frame
  BY DEF Cropped, b, q, Picture
<1>5. QED
  BY <1>3, <1>4 DEF InFrame

\* Mirroring, turning and changing the depth touch neither rectangle nor frame.
LEMMA ReorientedPicture ==
    ASSUME NEW p \in Picture, NEW k \in 0..3, NEW d \in Depths
    PROVE  /\ Mirrored(p) \in Picture /\ (InFrame(p) => InFrame(Mirrored(p)))
           /\ Turned(p, k) \in Picture /\ (InFrame(p) => InFrame(Turned(p, k)))
           /\ InDepth(p, d) \in Picture /\ (InFrame(p) => InFrame(InDepth(p, d)))
<1>1. p.turns \in 0..3 /\ p.flip \in BOOLEAN
  BY DEF Picture
<1>2. (4 - p.turns) % 4 \in 0..3 /\ (p.turns + k) % 4 \in 0..3
  BY <1>1
<1>3. /\ Mirrored(p) \in Picture
      /\ Turned(p, k) \in Picture
      /\ InDepth(p, d) \in Picture
  BY <1>1, <1>2 DEF Picture, Mirrored, Turned, InDepth
<1>4. QED
  BY <1>3 DEF InFrame, Picture, Mirrored, Turned, InDepth

\* Resampling to a size of at least one pixel gives a picture that fills its
\* new frame.
LEMMA ResizedPicture ==
    ASSUME NEW p \in Picture, NEW w \in Nat \ {0}, NEW h \in Nat \ {0},
           InFrame(p)
    PROVE  Resized(p, w, h) \in Picture /\ InFrame(Resized(p, w, h))
<1> DEFINE frame == IF Sideways(p) THEN [w |-> h, h |-> w] ELSE [w |-> w, h |-> h]
           entry == [rect |-> p.rect, size |-> frame]
           new   == [p EXCEPT !.stages = Append(p.stages, entry),
                              !.frame  = frame,
                              !.rect   = Whole(frame.w, frame.h)]
<1>1. frame \in Size /\ frame.w \in Nat \ {0} /\ frame.h \in Nat \ {0}
  BY DEF Size
<1>2. p.rect \in Rect /\ p.stages \in Seq([rect : Rect, size : Size])
  BY DEF Picture
<1> HIDE DEF frame
<1>3. entry \in [rect : Rect, size : Size]
  BY <1>1, <1>2
<1> HIDE DEF entry
<1>4. Append(p.stages, entry) \in Seq([rect : Rect, size : Size])
  BY <1>2, <1>3
<1>5. Whole(frame.w, frame.h) \in Rect /\ Inside(Whole(frame.w, frame.h), frame.w, frame.h)
  BY <1>1 DEF Whole, Box, Rect, Inside
<1>6. new \in Picture
  BY <1>1, <1>4, <1>5 DEF Picture
<1>7. InFrame(new)
  BY <1>5 DEF InFrame, Picture
<1>8. Resized(p, w, h) = IF frame.w = p.rect.w /\ frame.h = p.rect.h THEN p ELSE new
  BY DEF Resized, frame, entry
<1>9. QED
  BY <1>6, <1>7, <1>8

\* decomp knows the file that is there, or that file cannot be read and the
\* operation that made it is still pending.
KnowsItsFile ==
    \/ Readable(data) /\ size = SizeOf(data)
    \/ ~Readable(data) /\ pending.op # "NONE"

\* The invariant that is inductive: a rectangle is only ever applied to an
\* image it was found to fit, so frames hold what is shown; what is pending
\* fits because whatever replaces the image resets it.
IInv == TypeOK /\ ShowsPartOfFrame /\ PendingRectFits /\ KnowsItsFile

-----------------------------------------------------------------------------
(* The values that the operations compute.                                 *)

\* Each of the eight operations of a lossless transformation reorients.
LEMMA MovedPicture ==
    ASSUME NEW p \in Picture, NEW op \in Ops
    PROVE  /\ Moved(p, op) \in Picture
           /\ InFrame(p) => InFrame(Moved(p, op))
<1>1. /\ Mirrored(p) \in Picture /\ (InFrame(p) => InFrame(Mirrored(p)))
      /\ \A k \in 0..3 : Turned(p, k) \in Picture /\ (InFrame(p) => InFrame(Turned(p, k)))
  BY ReorientedPicture DEF Depths
<1>2. \A k \in 0..3 : /\ Turned(Mirrored(p), k) \in Picture
                      /\ InFrame(p) => InFrame(Turned(Mirrored(p), k))
  BY <1>1, ReorientedPicture DEF Depths
<1>3. QED
  BY <1>1, <1>2 DEF Moved, Ops

\* It keeps the file's coding, and its blocks lie on their side when it turns
\* the picture sideways.
LEMMA MovedFields ==
    ASSUME NEW p \in Picture, NEW op \in Ops
    PROVE  /\ Moved(p, op).mcu = p.mcu /\ Moved(p, op).coding = p.coding
           /\ Moved(p, op).depth = p.depth /\ Moved(p, op).patched = p.patched
           /\ Sideways(Moved(p, op)) <=> (IF op \in TurnsSideways THEN ~Sideways(p) ELSE Sideways(p))
<1>1. ASSUME NEW q \in Picture
      PROVE  /\ Mirrored(q).mcu = q.mcu /\ Mirrored(q).coding = q.coding
             /\ Mirrored(q).depth = q.depth /\ Mirrored(q).patched = q.patched
             /\ Mirrored(q).turns = (4 - q.turns) % 4
             /\ \A k \in 0..3 :
                   /\ Turned(q, k).mcu = q.mcu /\ Turned(q, k).coding = q.coding
                   /\ Turned(q, k).depth = q.depth /\ Turned(q, k).patched = q.patched
                   /\ Turned(q, k).turns = (q.turns + k) % 4
  BY Zenon DEF Mirrored, Turned, Picture
<1>2. Mirrored(p) \in Picture /\ p.turns \in 0..3
  BY ReorientedPicture DEF Depths, Picture
<1>3. Sideways(Mirrored(p)) <=> Sideways(p)
  BY <1>1, <1>2 DEF Sideways
<1>4. ASSUME NEW q \in Picture
      PROVE  /\ Sideways(Turned(q, 1)) <=> ~Sideways(q)
             /\ Sideways(Turned(q, 2)) <=> Sideways(q)
             /\ Sideways(Turned(q, 3)) <=> ~Sideways(q)
  <2>1. q.turns \in 0..3
    BY DEF Picture
  <2>2. QED
    BY <1>1, <2>1 DEF Sideways
<1> DEFINE same(q) == /\ q.mcu = p.mcu /\ q.coding = p.coding
                      /\ q.depth = p.depth /\ q.patched = p.patched
<1>5. /\ same(Mirrored(p))
      /\ \A k \in 1..3 : same(Turned(p, k)) /\ same(Turned(Mirrored(p), k))
  BY <1>1, <1>2
<1>6. /\ Sideways(Turned(p, 1)) <=> ~Sideways(p)
      /\ Sideways(Turned(p, 2)) <=> Sideways(p)
      /\ Sideways(Turned(p, 3)) <=> ~Sideways(p)
      /\ Sideways(Turned(Mirrored(p), 1)) <=> ~Sideways(p)
      /\ Sideways(Turned(Mirrored(p), 2)) <=> Sideways(p)
      /\ Sideways(Turned(Mirrored(p), 3)) <=> ~Sideways(p)
  BY <1>2, <1>3, <1>4
<1> HIDE DEF same
<1>7. ASSUME NEW q, Moved(p, op) = q, same(q),
             IF op \in TurnsSideways THEN Sideways(q) <=> ~Sideways(p)
                                     ELSE Sideways(q) <=> Sideways(p)
      PROVE  /\ same(Moved(p, op))
             /\ Sideways(Moved(p, op)) <=> (IF op \in TurnsSideways THEN ~Sideways(p) ELSE Sideways(p))
  BY <1>7
<1>8. same(p)
  BY DEF same
<1>9. /\ same(Moved(p, op))
      /\ Sideways(Moved(p, op)) <=> (IF op \in TurnsSideways THEN ~Sideways(p) ELSE Sideways(p))
  <2>1. CASE op = "NONE"
    BY <2>1, <1>7, <1>8 DEF Moved, TurnsSideways
  <2>2. CASE op = "HFLIP"
    BY <2>2, <1>3, <1>5, <1>7 DEF Moved, TurnsSideways
  <2>3. CASE op = "VFLIP"
    BY <2>3, <1>5, <1>6, <1>7 DEF Moved, TurnsSideways
  <2>4. CASE op = "TRANSPOSE"
    BY <2>4, <1>5, <1>6, <1>7 DEF Moved, TurnsSideways
  <2>5. CASE op = "TRANSVERSE"
    BY <2>5, <1>5, <1>6, <1>7 DEF Moved, TurnsSideways
  <2>6. CASE op = "ROT90"
    BY <2>6, <1>5, <1>6, <1>7 DEF Moved, TurnsSideways
  <2>7. CASE op = "ROT180"
    BY <2>7, <1>5, <1>6, <1>7 DEF Moved, TurnsSideways
  <2>8. CASE op = "ROT270"
    BY <2>8, <1>5, <1>6, <1>7 DEF Moved, TurnsSideways
  <2>9. QED
    BY <2>1, <2>2, <2>3, <2>4, <2>5, <2>6, <2>7, <2>8 DEF Ops
<1>10. QED
  BY <1>9 DEF same

\* The blocks that stay where they are change neither sizes nor coding.
LEMMA OpAppliedPicture ==
    ASSUME NEW p \in Picture, NEW op \in Ops, NEW gray \in BOOLEAN
    PROVE  /\ OpApplied(p, op, gray) \in Picture
           /\ InFrame(p) => InFrame(OpApplied(p, op, gray))
           /\ OpApplied(p, op, gray).mcu = p.mcu
           /\ OpApplied(p, op, gray).coding = p.coding
           /\ OpApplied(p, op, gray).depth = p.depth
           /\ Sideways(OpApplied(p, op, gray)) <=> (IF op \in TurnsSideways THEN ~Sideways(p) ELSE Sideways(p))
           /\ MirrorsWhole(p, op, gray) => OpApplied(p, op, gray).patched = p.patched
<1> DEFINE q == Moved(p, op)
           r == [q EXCEPT !.patched = TRUE]
<1>1. /\ q \in Picture /\ (InFrame(p) => InFrame(q))
      /\ q.mcu = p.mcu /\ q.coding = p.coding /\ q.depth = p.depth
      /\ q.patched = p.patched
      /\ Sideways(q) <=> (IF op \in TurnsSideways THEN ~Sideways(p) ELSE Sideways(p))
  BY MovedPicture, MovedFields
<1>2. OpApplied(p, op, gray) = IF MirrorsWhole(p, op, gray) THEN q ELSE r
  BY DEF OpApplied
<1> HIDE DEF q
<1>3. /\ r \in Picture /\ r.frame = q.frame /\ r.rect = q.rect
      /\ r.mcu = q.mcu /\ r.coding = q.coding /\ r.depth = q.depth /\ r.turns = q.turns
  BY <1>1, Zenon DEF Picture
<1> HIDE DEF r
<1>4. (InFrame(q) => InFrame(r)) /\ (Sideways(r) <=> Sideways(q))
  BY <1>3 DEF InFrame, Sideways
<1>5. QED
  BY <1>1, <1>2, <1>3, <1>4

\* A crop changes nothing but the rectangle.
LEMMA CroppedFields ==
    ASSUME NEW p \in Picture, NEW r \in Rect
    PROVE  /\ Cropped(p, r).depth = p.depth /\ Cropped(p, r).mcu = p.mcu
           /\ Cropped(p, r).coding = p.coding /\ Cropped(p, r).turns = p.turns
           /\ Cropped(p, r).patched = p.patched
BY Zenon DEF Cropped, Picture

\* A file's blocks have a name or not, whatever is cut out of it.
LEMMA ReadableFields ==
    ASSUME NEW p \in Picture, NEW q \in Picture,
           q.mcu = p.mcu, q.coding = p.coding, q.depth = p.depth,
           Sideways(q) <=> Sideways(p)
    PROVE  Readable(q) <=> Readable(p)
BY DEF Readable, OutputMcu

\* Dropping the colours keeps the portion shown.
LEMMA GrayPicture ==
    ASSUME NEW p \in Picture
    PROVE  /\ InDepth(p, "GRAYSCALE") \in Picture
           /\ InFrame(p) => InFrame(InDepth(p, "GRAYSCALE"))
BY ReorientedPicture DEF Depths

\* A transformation that succeeds yields a part of its source, in its coding.
LEMMA TransformedPicture ==
    ASSUME NEW p \in Picture, NEW t \in Pending, InFrame(p), Transformable(p, t)
    PROVE  /\ Transformed(p, t) \in Picture /\ InFrame(Transformed(p, t))
           /\ Transformed(p, t).mcu = p.mcu /\ Transformed(p, t).coding = p.coding
           /\ Transformed(p, t).depth = IF t.gray THEN "GRAYSCALE" ELSE p.depth
           /\ Sideways(Transformed(p, t)) <=> (IF t.op \in TurnsSideways THEN ~Sideways(p) ELSE Sideways(p))
<1> DEFINE out == OpApplied(p, t.op, t.gray)
           cut == IF t.rect = NoRect THEN out ELSE Cropped(out, t.rect)
           dim == InDepth(cut, "GRAYSCALE")
<1>1. t.op \in Ops /\ t.rect \in Rect /\ t.gray \in BOOLEAN
  BY DEF Pending
<1>2. /\ out \in Picture /\ InFrame(out)
      /\ out.mcu = p.mcu /\ out.coding = p.coding /\ out.depth = p.depth
      /\ Sideways(out) <=> (IF t.op \in TurnsSideways THEN ~Sideways(p) ELSE Sideways(p))
  BY <1>1, OpAppliedPicture
<1>3. t.rect # NoRect => Inside(t.rect, WidthOf(out), HeightOf(out))
  BY DEF Transformable
<1> HIDE DEF out
<1>4. t.rect # NoRect => Cropped(out, t.rect) \in Picture /\ InFrame(Cropped(out, t.rect))
  BY <1>1, <1>2, <1>3, CroppedType, CroppedInFrame
<1>5. /\ cut \in Picture /\ InFrame(cut)
      /\ cut.mcu = p.mcu /\ cut.coding = p.coding /\ cut.depth = p.depth
      /\ Sideways(cut) <=> Sideways(out)
  BY <1>1, <1>2, <1>4, CroppedFields DEF Sideways
<1> HIDE DEF cut
<1>6. Transformed(p, t) = IF t.gray THEN dim ELSE cut
  BY DEF Transformed, out, cut
<1>7. /\ dim \in Picture /\ InFrame(dim)
  BY <1>5, GrayPicture
<1>8. /\ dim.mcu = cut.mcu /\ dim.coding = cut.coding /\ dim.turns = cut.turns
      /\ dim.depth = "GRAYSCALE"
  BY <1>5, Zenon DEF InDepth, Picture
<1> HIDE DEF dim
<1>9. Sideways(dim) <=> Sideways(cut)
  BY <1>8 DEF Sideways
<1>10. QED
  BY <1>1, <1>2, <1>5, <1>6, <1>7, <1>8, <1>9

\* The only result without a name is 4:1:1 turned sideways.
LEMMA UnreadableResult ==
    ASSUME NEW p \in Picture, NEW t \in Pending, InFrame(p), Transformable(p, t),
           ~Readable(Transformed(p, t))
    PROVE  /\ OutputMcu(p, t.gray) = [w |-> 32, h |-> 8]
           /\ t.op \in TurnsSideways
<1> DEFINE q == Transformed(p, t)
<1>1. /\ q.mcu = p.mcu /\ q.coding = p.coding
      /\ q.depth = IF t.gray THEN "GRAYSCALE" ELSE p.depth
      /\ Sideways(q) <=> (IF t.op \in TurnsSideways THEN ~Sideways(p) ELSE Sideways(p))
      /\ t.gray \in BOOLEAN
  BY TransformedPicture DEF Pending
<1>2. OutputMcu(p, FALSE) \in Samplings /\ OutputMcu(q, FALSE) \notin Samplings
  BY DEF Transformable, Readable
<1> HIDE DEF q
<1>3. [w |-> 8, h |-> 8] \in Samplings
  BY DEF Samplings
<1>4. q.depth # "GRAYSCALE" /\ q.coding # "GRAY"
  BY <1>2, <1>3 DEF OutputMcu
<1>5. t.gray = FALSE /\ p.depth = q.depth /\ p.coding = q.coding
  BY <1>1, <1>4
<1>6. /\ OutputMcu(p, FALSE) = IF Sideways(p) THEN [w |-> p.mcu.h, h |-> p.mcu.w] ELSE p.mcu
      /\ OutputMcu(q, FALSE) = IF Sideways(q) THEN [w |-> p.mcu.h, h |-> p.mcu.w] ELSE p.mcu
  BY <1>1, <1>4, <1>5 DEF OutputMcu
<1>7. t.op \in TurnsSideways
  BY <1>1, <1>2, <1>6
<1>8. p.mcu \in Size
  BY SizesOfPicture
<1> DEFINE m == OutputMcu(p, FALSE)
           n == OutputMcu(q, FALSE)
<1>9. n = [w |-> m.h, h |-> m.w]
  <2>1. CASE Sideways(p)
    <3>1. ~Sideways(q)
      BY <1>1, <1>7, <2>1
    <3>2. m = [w |-> p.mcu.h, h |-> p.mcu.w] /\ n = p.mcu
      BY <1>6, <2>1, <3>1
    <3>3. p.mcu = [w |-> p.mcu.w, h |-> p.mcu.h]
      BY <1>8 DEF Size
    <3> HIDE DEF m, n
    <3>4. m.h = p.mcu.w /\ m.w = p.mcu.h
      BY <3>2
    <3>5. QED
      BY <3>2, <3>3, <3>4
  <2>2. CASE ~Sideways(p)
    <3>1. Sideways(q)
      BY <1>1, <1>7, <2>2
    <3>2. m = p.mcu /\ n = [w |-> p.mcu.h, h |-> p.mcu.w]
      BY <1>6, <2>2, <3>1
    <3>3. QED
      BY <3>2
  <2>3. QED
    BY <2>1, <2>2
<1> HIDE DEF m, n
<1>10. m = [w |-> 32, h |-> 8]
  <2>1. m \in Samplings /\ [w |-> m.h, h |-> m.w] \notin Samplings
    BY <1>2, <1>9 DEF m, n
  <2>2. QED
    BY <2>1 DEF Samplings
<1>11. QED
  BY <1>5, <1>7, <1>10 DEF m

\* A resampling within the size of its source is a picture of the same portion,
\* and of a sampling with a name.
LEMMA DownscaledPicture ==
    ASSUME NEW p \in Picture, InFrame(p),
           NEW w \in 1..WidthOf(p), NEW h \in 1..HeightOf(p)
    PROVE  /\ Downscaled(p, w, h) \in Picture /\ InFrame(Downscaled(p, w, h))
           /\ Readable(Downscaled(p, w, h))
<1>1. w \in Nat \ {0} /\ h \in Nat \ {0}
  BY SizesOfPicture
<1> DEFINE q == Resized(p, w, h)
<1>2. q \in Picture /\ InFrame(q)
  BY <1>1, ResizedPicture
<1> HIDE DEF q
<1> DEFINE block  == IF p.coding = "CMYK" THEN [w |-> 8, h |-> 8] ELSE [w |-> 16, h |-> 16]
           coding == IF p.coding = "RGB" THEN "YCC" ELSE p.coding
<1>3. /\ block \in Size /\ coding \in Codings
      /\ block \in {[w |-> 8, h |-> 8], [w |-> 16, h |-> 16]}
  BY DEF Size, Codings, Picture
<1> HIDE DEF block, coding
<1> DEFINE p2 == [q EXCEPT !.intact = TRUE, !.bulky = FALSE, !.coding = coding, !.mcu = block]
<1>4. p2 \in Picture
  BY <1>2, <1>3, Zenon DEF Picture
<1>5. p2.frame = q.frame /\ p2.rect = q.rect /\ p2.mcu = block
  BY <1>2, Zenon DEF Picture
<1>6. Downscaled(p, w, h) = p2
  BY DEF Downscaled, q, block, coding
<1> HIDE DEF p2
<1>7. InFrame(p2)
  BY <1>2, <1>5 DEF InFrame
<1>8. Readable(p2)
  BY <1>3, <1>5 DEF Readable, OutputMcu, Samplings
<1>9. QED
  BY <1>4, <1>6, <1>7, <1>8

\* Nor does downScale(), whether or not its size is accepted: the image or
\* what is pending for it stays gray.
LEMMA ScaleFromDepth ==
    ASSUME NEW p \in Picture, NEW known, NEW t \in Pending, NEW s, ScaleFrom(p, known, t, s),
           t.gray \/ p.depth = "GRAYSCALE"
    PROVE  GrayOrdered'
<1>1. \A w, h : Downscaled(p, w, h).depth = p.depth
  BY Zenon DEF Downscaled, Resized, Picture
<1>2. (data' = p \/ \E w, h : data' = Downscaled(p, w, h)) /\ pending' = t
  BY DEF ScaleFrom, SetImageData
<1>3. QED
  BY <1>1, <1>2 DEF GrayOrdered

\* With nothing pending a transformation changes nothing.
LEMMA NothingTransforms ==
    ASSUME NEW p
    PROVE  Transformed(p, Nothing) = p
<1>1. MirrorsWhole(p, "NONE", FALSE)
  BY DEF MirrorsWhole, MirrorsX, MirrorsY
<1>2. QED
  BY <1>1 DEF Transformed, Nothing, OpApplied, Moved

-----------------------------------------------------------------------------
(* The invariant.                                                          *)

\* A new TJTransform is a transformation, with no rectangle.
LEMMA NothingType == Nothing \in Pending /\ Nothing.rect = NoRect
BY DEF Nothing, Pending, Ops, NoRect, Whole, Box, Rect

\* A file as it is loaded satisfies the invariant.
LEMMA InitInv == Init => IInv
<1> SUFFICES ASSUME Init PROVE IInv
  OBVIOUS
<1>1. data \in Picture /\ InFrame(data) /\ Readable(data) /\ size = SizeOf(data)
  BY SourcesAssumption DEF Init, Readable
<1>2. size \in Size
  BY <1>1, SizesOfPicture DEF SizeOf, Size
<1>3. QED
  BY <1>1, <1>2, NothingType
     DEF Init, IInv, TypeOK, ShowsPartOfFrame, PendingRectFits, KnowsItsFile, Exceptions

\* A call that throws without having transformed leaves the fields alone.
LEMMA ThrowInv ==
    ASSUME IInv, NEW e \in Exceptions, Throw(e)
    PROVE  IInv'
<1>1. data' = data /\ size' = size /\ pending' = pending
      /\ raised' \in Exceptions \union {"none"}
  BY DEF Throw
<1>2. (Readable(data)' <=> Readable(data)) /\ SizeOf(data)' = SizeOf(data)
  BY <1>1 DEF SizeOf, WidthOf, HeightOf, Sideways, Readable, OutputMcu
<1>3. QED
  BY <1>1, <1>2 DEF IInv, TypeOK, ShowsPartOfFrame, PendingRectFits, KnowsItsFile,
     WidthOf, HeightOf, Sideways, InFrame

\* So does a call that only writes into the pending transformation, when the
\* rectangle it leaves there fits and no operation is taken back.
LEMMA WritePendingInv ==
    ASSUME IInv, NEW t \in Pending, pending' = t, Return, UNCHANGED <<data, size>>,
           Readable(data) /\ t.rect # NoRect => Inside(t.rect, WidthOf(data), HeightOf(data)),
           t.op = "NONE" => pending.op = "NONE"
    PROVE  IInv'
<1>1. data' = data /\ size' = size /\ raised' = "none"
  BY DEF Return
<1>2. (Readable(data)' <=> Readable(data)) /\ SizeOf(data)' = SizeOf(data)
  BY <1>1 DEF SizeOf, WidthOf, HeightOf, Sideways, Readable, OutputMcu
<1>3. QED
  BY <1>1, <1>2 DEF IInv, TypeOK, ShowsPartOfFrame, PendingRectFits, KnowsItsFile,
     WidthOf, HeightOf, Sideways, InFrame

\* A new image that can be read comes with nothing to crop.
LEMMA NewImageInv ==
    ASSUME NEW p \in Picture, InFrame(p), Readable(p), data' = p, size' = SizeOf(p),
           NEW t \in Pending, t.rect = NoRect, pending' = t,
           raised' \in Exceptions \union {"none"}
    PROVE  IInv'
<1>1. SizeOf(p) \in Size
  BY SizesOfPicture DEF SizeOf, Size
<1>2. Readable(data)' /\ SizeOf(data)' = SizeOf(p) /\ InFrame(data)'
  BY DEF Readable, OutputMcu, SizeOf, WidthOf, HeightOf, Sideways, InFrame
<1>3. QED
  BY <1>1, <1>2 DEF IInv, TypeOK, ShowsPartOfFrame, PendingRectFits, KnowsItsFile

\* The resampling half of downScale(), whether or not its size is accepted.
LEMMA ScaleFromInv ==
    ASSUME NEW p \in Picture, InFrame(p), Readable(p), NEW t \in Pending, t.rect = NoRect,
           NEW s, ScaleFrom(p, SizeOf(p), t, s)
    PROVE  IInv'
<1>0. SizeOf(p).w = WidthOf(p) /\ SizeOf(p).h = HeightOf(p)
  BY DEF SizeOf
<1>1. CASE s.w \in 1..WidthOf(p) /\ s.h \in 1..HeightOf(p)
  <2> DEFINE q == Downscaled(p, s.w, s.h)
  <2>1. q \in Picture /\ InFrame(q) /\ Readable(q)
    BY <1>1, DownscaledPicture
  <2>2. SetImageData(q) /\ pending' = t /\ raised' = "none"
    BY <1>0, <1>1 DEF ScaleFrom, Return
  <2> HIDE DEF q
  <2>3. data' = q /\ size' = SizeOf(q)
    BY <2>1, <2>2 DEF SetImageData
  <2>4. QED
    BY <2>1, <2>2, <2>3, NewImageInv
<1>2. CASE ~(s.w \in 1..WidthOf(p) /\ s.h \in 1..HeightOf(p))
  <2>1. data' = p /\ size' = SizeOf(p) /\ pending' = t /\ raised' = "IllegalArgument"
    BY <1>0, <1>2 DEF ScaleFrom
  <2>2. QED
    BY <2>1, NewImageInv DEF Exceptions
<1>3. QED
  BY <1>1, <1>2

\* The file is replaced by one that cannot be read: the operation that made it
\* has turned it, and so is one.
LEMMA UnreadableInv ==
    ASSUME IInv, ResultIsUnreadable
    PROVE  IInv'
<1> DEFINE p == Transformed(data, pending)
<1>1. data \in Picture /\ InFrame(data) /\ pending \in Pending /\ size \in Size
  BY DEF IInv, TypeOK, ShowsPartOfFrame
<1>2. Transformable(data, pending) /\ ~Readable(p) /\ SetImageData(p)
  BY DEF ResultIsUnreadable
<1>3. p \in Picture /\ InFrame(p)
  BY <1>1, <1>2, TransformedPicture
<1>4. pending.op # "NONE"
  BY <1>1, <1>2, UnreadableResult DEF TurnsSideways
<1> HIDE DEF p
<1>5. data' = p /\ size' = size /\ pending' = pending /\ raised' = "TJ"
  BY <1>2 DEF SetImageData, ResultIsUnreadable
<1>6. ~Readable(data)' /\ InFrame(data)'
  BY <1>2, <1>3, <1>5 DEF Readable, OutputMcu, Sideways, InFrame
<1>7. QED
  BY <1>1, <1>3, <1>4, <1>5, <1>6
     DEF IInv, TypeOK, ShowsPartOfFrame, PendingRectFits, KnowsItsFile, Exceptions

\* Every call of the class preserves the invariant.
LEMMA NextInv == IInv /\ [Next]_vars => IInv'
<1> SUFFICES ASSUME IInv, [Next]_vars
             PROVE  IInv'
  OBVIOUS
<1>0. /\ data \in Picture /\ InFrame(data)
      /\ pending \in Pending
      /\ Readable(data) /\ pending.rect # NoRect =>
             Inside(pending.rect, WidthOf(data), HeightOf(data))
      /\ \/ Readable(data) /\ size.w = WidthOf(data) /\ size.h = HeightOf(data)
            /\ size = SizeOf(data)
         \/ ~Readable(data) /\ pending.op # "NONE"
      /\ {"TJ", "IllegalArgument"} \subseteq Exceptions
  BY DEF IInv, TypeOK, ShowsPartOfFrame, PendingRectFits, KnowsItsFile, SizeOf, Exceptions
<1>1. ASSUME NEW r \in Regions, Crop(r)
      PROVE  IInv'
  <2>1. CASE Inside(r, size.w, size.h)
    <3>1. /\ [pending EXCEPT !.rect = r] \in Pending /\ [pending EXCEPT !.rect = r].rect = r
          /\ [pending EXCEPT !.rect = r].op = pending.op
      BY <1>0, RegionsAssumption DEF Pending
    <3>2. QED
      BY <1>0, <1>1, <2>1, <3>1, WritePendingInv DEF Crop
  <2>2. CASE ~Inside(r, size.w, size.h)
    BY <1>0, <1>1, <2>2, ThrowInv DEF Crop
  <2>3. QED
    BY <2>1, <2>2
<1>2. ASSUME NEW op \in Ops, op = "NONE" => pending.op = "NONE", SetOp(op)
      PROVE  IInv'
  <2>1. /\ [pending EXCEPT !.op = op] \in Pending
        /\ [pending EXCEPT !.op = op].rect = pending.rect
        /\ [pending EXCEPT !.op = op].op = op
    BY <1>0 DEF Pending
  <2>2. QED
    BY <1>0, <1>2, <2>1, WritePendingInv DEF SetOp
<1>3. ASSUME NEW a \in Angles, Rotate(a)
      PROVE  IInv'
  <2>1. pending.op \in Ops
    BY <1>0 DEF Pending
  <2>2. \/ Throw("IllegalArgument")
        \/ \E op \in Ops : SetOp(op) /\ (op = "NONE" => pending.op = "NONE")
    BY <1>3, <2>1 DEF Rotate, Ops
  <2>3. QED
    BY <1>0, <1>2, <2>2, ThrowInv
<1>4. ASSUME NEW s \in Sizes, DownScale(s)
      PROVE  IInv'
  <2> DEFINE p == Transformed(data, pending)
  <2>1. CASE /\ Transformable(data, pending) /\ Readable(p)
             /\ ScaleFrom(p, SizeOf(p), Nothing, s)
    <3>1. p \in Picture /\ InFrame(p)
      BY <1>0, <2>1, TransformedPicture
    <3> HIDE DEF p
    <3>2. QED
      BY <2>1, <3>1, NothingType, ScaleFromInv
  <2>2. CASE TransformFails \/ ResultIsUnreadable
    BY <1>0, <2>2, ThrowInv, UnreadableInv DEF TransformFails
  <2>3. CASE ~MustTransformFirst /\ ScaleFrom(data, size, pending, s)
    <3>1. pending.rect = NoRect /\ Readable(data) /\ ScaleFrom(data, SizeOf(data), pending, s)
      BY <1>0, <2>3 DEF MustTransformFirst
    <3>2. QED
      BY <1>0, <3>1, ScaleFromInv
  <2>4. QED
    BY <1>4, <2>1, <2>2, <2>3 DEF DownScale
<1>5. ASSUME FlipHorizontal \/ FlipVertical \/ Transpose \/ Transverse
      PROVE  IInv'
  BY <1>2, <1>5 DEF FlipHorizontal, FlipVertical, Transpose, Transverse, Ops
<1>6. CASE ToGrayscale
  <2>1. /\ [pending EXCEPT !.gray = TRUE] \in Pending
        /\ [pending EXCEPT !.gray = TRUE].rect = pending.rect
        /\ [pending EXCEPT !.gray = TRUE].op = pending.op
    BY <1>0 DEF Pending
  <2>2. QED
    BY <1>0, <1>6, <2>1, WritePendingInv DEF ToGrayscale
<1>7. CASE Transform
  <2> DEFINE p == Transformed(data, pending)
  <2>1. CASE /\ Transformable(data, pending) /\ Readable(p)
             /\ SetImageData(p) /\ pending' = Nothing /\ Return
    <3>1. p \in Picture /\ InFrame(p)
      BY <1>0, <2>1, TransformedPicture
    <3> HIDE DEF p
    <3>2. data' = p /\ size' = SizeOf(p) /\ raised' = "none"
      BY <2>1 DEF SetImageData, Return
    <3>3. QED
      BY <2>1, <3>1, <3>2, NothingType, NewImageInv
  <2>2. CASE TransformFails \/ ResultIsUnreadable
    BY <1>0, <2>2, ThrowInv, UnreadableInv DEF TransformFails
  <2>3. QED
    BY <1>7, <2>1, <2>2 DEF Transform
<1>8. CASE UNCHANGED vars
  BY <1>8 DEF vars, IInv, TypeOK, ShowsPartOfFrame, PendingRectFits, KnowsItsFile,
     Readable, OutputMcu, SizeOf, WidthOf, HeightOf, Sideways
<1>9. QED
  BY <1>1, <1>3, <1>4, <1>5, <1>6, <1>7, <1>8 DEF Next

\* Every reachable state of the class satisfies the invariant.
THEOREM InvariantHolds == Spec => []IInv
BY InitInv, NextInv, PTL DEF Spec

\* The fields of JpegImage hold values of their types.
THEOREM TypeCorrect == Spec => []TypeOK
<1>1. IInv => TypeOK
  BY DEF IInv
<1>2. QED
  BY <1>1, InvariantHolds, PTL

\* No sequence of calls makes a crop reach over the edge of an image.
THEOREM FramesHold == Spec => []ShowsPartOfFrame
<1>1. IInv => ShowsPartOfFrame
  BY DEF IInv
<1>2. QED
  BY <1>1, InvariantHolds, PTL

\* No pending rectangle outlives the image it was checked against.
THEOREM PendingRectsFit == Spec => []PendingRectFits
<1>1. IInv => PendingRectFits
  BY DEF IInv
<1>2. QED
  BY <1>1, InvariantHolds, PTL

-----------------------------------------------------------------------------
(* What a single call may not do.                                          *)

\* toGrayscale() is never forgotten before it is applied, whatever is called.
THEOREM GrayKept == Spec => GrayIsNeverForgotten
<1>1. IInv /\ [Next]_vars => [GrayOrdered => GrayOrdered']_vars
  <2> SUFFICES ASSUME IInv, Next, GrayOrdered
               PROVE  GrayOrdered'
    OBVIOUS
  <2>0. /\ data \in Picture /\ InFrame(data)
        /\ pending \in Pending
        /\ pending.gray \/ data.depth = "GRAYSCALE"
    BY DEF IInv, TypeOK, ShowsPartOfFrame, GrayOrdered
  <2>2. ASSUME NEW e, Throw(e)
        PROVE  GrayOrdered'
    BY <2>0, <2>2 DEF GrayOrdered, Throw
  <2>3. ASSUME NEW op, SetOp(op)
        PROVE  GrayOrdered'
    <3>1. [pending EXCEPT !.op = op].gray = pending.gray
      BY <2>0 DEF Pending
    <3>2. QED
      BY <2>0, <2>3, <3>1 DEF SetOp, GrayOrdered
  <2>4. ASSUME NEW r \in Regions, Crop(r)
        PROVE  GrayOrdered'
    <3>1. [pending EXCEPT !.rect = r].gray = pending.gray
      BY <2>0 DEF Pending
    <3>2. QED
      BY <2>0, <2>2, <2>4, <3>1 DEF Crop, GrayOrdered
  <2>11. ASSUME ResultIsUnreadable
         PROVE  GrayOrdered'
    BY <2>0, <2>11, TransformedPicture DEF ResultIsUnreadable, SetImageData, GrayOrdered
  <2>5. ASSUME NEW a \in Angles, Rotate(a)
        PROVE  GrayOrdered'
    BY <2>2, <2>3, <2>5 DEF Rotate
  <2>6. ASSUME NEW s \in Sizes, DownScale(s)
        PROVE  GrayOrdered'
    <3> DEFINE p == Transformed(data, pending)
    <3>1. CASE Transformable(data, pending) /\ ScaleFrom(p, SizeOf(p), Nothing, s)
      <4>1. p \in Picture /\ p.depth = "GRAYSCALE"
        BY <2>0, <3>1, TransformedPicture
      <4> HIDE DEF p
      <4>2. QED
        BY <3>1, <4>1, NothingType, ScaleFromDepth
    <3>2. CASE TransformFails \/ ResultIsUnreadable
      BY <2>2, <2>11, <3>2 DEF TransformFails
    <3>3. CASE ~MustTransformFirst /\ ScaleFrom(data, size, pending, s)
      BY <2>0, <3>3, ScaleFromDepth
    <3>4. QED
      BY <2>6, <3>1, <3>2, <3>3 DEF DownScale
  <2>7. CASE FlipHorizontal \/ FlipVertical \/ Transpose \/ Transverse
    BY <2>3, <2>7 DEF FlipHorizontal, FlipVertical, Transpose, Transverse
  <2>8. CASE ToGrayscale
    <3>1. [pending EXCEPT !.gray = TRUE].gray = TRUE
      BY <2>0 DEF Pending
    <3>2. QED
      BY <2>8, <3>1 DEF ToGrayscale, GrayOrdered
  <2>9. CASE Transform
    <3>1. CASE Transformable(data, pending) /\ SetImageData(Transformed(data, pending))
      BY <2>0, <3>1, TransformedPicture DEF SetImageData, GrayOrdered
    <3>2. CASE TransformFails \/ ResultIsUnreadable
      BY <2>2, <2>11, <3>2 DEF TransformFails
    <3>3. QED
      BY <2>9, <3>1, <3>2 DEF Transform
  <2>10. QED
    BY <2>4, <2>5, <2>6, <2>7, <2>8, <2>9 DEF Next
<1>2. QED
  BY <1>1, InvariantHolds, PTL DEF Spec, GrayIsNeverForgotten

\* A call that throws leaves the image as it would have come out without the
\* call, although downScale() may have transformed before it refuses a size,
\* and leaves a file that can be read, unless 4:1:1 is turned sideways.
THEOREM RefusedCallsKeepPicture == Spec => RefusedCallKeepsPicture
<1> DEFINE Keeps == Outcome' = Outcome /\ (Readable(data) => Readable(data'))
           Lost  == TurnsFourOneOne /\ data' = Transformed(data, pending) /\ pending' = pending
<1>1. IInv /\ [Next]_vars => [raised' # "none" => Keeps \/ Lost]_vars
  <2> SUFFICES ASSUME IInv, Next, raised' # "none"
               PROVE  Keeps \/ Lost
    OBVIOUS
  <2>0. data \in Picture /\ InFrame(data) /\ pending \in Pending
    BY DEF IInv, TypeOK, ShowsPartOfFrame
  <2>1. ASSUME data' = data, pending' = pending
        PROVE  Keeps
    BY <2>1 DEF Outcome
  <2> HIDE DEF Keeps
  <2>2. ASSUME NEW e, Throw(e)
        PROVE  Keeps
    BY <2>1, <2>2 DEF Throw
  <2>9. ASSUME TransformFails \/ ResultIsUnreadable
        PROVE  Keeps \/ Lost
    <3>1. CASE TransformFails
      BY <2>2, <3>1 DEF TransformFails
    <3>2. CASE ResultIsUnreadable
      <4>1. /\ Transformable(data, pending) /\ ~Readable(Transformed(data, pending))
            /\ data' = Transformed(data, pending) /\ pending' = pending
        BY <3>2 DEF ResultIsUnreadable, SetImageData
      <4>2. TurnsFourOneOne
        BY <2>0, <4>1, UnreadableResult DEF TurnsFourOneOne
      <4>3. QED
        BY <4>1, <4>2
    <3>3. QED
      BY <2>9, <3>1, <3>2
  <2>3. ASSUME NEW s \in Sizes, DownScale(s)
        PROVE  Keeps \/ Lost
    <3> DEFINE p == Transformed(data, pending)
    <3>1. CASE /\ Transformable(data, pending) /\ Readable(p)
               /\ ScaleFrom(p, SizeOf(p), Nothing, s)
      <4>1. data' = p /\ pending' = Nothing
        BY <3>1 DEF ScaleFrom, Return
      <4>2. Outcome' = data'
        BY <4>1, NothingTransforms DEF Outcome
      <4>3. QED
        BY <3>1, <4>1, <4>2 DEF Outcome, Keeps
    <3>2. CASE TransformFails \/ ResultIsUnreadable
      BY <2>9, <3>2
    <3>3. CASE ~MustTransformFirst /\ ScaleFrom(data, size, pending, s)
      BY <2>1, <3>3 DEF ScaleFrom, Return
    <3>4. QED
      BY <2>3, <3>1, <3>2, <3>3 DEF DownScale
  <2>4. ASSUME NEW op, SetOp(op)
        PROVE  FALSE
    BY <2>4 DEF SetOp, Return
  <2>5. ASSUME NEW r \in Regions, Crop(r)
        PROVE  Keeps
    BY <2>2, <2>5 DEF Crop, Return
  <2>6. ASSUME NEW a \in Angles, Rotate(a)
        PROVE  Keeps
    BY <2>2, <2>4, <2>6 DEF Rotate
  <2>7. CASE Transform
    BY <2>7, <2>9 DEF Transform, Return
  <2>8. QED
    BY <2>3, <2>4, <2>5, <2>6, <2>7
       DEF Next, FlipHorizontal, FlipVertical, Transpose, Transverse, ToGrayscale, Return
<1>2. QED
  BY <1>1, InvariantHolds, PTL DEF Spec, RefusedCallKeepsPicture, Keeps, Lost

\* What was applied when setImageData() threw is never applied again.
THEOREM OrdersAppliedOnce == Spec => OrdersAreAppliedOnce
<1>1. IInv /\ [Next]_vars => [~Readable(data) => data' = data]_vars
  <2> SUFFICES ASSUME IInv, Next, ~Readable(data)
               PROVE  data' = data
    OBVIOUS
  <2>1. ~Transformable(data, pending)
    BY DEF Transformable
  <2>2. MustTransformFirst
    BY DEF IInv, KnowsItsFile, MustTransformFirst
  <2>3. TransformFails \/ ResultIsUnreadable => data' = data
    BY <2>1 DEF TransformFails, ResultIsUnreadable, Throw
  <2>4. ASSUME NEW s \in Sizes, DownScale(s)
        PROVE  data' = data
    BY <2>1, <2>2, <2>3, <2>4 DEF DownScale
  <2>5. CASE Transform
    BY <2>1, <2>3, <2>5 DEF Transform
  <2>6. QED
    BY <2>4, <2>5 DEF Next, Crop, Rotate, SetOp, FlipHorizontal, FlipVertical,
       Transpose, Transverse, ToGrayscale, Throw
<1>2. QED
  BY <1>1, InvariantHolds, PTL DEF Spec, OrdersAreAppliedOnce

-----------------------------------------------------------------------------
(* What a viewer sees of a picture does not depend on when one looks.      *)

LEMMA LookFields ==
    ASSUME NEW p \in Picture
    PROVE  /\ Look(p).stages = p.stages /\ Look(p).frame = p.frame
           /\ Look(p).rect = p.rect /\ Look(p).flip = p.flip
           /\ Look(p).turns = p.turns /\ Look(p).depth = p.depth
           /\ Look(p).patched = p.patched
           /\ WidthOf(Look(p)) = WidthOf(p) /\ HeightOf(Look(p)) = HeightOf(p)
BY DEF Look, WidthOf, HeightOf, Sideways

LEMMA LookCommutes ==
    ASSUME NEW p \in Picture
    PROVE  /\ \A r : Look(Cropped(p, r)) = Cropped(Look(p), r)
           /\ Look(Mirrored(p)) = Mirrored(Look(p))
           /\ \A k : Look(Turned(p, k)) = Turned(Look(p), k)
           /\ \A d : Look(InDepth(p, d)) = InDepth(Look(p), d)
           /\ \A w, h : Look(Resized(p, w, h)) = Resized(Look(p), w, h)
<1>1. ASSUME NEW r
      PROVE  Look(Cropped(p, r)) = Cropped(Look(p), r)
  <2>1. Unturned(Look(p), r) = Unturned(p, r)
    BY LookFields DEF Unturned
  <2> DEFINE u == Unturned(p, r)
  <2>2. Unflipped(Look(p), u) = Unflipped(p, u)
    BY LookFields DEF Unflipped
  <2> DEFINE q == Unflipped(p, u)
             b == Box(p.rect.x + q.x, p.rect.y + q.y, q.w, q.h)
  <2>3. Cropped(p, r) = [p EXCEPT !.rect = b]
    BY DEF Cropped
  <2>4. Cropped(Look(p), r) = [Look(p) EXCEPT !.rect = b]
    BY <2>1, <2>2, LookFields DEF Cropped
  <2> HIDE DEF b
  <2>5. QED
    BY <2>3, <2>4 DEF Look, Picture
<1>2. Look(Mirrored(p)) = Mirrored(Look(p))
  <2> DEFINE f == ~p.flip
             t == (4 - p.turns) % 4
  <2>1. Mirrored(p) = [p EXCEPT !.flip = f, !.turns = t]
    BY DEF Mirrored
  <2>2. Mirrored(Look(p)) = [Look(p) EXCEPT !.flip = f, !.turns = t]
    BY LookFields DEF Mirrored
  <2> HIDE DEF f, t
  <2>3. QED
    <3>1. /\ Mirrored(p).flip = f /\ Mirrored(p).turns = t
          /\ Mirrored(p).stages = p.stages /\ Mirrored(p).frame = p.frame
          /\ Mirrored(p).rect = p.rect /\ Mirrored(p).depth = p.depth
          /\ Mirrored(p).patched = p.patched
      BY <2>1, Zenon DEF Picture
    <3>2. Mirrored(Look(p)) = [stages |-> p.stages, frame |-> p.frame, rect |-> p.rect,
                               flip |-> f, turns |-> t, patched |-> p.patched, depth |-> p.depth]
      BY <2>2, Zenon DEF Look
    <3>3. QED
      BY <3>1, <3>2 DEF Look
<1>3. \A k : Look(Turned(p, k)) = Turned(Look(p), k)
  BY DEF Look, Turned, Picture
<1>4. \A d : Look(InDepth(p, d)) = InDepth(Look(p), d)
  BY DEF Look, InDepth, Picture
<1>5. ASSUME NEW w, NEW h
      PROVE  Look(Resized(p, w, h)) = Resized(Look(p), w, h)
  <2> DEFINE frame == IF Sideways(p) THEN [w |-> h, h |-> w] ELSE [w |-> w, h |-> h]
             st    == Append(p.stages, [rect |-> p.rect, size |-> frame])
             rect  == Whole(frame.w, frame.h)
             new   == [p EXCEPT !.stages = st, !.frame = frame, !.rect = rect]
             look  == [Look(p) EXCEPT !.stages = st, !.frame = frame, !.rect = rect]
  <2>1. Resized(p, w, h) = IF frame.w = p.rect.w /\ frame.h = p.rect.h THEN p ELSE new
    BY DEF Resized
  <2>2. Resized(Look(p), w, h) =
            IF frame.w = p.rect.w /\ frame.h = p.rect.h THEN Look(p) ELSE look
    BY LookFields DEF Resized, Sideways
  <2> HIDE DEF frame, st, rect
  <2>3. Look(new) = look
    <3>1. /\ new.stages = st /\ new.frame = frame /\ new.rect = rect
          /\ new.flip = p.flip /\ new.turns = p.turns /\ new.depth = p.depth
          /\ new.patched = p.patched
      BY DEF Picture
    <3>2. look = [stages |-> st, frame |-> frame, rect |-> rect, flip |-> p.flip,
                  turns |-> p.turns, patched |-> p.patched, depth |-> p.depth]
      <4>1. [Look(p) EXCEPT !.stages = st]
              = [stages |-> st, frame |-> p.frame, rect |-> p.rect, flip |-> p.flip,
                 turns |-> p.turns, patched |-> p.patched, depth |-> p.depth]
        BY SMT DEF Look
      <4>2. [[stages |-> st, frame |-> p.frame, rect |-> p.rect, flip |-> p.flip,
              turns |-> p.turns, patched |-> p.patched, depth |-> p.depth] EXCEPT !.frame = frame]
              = [stages |-> st, frame |-> frame, rect |-> p.rect, flip |-> p.flip,
                 turns |-> p.turns, patched |-> p.patched, depth |-> p.depth]
        BY SMT
      <4>3. [[stages |-> st, frame |-> frame, rect |-> p.rect, flip |-> p.flip,
              turns |-> p.turns, patched |-> p.patched, depth |-> p.depth] EXCEPT !.rect = rect]
              = [stages |-> st, frame |-> frame, rect |-> rect, flip |-> p.flip,
                 turns |-> p.turns, patched |-> p.patched, depth |-> p.depth]
        BY SMT
      <4>4. QED
        BY <4>1, <4>2, <4>3, Zenon
    <3> HIDE DEF new, look
    <3>3. QED
      BY <3>1, <3>2 DEF Look
  <2>4. QED
    BY <2>1, <2>2, <2>3
<1>6. QED
  BY <1>1, <1>2, <1>3, <1>4, <1>5

\* Losing the colours early or late makes no difference.
LEMMA DepthCommutes ==
    ASSUME NEW p \in Picture, NEW d \in Depths
    PROVE  /\ \A r : InDepth(Cropped(p, r), d) = Cropped(InDepth(p, d), r)
           /\ InDepth(Mirrored(p), d) = Mirrored(InDepth(p, d))
           /\ \A k : InDepth(Turned(p, k), d) = Turned(InDepth(p, d), k)
           /\ InDepth(InDepth(p, d), d) = InDepth(p, d)
           /\ \A w, h : InDepth(Resized(p, w, h), d) = Resized(InDepth(p, d), w, h)
           /\ WidthOf(InDepth(p, d)) = WidthOf(p) /\ HeightOf(InDepth(p, d)) = HeightOf(p)
<1>0. /\ InDepth(p, d).rect = p.rect /\ InDepth(p, d).turns = p.turns
      /\ InDepth(p, d).flip = p.flip /\ InDepth(p, d).stages = p.stages
  BY DEF InDepth, Picture
<1>1. ASSUME NEW r
      PROVE  InDepth(Cropped(p, r), d) = Cropped(InDepth(p, d), r)
  <2>1. Unturned(InDepth(p, d), r) = Unturned(p, r)
    BY <1>0 DEF Unturned
  <2> DEFINE u == Unturned(p, r)
  <2>2. Unflipped(InDepth(p, d), u) = Unflipped(p, u)
    BY <1>0 DEF Unflipped
  <2> DEFINE q == Unflipped(p, u)
             b == Box(p.rect.x + q.x, p.rect.y + q.y, q.w, q.h)
  <2>3. Cropped(p, r) = [p EXCEPT !.rect = b]
    BY DEF Cropped
  <2>4. Cropped(InDepth(p, d), r) = [InDepth(p, d) EXCEPT !.rect = b]
    BY <1>0, <2>1, <2>2 DEF Cropped
  <2> HIDE DEF b
  <2>5. QED
    BY <2>3, <2>4 DEF InDepth, Picture
<1>2. InDepth(Mirrored(p), d) = Mirrored(InDepth(p, d))
  BY DEF InDepth, Mirrored, Picture
<1>3. \A k : InDepth(Turned(p, k), d) = Turned(InDepth(p, d), k)
  BY DEF InDepth, Turned, Picture
<1>4. InDepth(InDepth(p, d), d) = InDepth(p, d)
  BY DEF InDepth, Picture
<1>5. ASSUME NEW w, NEW h
      PROVE  InDepth(Resized(p, w, h), d) = Resized(InDepth(p, d), w, h)
  <2> DEFINE frame == IF Sideways(p) THEN [w |-> h, h |-> w] ELSE [w |-> w, h |-> h]
             st    == Append(p.stages, [rect |-> p.rect, size |-> frame])
             rect  == Whole(frame.w, frame.h)
             new   == [p EXCEPT !.stages = st, !.frame = frame, !.rect = rect]
             deep  == [InDepth(p, d) EXCEPT !.stages = st, !.frame = frame, !.rect = rect]
  <2>1. Resized(p, w, h) = IF frame.w = p.rect.w /\ frame.h = p.rect.h THEN p ELSE new
    BY DEF Resized
  <2>2. Resized(InDepth(p, d), w, h) =
            IF frame.w = p.rect.w /\ frame.h = p.rect.h THEN InDepth(p, d) ELSE deep
    BY <1>0 DEF Resized, Sideways
  <2> HIDE DEF frame, st, rect
  <2>3. InDepth(new, d) = deep
    BY DEF InDepth, Picture
  <2>4. QED
    BY <2>1, <2>2, <2>3
<1>6. WidthOf(InDepth(p, d)) = WidthOf(p) /\ HeightOf(InDepth(p, d)) = HeightOf(p)
  BY <1>0 DEF WidthOf, HeightOf, Sideways
<1>7. QED
  BY <1>1, <1>2, <1>3, <1>4, <1>5, <1>6
-----------------------------------------------------------------------------
(* The abstract specification's operations are those of Pictures.          *)

LEMMA SameOperations ==
    /\ \A p, r : Eager!Cropped(p, r) = Cropped(p, r)
    /\ \A p : Eager!Mirrored(p) = Mirrored(p)
    /\ \A p, k : Eager!Turned(p, k) = Turned(p, k)
    /\ \A p, d : Eager!InDepth(p, d) = InDepth(p, d)
    /\ \A p, w, h : Eager!Resized(p, w, h) = Resized(p, w, h)
    /\ \A p : Eager!Look(p) = Look(p)
    /\ \A p : Eager!WidthOf(p) = WidthOf(p) /\ Eager!HeightOf(p) = HeightOf(p)
    /\ \A r, w, h : Eager!Inside(r, w, h) = Inside(r, w, h)
<1>1. \A p, r : Eager!Unturned(p, r) = Unturned(p, r)
  BY Zenon DEF Eager!Unturned, Unturned, Eager!Box, Box
<1>2. \A p, r : Eager!Unflipped(p, r) = Unflipped(p, r)
  BY Zenon DEF Eager!Unflipped, Unflipped
<1>3. \A p, r : Eager!Cropped(p, r) = Cropped(p, r)
  BY <1>1, <1>2, Zenon DEF Eager!Cropped, Cropped, Eager!Box, Box
<1>4. \A p : Eager!Mirrored(p) = Mirrored(p)
  BY Zenon DEF Eager!Mirrored, Mirrored
<1>5. \A p, k : Eager!Turned(p, k) = Turned(p, k)
  BY Zenon DEF Eager!Turned, Turned
<1>6. \A p, d : Eager!InDepth(p, d) = InDepth(p, d)
  BY Zenon DEF Eager!InDepth, InDepth
<1>7. \A p, w, h : Eager!Resized(p, w, h) = Resized(p, w, h)
  BY Zenon DEF Eager!Resized, Resized, Eager!Sideways, Sideways, Eager!Whole, Whole,
     Eager!Box, Box
<1>8. \A p : Eager!Look(p) = Look(p)
  BY Zenon DEF Eager!Look, Look
<1>9. \A p : Eager!WidthOf(p) = WidthOf(p) /\ Eager!HeightOf(p) = HeightOf(p)
  BY Zenon DEF Eager!WidthOf, WidthOf, Eager!HeightOf, HeightOf, Eager!Sideways, Sideways
<1>10. \A r, w, h : Eager!Inside(r, w, h) = Inside(r, w, h)
  BY Zenon DEF Eager!Inside, Inside
<1>11. QED
  BY <1>3, <1>4, <1>5, <1>6, <1>7, <1>8, <1>9, <1>10

-----------------------------------------------------------------------------
(* The picture ordered.                                                    *)

Shaded(p, g) == IF g THEN InDepth(p, "GRAYSCALE") ELSE p
Ordered(p, t) ==
    Look(Shaded(Moved(IF t.rect = NoRect THEN p ELSE Cropped(p, t.rect), t.op), t.gray))

LEMMA OrderedPictures ==
    /\ OrderedPicture = Ordered(data, pending)
    /\ OrderedPicture' = Ordered(data', pending')
BY DEF OrderedPicture, Ordered, Shaded

\* What is done to the picture a viewer sees may as well be done before the
\* colours are dropped.
LEMMA ShadedCommutes ==
    ASSUME NEW p \in Picture, NEW g \in BOOLEAN
    PROVE  /\ Shaded(p, g) \in Picture
           /\ \A r \in Rect : Cropped(Look(Shaded(p, g)), r) = Look(Shaded(Cropped(p, r), g))
           /\ Mirrored(Look(Shaded(p, g))) = Look(Shaded(Mirrored(p), g))
           /\ \A k \in 0..3 : Turned(Look(Shaded(p, g)), k) = Look(Shaded(Turned(p, k), g))
           /\ \A w, h : Resized(Look(Shaded(p, g)), w, h) = Look(Shaded(Resized(p, w, h), g))
           /\ InDepth(Look(Shaded(p, g)), "GRAYSCALE") = Look(Shaded(p, TRUE))
           /\ WidthOf(Look(Shaded(p, g))) = WidthOf(p)
           /\ HeightOf(Look(Shaded(p, g))) = HeightOf(p)
<1>1. InDepth(p, "GRAYSCALE") \in Picture /\ "GRAYSCALE" \in Depths
  BY GrayPicture DEF Depths
<1>2. CASE g = TRUE
  BY <1>1, <1>2, LookCommutes, DepthCommutes, LookFields DEF Shaded
<1>3. CASE g = FALSE
  BY <1>1, <1>3, LookCommutes, DepthCommutes, LookFields DEF Shaded
<1>4. QED
  BY <1>2, <1>3

\* transform() does what was ordered, when no two orders meet and every block
\* is moved.
LEMMA TransformedIsOrdered ==
    ASSUME NEW p, NEW t \in Pending, t.op = "NONE" \/ t.rect = NoRect,
           MirrorsWhole(p, t.op, t.gray)
    PROVE  Ordered(p, t) = Look(Transformed(p, t))
<1>1. \A q : Moved(q, "NONE") = q
  BY DEF Moved
<1>2. OpApplied(p, t.op, t.gray) = Moved(p, t.op)
  BY DEF OpApplied
<1>3. QED
  BY <1>1, <1>2 DEF Ordered, Transformed, Shaded

LEMMA NoneMirrorsWhole ==
    ASSUME NEW p, NEW gray
    PROVE  MirrorsWhole(p, "NONE", gray)
BY DEF MirrorsWhole, MirrorsX, MirrorsY

LEMMA NothingOrdered ==
    ASSUME NEW p
    PROVE  Ordered(p, Nothing) = Look(p)
BY NothingType, NothingTransforms, TransformedIsOrdered, NoneMirrorsWhole DEF Nothing

LEMMA IdleOrdered ==
    ASSUME NEW p, NEW t \in Pending, t.rect = NoRect, t.op = "NONE"
    PROVE  Ordered(p, t) = Look(Shaded(p, t.gray))
BY DEF Ordered, Moved

\* Each flip or rotation is one operation of the eager image, or none.
LEMMA OpIsOrdered ==
    ASSUME NEW p \in Picture, NEW g \in BOOLEAN, NEW op \in Ops
    PROVE  LET old == Look(Shaded(p, g))
               new == Look(Shaded(Moved(p, op), g))
           IN  \/ new = old
               \/ \E k \in 1..3 : new = Turned(old, k)
               \/ \E k \in 0..3 : new = Turned(Mirrored(old), k)
<1> DEFINE old == Look(Shaded(p, g))
<1>1. Mirrored(p) \in Picture
  BY ReorientedPicture DEF Depths
<1>2. /\ Mirrored(old) = Look(Shaded(Mirrored(p), g))
      /\ \A k \in 0..3 : Turned(old, k) = Look(Shaded(Turned(p, k), g))
  BY ShadedCommutes
<1>3. \A k \in 0..3 :
          Turned(Look(Shaded(Mirrored(p), g)), k) = Look(Shaded(Turned(Mirrored(p), k), g))
  BY <1>1, ShadedCommutes
<1> HIDE DEF old
<1>4. \A k \in 0..3 : Turned(Mirrored(old), k) = Look(Shaded(Turned(Mirrored(p), k), g))
  BY <1>2, <1>3
<1>5. Mirrored(old) = Turned(Mirrored(old), 0)
  <2>1. Mirrored(p) = Turned(Mirrored(p), 0)
    BY <1>1 DEF Turned, Picture
  <2>2. QED
    BY <1>2, <1>4, <2>1
<1>6. CASE op = "NONE"
  BY <1>6 DEF Moved, old
<1>7. CASE op = "HFLIP"
  BY <1>2, <1>5, <1>7 DEF Moved, old
<1>8. CASE op \in {"VFLIP", "TRANSPOSE", "TRANSVERSE"}
  BY <1>4, <1>8 DEF Moved, old
<1>9. CASE op \in {"ROT90", "ROT180", "ROT270"}
  BY <1>2, <1>9 DEF Moved, old
<1>10. QED
  BY <1>6, <1>7, <1>8, <1>9 DEF Ops, old

-----------------------------------------------------------------------------
(* The refinement.                                                         *)

\* A careful caller has at most one operation pending, beside grayscale, and
\* one that transform() can do to every block.
OneOrder ==
    \/ pending.op = "NONE"
    \/ pending.rect = NoRect /\ Readable(data) /\ DoneWell(pending.op)

LEMMA CarefulIsNext == [CarefulNext]_vars => [Next]_vars
BY DEF CarefulNext, Next

\* What transform() makes for a careful caller can be read.
LEMMA OrderIsDoneWell ==
    ASSUME IInv, OneOrder, Transformable(data, pending)
    PROVE  /\ MirrorsWhole(data, pending.op, pending.gray)
           /\ pending.op = "NONE" \/ pending.rect = NoRect
           /\ Readable(Transformed(data, pending))
<1> DEFINE q == Transformed(data, pending)
           m == Moved(data, pending.op)
<1>1. /\ data \in Picture /\ InFrame(data) /\ pending \in Pending
      /\ pending.op \in Ops /\ pending.gray \in BOOLEAN
  BY DEF IInv, TypeOK, ShowsPartOfFrame, Pending
<1>2. /\ MirrorsWhole(data, pending.op, pending.gray)
      /\ pending.op = "NONE" \/ pending.rect = NoRect
  BY <1>1, NoneMirrorsWhole DEF OneOrder, DoneWell
<1>3. Readable(m)
  <2>1. CASE pending.op = "NONE"
    BY <2>1 DEF Moved, Transformable
  <2>2. CASE pending.op # "NONE"
    BY <2>2 DEF OneOrder, DoneWell
  <2>3. QED
    BY <2>1, <2>2
<1>4. /\ q \in Picture /\ q.mcu = data.mcu /\ q.coding = data.coding
      /\ q.depth = IF pending.gray THEN "GRAYSCALE" ELSE data.depth
      /\ Sideways(q) <=> (IF pending.op \in TurnsSideways THEN ~Sideways(data) ELSE Sideways(data))
  BY <1>1, TransformedPicture
<1>5. /\ m \in Picture /\ m.mcu = data.mcu /\ m.coding = data.coding
      /\ m.depth = data.depth
      /\ Sideways(m) <=> (IF pending.op \in TurnsSideways THEN ~Sideways(data) ELSE Sideways(data))
  BY <1>1, MovedPicture, MovedFields
<1> HIDE DEF q, m
<1>6. ASSUME pending.gray = TRUE
      PROVE  Readable(q)
  <2>1. q.depth = "GRAYSCALE"
    BY <1>4, <1>6
  <2>2. QED
    BY <2>1 DEF Readable, OutputMcu, Samplings
<1>7. ASSUME pending.gray = FALSE
      PROVE  Readable(q)
  <2>1. q.depth = m.depth /\ q.mcu = m.mcu /\ q.coding = m.coding
    BY <1>4, <1>5, <1>7
  <2>2. Sideways(q) <=> Sideways(m)
    BY <1>4, <1>5
  <2>3. QED
    BY <1>3, <1>4, <1>5, <2>1, <2>2, ReadableFields
<1>8. QED
  BY <1>1, <1>2, <1>6, <1>7 DEF q

LEMMA OneOrderKept ==
    ASSUME IInv, OneOrder, [CarefulNext]_vars
    PROVE  OneOrder'
<1>0. /\ pending \in Pending
      /\ pending.op = "NONE" => Readable(data)
  BY DEF IInv, TypeOK, KnowsItsFile
<1>1. ASSUME pending'.op = "NONE"
      PROVE  OneOrder'
  BY <1>1 DEF OneOrder
<1>2. ASSUME data' = data, pending'.op = pending.op, pending'.rect = pending.rect
      PROVE  OneOrder'
  BY <1>2 DEF OneOrder, DoneWell
<1>3. ASSUME NEW op, SetOp(op), Idle, DoneWell(op)
      PROVE  OneOrder'
  <2>1. data' = data /\ pending'.op = op /\ pending'.rect = NoRect /\ Readable(data)
    BY <1>0, <1>3 DEF SetOp, Idle, Pending
  <2>2. QED
    BY <1>3, <2>1 DEF OneOrder, DoneWell
<1>4. ASSUME NEW e, Throw(e)
      PROVE  OneOrder'
  BY <1>2, <1>4 DEF Throw
<1>5. ASSUME TransformFails \/ ResultIsUnreadable
      PROVE  OneOrder'
  BY <1>4, <1>5, OrderIsDoneWell DEF TransformFails, ResultIsUnreadable
<1>6. ASSUME NEW r \in Regions, Crop(r), Idle
      PROVE  OneOrder'
  <2>1. [pending EXCEPT !.rect = r].op = pending.op
    BY <1>0 DEF Pending
  <2>2. QED
    BY <1>1, <1>4, <1>6, <2>1 DEF Crop, Idle
<1>7. ASSUME NEW a \in Angles, Rotate(a), Idle, DoneWell(pending'.op)
      PROVE  OneOrder'
  <2>1. Throw("IllegalArgument") \/ \E op : SetOp(op)
    BY <1>7 DEF Rotate
  <2>2. ASSUME NEW op, SetOp(op)
        PROVE  DoneWell(op)
    <3>1. pending'.op = op
      BY <1>0, <2>2 DEF SetOp, Pending
    <3>2. QED
      BY <1>7, <3>1
  <2>3. QED
    BY <1>3, <1>4, <1>7, <2>1, <2>2
<1>8. ASSUME NEW s \in Sizes, DownScale(s)
      PROVE  OneOrder'
  <2>1. CASE TransformFails \/ ResultIsUnreadable
    BY <1>5, <2>1
  <2>2. CASE pending' = Nothing
    BY <1>1, <2>2 DEF Nothing
  <2>3. CASE ~MustTransformFirst /\ pending' = pending
    BY <1>1, <2>3 DEF MustTransformFirst
  <2>4. QED
    BY <1>8, <2>1, <2>2, <2>3 DEF DownScale, ScaleFrom
<1>9. CASE Transform
  BY <1>1, <1>5, <1>9 DEF Transform, Nothing
<1>10. CASE ToGrayscale
  <2>1. /\ [pending EXCEPT !.gray = TRUE].op = pending.op
        /\ [pending EXCEPT !.gray = TRUE].rect = pending.rect
    BY <1>0 DEF Pending
  <2>2. QED
    BY <1>2, <1>10, <2>1 DEF ToGrayscale
<1>11. CASE UNCHANGED vars
  BY <1>2, <1>11 DEF vars
<1>12. QED
  BY <1>3, <1>6, <1>7, <1>8, <1>9, <1>10, <1>11 DEF CarefulNext, FlipHorizontal,
     FlipVertical, Transpose, Transverse

\* A flip or a rotation of an image without pending operations.
LEMMA SetOpRefines ==
    ASSUME IInv, Idle, NEW op \in Ops, SetOp(op)
    PROVE  Eager!Turn \/ Eager!MirrorAndTurn \/ UNCHANGED OrderedPicture
<1> DEFINE t == [pending EXCEPT !.op = op]
<1>1. /\ data \in Picture /\ pending \in Pending /\ pending.gray \in BOOLEAN
      /\ t.op = op /\ t.rect = NoRect /\ t.gray = pending.gray
  BY DEF IInv, TypeOK, Pending, Idle
<1>2. data' = data /\ pending' = t
  BY DEF SetOp
<1> HIDE DEF t
<1>3. OrderedPicture = Look(Shaded(data, pending.gray))
  BY <1>1, OrderedPictures, IdleOrdered DEF Idle
<1>4. OrderedPicture' = Look(Shaded(Moved(data, op), pending.gray))
  BY <1>1, <1>2, OrderedPictures DEF Ordered
<1>5. \/ OrderedPicture' = OrderedPicture
      \/ \E k \in 1..3 : OrderedPicture' = Turned(OrderedPicture, k)
      \/ \E k \in 0..3 : OrderedPicture' = Turned(Mirrored(OrderedPicture), k)
  BY <1>1, <1>3, <1>4, OpIsOrdered
<1>6. QED
  BY <1>5, SameOperations DEF Eager!Turn, Eager!MirrorAndTurn

LEMMA CropRefines ==
    ASSUME IInv, Idle, NEW r \in Regions, Crop(r)
    PROVE  Eager!Crop \/ UNCHANGED OrderedPicture
<1>1. CASE Throw("IllegalArgument")
  BY <1>1, OrderedPictures DEF Throw
<1>2. CASE /\ Inside(r, WidthOf(data), HeightOf(data))
           /\ pending' = [pending EXCEPT !.rect = r] /\ data' = data
  <2> DEFINE t == [pending EXCEPT !.rect = r]
  <2>1. /\ data \in Picture /\ pending \in Pending /\ pending.gray \in BOOLEAN
        /\ t.rect = r /\ t.op = "NONE" /\ t.gray = pending.gray /\ r \in Rect
    BY RegionsAssumption DEF IInv, TypeOK, Pending, Idle
  <2>2. pending' = t
    BY <1>2
  <2> HIDE DEF t
  <2>3. OrderedPicture = Look(Shaded(data, pending.gray))
    BY <2>1, OrderedPictures, IdleOrdered DEF Idle
  <2>4. r # NoRect
    BY <1>2, <2>1 DEF NoRect, Whole, Box, Inside, Rect
  <2>5. OrderedPicture' = Look(Shaded(Cropped(data, r), pending.gray))
    BY <1>2, <2>1, <2>2, <2>4, OrderedPictures DEF Ordered, Moved
  <2>6. /\ OrderedPicture' = Cropped(OrderedPicture, r)
        /\ Inside(r, WidthOf(OrderedPicture), HeightOf(OrderedPicture))
    BY <1>2, <2>1, <2>3, <2>5, ShadedCommutes
  <2>7. QED
    BY <2>6, SameOperations DEF Eager!Crop
<1>3. size.w = WidthOf(data) /\ size.h = HeightOf(data)
  BY DEF IInv, KnowsItsFile, Idle, SizeOf
<1>4. QED
  BY <1>1, <1>2, <1>3 DEF Crop

\* downScale() resamples what a viewer of the picture ordered would see.
LEMMA ScaleFromRefines ==
    ASSUME NEW p \in Picture, InFrame(p), NEW t \in Pending, t.rect = NoRect,
           t.op = "NONE", OrderedPicture = Look(Shaded(p, t.gray)),
           NEW s \in Sizes, ScaleFrom(p, SizeOf(p), t, s)
    PROVE  Eager!Shrink \/ UNCHANGED OrderedPicture
<1>0. t.gray \in BOOLEAN
  BY DEF Pending
<1>1. CASE data' = p /\ pending' = t
  BY <1>1, OrderedPictures, IdleOrdered
<1>2. CASE /\ s.w \in 1..WidthOf(p) /\ s.h \in 1..HeightOf(p)
           /\ data' = Downscaled(p, s.w, s.h) /\ pending' = t
  <2> DEFINE q == Resized(p, s.w, s.h)
             m == IF p.coding = "CMYK" THEN [w |-> 8, h |-> 8] ELSE [w |-> 16, h |-> 16]
             c == IF p.coding = "RGB" THEN "YCC" ELSE p.coding
             q2 == [q EXCEPT !.intact = TRUE, !.bulky = FALSE, !.coding = c, !.mcu = m]
  <2>1. s.w \in Nat \ {0} /\ s.h \in Nat \ {0}
    BY <1>2, SizesOfPicture
  <2>2. q \in Picture
    BY <2>1, ResizedPicture
  <2>3. Downscaled(p, s.w, s.h) = q2
    BY DEF Downscaled
  <2> HIDE DEF q, m, c
  <2>4. Look(Shaded(q2, t.gray)) = Look(Shaded(q, t.gray))
    <3>1. /\ q2.stages = q.stages /\ q2.frame = q.frame /\ q2.rect = q.rect
          /\ q2.patched = q.patched
          /\ InDepth(q2, "GRAYSCALE").patched = q.patched
          /\ q2.flip = q.flip /\ q2.turns = q.turns /\ q2.depth = q.depth
          /\ InDepth(q2, "GRAYSCALE").stages = q.stages
          /\ InDepth(q2, "GRAYSCALE").frame = q.frame
          /\ InDepth(q2, "GRAYSCALE").rect = q.rect
          /\ InDepth(q2, "GRAYSCALE").flip = q.flip
          /\ InDepth(q2, "GRAYSCALE").turns = q.turns
          /\ InDepth(q2, "GRAYSCALE").depth = "GRAYSCALE"
      BY <2>2 DEF Picture, InDepth
    <3>2. /\ InDepth(q, "GRAYSCALE").patched = q.patched
          /\ InDepth(q, "GRAYSCALE").stages = q.stages
          /\ InDepth(q, "GRAYSCALE").frame = q.frame
          /\ InDepth(q, "GRAYSCALE").rect = q.rect
          /\ InDepth(q, "GRAYSCALE").flip = q.flip
          /\ InDepth(q, "GRAYSCALE").turns = q.turns
          /\ InDepth(q, "GRAYSCALE").depth = "GRAYSCALE"
      BY <2>2 DEF Picture, InDepth
    <3> HIDE DEF q2
    <3>3. QED
      BY <3>1, <3>2 DEF Shaded, Look
  <2> HIDE DEF q2
  <2>5. OrderedPicture' = Look(Shaded(q, t.gray))
    BY <1>2, <2>3, <2>4, OrderedPictures, IdleOrdered
  <2>6. /\ OrderedPicture' = Resized(OrderedPicture, s.w, s.h)
        /\ s.w \in 1..WidthOf(OrderedPicture) /\ s.h \in 1..HeightOf(OrderedPicture)
    <3>1. Resized(Look(Shaded(p, t.gray)), s.w, s.h) = Look(Shaded(q, t.gray))
      <4>1. \A w, h : Resized(Look(Shaded(p, t.gray)), w, h)
                          = Look(Shaded(Resized(p, w, h), t.gray))
        BY <1>0, ShadedCommutes
      <4>2. QED
        BY <4>1, Zenon DEF q
    <3>2. WidthOf(OrderedPicture) = WidthOf(p) /\ HeightOf(OrderedPicture) = HeightOf(p)
      BY <1>0, ShadedCommutes
    <3>3. QED
      BY <1>2, <2>5, <3>1, <3>2
  <2>7. QED
    BY <2>6, SameOperations DEF Eager!Shrink
<1>3. SizeOf(p).w = WidthOf(p) /\ SizeOf(p).h = HeightOf(p)
  BY DEF SizeOf
<1>4. QED
  BY <1>1, <1>2, <1>3 DEF ScaleFrom, SetImageData

\* A call that throws, because the transformation fails.
LEMMA FailedTransformRefines ==
    ASSUME IInv, OneOrder, TransformFails \/ ResultIsUnreadable
    PROVE  UNCHANGED OrderedPicture
<1>1. Throw("TJ")
  BY OrderIsDoneWell DEF TransformFails, ResultIsUnreadable
<1>2. QED
  BY <1>1, OrderedPictures DEF Throw

LEMMA DownScaleRefines ==
    ASSUME IInv, OneOrder, NEW s \in Sizes, DownScale(s)
    PROVE  Eager!Shrink \/ UNCHANGED OrderedPicture
<1> DEFINE p == Transformed(data, pending)
<1>0. data \in Picture /\ InFrame(data) /\ pending \in Pending /\ pending.gray \in BOOLEAN
  BY DEF IInv, TypeOK, ShowsPartOfFrame, Pending
<1>1. CASE Transformable(data, pending) /\ ScaleFrom(p, SizeOf(p), Nothing, s)
  <2>1. p \in Picture /\ InFrame(p)
    BY <1>0, <1>1, TransformedPicture
  <2>2. OrderedPicture = Look(Shaded(p, Nothing.gray))
    BY <1>0, <1>1, OrderedPictures, OrderIsDoneWell, TransformedIsOrdered DEF Shaded, Nothing
  <2>3. Nothing \in Pending /\ Nothing.rect = NoRect /\ Nothing.op = "NONE"
    BY NothingType DEF Nothing
  <2> HIDE DEF p
  <2>4. QED
    BY <1>1, <2>1, <2>2, <2>3, ScaleFromRefines
<1>2. CASE TransformFails \/ ResultIsUnreadable
  BY <1>2, FailedTransformRefines
<1>3. CASE ~MustTransformFirst /\ ScaleFrom(data, size, pending, s)
  <2>1. pending.rect = NoRect /\ pending.op = "NONE"
    BY <1>3 DEF MustTransformFirst
  <2>2. OrderedPicture = Look(Shaded(data, pending.gray))
    BY <1>0, <2>1, OrderedPictures, IdleOrdered
  <2>3. size = SizeOf(data)
    BY <2>1 DEF IInv, KnowsItsFile
  <2>4. QED
    BY <1>0, <1>3, <2>1, <2>2, <2>3, ScaleFromRefines
<1>4. QED
  BY <1>1, <1>2, <1>3 DEF DownScale

LEMMA ToGrayscaleRefines ==
    ASSUME IInv, OneOrder, ToGrayscale
    PROVE  Eager!ToGrayscale
<1> DEFINE p == Moved(IF pending.rect = NoRect THEN data
                      ELSE Cropped(data, pending.rect), pending.op)
           t == [pending EXCEPT !.gray = TRUE]
<1>1. /\ data \in Picture /\ pending \in Pending /\ pending.gray \in BOOLEAN
      /\ pending.rect \in Rect /\ pending.op \in Ops
      /\ t.op = pending.op /\ t.rect = pending.rect /\ t.gray = TRUE
  BY DEF IInv, TypeOK, Pending
<1>2. data' = data /\ pending' = t
  BY DEF ToGrayscale
<1>3. p \in Picture
  BY <1>1, CroppedType, MovedPicture
<1> HIDE DEF t
<1>4. OrderedPicture = Look(Shaded(p, pending.gray)) /\ OrderedPicture' = Look(Shaded(p, TRUE))
  BY <1>1, <1>2, OrderedPictures DEF Ordered
<1> HIDE DEF p
<1>5. OrderedPicture' = InDepth(OrderedPicture, "GRAYSCALE")
  BY <1>1, <1>3, <1>4, ShadedCommutes
<1>6. QED
  BY <1>5, SameOperations DEF Eager!ToGrayscale

LEMMA TransformRefines ==
    ASSUME IInv, OneOrder, Transform
    PROVE  UNCHANGED OrderedPicture
<1>1. pending \in Pending
  BY DEF IInv, TypeOK
<1>2. CASE TransformFails \/ ResultIsUnreadable
  BY <1>2, FailedTransformRefines
<1>3. CASE /\ Transformable(data, pending)
           /\ data' = Transformed(data, pending) /\ pending' = Nothing
  BY <1>1, <1>3, OrderedPictures, OrderIsDoneWell, TransformedIsOrdered, NothingOrdered
<1>4. QED
  BY <1>2, <1>3 DEF Transform, SetImageData

LEMMA StepRefines ==
    ASSUME IInv, OneOrder, [CarefulNext]_vars
    PROVE  [Eager!Next]_OrderedPicture
<1>0. pending.op \in Ops /\ {"HFLIP", "VFLIP", "TRANSPOSE", "TRANSVERSE",
                             "ROT90", "ROT180", "ROT270"} \subseteq Ops
  BY DEF IInv, TypeOK, Pending, Ops
<1>1. CASE UNCHANGED vars
  BY <1>1, OrderedPictures DEF vars
<1>2. CASE Idle /\ \E r \in Regions : Crop(r)
  BY <1>2, CropRefines DEF Eager!Next
<1>3. CASE Idle /\ \E op \in Ops : SetOp(op)
  BY <1>3, SetOpRefines DEF Eager!Next
<1>4. CASE Idle /\ \E a \in Angles : Rotate(a)
  <2>1. Throw("IllegalArgument") => UNCHANGED OrderedPicture
    BY OrderedPictures DEF Throw
  <2>2. QED
    BY <1>0, <1>3, <1>4, <2>1 DEF Rotate
<1>5. CASE \E s \in Sizes : DownScale(s)
  BY <1>5, DownScaleRefines DEF Eager!Next
<1>6. CASE ToGrayscale
  BY <1>6, ToGrayscaleRefines DEF Eager!Next
<1>7. CASE Transform
  BY <1>7, TransformRefines
<1>8. QED
  BY <1>0, <1>1, <1>2, <1>3, <1>4, <1>5, <1>6, <1>7 DEF CarefulNext, FlipHorizontal,
     FlipVertical, Transpose, Transverse

\* The lazy class keeps the promise of the eager image to a careful caller,
\* whatever the source, the rectangles, the sizes and the angles.
THEOREM CarefulImplementsEager == CarefulSpec => ImplementsEagerImage
<1>1. Init => IInv /\ OneOrder /\ Eager!Init
  <2>1. Init => IInv /\ OneOrder
    BY InitInv DEF Init, OneOrder, Nothing
  <2>2. Init => OrderedPicture \in {Look(p) : p \in Sources}
    BY OrderedPictures, NothingOrdered DEF Init
  <2>3. QED
    BY <2>1, <2>2, SameOperations DEF Eager!Init
<1>2. IInv /\ OneOrder /\ [CarefulNext]_vars => IInv' /\ OneOrder'
  BY CarefulIsNext, NextInv, OneOrderKept
<1>3. IInv /\ OneOrder /\ [CarefulNext]_vars => [Eager!Next]_OrderedPicture
  BY StepRefines
<1>4. QED
  BY <1>1, <1>2, <1>3, PTL DEF CarefulSpec, ImplementsEagerImage, Eager!Spec
=============================================================================
