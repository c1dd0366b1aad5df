------------------------- MODULE ImageServiceProofs -------------------------
(***************************************************************************)
(* What the answers of ImageService mean, for any list of repositories and *)
(* any requests.                                                           *)
(*                                                                         *)
(* The refusals 404 and 415 do not depend on what the operations of the    *)
(* two image classes do with a picture, only on what they throw.  The      *)
(* other three invariants of the contract do: a 400 or a 500 has a cause   *)
(* in the request or in the file, and what is served with 200 is the       *)
(* picture asked for.  They follow from one inductive invariant,           *)
(* PictureInv, that says what either image holds before every step.        *)
(***************************************************************************)
EXTENDS ImageServiceContract, TLAPS

(***************************************************************************)
(* What the operations on pictures return and preserve.                    *)
(***************************************************************************)

\* A picture has the sizes of its rectangle, turned or not.
LEMMA SizesOfPicture ==
    ASSUME NEW p \in Picture
    PROVE  /\ WidthOf(p) \in Int /\ HeightOf(p) \in Int
           /\ p.rect \in Rect /\ p.frame \in Size /\ p.mcu \in Size
BY DEF Picture, Rect, Size, WidthOf, HeightOf, Sideways

\* Changing coordinates keeps a rectangle a rectangle.
LEMMA CoordinatesType ==
    ASSUME NEW p \in Picture, NEW r \in Rect
    PROVE  Unflipped(p, Unturned(p, r)) \in Rect
<1>1. p.rect \in Rect /\ p.turns \in 0..3
  BY DEF Picture
<1>2. Unturned(p, r) \in Rect
  BY <1>1 DEF Unturned, Box, Rect
<1>3. QED
  BY <1>1, <1>2 DEF Unflipped, Rect

\* Cropping a picture gives a picture.
LEMMA CroppedType ==
    ASSUME NEW p \in Picture, NEW r \in Rect
    PROVE  /\ Cropped(p, r) \in Picture
           /\ Cropped(p, r).turns = p.turns /\ Cropped(p, r).depth = p.depth
           /\ Cropped(p, r).mcu = p.mcu /\ Cropped(p, r).coding = p.coding
<1> DEFINE q == Unflipped(p, Unturned(p, r))
           b == Box(p.rect.x + q.x, p.rect.y + q.y, q.w, q.h)
<1>1. q \in Rect
  BY CoordinatesType
<1>2. p.rect \in Rect
  BY DEF Picture
<1> HIDE DEF q
<1>3. b \in Rect
  BY <1>1, <1>2 DEF Box, Rect
<1> HIDE DEF b
<1> DEFINE c == [p EXCEPT !.rect = b]
<1>4. c \in Picture
  BY <1>3 DEF Picture
<1>5. c.turns = p.turns /\ c.depth = p.depth /\ c.mcu = p.mcu /\ c.coding = p.coding
  BY Zenon DEF Picture
<1>6. Cropped(p, r) = c
  BY DEF Cropped, b, q
<1>7. QED
  BY <1>4, <1>5, <1>6

\* Cropping a picture leaves one of the rectangle's size.
LEMMA CroppedSize ==
    ASSUME NEW p \in Picture, NEW b \in Rect
    PROVE  WidthOf(Cropped(p, b)) = b.w /\ HeightOf(Cropped(p, b)) = b.h
<1> DEFINE q == Unflipped(p, Unturned(p, b))
<1>1. p.rect \in Rect /\ p.turns \in 0..3 /\ p.flip \in BOOLEAN
  BY DEF Picture
<1>2. /\ q.w = IF p.turns \in {1, 3} THEN b.h ELSE b.w
      /\ q.h = IF p.turns \in {1, 3} THEN b.w ELSE b.h
  <2>1. Unturned(p, b) \in Rect
    BY <1>1 DEF Unturned, Box, Rect
  <2>2. /\ Unturned(p, b).w = IF p.turns \in {1, 3} THEN b.h ELSE b.w
        /\ Unturned(p, b).h = IF p.turns \in {1, 3} THEN b.w ELSE b.h
    BY <1>1 DEF Unturned, Box, Rect
  <2>3. QED
    BY <1>1, <2>1, <2>2 DEF Unflipped, Rect
<1> HIDE DEF q
<1>3. /\ Cropped(p, b).turns = p.turns
      /\ Cropped(p, b).rect = Box(p.rect.x + q.x, p.rect.y + q.y, q.w, q.h)
  BY DEF Cropped, Picture, q
<1>4. QED
  BY <1>1, <1>2, <1>3 DEF WidthOf, HeightOf, Sideways, Box

\* The whole of a picture is the picture.
LEMMA CroppedWhole ==
    ASSUME NEW p \in Picture
    PROVE  Cropped(p, Whole(WidthOf(p), HeightOf(p))) = p
<1> DEFINE b == Whole(WidthOf(p), HeightOf(p))
           q == Unflipped(p, Unturned(p, b))
<1>1. p.rect \in Rect /\ p.turns \in 0..3 /\ p.flip \in BOOLEAN
  BY DEF Picture
<1>2. Unturned(p, b) = Whole(p.rect.w, p.rect.h)
  BY <1>1 DEF Unturned, Whole, Box, Rect, WidthOf, HeightOf, Sideways
<1>3. q = Whole(p.rect.w, p.rect.h)
  <2>1. Unflipped(p, Whole(p.rect.w, p.rect.h)) = Whole(p.rect.w, p.rect.h)
    BY <1>1 DEF Unflipped, Whole, Box, Rect
  <2>2. QED
    BY <1>2, <2>1
<1> HIDE DEF q, b
<1>4. Box(p.rect.x + q.x, p.rect.y + q.y, q.w, q.h) = p.rect
  BY <1>1, <1>3 DEF Whole, Box, Rect
<1>5. Cropped(p, b) = [p EXCEPT !.rect = p.rect]
  BY <1>4 DEF Cropped, q
<1>6. QED
  BY <1>5 DEF b, Picture

\* Stretching a picture to the size it has leaves it alone.
LEMMA ResizedToItself ==
    ASSUME NEW p \in Picture
    PROVE  Resized(p, WidthOf(p), HeightOf(p)) = p
BY DEF Resized, WidthOf, HeightOf, Sideways, Picture, Rect

\* Turning by nothing leaves a picture alone.
LEMMA TurnedByNothing ==
    ASSUME NEW p \in Picture
    PROVE  Turned(p, 0) = p
<1>1. p.turns \in 0..3
  BY DEF Picture
<1>2. (p.turns + 0) % 4 = p.turns
  BY <1>1
<1>3. QED
  BY <1>2 DEF Turned, Picture

\* Resampling changes the frame and nothing else.
LEMMA ResizedType ==
    ASSUME NEW p \in Picture, NEW w \in Int, NEW h \in Int
    PROVE  /\ Resized(p, w, h) \in Picture
           /\ Resized(p, w, h).turns = p.turns /\ Resized(p, w, h).flip = p.flip
           /\ Resized(p, w, h).depth = p.depth
           /\ WidthOf(Resized(p, w, h)) = w /\ HeightOf(Resized(p, w, h)) = h
<1> DEFINE frame == IF Sideways(p) THEN [w |-> h, h |-> w] ELSE [w |-> w, h |-> h]
           entry == [rect |-> p.rect, size |-> frame]
           new   == [p EXCEPT !.stages = Append(p.stages, entry),
                              !.frame  = frame,
                              !.rect   = Whole(frame.w, frame.h)]
<1>1. frame \in Size
  BY DEF Size
<1>2. p.rect \in Rect /\ p.stages \in Seq([rect : Rect, size : Size])
  BY DEF Picture
<1>3. /\ frame.w = IF Sideways(p) THEN h ELSE w
      /\ frame.h = IF Sideways(p) THEN w ELSE h
  OBVIOUS
<1> HIDE DEF frame
<1>4. entry \in [rect : Rect, size : Size]
  BY <1>1, <1>2
<1> HIDE DEF entry
<1>5. Append(p.stages, entry) \in Seq([rect : Rect, size : Size])
  BY <1>2, <1>4
<1>6. Whole(frame.w, frame.h) \in Rect
  BY <1>1 DEF Whole, Box, Rect, Size
<1>7. new \in Picture
  BY <1>1, <1>5, <1>6 DEF Picture
<1>8. /\ new.turns = p.turns /\ new.flip = p.flip /\ new.depth = p.depth
      /\ new.rect = Whole(frame.w, frame.h)
  BY DEF Picture
<1>9. Resized(p, w, h) = IF frame.w = p.rect.w /\ frame.h = p.rect.h THEN p ELSE new
  BY DEF Resized, frame, entry
<1> HIDE DEF new
<1>10. CASE frame.w = p.rect.w /\ frame.h = p.rect.h
  BY <1>3, <1>9, <1>10 DEF WidthOf, HeightOf, Sideways
<1>11. CASE ~(frame.w = p.rect.w /\ frame.h = p.rect.h)
  BY <1>3, <1>7, <1>8, <1>9, <1>11 DEF WidthOf, HeightOf, Sideways, Whole, Box
<1>12. QED
  BY <1>10, <1>11

\* Pictures that look alike still do when they are mirrored, turned or shaded.
LEMMA LookKept ==
    ASSUME NEW p \in Picture, NEW q \in Picture, Look(p) = Look(q), NEW k, NEW d
    PROVE  /\ Look(Mirrored(p)) = Look(Mirrored(q))
           /\ Look(Turned(p, k)) = Look(Turned(q, k))
           /\ Look(InDepth(p, d)) = Look(InDepth(q, d))
<1>1. /\ p.stages = q.stages /\ p.frame = q.frame /\ p.rect = q.rect /\ p.flip = q.flip
      /\ p.turns = q.turns /\ p.patched = q.patched /\ p.depth = q.depth
  BY DEF Look
<1>2. Look(InDepth(p, d)) = Look(InDepth(q, d))
  BY <1>1 DEF Look, InDepth, Picture
<1>3. Look(Turned(p, k)) = Look(Turned(q, k))
  BY <1>1 DEF Look, Turned, Picture
<1>4. ASSUME NEW m \in Picture
      PROVE  Look(Mirrored(m)) = [stages |-> m.stages, frame |-> m.frame, rect |-> m.rect,
                                  flip |-> ~m.flip, turns |-> (4 - m.turns) % 4,
                                  patched |-> m.patched, depth |-> m.depth]
  <2> DEFINE k1 == (4 - m.turns) % 4
             f1 == ~m.flip
  <2>1. Mirrored(m) = [m EXCEPT !.flip = f1, !.turns = k1]
    BY DEF Mirrored
  <2> HIDE DEF k1, f1
  <2>2. QED
    BY <2>1 DEF Look, Picture, k1, f1
<1>5. QED
  BY <1>1, <1>2, <1>3, <1>4

\* Mirroring keeps depth and rectangle, and turns the other way round.
LEMMA MirroredType ==
    ASSUME NEW p \in Picture
    PROVE  /\ Mirrored(p) \in Picture
           /\ Mirrored(p).depth = p.depth /\ Mirrored(p).rect = p.rect
           /\ Mirrored(p).mcu = p.mcu /\ Mirrored(p).coding = p.coding
           /\ Mirrored(p).turns = (4 - p.turns) % 4
<1> DEFINE k1 == (4 - p.turns) % 4
           f1 == ~p.flip
<1>1. Mirrored(p) = [p EXCEPT !.flip = f1, !.turns = k1]
  BY DEF Mirrored
<1>2. k1 \in 0..3 /\ f1 \in BOOLEAN
  <2>1. p.turns \in 0..3
    BY DEF Picture
  <2>2. QED
    BY <2>1
<1> HIDE DEF k1, f1
<1>3. [p EXCEPT !.flip = f1, !.turns = k1] \in Picture
  BY <1>2 DEF Picture
<1>4. QED
  BY <1>1, <1>2, <1>3 DEF Picture, k1

\* Turning keeps depth and rectangle.
LEMMA TurnedType ==
    ASSUME NEW p \in Picture, NEW k \in Int
    PROVE  /\ Turned(p, k) \in Picture
           /\ Turned(p, k).depth = p.depth /\ Turned(p, k).rect = p.rect
           /\ Turned(p, k).mcu = p.mcu /\ Turned(p, k).coding = p.coding
           /\ Turned(p, k).turns = (p.turns + k) % 4
<1>1. p.turns \in 0..3
  BY DEF Picture
<1>2. PICK j \in 0..3 : j = (p.turns + k) % 4
  BY <1>1
<1>3. Turned(p, k) = [p EXCEPT !.turns = j]
  BY <1>2 DEF Turned
<1>4. QED
  BY <1>2, <1>3 DEF Picture

\* A picture in its own depth is itself.
LEMMA InDepthType ==
    ASSUME NEW p \in Picture, NEW d \in Depths
    PROVE  /\ InDepth(p, d) \in Picture /\ InDepth(p, d).depth = d
           /\ d = p.depth => InDepth(p, d) = p
BY DEF InDepth, Picture

-----------------------------------------------------------------------------
(* The refusals 404 and 415.                                               *)

\* What an image may throw; neither becomes 404 nor 415.
ImageThrows == {"none", "InvalidParameters", "Transformation", "UnsupportedOperation",
                "IllegalArgument", "RasterFormat"}

LEMMA StatusOfImageThrows ==
    ASSUME NEW e \in ImageThrows
    PROVE  StatusFor(e) \in {400, 500}
BY DEF ImageThrows, StatusFor

LEMMA FastThrows ==
    /\ \A r : Fast!Crop(r) => thrown' \in ImageThrows
    /\ \A t : Fast!Scale(t) => thrown' \in ImageThrows
    /\ Fast!FlipHorizontally => thrown' \in ImageThrows
    /\ \A a : Fast!Rotate(a) => thrown' \in ImageThrows
    /\ \A d : Fast!ToDepth(d) => thrown' \in ImageThrows
    /\ Fast!Convert => thrown' \in ImageThrows
    /\ Fast!PerformTransformation => thrown' \in ImageThrows
<1>1. \A r : Fast!Crop(r) => thrown' \in ImageThrows
  BY DEF Fast!Crop, Fast!ThrowInvalid, Fast!Translate, ImageThrows
<1>2. \A t : Fast!Scale(t) => thrown' \in ImageThrows
  BY DEF Fast!Scale, Fast!Translate, ImageThrows
<1>3. Fast!FlipHorizontally => thrown' \in ImageThrows
  BY DEF Fast!FlipHorizontally, ImageThrows
<1>4. \A a : Fast!Rotate(a) => thrown' \in ImageThrows
  BY DEF Fast!Rotate, Fast!Translate, ImageThrows
<1>5. \A d : Fast!ToDepth(d) => thrown' \in ImageThrows
  BY DEF Fast!ToDepth, ImageThrows
<1>6. Fast!Convert => thrown' \in ImageThrows
  BY DEF Fast!Convert, ImageThrows
<1>7. Fast!PerformTransformation => thrown' \in ImageThrows
  BY DEF Fast!PerformTransformation, Fast!Translate, ImageThrows
<1>8. QED
  BY <1>1, <1>2, <1>3, <1>4, <1>5, <1>6, <1>7

LEMMA SlowThrows ==
    /\ \A r : Slow!Crop(r) => thrown' \in ImageThrows
    /\ \A t : Slow!Scale(t) => thrown' \in ImageThrows
    /\ Slow!FlipHorizontally => thrown' \in ImageThrows
    /\ \A a : Slow!Rotate(a) => thrown' \in ImageThrows
    /\ \A d : Slow!ToDepth(d) => thrown' \in ImageThrows
    /\ \A f : Slow!Convert(f) => thrown' \in ImageThrows
    /\ Slow!PerformTransformation => thrown' \in ImageThrows
<1> USE DEF Slow!Succeed, Slow!Throw, ImageThrows
<1>1. \A r : Slow!Crop(r) => thrown' \in ImageThrows
  BY DEF Slow!Crop
<1>2. \A t : Slow!Scale(t) => thrown' \in ImageThrows
  BY DEF Slow!Scale
<1>3. Slow!FlipHorizontally => thrown' \in ImageThrows
  BY DEF Slow!FlipHorizontally
<1>4. \A a : Slow!Rotate(a) => thrown' \in ImageThrows
  BY DEF Slow!Rotate
<1>5. \A d : Slow!ToDepth(d) => thrown' \in ImageThrows
  BY DEF Slow!ToDepth
<1>6. \A f : Slow!Convert(f) => thrown' \in ImageThrows
  BY DEF Slow!Convert
<1>7. Slow!PerformTransformation => thrown' \in ImageThrows
  BY DEF Slow!PerformTransformation
<1>8. QED
  BY <1>1, <1>2, <1>3, <1>4, <1>5, <1>6, <1>7

-----------------------------------------------------------------------------
(* The search.  Whatever was passed over could not do the job.             *)

PassedOver(i) ==
    ~Supports(Repositories[i], request) \/ NotRecognized(Repositories[i], request.source)

SearchInv ==
    /\ tried \in Nat /\ tried <= Len(Repositories)
    /\ \A i \in 1 .. tried : PassedOver(i)

\* Steps of the transformation leave the search alone, and answer what images
\* throw or that the picture is served.
Transforming ==
    \/ MakeAbsolute \/ AlreadyAbsolute \/ Crop \/ NoCrop
    \/ CalculateSize \/ FullSize \/ Scale
    \/ Mirror \/ NoMirror \/ Rotate \/ NoRotate
    \/ ToDepth \/ NoDepth \/ Convert \/ NoConvert \/ Perform

LEMMA TransformingAnswers ==
    ASSUME Transforming
    PROVE  /\ UNCHANGED control
           /\ pc' = "done" => status' \in {200, 400, 500}
<1>1. ASSUME NEW step, step # "done", thrown' \in ImageThrows, Continue(step)
      PROVE  pc' = "done" => status' \in {200, 400, 500}
  BY <1>1, StatusOfImageThrows DEF Continue, Goto, Answer
<1> USE DEF Goto, Answer, Skip, OnImage
<1>2. CASE MakeAbsolute
  BY <1>2 DEF MakeAbsolute
<1>3. CASE AlreadyAbsolute \/ NoCrop \/ FullSize \/ NoMirror \/ NoRotate \/ NoDepth \/ NoConvert
  BY <1>3 DEF AlreadyAbsolute, NoCrop, FullSize, NoMirror, NoRotate, NoDepth, NoConvert
<1>4. CASE Crop
  <2>1. thrown' \in ImageThrows
    BY <1>4, FastThrows, SlowThrows DEF Crop
  <2>2. QED
    BY <1>1, <1>4, <2>1 DEF Crop
<1>5. CASE CalculateSize
  BY <1>5 DEF CalculateSize
<1>6. CASE Scale
  <2>1. thrown' \in ImageThrows
    BY <1>6, FastThrows, SlowThrows DEF Scale
  <2>2. QED
    BY <1>1, <1>6, <2>1 DEF Scale
<1>7. CASE Mirror
  <2>1. thrown' \in ImageThrows
    BY <1>7, FastThrows, SlowThrows DEF Mirror
  <2>2. QED
    BY <1>1, <1>7, <2>1 DEF Mirror
<1>8. CASE Rotate
  <2>1. thrown' \in ImageThrows
    BY <1>8, FastThrows, SlowThrows DEF Rotate
  <2>2. QED
    BY <1>1, <1>8, <2>1 DEF Rotate
<1>9. CASE ToDepth
  <2>1. thrown' \in ImageThrows
    BY <1>9, FastThrows, SlowThrows DEF ToDepth
  <2>2. QED
    BY <1>1, <1>9, <2>1 DEF ToDepth
<1>10. CASE Convert
  <2>1. thrown' \in ImageThrows
    BY <1>10, FastThrows, SlowThrows DEF Convert
  <2>2. QED
    BY <1>1, <1>10, <2>1 DEF Convert
<1>11. CASE Perform
  <2>1. thrown' \in ImageThrows
    BY <1>11, FastThrows, SlowThrows DEF Perform
  <2>2. StatusFor(thrown') \in {400, 500}
    BY <2>1, StatusOfImageThrows
  <2>3. QED
    BY <1>11, <2>2 DEF Perform
<1>12. QED
  BY <1>2, <1>3, <1>4, <1>5, <1>6, <1>7, <1>8, <1>9, <1>10, <1>11 DEF Transforming

\* What the steps before an image is loaded answer, and when.
Searching == Parse \/ Authorize \/ NoneLeft \/ NotSupported \/ Unrecognized \/ Unreadable \/ Load

LEMMA SearchingAnswers ==
    ASSUME SearchInv, Searching
    PROVE  /\ request' = request
           /\ SearchInv'
           /\ pc' = "done" /\ status' = 404 =>
                 \/ ~request.allowed \/ request.source.state \in {"missing", "broken"}
                 \/ HeaderRefusedFor(request)
           /\ pc' = "done" /\ status' = 415 =>
                 request.format \notin FormatsKnown \/ NoRepository(request)
<1> USE DEF Goto, Answer, control
<1>0. Len(Repositories) \in Nat
  BY RepositoriesAssumption
<1>a. ASSUME UNCHANGED <<request, tried>> PROVE SearchInv'
  BY <1>a DEF SearchInv, PassedOver
<1>b. ASSUME PassOver, tried < Len(Repositories), PassedOver(tried + 1) PROVE SearchInv'
  <2>1. request' = request /\ tried' = tried + 1 /\ tried \in Nat
    BY <1>b DEF PassOver, SearchInv
  <2>2. tried' \in Nat /\ tried' <= Len(Repositories)
    BY <1>0, <1>b, <2>1
  <2>3. ASSUME NEW i \in 1 .. tried' PROVE PassedOver(i)
    <3>1. CASE i = tried + 1
      BY <1>b, <3>1
    <3>2. CASE i # tried + 1
      <4>1. i \in 1 .. tried
        BY <2>1, <3>2
      <4>2. QED
        BY <4>1 DEF SearchInv
    <3>3. QED
      BY <3>1, <3>2
  <2>4. QED
    BY <2>1, <2>2, <2>3 DEF SearchInv, PassedOver
<1>1. CASE Parse
  BY <1>1, <1>a DEF Parse
<1>2. CASE Authorize
  BY <1>2, <1>a DEF Authorize
<1>3. CASE NoneLeft
  <2>1. \A i \in 1 .. Len(Repositories) : PassedOver(i)
    BY <1>3 DEF NoneLeft, SearchInv
  <2>2. NoRepository(request)
    BY <2>1 DEF NoRepository, PassedOver
  <2>3. QED
    BY <1>3, <1>a, <2>2 DEF NoneLeft
<1>4. CASE NotSupported
  <2>1. PassedOver(tried + 1) /\ PassOver /\ tried < Len(Repositories)
    BY <1>4 DEF NotSupported, PassedOver, Candidate
  <2>2. QED
    BY <1>b, <2>1 DEF PassOver
<1>5. CASE Unrecognized
  <2>1. PassedOver(tried + 1) /\ PassOver /\ tried < Len(Repositories)
    BY <1>5 DEF Unrecognized, PassedOver, Candidate
  <2>2. QED
    BY <1>b, <2>1 DEF PassOver
<1>6. CASE Unreadable
  <2>1. /\ UNCHANGED <<request, tried>> /\ status' \in {400, 404}
        /\ tried < Len(Repositories) /\ Supports(Candidate, request)
        /\ \/ request.source.state \in {"missing", "broken"}
           \/ HeaderRefused(Candidate, request.source)
    BY <1>6 DEF Unreadable
  <2>2. tried + 1 \in 1 .. Len(Repositories)
    BY <1>0, <2>1 DEF SearchInv
  <2>3. HeaderRefused(Candidate, request.source) => HeaderRefusedFor(request)
    BY <2>1, <2>2 DEF HeaderRefusedFor, Candidate
  <2>4. QED
    BY <1>a, <2>1, <2>3
<1>7. CASE Load
  BY <1>7, <1>a DEF Load
<1>8. QED
  BY <1>1, <1>2, <1>3, <1>4, <1>5, <1>6, <1>7 DEF Searching

-----------------------------------------------------------------------------
IInv == SearchInv /\ NotFoundIsExplained /\ UnsupportedIsExplained

LEMMA AlwaysIInv == Spec => []IInv
<1>1. Init => IInv
  BY RepositoriesAssumption
     DEF Init, IInv, SearchInv, NotFoundIsExplained, UnsupportedIsExplained
<1>2. IInv /\ [Next]_vars => IInv'
  <2> SUFFICES ASSUME IInv, [Next]_vars PROVE IInv'
    OBVIOUS
  <2>1. CASE UNCHANGED <<pc, control, status>>
    BY <2>1 DEF IInv, SearchInv, PassedOver, control, NotFoundIsExplained,
       UnsupportedIsExplained, NoRepository, HeaderRefusedFor
  <2>2. CASE Transforming
    BY <2>2, TransformingAnswers DEF IInv, SearchInv, PassedOver, control,
       NotFoundIsExplained, UnsupportedIsExplained
  <2>3. CASE Searching
    BY <2>3, SearchingAnswers DEF IInv, NotFoundIsExplained, UnsupportedIsExplained,
       NoRepository, HeaderRefusedFor
  <2>4. QED
    BY <2>1, <2>2, <2>3 DEF Next, Step, Done, vars, Transforming, Searching
<1>3. QED
  BY <1>1, <1>2, PTL DEF Spec

\* Whatever the repositories are and whatever else is wrong with a request, 404
\* says that access was denied, that the source is missing or broken, or that the
\* fast repository has no name for its subsampling: there is no other way for a
\* repository to answer null (ImageServiceImpl.getImage(),
\* AbstractImageRepositoryImpl.getImage(), the handlers of IIIFImageApiController).
THEOREM NotFoundHasACause == Spec => []NotFoundIsExplained
<1>1. IInv => NotFoundIsExplained
  BY DEF IInv
<1>2. QED
  BY <1>1, AlwaysIInv, PTL

\* For any list of repositories, 415 says that the format is unknown or that not
\* one of them could have done the job: the search loop of getImage() misses none.
THEOREM UnsupportedHasACause == Spec => []UnsupportedIsExplained
<1>1. IInv => UnsupportedIsExplained
  BY DEF IInv
<1>2. QED
  BY <1>1, AlwaysIInv, PTL

-----------------------------------------------------------------------------
(* What a request fixes from the start: the source as it is loaded, the     *)
(* region in pixels, the size that will be calculated.                      *)

Loaded(r) == r.source.picture
Wide(r)   == r.source.picture.frame.w
High(r)   == r.source.picture.frame.h

\* The region once it is absolute.
InPixels(r) ==
    IF r.region.kind = "relative" THEN Absolute(r.region, Wide(r), High(r)) ELSE r.region

\* The whole image by the comparison of transformImage().
AllOf(r) == InPixels(r).w = Hundred * Wide(r) /\ InPixels(r).h = Hundred * High(r)

\* The size calculated for a request, from the region in pixels.
TargetOf(r) ==
    IF r.region.kind = "full" THEN Resize(r.size, Wide(r), High(r))
    ELSE Resize(r.size, Trunc(InPixels(r).w), Trunc(InPixels(r).h))

\* The sides of a source are positive and are Java ints.
LEMMA ExtentFacts ==
    ASSUME NEW r \in Requests
    PROVE  /\ Wide(r) \in Nat \ {0} /\ Wide(r) < MaxInt /\ Wide(r) \in Int
           /\ High(r) \in Nat \ {0} /\ High(r) < MaxInt /\ High(r) \in Int
BY RequestsAssumption DEF Wide, High

\* A source as it is loaded: upright, whole, in its own depth.
LEMMA SourceFacts ==
    ASSUME NEW r \in Requests
    PROVE  /\ Loaded(r) \in Picture /\ InFrame(Loaded(r))
           /\ WidthOf(Loaded(r)) = Wide(r) /\ HeightOf(Loaded(r)) = High(r)
           /\ Loaded(r).rect = Whole(Wide(r), High(r)) /\ Loaded(r).flip = FALSE
           /\ Loaded(r).turns = 0 /\ Loaded(r).depth = "source"
           /\ Loaded(r).mcu.w \in {8, 16, 24, 32} /\ Loaded(r).mcu.h \in {8, 16, 24, 32}
           /\ Loaded(r).coding \in Codings
           /\ Loaded(r).intact \in BOOLEAN /\ Loaded(r).bulky \in BOOLEAN
<1>1. Loaded(r) = Coded(Original(Wide(r), High(r), Loaded(r).mcu, Loaded(r).intact),
                        Loaded(r).coding, Loaded(r).bulky)
  BY RequestsAssumption DEF Loaded, Wide, High
<1>a. /\ Wide(r) \in Nat \ {0} /\ Wide(r) < MaxInt
      /\ High(r) \in Nat \ {0} /\ High(r) < MaxInt
      /\ Loaded(r).mcu.w \in {8, 16, 24, 32} /\ Loaded(r).mcu.h \in {8, 16, 24, 32}
      /\ Loaded(r).intact \in BOOLEAN
  BY RequestsAssumption DEF Loaded, Wide, High
<1>b. /\ Loaded(r) \in Picture /\ Loaded(r).coding \in Codings /\ Loaded(r).bulky \in BOOLEAN
  BY RequestsAssumption DEF Loaded, Picture
<1>2. /\ Loaded(r).rect = Whole(Wide(r), High(r)) /\ Loaded(r).flip = FALSE
      /\ Loaded(r).turns = 0 /\ Loaded(r).depth = "source" /\ Loaded(r).stages = <<>>
      /\ Loaded(r).frame = [w |-> Wide(r), h |-> High(r)]
  BY <1>1 DEF Coded, Original
<1>3. WidthOf(Loaded(r)) = Wide(r) /\ HeightOf(Loaded(r)) = High(r)
  BY <1>2 DEF WidthOf, HeightOf, Sideways, Whole, Box
<1>4. InFrame(Loaded(r))
  BY <1>a, <1>2 DEF InFrame, Inside, Whole, Box
<1>5. QED
  BY <1>a, <1>b, <1>2, <1>3, <1>4

\* A region in pixels is made of integers; Absolute() keeps a relative one from
\* reaching over the right and the lower edge.
LEMMA PixelFacts ==
    ASSUME NEW r \in Requests
    PROVE  /\ InPixels(r).x \in Int /\ InPixels(r).y \in Int
           /\ InPixels(r).w \in Int /\ InPixels(r).h \in Int
           /\ r.region.kind # "relative" => InPixels(r) = r.region
           /\ r.region.kind = "relative" =>
                 /\ InPixels(r).kind = "absolute"
                 /\ InPixels(r).x = r.region.x * Wide(r)
                 /\ InPixels(r).y = r.region.y * High(r)
                 /\ InPixels(r).w <= Hundred * Wide(r) - InPixels(r).x
                 /\ InPixels(r).h <= Hundred * High(r) - InPixels(r).y
<1>1. /\ r.region.x \in Int /\ r.region.y \in Int /\ r.region.w \in Int /\ r.region.h \in Int
  BY RequestsAssumption
<1>a. Wide(r) \in Int /\ High(r) \in Int
  BY ExtentFacts
<1>2. CASE r.region.kind # "relative"
  BY <1>1, <1>2 DEF InPixels
<1>3. CASE r.region.kind = "relative"
  <2> DEFINE x == r.region.x * Wide(r)
             y == r.region.y * High(r)
             w == r.region.w * Wide(r)
             h == r.region.h * High(r)
  <2>1. x \in Int /\ y \in Int /\ w \in Int /\ h \in Int
    BY <1>1, <1>a
  <2>2. PICK W, H \in Int : W = Hundred * Wide(r) /\ H = Hundred * High(r)
    BY <1>a DEF Hundred
  <2>3. InPixels(r) = Region("absolute", x, y, IF w > W - x THEN W - x ELSE w,
                                               IF h > H - y THEN H - y ELSE h)
    BY <1>3, <2>2 DEF InPixels, Absolute
  <2>4. InPixels(r).x = x /\ InPixels(r).y = y
    BY <2>3 DEF Region
  <2> HIDE DEF x, y, w, h
  <2>5. QED
    BY <1>3, <2>1, <2>2, <2>3, <2>4 DEF Region, x, y
<1>4. QED
  BY <1>2, <1>3

\* Conversions to int.
LEMMA SaturatedFacts ==
    ASSUME NEW v \in Int
    PROVE  /\ Saturated(v) \in Int
           /\ Saturated(v) <= MaxInt /\ Saturated(v) >= -MaxInt - 1
           /\ v <= MaxInt /\ v >= -MaxInt - 1 => Saturated(v) = v
           /\ v > MaxInt => Saturated(v) = MaxInt
           /\ v < -MaxInt - 1 => Saturated(v) = -MaxInt - 1
BY MaxIntAssumption DEF Saturated

\* ceil() is monotone and exact for whole pixels, up to the saturation of int.
LEMMA CeilFacts ==
    ASSUME NEW v \in Int
    PROVE  /\ Ceil(v) \in Int /\ Ceil(v) <= MaxInt /\ Ceil(v) >= -MaxInt - 1
           /\ v > 0 <=> Ceil(v) > 0
           /\ \A n \in Int : -MaxInt - 1 <= n /\ n <= MaxInt => (v = Hundred * n => Ceil(v) = n)
           /\ \A n \in Int : n <= MaxInt => (v > Hundred * n => Ceil(v) > n \/ Ceil(v) = MaxInt)
           /\ \A n \in Int : -MaxInt - 1 <= n => (v <= Hundred * n => Ceil(v) <= n)
           /\ Trunc(v) \in Int /\ (v > 0 => Trunc(v) >= 0)
<1> DEFINE c == -((-v) \div Hundred)
<1>1. c \in Int /\ 100 * c >= v /\ 100 * c < v + 100
  BY DEF Hundred
<1>2. Ceil(v) = Saturated(c)
  BY DEF Ceil
<1> HIDE DEF c
<1>3. MaxInt \in Nat \ {0}
  BY MaxIntAssumption
<1>4. PICK s \in Int : s = Ceil(v) /\ s <= MaxInt /\ s >= -MaxInt - 1
                       /\ (c <= MaxInt /\ c >= -MaxInt - 1 => s = c)
                       /\ (c > MaxInt => s = MaxInt) /\ (c < -MaxInt - 1 => s = -MaxInt - 1)
  BY <1>1, <1>2, SaturatedFacts
<1>5. v > 0 <=> s > 0
  BY <1>1, <1>3, <1>4
<1>6. ASSUME NEW n \in Int
      PROVE  /\ -MaxInt - 1 <= n /\ n <= MaxInt => (v = Hundred * n => s = n)
             /\ n <= MaxInt => (v > Hundred * n => s > n \/ s = MaxInt)
             /\ -MaxInt - 1 <= n => (v <= Hundred * n => s <= n)
  BY <1>1, <1>3, <1>4 DEF Hundred
<1>7. Trunc(v) \in Int /\ (v > 0 => Trunc(v) >= 0)
  <2>1. PICK t \in Int : /\ t = IF v >= 0 THEN v \div Hundred ELSE -((-v) \div Hundred)
                         /\ (v > 0 => t >= 0)
    BY DEF Hundred
  <2>2. Trunc(v) = Saturated(t)
    BY <2>1 DEF Trunc
  <2>3. QED
    BY <1>3, <2>1, <2>2, SaturatedFacts
<1>8. QED
  BY <1>4, <1>5, <1>6, <1>7

\* The rectangle extracted is the one named, cut off at the edge.
LEMMA ExtractedFacts ==
    ASSUME NEW r \in Requests
    PROVE  /\ r.region.kind = "full" => Extracted(r) = Whole(Wide(r), High(r))
           /\ r.region.kind # "full" =>
                 Extracted(r) = Box(Ceil(InPixels(r).x), Ceil(InPixels(r).y),
                    IF Ceil(InPixels(r).w) > Wide(r) - Ceil(InPixels(r).x)
                      THEN Wide(r) - Ceil(InPixels(r).x) ELSE Ceil(InPixels(r).w),
                    IF Ceil(InPixels(r).h) > High(r) - Ceil(InPixels(r).y)
                      THEN High(r) - Ceil(InPixels(r).y) ELSE Ceil(InPixels(r).h))
           /\ Extracted(r) \in Rect
           /\ NothingExtracted(r) <=> ~Inside(Extracted(r), Wide(r), High(r))
<1>1. WidthOf(r.source.picture) = Wide(r) /\ HeightOf(r.source.picture) = High(r)
  BY SourceFacts DEF Loaded
<1>2. Extracted(r) = Extract(r.region, Wide(r), High(r))
  BY <1>1 DEF Extracted
<1>3. NothingExtracted(r) <=> ~Inside(Extracted(r), Wide(r), High(r))
  BY <1>1 DEF NothingExtracted
<1>4. /\ InPixels(r).x \in Int /\ InPixels(r).y \in Int
      /\ InPixels(r).w \in Int /\ InPixels(r).h \in Int
  BY PixelFacts
<1>5. PICK x, y, w, h \in Int : /\ x = Ceil(InPixels(r).x) /\ y = Ceil(InPixels(r).y)
                                /\ w = Ceil(InPixels(r).w) /\ h = Ceil(InPixels(r).h)
  BY <1>4, CeilFacts
<1>6. PICK W, H \in Nat : W = Wide(r) /\ H = High(r)
  BY ExtentFacts
<1>7. CASE r.region.kind = "full"
  <2>1. Extracted(r) = Whole(W, H)
    BY <1>2, <1>6, <1>7 DEF Extract
  <2>2. Whole(W, H) \in Rect
    BY DEF Whole, Box, Rect
  <2>3. QED
    BY <1>3, <1>6, <1>7, <2>1, <2>2
<1>8. CASE r.region.kind # "full"
  <2>1. Extract(r.region, W, H) =
           Box(Ceil(InPixels(r).x), Ceil(InPixels(r).y),
               IF Ceil(InPixels(r).w) > W - Ceil(InPixels(r).x)
                 THEN W - Ceil(InPixels(r).x) ELSE Ceil(InPixels(r).w),
               IF Ceil(InPixels(r).h) > H - Ceil(InPixels(r).y)
                 THEN H - Ceil(InPixels(r).y) ELSE Ceil(InPixels(r).h))
    BY <1>6, <1>8 DEF Extract, InPixels
  <2>2. Box(x, y, IF w > W - x THEN W - x ELSE w, IF h > H - y THEN H - y ELSE h) \in Rect
    BY DEF Box, Rect
  <2>3. QED
    BY <1>2, <1>3, <1>5, <1>6, <1>8, <2>1, <2>2
<1>9. QED
  BY <1>7, <1>8

\* The rectangle a request names, not yet cut at the image's edge.
Named(r) == Box(Ceil(InPixels(r).x), Ceil(InPixels(r).y), Ceil(InPixels(r).w), Ceil(InPixels(r).h))

\* In terms of numbers: the rectangle named is <<x, y, w, h>>, the image W by H.
LEMMA ExtractedNumbers ==
    ASSUME NEW r \in Requests, r.region.kind # "full"
    PROVE  \E x, y, w, h \in Int, W, H \in Nat \ {0} :
              /\ W = Wide(r) /\ H = High(r) /\ W < MaxInt /\ H < MaxInt
              /\ Named(r) = Box(x, y, w, h)
              /\ x \in -MaxInt - 1 .. MaxInt /\ y \in -MaxInt - 1 .. MaxInt
              /\ w \in -MaxInt - 1 .. MaxInt /\ h \in -MaxInt - 1 .. MaxInt
              /\ Extracted(r) = Box(x, y, IF w > W - x THEN W - x ELSE w,
                                          IF h > H - y THEN H - y ELSE h)
              /\ InPixels(r).w > 0 <=> w > 0
              /\ InPixels(r).h > 0 <=> h > 0
              /\ AllOf(r) => w = W /\ h = H
              /\ OffsetBeyond(InPixels(r), W, H) => x >= W \/ y >= H
              /\ r.region.kind = "relative" => x + w <= W + 1 /\ y + h <= H + 1
<1>1. /\ InPixels(r).x \in Int /\ InPixels(r).y \in Int
      /\ InPixels(r).w \in Int /\ InPixels(r).h \in Int
  BY PixelFacts
<1>2. PICK W, H \in Nat \ {0} : W = Wide(r) /\ H = High(r) /\ W < MaxInt /\ H < MaxInt
  BY ExtentFacts
<1>3. MaxInt \in Nat
  BY MaxIntAssumption
<1>4. ASSUME NEW v \in Int
      PROVE  /\ Ceil(v) \in Int /\ Ceil(v) \in -MaxInt - 1 .. MaxInt
             /\ v > 0 <=> Ceil(v) > 0
  BY <1>3, CeilFacts
<1>5. ASSUME NEW v \in Int, NEW n \in Nat, n < MaxInt
      PROVE  /\ v = Hundred * n => Ceil(v) = n
             /\ v > Hundred * n => Ceil(v) >= n
  <2>1. n \in Int /\ -MaxInt - 1 <= n /\ n <= MaxInt
    BY <1>3, <1>5
  <2>2. /\ v = Hundred * n => Ceil(v) = n
        /\ v > Hundred * n => Ceil(v) > n \/ Ceil(v) = MaxInt
    BY <2>1, CeilFacts
  <2>3. Ceil(v) \in Int
    BY <1>4
  <2>4. QED
    BY <1>3, <1>5, <2>2, <2>3
<1>6. PICK x, y, w, h \in Int : /\ x = Ceil(InPixels(r).x) /\ y = Ceil(InPixels(r).y)
                                /\ w = Ceil(InPixels(r).w) /\ h = Ceil(InPixels(r).h)
  BY <1>1, <1>4
<1>7. /\ x \in -MaxInt - 1 .. MaxInt /\ y \in -MaxInt - 1 .. MaxInt
      /\ w \in -MaxInt - 1 .. MaxInt /\ h \in -MaxInt - 1 .. MaxInt
      /\ InPixels(r).w > 0 <=> w > 0
      /\ InPixels(r).h > 0 <=> h > 0
  BY <1>1, <1>4, <1>6
<1>8. AllOf(r) => w = W /\ h = H
  BY <1>1, <1>2, <1>5, <1>6 DEF AllOf
<1>9. OffsetBeyond(InPixels(r), W, H) => x >= W \/ y >= H
  BY <1>1, <1>2, <1>5, <1>6 DEF OffsetBeyond
<1>10. r.region.kind = "relative" => x + w <= W + 1 /\ y + h <= H + 1
  <2>1. ASSUME NEW a \in Int, NEW b \in Int, NEW n \in Nat, n < MaxInt, b <= Hundred * n - a
        PROVE  Ceil(a) + Ceil(b) <= n + 1
    <3> DEFINE c == -((-a) \div Hundred)
               d == -((-b) \div Hundred)
    <3>1. c \in Int /\ d \in Int /\ 100 * c >= a /\ 100 * c < a + 100
          /\ 100 * d >= b /\ 100 * d < b + 100
      BY DEF Hundred
    <3>2. Ceil(a) = Saturated(c) /\ Ceil(b) = Saturated(d)
      BY DEF Ceil
    <3> HIDE DEF c, d
    <3>3. c + d <= n + 1
      BY <2>1, <3>1 DEF Hundred
    <3>4. QED
      BY <1>3, <2>1, <3>1, <3>2, <3>3 DEF Saturated
  <2>2. ASSUME r.region.kind = "relative"
        PROVE  /\ InPixels(r).w <= Hundred * W - InPixels(r).x
               /\ InPixels(r).h <= Hundred * H - InPixels(r).y
    BY <1>2, <2>2, PixelFacts
  <2>3. QED
    BY <1>1, <1>2, <1>6, <2>1, <2>2
<1>11. Named(r) = Box(x, y, w, h)
  BY <1>6 DEF Named
<1>12. Extracted(r) = Box(x, y, IF w > W - x THEN W - x ELSE w,
                                IF h > H - y THEN H - y ELSE h)
  BY <1>2, <1>6, ExtractedFacts
<1>13. QED
  BY <1>2, <1>7, <1>8, <1>9, <1>10, <1>11, <1>12

\* A region as large as the image names its sides.
LEMMA AllNamed ==
    ASSUME NEW r \in Requests, AllOf(r)
    PROVE  Named(r).w = Wide(r) /\ Named(r).h = High(r)
<1>1. PICK W, H \in Int : W = Wide(r) /\ H = High(r) /\ 0 < W /\ W < MaxInt /\ 0 < H /\ H < MaxInt
  BY ExtentFacts
<1>2. MaxInt \in Nat
  BY MaxIntAssumption
<1>3. Ceil(Hundred * W) = W /\ Ceil(Hundred * H) = H
  <2>1. Hundred * W \in Int /\ Hundred * H \in Int
    BY DEF Hundred
  <2>2. -MaxInt - 1 <= W /\ W <= MaxInt /\ -MaxInt - 1 <= H /\ H <= MaxInt
    BY <1>1, <1>2
  <2>3. QED
    BY <2>1, <2>2, CeilFacts
<1>4. InPixels(r).w = Hundred * W /\ InPixels(r).h = Hundred * H
  BY <1>1 DEF AllOf
<1>5. QED
  BY <1>1, <1>3, <1>4 DEF Named, Box

\* Which rectangles the checks of the code turn away: all of these miss the
\* image, by the rectangle extracted.
LEMMA Missed ==
    ASSUME NEW r \in Requests, r.region.kind # "full",
           \/ Named(r).x >= Wide(r) \/ Named(r).y >= High(r)
           \/ ~Slow!Settable(Named(r))
           \/ OffsetBeyond(InPixels(r), Wide(r), High(r))
    PROVE  NothingExtracted(r)
<1>1. PICK x, y, w, h \in Int, W, H \in Nat \ {0} :
              /\ W = Wide(r) /\ H = High(r)
              /\ Named(r) = Box(x, y, w, h)
              /\ Extracted(r) = Box(x, y, IF w > W - x THEN W - x ELSE w,
                                          IF h > H - y THEN H - y ELSE h)
              /\ OffsetBeyond(InPixels(r), W, H) => x >= W \/ y >= H
  BY ExtractedNumbers
<1>2. x >= W \/ y >= H \/ ~(x >= 0 /\ y >= 0 /\ w > 0 /\ h > 0)
  BY <1>1 DEF Box, Slow!Settable
<1>3. ~Inside(Box(x, y, IF w > W - x THEN W - x ELSE w, IF h > H - y THEN H - y ELSE h), W, H)
  BY <1>2 DEF Inside, Box
<1>4. QED
  BY <1>1, <1>3, ExtractedFacts

\* A rectangle that begins in the image and is not empty is extracted, cut off
\* at the edge.
LEMMA NotMissed ==
    ASSUME NEW r \in Requests, r.region.kind # "full",
           Named(r).x < Wide(r), Named(r).y < High(r), Slow!Settable(Named(r))
    PROVE  ~NothingExtracted(r)
<1>1. PICK x, y, w, h \in Int, W, H \in Nat \ {0} :
              /\ W = Wide(r) /\ H = High(r)
              /\ Named(r) = Box(x, y, w, h)
              /\ Extracted(r) = Box(x, y, IF w > W - x THEN W - x ELSE w,
                                          IF h > H - y THEN H - y ELSE h)
  BY ExtractedNumbers
<1>2. x < W /\ y < H /\ x >= 0 /\ y >= 0 /\ w > 0 /\ h > 0
  BY <1>1 DEF Box, Slow!Settable
<1>3. Inside(Box(x, y, IF w > W - x THEN W - x ELSE w, IF h > H - y THEN H - y ELSE h), W, H)
  BY <1>2 DEF Inside, Box
<1>4. QED
  BY <1>1, <1>3, ExtractedFacts

-----------------------------------------------------------------------------
(* Pictures.                                                               *)

-----------------------------------------------------------------------------
(* Sizes.                                                                  *)

\* A side calculated from a ratio is an int, also when the ratio divides by zero.
LEMMA RatioType ==
    ASSUME NEW n \in Int, NEW d \in Nat
    PROVE  CeilOfRatio(n, d) \in Int
<1>1. MaxInt \in Int
  BY MaxIntAssumption
<1>2. CASE d = 0
  BY <1>1, <1>2 DEF CeilOfRatio
<1>3. CASE d # 0
  <2>1. PICK c \in Int : c = -((-n) \div d)
    BY <1>3
  <2>2. CeilOfRatio(n, d) = Saturated(c)
    BY <1>3, <2>1 DEF CeilOfRatio
  <2>3. QED
    BY <2>1, <2>2, SaturatedFacts
<1>4. QED
  BY <1>2, <1>3

\* So is a pair of them.
LEMMA ScaledByType ==
    ASSUME NEW num \in Int, NEW den \in Nat, NEW w \in Nat, NEW h \in Nat
    PROVE  ScaledBy(num, den, w, h) \in Size
<1>1. w * num \in Int /\ h * num \in Int
  OBVIOUS
<1>2. CeilOfRatio(w * num, den) \in Int /\ CeilOfRatio(h * num, den) \in Int
  BY <1>1, RatioType
<1>3. QED
  BY <1>2 DEF ScaledBy, Target, Size

\* The branches of the calculation exclude one another.
LEMMA ResizeBranches ==
    ASSUME NEW s, s.w \in Int, s.h \in Int, NEW w, NEW h
    PROVE  /\ MeansWidth(s) => Resize(s, w, h) = Target(s.w, CeilOfRatio(s.w * h, w))
           /\ MeansHeight(s) => Resize(s, w, h) = Target(CeilOfRatio(s.h * w, h), s.h)
           /\ s.kind = "exact" /\ s.w > 0 /\ s.h > 0 => Resize(s, w, h) = Target(s.w, s.h)
           /\ s.kind = "percent" => Resize(s, w, h) = ScaledBy(s.w, Hundred, w, h)
           /\ s.kind = "max" => Resize(s, w, h) = WithinMax(s, w, h)
<1>1. MeansWidth(s) => /\ ~MeansHeight(s) /\ ~(s.kind = "exact" /\ s.w > 0 /\ s.h > 0)
                       /\ s.kind # "percent" /\ s.kind # "max"
  BY DEF MeansWidth, MeansHeight
<1>2. MeansHeight(s) => /\ ~MeansWidth(s) /\ ~(s.kind = "exact" /\ s.w > 0 /\ s.h > 0)
                        /\ s.kind # "percent" /\ s.kind # "max"
  BY DEF MeansWidth, MeansHeight
<1>3. MeansWidth(s) => Resize(s, w, h) = Target(s.w, CeilOfRatio(s.w * h, w))
  BY <1>1, Zenon DEF Resize
<1>4. MeansHeight(s) => Resize(s, w, h) = Target(CeilOfRatio(s.h * w, h), s.h)
  BY <1>2, Zenon DEF Resize
<1>5. s.kind = "exact" /\ s.w > 0 /\ s.h > 0 => Resize(s, w, h) = Target(s.w, s.h)
  BY <1>1, <1>2 DEF Resize
<1>6. s.kind = "percent" => Resize(s, w, h) = ScaledBy(s.w, Hundred, w, h)
  BY <1>1, <1>2 DEF Resize
<1>7. s.kind = "max" => Resize(s, w, h) = WithinMax(s, w, h)
  BY <1>1, <1>2 DEF Resize
<1>8. QED
  BY <1>3, <1>4, <1>5, <1>6, <1>7

\* Every valid size other than "full" is calculated as a pair of ints.
LEMMA ResizeType ==
    ASSUME NEW s, s.w \in Int, s.h \in Int, s.kind \in SizeKinds \ {"full", "malformed"},
           s.kind = "width" => s.h = 0, s.kind = "height" => s.w = 0,
           ValidSize(s), NEW w \in Nat, NEW h \in Nat
    PROVE  Resize(s, w, h) \in Size
<1>1. CASE MeansWidth(s)
  <2>1. s.w * h \in Int
    OBVIOUS
  <2>2. CeilOfRatio(s.w * h, w) \in Int
    BY <2>1, RatioType
  <2>3. QED
    BY <1>1, <2>2, ResizeBranches DEF Target, Size
<1>2. CASE MeansHeight(s)
  <2>1. s.h * w \in Int
    OBVIOUS
  <2>2. CeilOfRatio(s.h * w, h) \in Int
    BY <2>1, RatioType
  <2>3. QED
    BY <1>2, <2>2, ResizeBranches DEF Target, Size
<1>3. CASE s.kind = "exact" /\ s.w > 0 /\ s.h > 0
  BY <1>3, ResizeBranches DEF Target, Size
<1>4. CASE s.kind = "percent"
  <2>1. Resize(s, w, h) = ScaledBy(s.w, Hundred, w, h)
    BY <1>4, ResizeBranches
  <2>2. QED
    BY <2>1, ScaledByType DEF Hundred
<1>5. CASE s.kind = "max"
  <2>1. ScaledBy(s.h, h, w, h) \in Size /\ ScaledBy(s.w, w, w, h) \in Size
    BY ScaledByType
  <2>2. Target(-1, -1) \in Size
    BY DEF Target, Size
  <2>3. WithinMax(s, w, h) \in {Target(-1, -1), ScaledBy(s.h, h, w, h), ScaledBy(s.w, w, w, h)}
    BY DEF WithinMax
  <2>4. QED
    BY <1>5, <2>1, <2>2, <2>3, ResizeBranches
<1>6. s.kind = "exact" => MeansWidth(s) \/ MeansHeight(s) \/ (s.w > 0 /\ s.h > 0)
  BY DEF ValidSize, Sized
<1>7. (s.kind = "width" => MeansWidth(s)) /\ (s.kind = "height" => MeansHeight(s))
  BY DEF ValidSize, Sized, MeansWidth, MeansHeight
<1>8. QED
  BY <1>1, <1>2, <1>3, <1>4, <1>5, <1>6, <1>7 DEF SizeKinds

\* The size calculated is a pair of ints once the region is known not to be
\* empty, and for the whole image it is not what the region's numbers, which
\* are zero, would give.
LEMMA TargetType ==
    ASSUME NEW r \in Requests, r.size.kind \notin {"full", "malformed"}, ValidSize(r.size),
           r.region.kind # "full" => InPixels(r).w > 0 /\ InPixels(r).h > 0
    PROVE  TargetOf(r) \in Size
<1>1. /\ r.size.w \in Int /\ r.size.h \in Int /\ r.size.kind \in SizeKinds \ {"full", "malformed"}
      /\ r.size.kind = "width" => r.size.h = 0
      /\ r.size.kind = "height" => r.size.w = 0
  BY RequestsAssumption
<1>2. CASE r.region.kind = "full"
  <2>1. Wide(r) \in Nat /\ High(r) \in Nat
    BY ExtentFacts
  <2>2. QED
    BY <1>1, <1>2, <2>1, ResizeType DEF TargetOf
<1>3. CASE r.region.kind # "full"
  <2>1. Trunc(InPixels(r).w) \in Nat /\ Trunc(InPixels(r).h) \in Nat
    BY <1>3, PixelFacts, CeilFacts
  <2>2. QED
    BY <1>1, <1>3, <2>1, ResizeType DEF TargetOf
<1>4. QED
  BY <1>2, <1>3

-----------------------------------------------------------------------------
(* What the fast backend makes of a request, step by step.                 *)

NoRect == Fast!Jpeg!NoRect

\* The rectangle that is pending after the crop, the picture it leaves, and
\* whether a new size is made from that.
FastCut(r) == IF r.region.kind = "full" \/ AllOf(r) THEN NoRect ELSE Extracted(r)

\* The fast backend scales, with the rectangle that is pending, and then forgets it.
FastScaled(r) ==
    r.size.kind # "full" /\ TargetOf(r) # Target(Wide(r), High(r))

CutOut(r) == IF FastCut(r) = NoRect THEN Loaded(r) ELSE Cropped(Loaded(r), FastCut(r))

FastData(r) ==
    IF FastScaled(r) THEN Fast!Jpeg!Downscaled(CutOut(r), TargetOf(r).w, TargetOf(r).h)
    ELSE Loaded(r)

FastLeft(r) == IF FastScaled(r) THEN NoRect ELSE FastCut(r)

\* What libjpeg-turbo is to do, and what the request makes it do in the end.
Waiting(op, rect, gray) == [op |-> op, rect |-> rect, gray |-> gray]

FlipOp(r) == IF r.mirror THEN "HFLIP" ELSE "NONE"

LastOp(r) == IF r.degrees = 90 THEN "ROT90"
             ELSE IF r.degrees = 180 THEN "ROT180"
             ELSE IF r.degrees = 270 THEN "ROT270"
             ELSE FlipOp(r)

LastPending(r) == Waiting(LastOp(r), FastLeft(r), Depth(r) = "GRAYSCALE")

\* The cut of the fast backend is a rectangle of the image, or none.
LEMMA CutFacts ==
    ASSUME NEW r \in Requests
    PROVE  /\ FastCut(r) \in Rect
           /\ CutOut(r) \in Picture
           /\ CutOut(r).depth = "source" /\ CutOut(r).turns = 0 /\ CutOut(r).flip = FALSE
           /\ CutOut(r).mcu = Loaded(r).mcu /\ CutOut(r).coding = Loaded(r).coding
           /\ FastCut(r) # NoRect => /\ r.region.kind # "full" /\ ~AllOf(r)
                                     /\ FastCut(r) = Extracted(r)
           /\ FastCut(r) = NoRect => /\ WidthOf(CutOut(r)) = Wide(r)
                                     /\ HeightOf(CutOut(r)) = High(r)
           /\ FastCut(r) # NoRect => /\ WidthOf(CutOut(r)) = Extracted(r).w
                                     /\ HeightOf(CutOut(r)) = Extracted(r).h
<1>1. NoRect \in Rect
  BY DEF NoRect, Fast!Jpeg!NoRect, Fast!Jpeg!Whole, Fast!Jpeg!Box, Whole, Box, Rect
<1>2. Extracted(r) \in Rect
  BY ExtractedFacts
<1>3. FastCut(r) \in Rect
  BY <1>1, <1>2 DEF FastCut
<1>4. /\ Loaded(r) \in Picture /\ Loaded(r).depth = "source" /\ Loaded(r).turns = 0
      /\ Loaded(r).flip = FALSE
      /\ WidthOf(Loaded(r)) = Wide(r) /\ HeightOf(Loaded(r)) = High(r)
  BY SourceFacts
<1>5. /\ Cropped(Loaded(r), FastCut(r)) \in Picture
      /\ Cropped(Loaded(r), FastCut(r)).mcu = Loaded(r).mcu
      /\ Cropped(Loaded(r), FastCut(r)).coding = Loaded(r).coding
  BY <1>3, <1>4, CroppedType
<1>6. /\ Cropped(Loaded(r), FastCut(r)).depth = "source"
      /\ Cropped(Loaded(r), FastCut(r)).turns = 0
      /\ Cropped(Loaded(r), FastCut(r)).flip = FALSE
  BY <1>4 DEF Cropped, Picture
<1>7. /\ WidthOf(Cropped(Loaded(r), FastCut(r))) = FastCut(r).w
      /\ HeightOf(Cropped(Loaded(r), FastCut(r))) = FastCut(r).h
  BY <1>3, <1>4, CroppedSize
<1>8. FastCut(r) # NoRect => r.region.kind # "full" /\ ~AllOf(r) /\ FastCut(r) = Extracted(r)
  BY DEF FastCut
<1>9. CutOut(r) = IF FastCut(r) = NoRect THEN Loaded(r) ELSE Cropped(Loaded(r), FastCut(r))
  BY DEF CutOut
<1>10. QED
  BY <1>3, <1>4, <1>5, <1>6, <1>7, <1>8, <1>9

\* The instances speak of pictures as the service does.
LEMMA SameSizes ==
    ASSUME NEW p
    PROVE  /\ Fast!WidthOf(p) = WidthOf(p) /\ Fast!HeightOf(p) = HeightOf(p)
           /\ Slow!WidthOf(p) = WidthOf(p) /\ Slow!HeightOf(p) = HeightOf(p)
           /\ Fast!Jpeg!WidthOf(p) = WidthOf(p) /\ Fast!Jpeg!HeightOf(p) = HeightOf(p)
           /\ Fast!Jpeg!Sideways(p) = Sideways(p)
BY DEF Fast!WidthOf, Fast!HeightOf, Fast!Sideways, Slow!WidthOf, Slow!HeightOf, Slow!Sideways,
       Fast!Jpeg!WidthOf, Fast!Jpeg!HeightOf, Fast!Jpeg!Sideways, WidthOf, HeightOf, Sideways

LEMMA SameInside ==
    ASSUME NEW a, NEW b, NEW c
    PROVE  Fast!Jpeg!Inside(a, b, c) = Inside(a, b, c) /\ Slow!Inside(a, b, c) = Inside(a, b, c)
BY DEF Fast!Jpeg!Inside, Slow!Inside, Inside

LEMMA SameBox ==
    ASSUME NEW a, NEW b, NEW c, NEW d
    PROVE  /\ Fast!Box(a, b, c, d) = Box(a, b, c, d)
           /\ Slow!Box(a, b, c, d) = Box(a, b, c, d)
BY DEF Fast!Box, Slow!Box, Box

LEMMA SameWhole ==
    ASSUME NEW a, NEW b
    PROVE  Fast!Jpeg!Whole(a, b) = Whole(a, b)
BY DEF Fast!Jpeg!Whole, Fast!Jpeg!Box, Whole, Box

LEMMA SameDepth ==
    ASSUME NEW p, NEW a
    PROVE  Fast!Jpeg!InDepth(p, a) = InDepth(p, a) /\ Slow!InDepth(p, a) = InDepth(p, a)
BY DEF Fast!Jpeg!InDepth, Slow!InDepth, InDepth

LEMMA SameMirror ==
    ASSUME NEW p
    PROVE  Fast!Jpeg!Mirrored(p) = Mirrored(p) /\ Slow!Mirrored(p) = Mirrored(p)
BY DEF Fast!Jpeg!Mirrored, Slow!Mirrored, Mirrored

LEMMA SameTurn ==
    ASSUME NEW p, NEW k
    PROVE  Fast!Jpeg!Turned(p, k) = Turned(p, k) /\ Slow!Turned(p, k) = Turned(p, k)
BY DEF Fast!Jpeg!Turned, Slow!Turned, Turned

LEMMA SameTarget ==
    ASSUME NEW w, NEW h
    PROVE  Fast!Target(w, h) = Target(w, h) /\ Slow!Target(w, h) = Target(w, h)
BY DEF Fast!Target, Slow!Target, Target

LEMMA SameCeil ==
    ASSUME NEW v
    PROVE  Fast!Ceil(v) = Ceil(v) /\ Slow!Ceil(v) = Ceil(v)
BY DEF Fast!Ceil, Slow!Ceil, Ceil, Fast!Saturated, Slow!Saturated, Saturated,
       Fast!Hundred, Slow!Hundred, Hundred

LEMMA SameWrapped ==
    ASSUME NEW v
    PROVE  Slow!Wrapped(v) = Wrapped(v)
BY DEF Slow!Wrapped, Wrapped

LEMMA SameCrop ==
    ASSUME NEW p, NEW a
    PROVE  Fast!Jpeg!Cropped(p, a) = Cropped(p, a) /\ Slow!Cropped(p, a) = Cropped(p, a)
<1>1. Fast!Jpeg!Unturned(p, a) = Unturned(p, a) /\ Slow!Unturned(p, a) = Unturned(p, a)
  BY DEF Fast!Jpeg!Unturned, Slow!Unturned, Unturned, Fast!Jpeg!Box, Slow!Box, Box
<1>2. /\ Fast!Jpeg!Unflipped(p, Fast!Jpeg!Unturned(p, a)) = Unflipped(p, Unturned(p, a))
      /\ Slow!Unflipped(p, Slow!Unturned(p, a)) = Unflipped(p, Unturned(p, a))
  BY <1>1 DEF Fast!Jpeg!Unflipped, Slow!Unflipped, Unflipped
<1>3. QED
  BY <1>2 DEF Fast!Jpeg!Cropped, Slow!Cropped, Cropped, Fast!Jpeg!Box, Slow!Box, Box

LEMMA SameResize ==
    ASSUME NEW p, NEW w, NEW h
    PROVE  Fast!Jpeg!Resized(p, w, h) = Resized(p, w, h) /\ Slow!Resized(p, w, h) = Resized(p, w, h)
BY DEF Fast!Jpeg!Resized, Slow!Resized, Resized, Fast!Jpeg!Sideways, Slow!Sideways, Sideways,
       Fast!Jpeg!Whole, Slow!Whole, Whole, Fast!Jpeg!Box, Slow!Box, Box

LEMMA SameBlocks ==
    ASSUME NEW p, NEW gray
    PROVE  /\ Fast!Jpeg!OutputMcu(p, gray) = OutputMcu(p, gray)
           /\ Fast!Jpeg!Readable(p) <=> OutputMcu(p, FALSE) \in Samplings
           /\ Fast!Jpeg!SizeOf(p) = SizeOf(p) /\ Fast!SizeOf(p) = SizeOf(p)
<1>1. \A g : Fast!Jpeg!OutputMcu(p, g) = OutputMcu(p, g)
  BY SameSizes DEF Fast!Jpeg!OutputMcu, OutputMcu
<1>2. Fast!Jpeg!Samplings = Samplings
  BY DEF Fast!Jpeg!Samplings, Samplings
<1>3. Fast!Jpeg!SizeOf(p) = SizeOf(p) /\ Fast!SizeOf(p) = SizeOf(p)
  BY SameSizes DEF Fast!Jpeg!SizeOf, Fast!SizeOf, SizeOf
<1>4. QED
  BY <1>1, <1>2, <1>3 DEF Fast!Jpeg!Readable

-----------------------------------------------------------------------------
(* What the operations of libjpeg-turbo make of an upright picture.        *)

UsedOps == {"NONE", "HFLIP", "ROT90", "ROT180", "ROT270"}

LEMMA MovedFacts ==
    ASSUME NEW p \in Picture, p.turns = 0, NEW op \in UsedOps
    PROVE  /\ Fast!Jpeg!Moved(p, op) \in Picture
           /\ Fast!Jpeg!Moved(p, op).depth = p.depth /\ Fast!Jpeg!Moved(p, op).rect = p.rect
           /\ Fast!Jpeg!Moved(p, op).mcu = p.mcu /\ Fast!Jpeg!Moved(p, op).coding = p.coding
           /\ Sideways(Fast!Jpeg!Moved(p, op)) <=> op \in {"ROT90", "ROT270"}
<1>1. CASE op = "NONE"
  BY <1>1 DEF Fast!Jpeg!Moved, Sideways
<1>2. CASE op = "HFLIP"
  <2>1. Fast!Jpeg!Moved(p, op) = Mirrored(p)
    BY <1>2, SameMirror DEF Fast!Jpeg!Moved
  <2>2. QED
    BY <1>2, <2>1, MirroredType DEF Sideways
<1>3. CASE op \in {"ROT90", "ROT180", "ROT270"}
  <2>1. /\ op = "ROT90" => Fast!Jpeg!Moved(p, op) = Turned(p, 1)
        /\ op = "ROT180" => Fast!Jpeg!Moved(p, op) = Turned(p, 2)
        /\ op = "ROT270" => Fast!Jpeg!Moved(p, op) = Turned(p, 3)
    BY <1>3, SameTurn DEF Fast!Jpeg!Moved
  <2>2. ASSUME NEW k \in {1, 2, 3}
        PROVE  /\ Turned(p, k) \in Picture /\ Turned(p, k).turns = k
               /\ Turned(p, k).depth = p.depth /\ Turned(p, k).rect = p.rect
               /\ Turned(p, k).mcu = p.mcu /\ Turned(p, k).coding = p.coding
    <3>1. k \in Int /\ (p.turns + k) % 4 = k
      OBVIOUS
    <3>2. QED
      BY <3>1, TurnedType
  <2>3. QED
    BY <1>3, <2>1, <2>2 DEF Sideways
<1>4. QED
  BY <1>1, <1>2, <1>3 DEF UsedOps

\* No operation leaves every block where it is.
LEMMA NothingApplied ==
    ASSUME NEW p, NEW gray
    PROVE  /\ Fast!Jpeg!MirrorsWhole(p, "NONE", gray)
           /\ Fast!Jpeg!OpApplied(p, "NONE", gray) = p
BY DEF Fast!Jpeg!OpApplied, Fast!Jpeg!MirrorsWhole, Fast!Jpeg!MirrorsX, Fast!Jpeg!MirrorsY,
       Fast!Jpeg!Moved

\* Which extent of an upright picture has to be a multiple of its blocks'.
LEMMA FullBlocks ==
    ASSUME NEW p \in Picture, p.turns = 0, p.depth = "source", NEW gray \in BOOLEAN,
           NEW op \in UsedOps,
           op \in {"HFLIP", "ROT180", "ROT270"} => WidthOf(p) % OutputMcu(p, gray).w = 0,
           op \in {"ROT90", "ROT180"} => HeightOf(p) % OutputMcu(p, gray).h = 0
    PROVE  Fast!Jpeg!MirrorsWhole(p, op, gray)
<1> DEFINE out == Fast!Jpeg!Moved(p, op)
           turned == op \in {"ROT90", "ROT270"}
<1>1. /\ out.depth = "source" /\ out.rect = p.rect /\ out.mcu = p.mcu /\ out.coding = p.coding
      /\ Sideways(out) <=> turned
      /\ ~Sideways(p)
  BY MovedFacts DEF Sideways
<1> HIDE DEF out
<1>2. /\ WidthOf(out) = IF turned THEN HeightOf(p) ELSE WidthOf(p)
      /\ HeightOf(out) = IF turned THEN WidthOf(p) ELSE HeightOf(p)
      /\ OutputMcu(out, gray).w = IF turned THEN OutputMcu(p, gray).h ELSE OutputMcu(p, gray).w
      /\ OutputMcu(out, gray).h = IF turned THEN OutputMcu(p, gray).w ELSE OutputMcu(p, gray).h
  BY <1>1 DEF WidthOf, HeightOf, OutputMcu
<1>3. /\ Fast!Jpeg!WidthOf(out) = WidthOf(out) /\ Fast!Jpeg!HeightOf(out) = HeightOf(out)
      /\ Fast!Jpeg!OutputMcu(out, gray) = OutputMcu(out, gray)
  BY SameSizes, SameBlocks
<1>4. /\ op \in Fast!Jpeg!MirrorsX => WidthOf(out) % OutputMcu(out, gray).w = 0
      /\ op \in Fast!Jpeg!MirrorsY => HeightOf(out) % OutputMcu(out, gray).h = 0
  BY <1>2 DEF UsedOps, Fast!Jpeg!MirrorsX, Fast!Jpeg!MirrorsY
<1>5. QED
  BY <1>3, <1>4 DEF Fast!Jpeg!MirrorsWhole, out

\* The blocks of the file that is written.
LEMMA BlocksAfter ==
    ASSUME NEW p \in Picture, p.turns = 0, p.depth = "source", NEW gray \in BOOLEAN,
           NEW op \in UsedOps, NEW rect \in Rect
    PROVE  OutputMcu(Fast!Jpeg!Transformed(p, Waiting(op, rect, gray)), FALSE) =
              IF gray \/ p.coding = "GRAY" THEN [w |-> 8, h |-> 8]
              ELSE IF op \in {"ROT90", "ROT270"} THEN [w |-> p.mcu.h, h |-> p.mcu.w] ELSE p.mcu
<1> DEFINE moved == Fast!Jpeg!Moved(p, op)
           out   == Fast!Jpeg!OpApplied(p, op, gray)
           cut   == IF rect = NoRect THEN out ELSE Cropped(out, rect)
           done  == IF gray THEN InDepth(cut, "GRAYSCALE") ELSE cut
<1>1. /\ moved \in Picture /\ moved.depth = "source" /\ moved.mcu = p.mcu
      /\ moved.coding = p.coding
      /\ Sideways(moved) <=> op \in {"ROT90", "ROT270"}
  BY MovedFacts
<1>2. out = moved \/ out = [moved EXCEPT !.patched = TRUE]
  BY DEF Fast!Jpeg!OpApplied
<1> HIDE DEF moved, out
<1>3. [moved EXCEPT !.patched = TRUE] \in Picture
  BY <1>1 DEF Picture
<1>4. /\ [moved EXCEPT !.patched = TRUE].depth = moved.depth
      /\ [moved EXCEPT !.patched = TRUE].mcu = moved.mcu
      /\ [moved EXCEPT !.patched = TRUE].coding = moved.coding
      /\ [moved EXCEPT !.patched = TRUE].turns = moved.turns
  BY <1>1, Zenon DEF Picture
<1>5. /\ out \in Picture /\ out.depth = "source" /\ out.mcu = p.mcu /\ out.coding = p.coding
      /\ out.turns = moved.turns
  BY <1>1, <1>2, <1>3, <1>4
<1>6. /\ cut \in Picture /\ cut.depth = "source" /\ cut.mcu = p.mcu /\ cut.coding = p.coding
      /\ cut.turns = moved.turns
  BY <1>5, CroppedType
<1> HIDE DEF cut
<1>7. InDepth(cut, "GRAYSCALE").depth = "GRAYSCALE"
  BY <1>6, InDepthType DEF Depths
<1>8. Fast!Jpeg!Transformed(p, Waiting(op, rect, gray)) = done
  BY SameCrop, SameDepth DEF Fast!Jpeg!Transformed, Waiting, NoRect, cut, out
<1>9. CASE gray
  BY <1>7, <1>8, <1>9 DEF OutputMcu
<1>10. CASE ~gray
  <2>1. Sideways(cut) <=> op \in {"ROT90", "ROT270"}
    BY <1>1, <1>6 DEF Sideways
  <2>2. QED
    BY <1>6, <1>8, <1>10, <2>1 DEF OutputMcu
<1>11. QED
  BY <1>9, <1>10

\* The loaded file, as libjpeg-turbo sees it.
LEMMA LoadedSeen ==
    ASSUME NEW r \in Requests, NEW gray
    PROVE  /\ Fast!Jpeg!WidthOf(Loaded(r)) = Wide(r) /\ Fast!Jpeg!HeightOf(Loaded(r)) = High(r)
           /\ Fast!Jpeg!SizeOf(Loaded(r)) = Target(Wide(r), High(r))
           /\ \/ Fast!Jpeg!OutputMcu(Loaded(r), gray) = Loaded(r).mcu
              \/ Fast!Jpeg!OutputMcu(Loaded(r), gray) = [w |-> 8, h |-> 8]
<1>1. /\ WidthOf(Loaded(r)) = Wide(r) /\ HeightOf(Loaded(r)) = High(r) /\ Loaded(r).turns = 0
  BY SourceFacts
<1>2. SizeOf(Loaded(r)) = Target(Wide(r), High(r))
  BY <1>1 DEF SizeOf, Target
<1>3. OutputMcu(Loaded(r), gray) \in {Loaded(r).mcu, [w |-> 8, h |-> 8]}
  BY <1>1 DEF OutputMcu, Sideways
<1>4. QED
  BY <1>1, <1>2, <1>3, SameSizes, SameBlocks

\* Why libjpeg-turbo refuses a rectangle of the image as it was loaded.
LEMMA UprightRefused ==
    ASSUME NEW r \in Requests, NEW gray \in BOOLEAN,
           Fast!Jpeg!Readable(Loaded(r)),
           FastCut(r) # NoRect => Inside(FastCut(r), Wide(r), High(r)),
           ~Fast!Jpeg!Transformable(Loaded(r), Waiting("NONE", FastCut(r), gray))
    PROVE  \/ ~Loaded(r).intact
           \/ gray /\ Loaded(r).coding \in {"RGB", "CMYK"}
           \/ /\ r.region.kind # "full" /\ ~AllOf(r)
              /\ \/ Extracted(r).x % Loaded(r).mcu.w # 0
                 \/ Extracted(r).y % Loaded(r).mcu.h # 0
<1> DEFINE p == Loaded(r)
           t == Waiting("NONE", FastCut(r), gray)
           mcu == Fast!Jpeg!OutputMcu(p, gray)
<1>1. Fast!Jpeg!OpApplied(p, "NONE", gray) = p
  BY NothingApplied
<1>2. t.op = "NONE" /\ t.rect = FastCut(r) /\ t.gray = gray
  BY DEF Waiting
<1>3. /\ Fast!Jpeg!WidthOf(p) = Wide(r) /\ Fast!Jpeg!HeightOf(p) = High(r)
      /\ p.mcu.w \in {8, 16, 24, 32} /\ p.mcu.h \in {8, 16, 24, 32}
      /\ p.coding \in {"YCC", "GRAY", "RGB", "CMYK"}
  BY SourceFacts, LoadedSeen DEF Codings
<1>4. mcu = p.mcu \/ mcu = [w |-> 8, h |-> 8]
  BY LoadedSeen
<1> HIDE DEF mcu
<1>5. ASSUME p.intact, gray => p.coding \in {"YCC", "GRAY"}
      PROVE  /\ FastCut(r) # NoRect
             /\ FastCut(r).x % mcu.w # 0 \/ FastCut(r).y % mcu.h # 0
  <2>1. FastCut(r) # NoRect => Fast!Jpeg!Inside(FastCut(r), Wide(r), High(r))
    BY SameInside
  <2>2. QED
    BY <1>1, <1>2, <1>3, <1>5, <2>1 DEF Fast!Jpeg!Transformable, mcu, NoRect
<1>6. ASSUME p.intact, gray => p.coding \in {"YCC", "GRAY"}
      PROVE  /\ r.region.kind # "full" /\ ~AllOf(r)
             /\ \/ Extracted(r).x % p.mcu.w # 0
                \/ Extracted(r).y % p.mcu.h # 0
  <2>1. r.region.kind # "full" /\ ~AllOf(r) /\ FastCut(r) = Extracted(r) /\ Extracted(r) \in Rect
    BY <1>5, <1>6, CutFacts, ExtractedFacts
  <2>2. PICK x, y \in Int : x = Extracted(r).x /\ y = Extracted(r).y
    BY <2>1 DEF Rect
  <2>3. PICK w, h \in {8, 16, 24, 32} : w = p.mcu.w /\ h = p.mcu.h
    BY <1>3
  <2>4. x % 8 # 0 => x % w # 0
    BY <2>2, <2>3
  <2>5. y % 8 # 0 => y % h # 0
    BY <2>2, <2>3
  <2>6. x % mcu.w # 0 \/ y % mcu.h # 0
    BY <1>5, <1>6, <2>1, <2>2
  <2>7. x % w # 0 \/ y % h # 0
    BY <1>4, <2>3, <2>4, <2>5, <2>6
  <2>8. QED
    BY <2>1, <2>2, <2>3, <2>7
<1>7. QED
  BY <1>3, <1>6

\* A new file from an old one looks the same; it is sound, has no markers and the
\* blocks of 4:2:0, but for four components.
LEMMA DownscaledLook ==
    ASSUME NEW p \in Picture, NEW w \in Int, NEW h \in Int
    PROVE  /\ Fast!Jpeg!Downscaled(p, w, h) \in Picture
           /\ Look(Fast!Jpeg!Downscaled(p, w, h)) = Look(Resized(p, w, h))
           /\ Fast!Jpeg!Downscaled(p, w, h).intact = TRUE
           /\ Fast!Jpeg!Downscaled(p, w, h).bulky = FALSE
           /\ Fast!Jpeg!Downscaled(p, w, h).coding = IF p.coding = "RGB" THEN "YCC" ELSE p.coding
           /\ Fast!Jpeg!Downscaled(p, w, h).mcu =
                 IF p.coding = "CMYK" THEN [w |-> 8, h |-> 8] ELSE [w |-> 16, h |-> 16]
           /\ Fast!Jpeg!Downscaled(p, w, h).depth = p.depth
           /\ Fast!Jpeg!Downscaled(p, w, h).turns = p.turns
           /\ Fast!Jpeg!Downscaled(p, w, h).flip = p.flip
           /\ WidthOf(Fast!Jpeg!Downscaled(p, w, h)) = w
           /\ HeightOf(Fast!Jpeg!Downscaled(p, w, h)) = h
<1>1. PICK q \in Picture : /\ q = Resized(p, w, h)
                           /\ q.depth = p.depth /\ q.turns = p.turns /\ q.flip = p.flip
                           /\ WidthOf(q) = w /\ HeightOf(q) = h
  BY ResizedType
<1> DEFINE coding == IF p.coding = "RGB" THEN "YCC" ELSE p.coding
           blocks == IF p.coding = "CMYK" THEN [w |-> 8, h |-> 8] ELSE [w |-> 16, h |-> 16]
           d      == [q EXCEPT !.intact = TRUE, !.bulky = FALSE, !.coding = coding,
                               !.mcu = blocks]
<1>2. Fast!Jpeg!Downscaled(p, w, h) = d
  BY <1>1, SameResize DEF Fast!Jpeg!Downscaled
<1>a. blocks \in Size /\ coding \in Codings
  BY DEF Size, Picture, Codings
<1>b. /\ coding = IF p.coding = "RGB" THEN "YCC" ELSE p.coding
      /\ blocks = IF p.coding = "CMYK" THEN [w |-> 8, h |-> 8] ELSE [w |-> 16, h |-> 16]
  OBVIOUS
<1> HIDE DEF blocks, coding
<1>3. d \in Picture
  BY <1>a DEF Picture
<1>4. /\ d.stages = q.stages /\ d.frame = q.frame /\ d.rect = q.rect /\ d.flip = q.flip
      /\ d.turns = q.turns /\ d.patched = q.patched /\ d.depth = q.depth /\ d.intact = TRUE
      /\ d.bulky = FALSE /\ d.coding = coding /\ d.mcu = blocks
  BY Zenon DEF Picture
<1> HIDE DEF d
<1>5. WidthOf(d) = w /\ HeightOf(d) = h
  BY <1>1, <1>4 DEF WidthOf, HeightOf, Sideways
<1>6. QED
  BY <1>1, <1>2, <1>3, <1>4, <1>5, <1>b DEF Look

\* What is turned in the end, by the request.
FastBlocks(r) ==
    IF Depth(r) = "GRAYSCALE" \/ Loaded(r).coding = "GRAY" THEN Target(8, 8)
    ELSE IF ~FastScaled(r) THEN Loaded(r).mcu
    ELSE IF Loaded(r).coding = "CMYK" THEN Target(8, 8) ELSE Target(16, 16)

FastSize(r) == IF FastScaled(r) THEN TargetOf(r) ELSE Target(Wide(r), High(r))

LEMMA FastDataFacts ==
    ASSUME NEW r \in Requests, FastScaled(r) => TargetOf(r) \in Size
    PROVE  /\ FastData(r) \in Picture /\ FastData(r).depth = "source" /\ FastData(r).turns = 0
           /\ ~FastScaled(r) => FastData(r) = Loaded(r)
           /\ FastScaled(r) =>
                 /\ FastData(r).intact = TRUE /\ FastData(r).bulky = FALSE
                 /\ FastData(r).coding = IF Loaded(r).coding = "RGB" THEN "YCC" ELSE Loaded(r).coding
                 /\ FastData(r).mcu = IF Loaded(r).coding = "CMYK" THEN [w |-> 8, h |-> 8]
                                      ELSE [w |-> 16, h |-> 16]
           /\ WidthOf(FastData(r)) = FastSize(r).w /\ HeightOf(FastData(r)) = FastSize(r).h
           /\ OutputMcu(FastData(r), Depth(r) = "GRAYSCALE") = FastBlocks(r)
<1>1. /\ Loaded(r) \in Picture /\ Loaded(r).depth = "source" /\ Loaded(r).turns = 0
      /\ WidthOf(Loaded(r)) = Wide(r) /\ HeightOf(Loaded(r)) = High(r)
  BY SourceFacts
<1>2. ASSUME ~FastScaled(r)
      PROVE  /\ FastData(r) = Loaded(r)
             /\ FastSize(r).w = Wide(r) /\ FastSize(r).h = High(r)
  BY <1>2 DEF FastData, FastSize, Target
<1>3. ASSUME FastScaled(r)
      PROVE  /\ FastData(r) \in Picture /\ FastData(r).depth = "source" /\ FastData(r).turns = 0
             /\ FastData(r).intact = TRUE /\ FastData(r).bulky = FALSE
             /\ FastData(r).coding = IF Loaded(r).coding = "RGB" THEN "YCC" ELSE Loaded(r).coding
             /\ FastData(r).mcu = IF Loaded(r).coding = "CMYK" THEN [w |-> 8, h |-> 8]
                                  ELSE [w |-> 16, h |-> 16]
             /\ WidthOf(FastData(r)) = FastSize(r).w /\ HeightOf(FastData(r)) = FastSize(r).h
  <2>1. PICK w, h \in Int : w = TargetOf(r).w /\ h = TargetOf(r).h
    BY <1>3 DEF Size
  <2>2. FastData(r) = Fast!Jpeg!Downscaled(CutOut(r), w, h)
    BY <1>3, <2>1 DEF FastData
  <2>3. /\ CutOut(r) \in Picture /\ CutOut(r).depth = "source" /\ CutOut(r).turns = 0
        /\ CutOut(r).coding = Loaded(r).coding
    BY CutFacts
  <2>4. FastSize(r).w = w /\ FastSize(r).h = h
    BY <1>3, <2>1 DEF FastSize
  <2> DEFINE c == CutOut(r)
             d == Fast!Jpeg!Downscaled(c, w, h)
  <2> HIDE DEF c, d
  <2>5. c \in Picture /\ d = Fast!Jpeg!Downscaled(c, w, h)
    BY <2>3 DEF c, d
  <2>6. /\ d \in Picture /\ d.depth = c.depth /\ d.turns = c.turns
        /\ d.intact = TRUE /\ d.bulky = FALSE
        /\ d.coding = IF c.coding = "RGB" THEN "YCC" ELSE c.coding
        /\ d.mcu = IF c.coding = "CMYK" THEN [w |-> 8, h |-> 8] ELSE [w |-> 16, h |-> 16]
        /\ WidthOf(d) = w /\ HeightOf(d) = h
    BY <2>5, DownscaledLook
  <2>7. FastData(r) = d /\ c.depth = "source" /\ c.turns = 0 /\ c.coding = Loaded(r).coding
    BY <2>2, <2>3 DEF c, d
  <2>8. QED
    BY <2>4, <2>6, <2>7
<1>4. OutputMcu(FastData(r), Depth(r) = "GRAYSCALE") = FastBlocks(r)
  <2>1. CASE FastScaled(r)
    <3>1. /\ ~Sideways(FastData(r)) /\ FastData(r).depth # "GRAYSCALE"
          /\ FastData(r).coding = "GRAY" <=> Loaded(r).coding = "GRAY"
      BY <1>3, <2>1 DEF Sideways
    <3>2. OutputMcu(FastData(r), Depth(r) = "GRAYSCALE") =
             IF Depth(r) = "GRAYSCALE" \/ Loaded(r).coding = "GRAY" THEN [w |-> 8, h |-> 8]
             ELSE FastData(r).mcu
      BY <3>1 DEF OutputMcu
    <3>3. QED
      BY <1>3, <2>1, <3>2 DEF FastBlocks, Target
  <2>2. CASE ~FastScaled(r)
    BY <1>1, <1>2, <2>2 DEF OutputMcu, FastBlocks, Target, Sideways
  <2>3. QED
    BY <2>1, <2>2
<1>5. QED
  BY <1>1, <1>2, <1>3, <1>4

\* An image scaled anew is refused for its colours at most, and fits the buffer.
LEMMA ScaledAccepted ==
    ASSUME NEW r \in Requests, FastScaled(r), TargetOf(r) \in Size, NEW op, NEW gray \in BOOLEAN
    PROVE  /\ ~(gray /\ Loaded(r).coding = "CMYK") =>
                 Fast!Jpeg!Transformable(FastData(r), Waiting(op, NoRect, gray))
           /\ ~Fast!Jpeg!MayOverflow(FastData(r), Waiting(op, NoRect, gray))
<1>1. /\ FastData(r).intact = TRUE /\ FastData(r).bulky = FALSE
      /\ FastData(r).depth = "source" /\ FastData(r).turns = 0
      /\ FastData(r).coding = IF Loaded(r).coding = "RGB" THEN "YCC" ELSE Loaded(r).coding
      /\ FastData(r).mcu \in {[w |-> 8, h |-> 8], [w |-> 16, h |-> 16]}
  BY FastDataFacts
<1>2. Loaded(r).coding \in {"YCC", "GRAY", "RGB", "CMYK"}
  BY SourceFacts DEF Codings
<1>3. OutputMcu(FastData(r), FALSE) \in {[w |-> 8, h |-> 8], [w |-> 16, h |-> 16]}
  BY <1>1 DEF OutputMcu, Sideways
<1>4. Fast!Jpeg!Readable(FastData(r))
  BY <1>3, SameBlocks DEF Samplings
<1>5. ~(gray /\ Loaded(r).coding = "CMYK") =>
         Fast!Jpeg!Transformable(FastData(r), Waiting(op, NoRect, gray))
  BY <1>1, <1>2, <1>4 DEF Fast!Jpeg!Transformable, Waiting, NoRect
<1>6. ~Fast!Jpeg!MayOverflow(FastData(r), Waiting(op, NoRect, gray))
  BY <1>1 DEF Fast!Jpeg!MayOverflow, Waiting, NoRect
<1>7. QED
  BY <1>5, <1>6

-----------------------------------------------------------------------------
(* What the fast backend serves.                                           *)

\* The stages of the picture a request asks for.
CutFor(r)   == Cropped(Loaded(r), Extracted(r))
SizedFor(r) == Resized(CutFor(r), SizeAskedFor(r).w, SizeAskedFor(r).h)

FlippedFor(r, p) == IF r.mirror THEN Mirrored(p) ELSE p
TurnedFor(r, p)  == Turned(FlippedFor(r, p), (r.degrees \div 90) % 4)
Oriented(r, p)   == InDepth(TurnedFor(r, p), Depth(r))

\* The picture asked for, in the order of the IIIF specification: cut, sized,
\* mirrored, turned, shaded.
LEMMA AskedInStages ==
    ASSUME NEW r
    PROVE  PictureAskedFor(r) = Oriented(r, SizedFor(r))
BY DEF PictureAskedFor, Oriented, TurnedFor, FlippedFor, SizedFor, CutFor, Loaded

\* A single operation of libjpeg-turbo does what the request asks for when it
\* has not to flip and turn at once.
LEMMA OneOperation ==
    ASSUME NEW r \in Requests, NEW p \in Picture,
           r.degrees \in {0, 90, 180, 270}, r.mirror => r.degrees = 0
    PROVE  Fast!Jpeg!Moved(p, LastOp(r)) = TurnedFor(r, p)
<1>1. r.mirror \in BOOLEAN
  BY RequestsAssumption
<1>2. CASE r.mirror
  <2>1. LastOp(r) = "HFLIP" /\ r.degrees = 0
    BY <1>2 DEF LastOp, FlipOp
  <2>2. TurnedFor(r, p) = Turned(Mirrored(p), 0)
    BY <1>2, <2>1 DEF TurnedFor, FlippedFor
  <2>3. Turned(Mirrored(p), 0) = Mirrored(p)
    BY MirroredType, TurnedByNothing
  <2>4. QED
    BY <2>1, <2>2, <2>3, SameMirror DEF Fast!Jpeg!Moved
<1>3. CASE ~r.mirror
  <2>1. TurnedFor(r, p) = Turned(p, (r.degrees \div 90) % 4)
    BY <1>3 DEF TurnedFor, FlippedFor
  <2>2. CASE r.degrees = 0
    <3>1. LastOp(r) = "NONE" /\ TurnedFor(r, p) = Turned(p, 0)
      BY <1>3, <2>1, <2>2 DEF LastOp, FlipOp
    <3>2. QED
      BY <3>1, TurnedByNothing DEF Fast!Jpeg!Moved
  <2>3. CASE r.degrees = 90
    <3>1. LastOp(r) = "ROT90" /\ TurnedFor(r, p) = Turned(p, 1)
      BY <2>1, <2>3 DEF LastOp
    <3>2. QED
      BY <3>1, SameTurn DEF Fast!Jpeg!Moved
  <2>4. CASE r.degrees = 180
    <3>1. LastOp(r) = "ROT180" /\ TurnedFor(r, p) = Turned(p, 2)
      BY <2>1, <2>4 DEF LastOp
    <3>2. QED
      BY <3>1, SameTurn DEF Fast!Jpeg!Moved
  <2>5. CASE r.degrees = 270
    <3>1. LastOp(r) = "ROT270" /\ TurnedFor(r, p) = Turned(p, 3)
      BY <2>1, <2>5 DEF LastOp
    <3>2. QED
      BY <3>1, SameTurn DEF Fast!Jpeg!Moved
  <2>6. QED
    BY <2>2, <2>3, <2>4, <2>5
<1>4. QED
  BY <1>1, <1>2, <1>3

\* Mirroring and turning keep the depth and the rectangle.
LEMMA TurnedForType ==
    ASSUME NEW r \in Requests, NEW p \in Picture
    PROVE  /\ TurnedFor(r, p) \in Picture /\ TurnedFor(r, p).depth = p.depth
           /\ TurnedFor(r, p).rect = p.rect
<1>1. FlippedFor(r, p) \in Picture /\ FlippedFor(r, p).depth = p.depth /\ FlippedFor(r, p).rect = p.rect
  BY MirroredType DEF FlippedFor
<1>2. (r.degrees \div 90) % 4 \in Int
  BY RequestsAssumption
<1>3. QED
  BY <1>1, <1>2, TurnedType DEF TurnedFor

\* The order of libjpeg-turbo: operation, rectangle, grayscale.  An operation that
\* leaves no block where it is does what it stands for.
LEMMA TransformedAsAsked ==
    ASSUME NEW r \in Requests, NEW p \in Picture, p.depth = "source",
           r.degrees \in {0, 90, 180, 270}, r.mirror => r.degrees = 0,
           Depth(r) \in {"source", "GRAYSCALE"},
           Fast!Jpeg!MirrorsWhole(p, LastOp(r), Depth(r) = "GRAYSCALE"),
           NEW rect,
           \/ rect = NoRect
           \/ rect # NoRect /\ Cropped(TurnedFor(r, p), rect) = TurnedFor(r, p)
    PROVE  Fast!Jpeg!Transformed(p, Waiting(LastOp(r), rect, Depth(r) = "GRAYSCALE")) = Oriented(r, p)
<1> DEFINE t == Waiting(LastOp(r), rect, Depth(r) = "GRAYSCALE")
           q == TurnedFor(r, p)
<1>1. t.op = LastOp(r) /\ t.rect = rect /\ t.gray = (Depth(r) = "GRAYSCALE")
  BY DEF Waiting
<1>2. Fast!Jpeg!OpApplied(p, LastOp(r), Depth(r) = "GRAYSCALE") = q
  BY OneOperation DEF Fast!Jpeg!OpApplied
<1>3. q \in Picture /\ q.depth = "source"
  BY TurnedForType
<1> HIDE DEF q, t
<1>4. Fast!Jpeg!Transformed(p, t) = IF t.gray THEN Fast!Jpeg!InDepth(q, "GRAYSCALE") ELSE q
  <2>1. Fast!Jpeg!Cropped(q, rect) = Cropped(q, rect)
    BY SameCrop
  <2>2. QED
    BY <1>1, <1>2, <2>1 DEF Fast!Jpeg!Transformed, NoRect, q
<1>5. Fast!Jpeg!InDepth(q, "GRAYSCALE") = InDepth(q, "GRAYSCALE")
  BY SameDepth
<1>6. Depth(r) = "source" => InDepth(q, Depth(r)) = q
  BY <1>3, InDepthType DEF Depths
<1>7. Oriented(r, p) = InDepth(q, Depth(r))
  BY DEF Oriented, q
<1>8. QED
  BY <1>1, <1>4, <1>5, <1>6, <1>7 DEF t

\* The deviations of the fast backend, in terms of the request.
CropFits(r) == r.region.kind # "full" /\ ~AllOf(r) => Inside(Extracted(r), Wide(r), High(r))

\* What a request must be like for the fast backend to serve it as asked.
OffsetRespected(r) ==
    r.region.kind # "full" /\ AllOf(r) => Extracted(r).x = 0 /\ Extracted(r).y = 0

TurnedWhole(r) ==
    Turns(r) /\ r.region.kind # "full" /\ ~AllOf(r) /\ ~FastScaled(r) =>
        Extracted(r) = Whole(Wide(r), High(r))

SizedRight(r) ==
    r.size.kind # "full" /\ r.region.kind # "full" => TargetOf(r) = SizeAskedFor(r)

MirroredWhole(r) == Fast!Jpeg!MirrorsWhole(FastData(r), LastOp(r), Depth(r) = "GRAYSCALE")

EnlargedNot(r) ==
    r.size.kind # "full" /\ ~FastScaled(r) => Extracted(r) = Whole(Wide(r), High(r))

\* What is pending after the crop is the rectangle asked for.
LEMMA CutAsAsked ==
    ASSUME NEW r \in Requests, CropFits(r), OffsetRespected(r)
    PROVE  /\ CutOut(r) = CutFor(r)
           /\ FastCut(r) = NoRect => CutFor(r) = Loaded(r) /\ Extracted(r) = Whole(Wide(r), High(r))
<1>1. Cropped(Loaded(r), Whole(Wide(r), High(r))) = Loaded(r)
  BY SourceFacts, CroppedWhole
<1>2. CASE r.region.kind = "full"
  <2>1. FastCut(r) = NoRect /\ Extracted(r) = Whole(Wide(r), High(r))
    BY <1>2, ExtractedFacts DEF FastCut
  <2>2. QED
    BY <1>1, <2>1 DEF CutOut, CutFor
<1>3. CASE r.region.kind # "full" /\ AllOf(r)
  <2>a. Named(r).w = Wide(r) /\ Named(r).h = High(r)
    BY <1>3, AllNamed
  <2>1. PICK x, y, w, h \in Int, W, H \in Nat \ {0} :
              /\ W = Wide(r) /\ H = High(r)
              /\ Named(r) = Box(x, y, w, h)
              /\ Extracted(r) = Box(x, y, IF w > W - x THEN W - x ELSE w,
                                          IF h > H - y THEN H - y ELSE h)
    BY <1>3, ExtractedNumbers
  <2>b. w = W /\ h = H
    BY <2>a, <2>1 DEF Box
  <2>2. x = 0 /\ y = 0
    BY <1>3, <2>1 DEF OffsetRespected, Box
  <2>3. Extracted(r) = Whole(Wide(r), High(r))
    BY <1>3, <2>1, <2>b, <2>2 DEF Whole, Box
  <2>4. FastCut(r) = NoRect
    BY <1>3 DEF FastCut
  <2>5. QED
    BY <1>1, <2>3, <2>4 DEF CutOut, CutFor
<1>4. CASE r.region.kind # "full" /\ ~AllOf(r)
  <2>1. FastCut(r) = Extracted(r)
    BY <1>4 DEF FastCut
  <2>2. Extracted(r).w > 0
    BY <1>4 DEF CropFits, Inside
  <2>3. NoRect.w = 0
    BY DEF NoRect, Fast!Jpeg!NoRect, Fast!Jpeg!Whole, Fast!Jpeg!Box
  <2>4. FastCut(r) # NoRect
    BY <2>1, <2>2, <2>3
  <2>5. QED
    BY <2>1, <2>4 DEF CutOut, CutFor
<1>5. QED
  BY <1>2, <1>3, <1>4

\* The size asked for is the one calculated, unless that is the mark for a
\* picture that fits already.
LEMMA SizeAsAsked ==
    ASSUME NEW r \in Requests, SizedRight(r), r.size.kind # "full",
           TargetOf(r) # Target(-1, -1)
    PROVE  SizeAskedFor(r) = TargetOf(r)
<1>1. CASE r.region.kind # "full"
  BY <1>1 DEF SizedRight
<1>2. CASE r.region.kind = "full"
  <2>1. Extracted(r).w = Wide(r) /\ Extracted(r).h = High(r)
    BY <1>2, ExtractedFacts DEF Whole, Box
  <2>2. QED
    BY <1>2, <2>1 DEF SizeAskedFor, TargetOf
<1>3. QED
  BY <1>1, <1>2

\* The picture of a request for the full size is the part cut out.
LEMMA FullSizeAsAsked ==
    ASSUME NEW r \in Requests, r.size.kind = "full"
    PROVE  SizedFor(r) = CutFor(r)
<1>1. SizeAskedFor(r).w = Extracted(r).w /\ SizeAskedFor(r).h = Extracted(r).h
  BY DEF SizeAskedFor, Target
<1>2. Loaded(r) \in Picture /\ Extracted(r) \in Rect
  BY SourceFacts, ExtractedFacts
<1>3. /\ CutFor(r) \in Picture
      /\ WidthOf(CutFor(r)) = Extracted(r).w /\ HeightOf(CutFor(r)) = Extracted(r).h
  BY <1>2, CroppedType, CroppedSize DEF CutFor
<1>4. QED
  BY <1>1, <1>3, ResizedToItself DEF SizedFor

\* After the scaling step the image shows the cut and sized picture, but for a
\* rectangle still pending.
LEMMA ScaledAsAsked ==
    ASSUME NEW r \in Requests, CropFits(r), OffsetRespected(r), SizedRight(r), EnlargedNot(r),
           FastScaled(r) => TargetOf(r) \in Size /\ TargetOf(r) # Target(-1, -1)
    PROVE  /\ FastScaled(r) => /\ FastData(r) \in Picture /\ FastData(r).depth = "source"
                               /\ SizedFor(r) \in Picture
                               /\ Look(FastData(r)) = Look(SizedFor(r))
           /\ ~FastScaled(r) => SizedFor(r) = CutFor(r)
<1>1. CutOut(r) = CutFor(r) /\ CutOut(r) \in Picture /\ CutOut(r).depth = "source"
  BY CutAsAsked, CutFacts
<1>2. ASSUME FastScaled(r)
      PROVE  /\ FastData(r) \in Picture /\ FastData(r).depth = "source"
             /\ SizedFor(r) \in Picture
             /\ Look(FastData(r)) = Look(SizedFor(r))
  <2>1. r.size.kind # "full" /\ TargetOf(r) \in Size /\ TargetOf(r) # Target(-1, -1)
    BY <1>2 DEF FastScaled
  <2>2. PICK w, h \in Int : w = TargetOf(r).w /\ h = TargetOf(r).h
    BY <2>1 DEF Size
  <2>3. SizeAskedFor(r).w = w /\ SizeAskedFor(r).h = h
    BY <2>1, <2>2, SizeAsAsked
  <2>4. SizedFor(r) = Resized(CutOut(r), w, h)
    BY <1>1, <2>3 DEF SizedFor
  <2>5. FastData(r) = Fast!Jpeg!Downscaled(CutOut(r), w, h)
    BY <1>2, <2>2 DEF FastData
  <2>6. Resized(CutOut(r), w, h) \in Picture
    BY <1>1, ResizedType
  <2>7. /\ Fast!Jpeg!Downscaled(CutOut(r), w, h) \in Picture
        /\ Fast!Jpeg!Downscaled(CutOut(r), w, h).depth = "source"
        /\ Look(Fast!Jpeg!Downscaled(CutOut(r), w, h)) = Look(Resized(CutOut(r), w, h))
    BY <1>1, DownscaledLook
  <2>8. QED
    BY <2>4, <2>5, <2>6, <2>7
<1>3. ASSUME ~FastScaled(r) PROVE SizedFor(r) = CutFor(r)
  <2>1. CASE r.size.kind = "full"
    BY <2>1, FullSizeAsAsked
  <2>2. CASE r.size.kind # "full"
    <3>1. TargetOf(r) = Target(Wide(r), High(r)) /\ Extracted(r) = Whole(Wide(r), High(r))
      BY <1>3, <2>2 DEF FastScaled, EnlargedNot
    <3>2. Wide(r) \in Nat
      BY ExtentFacts
    <3>3. TargetOf(r) # Target(-1, -1)
      BY <3>1, <3>2 DEF Target
    <3>4. SizeAskedFor(r).w = Wide(r) /\ SizeAskedFor(r).h = High(r)
      BY <2>2, <3>1, <3>3, SizeAsAsked DEF Target
    <3>5. CutFor(r) = Loaded(r)
      BY <3>1, SourceFacts, CroppedWhole DEF CutFor
    <3>6. Resized(Loaded(r), Wide(r), High(r)) = Loaded(r)
      BY SourceFacts, ResizedToItself
    <3>7. QED
      BY <3>4, <3>5, <3>6 DEF SizedFor
  <2>3. QED
    BY <2>1, <2>2
<1>4. QED
  BY <1>2, <1>3

\* Pictures that look alike still do when oriented as the request asks.
LEMMA OrientedLook ==
    ASSUME NEW r \in Requests, NEW p \in Picture, NEW q \in Picture, Look(p) = Look(q)
    PROVE  Look(Oriented(r, p)) = Look(Oriented(r, q))
<1>1. /\ FlippedFor(r, p) \in Picture /\ FlippedFor(r, q) \in Picture
      /\ Look(FlippedFor(r, p)) = Look(FlippedFor(r, q))
  BY LookKept, MirroredType DEF FlippedFor
<1>2. PICK k \in Int : k = (r.degrees \div 90) % 4
  BY RequestsAssumption
<1>3. /\ Turned(FlippedFor(r, p), k) \in Picture /\ Turned(FlippedFor(r, q), k) \in Picture
  BY <1>1, TurnedType
<1>4. Look(Turned(FlippedFor(r, p), k)) = Look(Turned(FlippedFor(r, q), k))
  BY <1>1, LookKept
<1>5. Look(TurnedFor(r, p)) = Look(TurnedFor(r, q))
  BY <1>2, <1>4 DEF TurnedFor
<1>6. TurnedFor(r, p) \in Picture /\ TurnedFor(r, q) \in Picture
  BY TurnedForType
<1>7. QED
  BY <1>5, <1>6, LookKept DEF Oriented

\* The fast backend serves the picture asked for, but for the deviations named.
LEMMA FastServes ==
    ASSUME NEW r \in Requests, CropFits(r), OffsetRespected(r), SizedRight(r), EnlargedNot(r),
           TurnedWhole(r), MirroredWhole(r),
           FastScaled(r) => TargetOf(r) \in Size /\ TargetOf(r) # Target(-1, -1),
           r.degrees \in {0, 90, 180, 270}, r.mirror => r.degrees = 0,
           Depth(r) \in {"source", "GRAYSCALE"},
           Fast!Jpeg!Transformable(FastData(r), LastPending(r))
    PROVE  Look(Fast!Jpeg!Transformed(FastData(r), LastPending(r))) = Look(PictureAskedFor(r))
<1> DEFINE gray == Depth(r) = "GRAYSCALE"
<1>0. PictureAskedFor(r) = Oriented(r, SizedFor(r))
  BY AskedInStages
<1>b. Fast!Jpeg!MirrorsWhole(FastData(r), LastOp(r), Depth(r) = "GRAYSCALE")
  BY DEF MirroredWhole
<1>a. Loaded(r) \in Picture /\ Loaded(r).depth = "source"
      /\ Loaded(r).rect = Whole(Wide(r), High(r)) /\ Loaded(r).turns = 0
  BY SourceFacts
<1>1. CASE FastScaled(r)
  <2>1. /\ FastData(r) \in Picture /\ FastData(r).depth = "source"
        /\ SizedFor(r) \in Picture
        /\ Look(FastData(r)) = Look(SizedFor(r))
    BY <1>1, ScaledAsAsked
  <2>2. LastPending(r) = Waiting(LastOp(r), NoRect, gray)
    BY <1>1 DEF LastPending, FastLeft
  <2>3. Fast!Jpeg!Transformed(FastData(r), LastPending(r)) = Oriented(r, FastData(r))
    BY <1>b, <2>1, <2>2, TransformedAsAsked
  <2>4. QED
    BY <1>0, <2>1, <2>3, OrientedLook
<1>2. CASE ~FastScaled(r)
  <2>1. /\ FastData(r) = Loaded(r) /\ SizedFor(r) = CutFor(r)
        /\ LastPending(r) = Waiting(LastOp(r), FastCut(r), gray)
    BY <1>2, ScaledAsAsked DEF FastData, LastPending, FastLeft
  <2>2. CASE FastCut(r) = NoRect
    <3>1. CutFor(r) = Loaded(r)
      BY <2>2, CutAsAsked
    <3>2. Fast!Jpeg!Transformed(Loaded(r), LastPending(r)) = Oriented(r, Loaded(r))
      BY <1>a, <1>b, <2>1, <2>2, TransformedAsAsked
    <3>3. QED
      BY <1>0, <2>1, <3>1, <3>2
  <2>3. CASE FastCut(r) # NoRect /\ ~Turns(r)
    <3>1. LastOp(r) = "NONE"
      BY <2>3 DEF Turns, LastOp, FlipOp
    <3>2. /\ CutOut(r) = Cropped(Loaded(r), FastCut(r)) /\ CutOut(r) = CutFor(r)
          /\ CutOut(r) \in Picture /\ CutOut(r).depth = "source"
      BY <2>3, CutAsAsked, CutFacts DEF CutOut
    <3>3. Fast!Jpeg!Transformed(Loaded(r), Waiting("NONE", FastCut(r), gray))
            = Fast!Jpeg!Transformed(CutOut(r), Waiting("NONE", NoRect, gray))
      <4>a. Fast!Jpeg!Cropped(Loaded(r), FastCut(r)) = Cropped(Loaded(r), FastCut(r))
        BY SameCrop
      <4>1. Fast!Jpeg!Cropped(Loaded(r), FastCut(r)) = CutOut(r)
        BY <3>2, <4>a
      <4>2. QED
        BY <2>3, <4>1, NothingApplied DEF Fast!Jpeg!Transformed, Waiting, NoRect
    <3>4. Fast!Jpeg!Transformed(CutOut(r), Waiting(LastOp(r), NoRect, gray)) = Oriented(r, CutOut(r))
      BY <3>1, <3>2, NothingApplied, TransformedAsAsked
    <3>5. QED
      BY <1>0, <2>1, <3>1, <3>2, <3>3, <3>4
  <2>4. CASE FastCut(r) # NoRect /\ Turns(r)
    <3>1. FastCut(r) = Extracted(r) /\ r.region.kind # "full" /\ ~AllOf(r)
      BY <2>4, CutFacts
    <3>2. Extracted(r) = Whole(Wide(r), High(r))
      BY <1>2, <2>4, <3>1 DEF TurnedWhole
    <3>a. Cropped(Loaded(r), Whole(Wide(r), High(r))) = Loaded(r)
      BY SourceFacts, CroppedWhole
    <3>3. CutFor(r) = Loaded(r)
      BY <3>2, <3>a DEF CutFor
    <3> DEFINE q == TurnedFor(r, Loaded(r))
    <3>4. /\ Fast!Jpeg!OpApplied(Loaded(r), LastOp(r), gray) = q
          /\ q \in Picture /\ q.rect = Whole(Wide(r), High(r))
      BY <1>a, <1>b, <2>1, OneOperation, TurnedForType DEF Fast!Jpeg!OpApplied
    <3> HIDE DEF q
    <3>5. Inside(Whole(Wide(r), High(r)), WidthOf(q), HeightOf(q))
      <4>1. Fast!Jpeg!Inside(FastCut(r), Fast!Jpeg!WidthOf(q), Fast!Jpeg!HeightOf(q))
        BY <2>1, <2>4, <3>4 DEF Fast!Jpeg!Transformable, Waiting, NoRect
      <4>2. QED
        BY <3>1, <3>2, <4>1, SameInside, SameSizes
    <3>6. Whole(Wide(r), High(r)) = Whole(WidthOf(q), HeightOf(q))
      <4>1. Wide(r) \in Nat /\ High(r) \in Nat
        BY ExtentFacts
      <4>2. Wide(r) <= WidthOf(q) /\ High(r) <= HeightOf(q)
        BY <3>5, <4>1 DEF Inside, Whole, Box
      <4>3. q.rect.w = Wide(r) /\ q.rect.h = High(r)
        BY <3>4 DEF Whole, Box
      <4>4. WidthOf(q) = Wide(r) /\ HeightOf(q) = High(r)
        BY <4>1, <4>2, <4>3 DEF WidthOf, HeightOf
      <4>5. QED
        BY <4>4
    <3>7. Cropped(q, FastCut(r)) = q
      BY <3>1, <3>2, <3>4, <3>6, CroppedWhole
    <3>8. Fast!Jpeg!Transformed(Loaded(r), Waiting(LastOp(r), FastCut(r), gray)) = Oriented(r, Loaded(r))
      BY <1>a, <1>b, <2>1, <2>4, <3>7, TransformedAsAsked DEF q
    <3>9. QED
      BY <1>0, <2>1, <3>3, <3>8
  <2>5. QED
    BY <2>2, <2>3, <2>4
<1>3. QED
  BY <1>1, <1>2

-----------------------------------------------------------------------------
(* What the slow backend makes of a request.                               *)

\* Arithmetic that stays within an int is not wrapped.
LEMMA WrappedFacts ==
    ASSUME NEW v \in Int, -MaxInt - 1 <= v, v <= MaxInt
    PROVE  Wrapped(v) = v
<1>1. MaxInt \in Nat
  BY MaxIntAssumption
<1> DEFINE a == v + MaxInt + 1
           b == 2 * (MaxInt + 1)
<1>2. a \in Int /\ b \in Int /\ 0 <= a /\ a < b
  BY <1>1
<1>3. Wrapped(v) = (a % b) - (MaxInt + 1)
  BY DEF Wrapped
<1>4. ASSUME NEW m \in Int, NEW n \in Int, 0 <= m, m < n PROVE m % n = m
  BY <1>4
<1>5. a % b = a
  <2> HIDE DEF a, b
  <2>1. QED
    BY <1>2, <1>4
<1>6. QED
  BY <1>1, <1>3, <1>5

\* setSourceRegion() gets the rectangle named.
LEMMA CornerIsNamed ==
    ASSUME NEW r \in Requests
    PROVE  Slow!Corner(InPixels(r)) = Named(r)
BY SameCeil, SameBox DEF Slow!Corner, Named

\* An absolute region was cut when the image was read: what is cut a second time
\* is another part, except at the corner.
CutTwiceOf(r) ==
    /\ r.region.kind = "absolute"
    /\ InPixels(r).w # Hundred * Extracted(r).w \/ InPixels(r).h # Hundred * Extracted(r).h
    /\ Extracted(r).x # 0 \/ Extracted(r).y # 0

\* An absolute region was cut out by the decoder; crop() cuts it out again, to
\* no effect unless the request is one that is cut twice.
LEMMA SlowCropAgain ==
    ASSUME NEW r \in Requests, r.region.kind = "absolute", data = CutFor(r),
           Slow!Settable(Named(r)), Named(r).x < Wide(r), Named(r).y < High(r),
           ~(InPixels(r).w = Hundred * Extracted(r).w /\ InPixels(r).h = Hundred * Extracted(r).h),
           Slow!Crop(InPixels(r)), ~CutTwiceOf(r)
    PROVE  thrown' = "none" /\ UNCHANGED <<data, format>>
<1>1. PICK x, y, w, h \in Int, W, H \in Nat \ {0} :
              /\ W = Wide(r) /\ H = High(r)
              /\ Named(r) = Box(x, y, w, h)
              /\ x \in -MaxInt - 1 .. MaxInt /\ y \in -MaxInt - 1 .. MaxInt
              /\ w \in -MaxInt - 1 .. MaxInt /\ h \in -MaxInt - 1 .. MaxInt
              /\ Extracted(r) = Box(x, y, IF w > W - x THEN W - x ELSE w,
                                          IF h > H - y THEN H - y ELSE h)
  BY ExtractedNumbers
<1>2. x = 0 /\ y = 0
  BY <1>1 DEF CutTwiceOf, Box
<1>3. w > 0 /\ h > 0
  BY <1>1 DEF Slow!Settable, Box
<1> DEFINE a == IF w > W THEN W ELSE w
           b == IF h > H THEN H ELSE h
<1>4. Extracted(r) = Box(0, 0, a, b) /\ a \in Int /\ b \in Int /\ 0 < a /\ 0 < b /\ a <= w /\ b <= h
  BY <1>1, <1>2, <1>3
<1>5. Slow!WidthOf(data) = a /\ Slow!HeightOf(data) = b
  <2>1. WidthOf(CutFor(r)) = Extracted(r).w /\ HeightOf(CutFor(r)) = Extracted(r).h
    BY SourceFacts, ExtractedFacts, CroppedSize DEF CutFor
  <2>2. QED
    BY <1>4, <2>1, SameSizes DEF Box
<1>6. Slow!Corner(InPixels(r)) = Box(0, 0, w, h)
  BY <1>1, <1>2, CornerIsNamed
<1>7. Slow!Wrapped(0 + w) = w /\ Slow!Wrapped(0 + h) = h
  <2>1. 0 + w = w /\ 0 + h = h
    OBVIOUS
  <2>2. /\ -MaxInt - 1 <= w /\ w <= MaxInt
        /\ -MaxInt - 1 <= h /\ h <= MaxInt
    BY <1>1, MaxIntAssumption
  <2>3. QED
    BY <2>1, <2>2, SameWrapped, WrappedFacts
<1> DEFINE cutW == IF w > a THEN a - 0 ELSE w
           cutH == IF h > b THEN b - 0 ELSE h
<1>8. cutW = a /\ cutH = b
  BY <1>4
<1> HIDE DEF a, b
<1>9. Slow!Box(0, 0, cutW, cutH).w = cutW /\ Slow!Box(0, 0, cutW, cutH).h = cutH
  BY DEF Slow!Box
<1>10. Box(0, 0, w, h).x = 0 /\ Box(0, 0, w, h).y = 0 /\ Box(0, 0, w, h).w = w /\ Box(0, 0, w, h).h = h
  BY DEF Box
<1>11. ~(0 >= a \/ 0 >= b)
  BY <1>4
<1> HIDE DEF cutW, cutH
<1>12. QED
  BY <1>5, <1>6, <1>7, <1>8, <1>9, <1>10, <1>11 DEF Slow!Crop, Slow!Succeed, cutW, cutH

\* A relative region is cut here for the first time.
LEMMA SlowCropOnce ==
    ASSUME NEW r \in Requests, r.region.kind = "relative", data = Loaded(r),
           Slow!Crop(InPixels(r))
    PROVE  \/ thrown' \in {"InvalidParameters", "RasterFormat"} /\ NothingExtracted(r)
           \/ /\ thrown' = "none" /\ format' = format
              /\ InPixels(r).w > 0 /\ InPixels(r).h > 0
              /\ Extracted(r).x >= 0 /\ Extracted(r).y >= 0 => data' = CutFor(r)
<1>1. PICK x, y, w, h \in Int, W, H \in Nat \ {0} :
              /\ W = Wide(r) /\ H = High(r) /\ W < MaxInt /\ H < MaxInt
              /\ Named(r) = Box(x, y, w, h)
              /\ x \in -MaxInt - 1 .. MaxInt /\ y \in -MaxInt - 1 .. MaxInt
              /\ w \in -MaxInt - 1 .. MaxInt /\ h \in -MaxInt - 1 .. MaxInt
              /\ Extracted(r) = Box(x, y, IF w > W - x THEN W - x ELSE w,
                                          IF h > H - y THEN H - y ELSE h)
              /\ InPixels(r).w > 0 <=> w > 0
              /\ InPixels(r).h > 0 <=> h > 0
              /\ r.region.kind = "relative" => x + w <= W + 1 /\ y + h <= H + 1
  BY ExtractedNumbers
<1>2. Slow!WidthOf(data) = W /\ Slow!HeightOf(data) = H
  BY <1>1, SourceFacts, SameSizes
<1>3. Slow!Corner(InPixels(r)) = Box(x, y, w, h)
  BY <1>1, CornerIsNamed
<1> DEFINE cutW == IF Slow!Wrapped(x + w) > W THEN W - x ELSE w
           cutH == IF Slow!Wrapped(y + h) > H THEN H - y ELSE h
           cut  == Slow!Box(x, y, cutW, cutH)
           extW == IF w > W - x THEN W - x ELSE w
           extH == IF h > H - y THEN H - y ELSE h
<1>4. x >= 0 => cutW = extW
  <2>1. ASSUME x >= 0 PROVE Slow!Wrapped(x + w) = x + w
    <3>1. /\ x + w \in Int /\ -MaxInt - 1 <= x + w /\ x + w <= MaxInt
      BY <1>1, <2>1, MaxIntAssumption
    <3>2. QED
      BY <3>1, SameWrapped, WrappedFacts
  <2>2. QED
    BY <1>1, <2>1
<1>5. y >= 0 => cutH = extH
  <2>1. ASSUME y >= 0 PROVE Slow!Wrapped(y + h) = y + h
    <3>1. /\ y + h \in Int /\ -MaxInt - 1 <= y + h /\ y + h <= MaxInt
      BY <1>1, <2>1, MaxIntAssumption
    <3>2. QED
      BY <3>1, SameWrapped, WrappedFacts
  <2>2. QED
    BY <1>1, <2>1
<1>6. Extracted(r) = Box(x, y, extW, extH) /\ extW \in Int /\ extH \in Int
  BY <1>1
<1>7. extW = W => x <= 0
  BY <1>1
<1>8. extH = H => y <= 0
  BY <1>1
<1>a. cutW = W => w > 0
  BY <1>1, <1>4
<1>b. cutH = H => h > 0
  BY <1>1, <1>5
<1>c. (x >= 0 /\ cutW > 0) => (w > 0 \/ W <= x)
  BY <1>1, <1>4
<1>d. (y >= 0 /\ cutH > 0) => (h > 0 \/ H <= y)
  BY <1>1, <1>5
<1>e. (x < W /\ x >= 0 /\ cutW > 0 => w > 0) /\ (y < H /\ y >= 0 /\ cutH > 0 => h > 0)
  BY <1>1, <1>c, <1>d
<1> HIDE DEF cutW, cutH, extW, extH
<1>9. cut = Box(x, y, cutW, cutH)
  BY SameBox
<1>10. /\ Box(x, y, w, h).x = x /\ Box(x, y, w, h).y = y
       /\ Box(x, y, w, h).w = w /\ Box(x, y, w, h).h = h
       /\ cut.w = cutW /\ cut.h = cutH
  BY <1>9 DEF Box
<1>11. \/ (x >= W \/ y >= H) /\ thrown' = "InvalidParameters"
       \/ cutW = W /\ cutH = H /\ thrown' = "none" /\ UNCHANGED <<data, format>>
       \/ x < W /\ y < H /\ Slow!Inside(cut, W, H) /\ data' = Slow!Cropped(data, cut)
             /\ thrown' = "none" /\ UNCHANGED format
       \/ ~Slow!Inside(cut, W, H) /\ thrown' = "RasterFormat"
  BY <1>2, <1>3, <1>10 DEF Slow!Crop, Slow!Succeed, Slow!Throw, cutW, cutH
<1>12. CASE (x >= W \/ y >= H) /\ thrown' = "InvalidParameters"
  <2>1. Named(r).x >= Wide(r) \/ Named(r).y >= High(r)
    BY <1>1, <1>12 DEF Box
  <2>2. QED
    BY <1>12, <2>1, Missed
<1>13. CASE cutW = W /\ cutH = H /\ thrown' = "none" /\ UNCHANGED <<data, format>>
  <2>1. ASSUME x >= 0, y >= 0 PROVE CutFor(r) = Loaded(r)
    <3>1. extW = W /\ extH = H /\ x = 0 /\ y = 0
      BY <1>4, <1>5, <1>7, <1>8, <1>13, <2>1
    <3>2. Extracted(r) = Whole(WidthOf(Loaded(r)), HeightOf(Loaded(r)))
      BY <1>1, <1>6, <3>1, SourceFacts DEF Whole
    <3>3. QED
      BY <3>2, SourceFacts, CroppedWhole DEF CutFor
  <2>2. InPixels(r).w > 0 /\ InPixels(r).h > 0
    BY <1>1, <1>a, <1>b, <1>13
  <2>3. QED
    BY <1>6, <1>13, <2>1, <2>2 DEF Box
<1>14. CASE x < W /\ y < H /\ Slow!Inside(cut, W, H) /\ data' = Slow!Cropped(data, cut)
            /\ thrown' = "none" /\ UNCHANGED format
  <2>1. ASSUME x >= 0, y >= 0 PROVE data' = CutFor(r)
    <3>1. cut = Extracted(r)
      BY <1>4, <1>5, <1>6, <1>9, <2>1
    <3>2. Slow!Cropped(data, Extracted(r)) = Cropped(data, Extracted(r))
      BY SameCrop
    <3>3. QED
      BY <1>14, <3>1, <3>2 DEF CutFor
  <2>2. InPixels(r).w > 0 /\ InPixels(r).h > 0
    <3>1. x >= 0 /\ y >= 0 /\ cutW > 0 /\ cutH > 0
      BY <1>9, <1>10, <1>14, SameInside DEF Inside, Box
    <3>2. QED
      BY <1>1, <1>e, <1>14, <3>1
  <2>3. QED
    BY <1>6, <1>14, <2>1, <2>2 DEF Box
<1>15. CASE ~Slow!Inside(cut, W, H) /\ thrown' = "RasterFormat"
  <2>1. CASE x >= 0 /\ y >= 0
    <3>1. cut = Extracted(r)
      BY <1>4, <1>5, <1>6, <1>9, <2>1
    <3>2. ~Inside(Extracted(r), Wide(r), High(r))
      BY <1>1, <1>15, <3>1, SameInside
    <3>3. QED
      BY <1>15, <3>2, ExtractedFacts
  <2>2. CASE ~(x >= 0 /\ y >= 0)
    <3>1. ~Inside(Extracted(r), Wide(r), High(r))
      BY <1>6, <2>2 DEF Inside, Box
    <3>2. QED
      BY <1>15, <3>1, ExtractedFacts
  <2>3. QED
    BY <2>1, <2>2
<1>16. QED
  BY <1>11, <1>12, <1>13, <1>14, <1>15

\* A relative region taken for the whole image is the whole image when it begins
\* in it.
LEMMA SlowTakesAll ==
    ASSUME NEW r \in Requests, r.region.kind = "relative", AllOf(r),
           Extracted(r).x >= 0, Extracted(r).y >= 0
    PROVE  CutFor(r) = Loaded(r)
<1>1. PICK x, y, w, h \in Int, W, H \in Nat \ {0} :
              /\ W = Wide(r) /\ H = High(r)
              /\ Named(r) = Box(x, y, w, h)
              /\ Extracted(r) = Box(x, y, IF w > W - x THEN W - x ELSE w,
                                          IF h > H - y THEN H - y ELSE h)
  BY ExtractedNumbers
<1>2. w = W /\ h = H
  BY <1>1, AllNamed DEF Box
<1>3. PICK a, b \in Int : a = InPixels(r).x /\ b = InPixels(r).y
  BY PixelFacts
<1>4. a <= 0 /\ b <= 0
  <2>1. /\ InPixels(r).w <= Hundred * W - a
        /\ InPixels(r).h <= Hundred * H - b
    BY <1>1, <1>3, PixelFacts
  <2>2. InPixels(r).w = Hundred * W /\ InPixels(r).h = Hundred * H
    BY <1>1 DEF AllOf
  <2>3. QED
    BY <2>1, <2>2 DEF Hundred
<1>5. x = Ceil(a) /\ y = Ceil(b)
  BY <1>1, <1>3 DEF Named, Box
<1>6. x <= 0 /\ y <= 0
  BY <1>4, <1>5, CeilFacts
<1>7. x >= 0 /\ y >= 0
  BY <1>1 DEF Box
<1>a. x = 0 /\ y = 0
  BY <1>6, <1>7
<1>b. Extracted(r) = Box(0, 0, W, H)
  BY <1>1, <1>2, <1>a
<1>8. Extracted(r) = Whole(WidthOf(Loaded(r)), HeightOf(Loaded(r)))
  BY <1>1, <1>b, SourceFacts DEF Whole
<1>9. QED
  BY <1>8, SourceFacts, CroppedWhole DEF CutFor

\* scale() of the slow backend makes the sized picture out of the cut one.
LEMMA SlowSized ==
    ASSUME NEW r \in Requests, r.size.kind # "full", TargetOf(r) \in Size, SizedRight(r),
           data = CutFor(r), Slow!Scale(TargetOf(r)), thrown' = "none"
    PROVE  /\ data' = SizedFor(r) /\ format' = format
           /\ SizedFor(r) \in Picture /\ SizedFor(r).depth = "source"
<1>1. CutFor(r) \in Picture /\ CutFor(r).depth = "source"
      /\ WidthOf(CutFor(r)) = Extracted(r).w /\ HeightOf(CutFor(r)) = Extracted(r).h
  <2>1. Loaded(r) \in Picture /\ Loaded(r).depth = "source" /\ Extracted(r) \in Rect
    BY SourceFacts, ExtractedFacts
  <2>2. CutFor(r) \in Picture
    BY <2>1, CroppedType DEF CutFor
  <2>3. CutFor(r).depth = "source"
    BY <2>1 DEF CutFor, Cropped, Picture
  <2>4. WidthOf(CutFor(r)) = Extracted(r).w /\ HeightOf(CutFor(r)) = Extracted(r).h
    BY <2>1, CroppedSize DEF CutFor
  <2>5. QED
    BY <2>2, <2>3, <2>4
<1>2. PICK w, h \in Int : w = TargetOf(r).w /\ h = TargetOf(r).h /\ TargetOf(r) = Target(w, h)
  BY DEF Size, Target
<1>3. Slow!WidthOf(data) = Extracted(r).w /\ Slow!HeightOf(data) = Extracted(r).h
  BY <1>1, SameSizes
<1>4. \/ TargetOf(r) = Target(Extracted(r).w, Extracted(r).h) /\ UNCHANGED <<data, format>>
      \/ Slow!Allocatable(TargetOf(r)) /\ data' = Resized(CutFor(r), w, h) /\ format' = format
  <2>1. Slow!Target(Extracted(r).w, Extracted(r).h) = Target(Extracted(r).w, Extracted(r).h)
    BY SameTarget
  <2>2. Slow!Resized(data, w, h) = Resized(data, w, h)
    BY SameResize
  <2>3. QED
    BY <1>2, <1>3, <2>1, <2>2 DEF Slow!Scale, Slow!Throw
<1>5. SizeAskedFor(r) = TargetOf(r)
  <2>1. CASE r.region.kind # "full"
    BY <2>1 DEF SizedRight
  <2>2. CASE r.region.kind = "full"
    <3>1. Extracted(r).w \in Nat /\ Extracted(r).h \in Nat
      BY <2>2, ExtractedFacts, ExtentFacts DEF Whole, Box
    <3>2. TargetOf(r) # Target(-1, -1)
      BY <1>2, <1>4, <3>1 DEF Target, Slow!Allocatable
    <3>3. QED
      BY <3>2, SizeAsAsked
  <2>3. QED
    BY <2>1, <2>2
<1>6. SizedFor(r) = Resized(CutFor(r), w, h)
  BY <1>2, <1>5 DEF SizedFor
<1>7. TargetOf(r) = Target(Extracted(r).w, Extracted(r).h) => Resized(CutFor(r), w, h) = CutFor(r)
  <2>1. Resized(CutFor(r), WidthOf(CutFor(r)), HeightOf(CutFor(r))) = CutFor(r)
    BY <1>1, ResizedToItself
  <2>2. QED
    BY <1>1, <1>2, <2>1 DEF Target
<1>8. Resized(CutFor(r), w, h) \in Picture /\ Resized(CutFor(r), w, h).depth = "source"
  BY <1>1, ResizedType
<1>9. QED
  BY <1>4, <1>6, <1>7, <1>8

-----------------------------------------------------------------------------
(* The invariant.                                                          *)

\* Where an image is at hand.
AtWork == {"absolute", "crop", "size", "scale", "mirror", "rotate", "depth", "convert", "perform"}

\* What is known of the parameters before a step.
ParamHolds(r, step, rg, t) ==
    /\ ~BadParameters(r)
    /\ step = "absolute" => rg = r.region
    /\ step # "absolute" => rg = InPixels(r)
    /\ step \notin {"absolute", "crop"} /\ r.region.kind # "full" =>
          InPixels(r).w > 0 /\ InPixels(r).h > 0
    /\ step = "scale" => r.size.kind # "full"
    /\ step \notin {"absolute", "crop", "size"} /\ r.size.kind # "full" =>
          ValidSize(r.size) /\ t = TargetOf(r) /\ TargetOf(r) \in Size

\* A size that is scaled to is no larger than what it is scaled from.
FastNotEnlarged(r) ==
    FastScaled(r) => /\ TargetOf(r).w \in 1 .. WidthOf(CutOut(r))
                     /\ TargetOf(r).h \in 1 .. HeightOf(CutOut(r))

\* What the image of the fast backend holds before a step.
FastHolds(r, step, d, s, q, w, h, f) ==
    /\ Fast!Jpeg!Readable(Loaded(r))
    /\ w = Wide(r) /\ h = High(r)
    /\ step \in {"absolute", "crop", "size", "scale"} => s = Target(Wide(r), High(r))
    /\ f = "JPEG" /\ r.format = "JPEG" /\ Depth(r) # "BITONAL"
    /\ step \in {"absolute", "crop"} => d = Loaded(r) /\ q = Waiting("NONE", NoRect, FALSE)
    /\ step \notin {"absolute", "crop"} => CropFits(r)
    /\ step \in {"size", "scale"} => d = Loaded(r) /\ q = Waiting("NONE", FastCut(r), FALSE)
    /\ step \in {"mirror", "rotate", "depth", "convert", "perform"} =>
          d = FastData(r) /\ FastNotEnlarged(r)
    /\ step = "mirror" => q = Waiting("NONE", FastLeft(r), FALSE)
    /\ step = "rotate" => q = Waiting(FlipOp(r), FastLeft(r), FALSE)
    /\ step = "depth" => q = Waiting(LastOp(r), FastLeft(r), FALSE)
    /\ step \in {"depth", "convert", "perform"} => r.degrees \in {0, 90, 180, 270}
    /\ step \in {"convert", "perform"} =>
          q = LastPending(r) /\ Depth(r) \in {"source", "GRAYSCALE"}

\* A region the slow backend cuts out as asked for.
SlowCut(r) ==
    /\ ~CutTwiceOf(r)
    /\ r.region.kind = "relative" => Extracted(r).x >= 0 /\ Extracted(r).y >= 0

\* A request the slow backend serves as asked for.
Regular(r) == SlowCut(r) /\ SizedRight(r)

\* What the image of the slow backend holds before a step.
SlowHolds(r, step, d, f) ==
    /\ step \in {"absolute", "crop"} =>
          /\ r.region.kind # "absolute" => d = Loaded(r)
          /\ r.region.kind = "absolute" =>
                /\ d = CutFor(r) /\ Slow!Settable(Named(r))
                /\ Named(r).x < Wide(r) /\ Named(r).y < High(r)
    /\ step \in {"size", "scale"} /\ SlowCut(r) => d = CutFor(r)
    /\ step \in {"mirror", "rotate", "depth", "convert", "perform"} /\ Regular(r) =>
          SizedFor(r) \in Picture /\ SizedFor(r).depth = "source"
    /\ step = "mirror" /\ Regular(r) => d = SizedFor(r)
    /\ step = "rotate" /\ Regular(r) => d = FlippedFor(r, SizedFor(r))
    /\ step = "depth" /\ Regular(r) => d = TurnedFor(r, SizedFor(r))
    /\ step \in {"convert", "perform"} /\ Regular(r) => d = Oriented(r, SizedFor(r))
    /\ step = "perform" => f = r.format

\* What explains 400.
BadCause == BadRequest(request) \/ AngleRefused \/ CutTwice

\* What explains 500.
ErrorCause ==
    \/ NoSuchSize \/ Enlarges \/ OffGrid \/ Damaged
    \/ GrayFails \/ TurnsNameless \/ Overflows
    \/ AngleFails \/ ColorFails \/ CropMeetsTurn \/ CutTwice
    \/ NothingExtracted(request)

\* What is known of an answer: the three invariants of the contract.
Explained ==
    /\ status = 400 => BadCause
    /\ status = 500 => ErrorCause
    /\ status = 200 => KnownDeviation \/ Right

\* The inductive invariant: what the image at hand holds is, before each step, a
\* function of the request and of the step alone, so that only the answer is left
\* to be explained.
PictureInv ==
    /\ request \in Requests
    /\ pc \in {"parse", "authorize", "select", "done"} \union AtWork
    /\ pc \in {"parse", "authorize", "select"} => region = request.region
    /\ pc \in {"authorize", "select"} => ~BadParameters(request)
    /\ pc \in AtWork =>
          /\ ParamHolds(request, pc, region, target)
          /\ backend \in {"JpegTran", "ImageIO"}
          /\ OnFast => FastHolds(request, pc, data, size, pending, width, height, format)
          /\ OnSlow => SlowHolds(request, pc, data, format)
    /\ pc = "done" => Explained

\* What explains an answer, and what excuses a picture, stays as it is while the
\* parameters do.
LEMMA CausesKept ==
    ASSUME UNCHANGED <<request, backend, region, target, width, height>>
    PROVE  /\ BadCause => BadCause'
           /\ ErrorCause => ErrorCause'
           /\ KnownDeviation => KnownDeviation'
<1>1. OnFast' = OnFast /\ OnSlow' = OnSlow /\ (OnFast => TakesAll' = TakesAll)
  BY DEF OnFast, OnSlow, TakesAll, Width, Height
<1>2. Rescaled(request)' = Rescaled(request)
  BY DEF Rescaled
<1>3. CutTwice => CutTwice'
  BY <1>1 DEF CutTwice
<1>4. CropMeetsTurn' = CropMeetsTurn
  BY <1>1, <1>2 DEF CropMeetsTurn
<1>5. BadCause => BadCause'
  BY <1>1, <1>3 DEF BadCause, AngleRefused
<1>6. ErrorCause => ErrorCause'
  <2>1. NoSuchSize => NoSuchSize'
    BY DEF NoSuchSize
  <2>2. Enlarges => Enlarges'
    BY <1>1, <1>2 DEF Enlarges
  <2>3. OffGrid => OffGrid'
    BY <1>1 DEF OffGrid
  <2>4. Damaged => Damaged'
    BY <1>1 DEF Damaged
  <2>5. AngleFails => AngleFails'
    BY <1>1 DEF AngleFails
  <2>6. ColorFails => ColorFails'
    BY <1>1 DEF ColorFails
  <2>7. /\ GrayFails => GrayFails'
        /\ TurnsNameless => TurnsNameless'
        /\ Overflows => Overflows'
    BY <1>1 DEF GrayFails, TurnsNameless, Overflows
  <2>8. QED
    BY <1>3, <1>4, <2>1, <2>2, <2>3, <2>4, <2>5, <2>6, <2>7 DEF ErrorCause
<1>7. KnownDeviation => KnownDeviation'
  <2>1. FlipOverwritten => FlipOverwritten'
    BY <1>1 DEF FlipOverwritten
  <2>2. CutAfterTurn => CutAfterTurn'
    BY <1>4 DEF CutAfterTurn
  <2>3. OffsetIgnored => OffsetIgnored'
    BY <1>1 DEF OffsetIgnored
  <2>4. SizedForAnother => SizedForAnother'
    BY DEF SizedForAnother
  <2>5. NotEnlarged => NotEnlarged'
    BY <1>1, <1>2 DEF NotEnlarged
  <2>6. EdgeBlocksStay => EdgeBlocksStay'
    BY <1>1, <1>2 DEF EdgeBlocksStay, BlocksTurned
  <2>7. QED
    BY <1>3, <2>1, <2>2, <2>3, <2>4, <2>5, <2>6 DEF KnownDeviation
<1>8. QED
  BY <1>5, <1>6, <1>7

-----------------------------------------------------------------------------
(* Before the image is loaded.                                             *)

\* A step that answers and keeps the parameters.
LEMMA AnsweredInv ==
    ASSUME PictureInv, pc' = "done",
           UNCHANGED <<request, backend, region, target, width, height>>,
           status' = 400 => BadCause,
           status' = 500 => ErrorCause,
           status' = 200 => KnownDeviation \/ Right'
    PROVE  PictureInv'
<1>1. request' \in Requests /\ pc' \notin AtWork
  BY DEF PictureInv, AtWork
<1>2. Explained'
  BY CausesKept DEF Explained
<1>3. QED
  BY <1>1, <1>2 DEF PictureInv

\* Up to the choice of a repository the request is left as it came.
LEMMA EarlySteps ==
    ASSUME PictureInv, Parse \/ Authorize \/ NoneLeft \/ NotSupported \/ Unrecognized
    PROVE  PictureInv'
<1>1. request \in Requests /\ region = request.region
  BY DEF PictureInv, Parse, Authorize, NoneLeft, NotSupported, Unrecognized
<1>2. UNCHANGED <<request, region, target, image, thrown>>
  BY DEF Parse, Authorize, NoneLeft, NotSupported, Unrecognized, PassOver, control, params
<1>3. CASE pc' = "done"
  <2>1. UNCHANGED <<request, backend, region, target, width, height>>
    BY <1>3 DEF Parse, Authorize, NoneLeft, NotSupported, Unrecognized, PassOver, control,
                params, image, Goto
  <2>2. status' \in {400, 404, 415} /\ (status' = 400 => BadParameters(request))
    BY <1>3 DEF Parse, Authorize, NoneLeft, NotSupported, Unrecognized, PassOver, Goto, Answer
  <2>3. BadParameters(request) => BadCause
    BY DEF BadCause, BadRequest
  <2>4. QED
    BY <1>3, <2>1, <2>2, <2>3, AnsweredInv
<1>4. CASE pc' # "done"
  <2>1. pc' \in {"authorize", "select"} /\ ~BadParameters(request)
    BY <1>4 DEF PictureInv, Parse, Authorize, NoneLeft, NotSupported, Unrecognized, PassOver, Goto,
                Answer
  <2>2. QED
    BY <1>1, <1>2, <2>1 DEF PictureInv, AtWork, BadParameters
<1>5. QED
  BY <1>3, <1>4

\* ImageIO refuses a rectangle that cannot be set: the request was a bad one.
LEMMA UnreadableInv ==
    ASSUME PictureInv, Unreadable
    PROVE  PictureInv'
<1>1. /\ request \in Requests /\ region = request.region /\ pc' = "done"
      /\ UNCHANGED <<request, backend, region, target, width, height>>
      /\ status' \in {400, 404}
  BY DEF PictureInv, Unreadable, Answer, control, params, image
<1>2. ASSUME status' = 400 PROVE BadCause
  <2>1. region.kind = "absolute" /\ ~Slow!Settable(Slow!Corner(region))
    BY <1>2 DEF Unreadable, RejectsRectangle, Answer
  <2>2. region = InPixels(request) /\ request.region.kind # "full"
    BY <1>1, <2>1 DEF InPixels
  <2>3. ~Slow!Settable(Named(request))
    BY <1>1, <2>1, <2>2, CornerIsNamed
  <2>4. NothingExtracted(request)
    BY <1>1, <2>2, <2>3, Missed
  <2>5. QED
    BY <2>4 DEF BadCause, BadRequest
<1>3. QED
  BY <1>1, <1>2, AnsweredInv

\* The image of either backend starts as its part of the invariant says.
LEMMA LoadInv ==
    ASSUME PictureInv, Load
    PROVE  PictureInv'
<1>1. /\ request \in Requests /\ region = request.region /\ ~BadParameters(request)
      /\ request' = request /\ region' = region /\ target' = target
      /\ backend' = Candidate /\ Supports(Candidate, request)
  BY DEF PictureInv, Load, params
<1>2. ParamHolds(request, "absolute", region, target)
  BY <1>1 DEF ParamHolds
<1>3. CASE Candidate = "JpegTran"
  <2>1. /\ Fast!Load(Loaded(request)) /\ format' = "JPEG" /\ pc' = "absolute"
        /\ Fast!Jpeg!Readable(Loaded(request))
    BY <1>3 DEF Load, Goto, Loaded, HeaderRefused
  <2>2. /\ data' = Loaded(request) /\ pending' = Waiting("NONE", NoRect, FALSE)
        /\ width' = Fast!WidthOf(Loaded(request)) /\ height' = Fast!HeightOf(Loaded(request))
        /\ size' = Fast!SizeOf(Loaded(request))
    BY <2>1 DEF Fast!Load, Fast!Jpeg!Nothing, Waiting, NoRect
  <2>3. /\ width' = Wide(request) /\ height' = High(request)
        /\ size' = Target(Wide(request), High(request))
    BY <1>1, <2>2, SourceFacts, SameSizes, SameBlocks, LoadedSeen
  <2>4. request.format = "JPEG" /\ Depth(request) # "BITONAL"
    BY <1>1, <1>3 DEF Supports
  <2>5. FastHolds(request, "absolute", data', size', pending', width', height', format')
    BY <2>1, <2>2, <2>3, <2>4 DEF FastHolds
  <2>6. OnFast' /\ ~OnSlow'
    BY <1>1, <1>3 DEF OnFast, OnSlow
  <2>7. QED
    BY <1>1, <1>2, <1>3, <2>1, <2>5, <2>6 DEF PictureInv, AtWork
<1>4. CASE Candidate = "ImageIO"
  <2>1. /\ Slow!Read(Loaded(request), request.source.format, request.region)
        /\ IF thrown' = "none" THEN Goto("absolute") ELSE Answer(400)
    BY <1>1, <1>4 DEF Load, Loaded
  <2>2. OnSlow' /\ ~OnFast'
    BY <1>1, <1>4 DEF OnFast, OnSlow
  <2>3. CASE request.region.kind # "absolute"
    <3>1. data' = Loaded(request) /\ thrown' = "none"
      BY <2>1, <2>3 DEF Slow!Read, Slow!Succeed
    <3>2. SlowHolds(request, "absolute", data', format')
      BY <2>3, <3>1 DEF SlowHolds
    <3>3. QED
      BY <1>1, <1>2, <1>4, <2>1, <2>2, <3>1, <3>2 DEF PictureInv, AtWork, Goto
  <2>4. CASE request.region.kind = "absolute"
    <3>1. /\ InPixels(request) = request.region
          /\ Slow!Corner(request.region) = Named(request)
      BY <1>1, <2>4, CornerIsNamed DEF InPixels
    <3>2. /\ Slow!WidthOf(Loaded(request)) = Wide(request)
          /\ Slow!HeightOf(Loaded(request)) = High(request)
      BY <1>1, SourceFacts, SameSizes
    <3>3. CASE Slow!Readable(Named(request), Loaded(request))
      <4>1. thrown' = "none" /\ data' = Slow!Cropped(Loaded(request), Slow!CutOff(Named(request), Loaded(request)))
        BY <2>1, <2>4, <3>1, <3>3 DEF Slow!Read, Slow!Succeed
      <4>2. /\ Slow!Settable(Named(request))
            /\ Named(request).x < Wide(request) /\ Named(request).y < High(request)
        BY <3>2, <3>3 DEF Slow!Readable
      <4>3. Slow!CutOff(Named(request), Loaded(request)) = Extracted(request)
        <5>1. Named(request).x = Ceil(InPixels(request).x) /\ Named(request).y = Ceil(InPixels(request).y)
              /\ Named(request).w = Ceil(InPixels(request).w) /\ Named(request).h = Ceil(InPixels(request).h)
          BY DEF Named, Box
        <5>2. request.region.kind # "full"
          BY <2>4
        <5>3. Extracted(request) = Box(Ceil(InPixels(request).x), Ceil(InPixels(request).y),
                    IF Ceil(InPixels(request).w) > Wide(request) - Ceil(InPixels(request).x)
                      THEN Wide(request) - Ceil(InPixels(request).x) ELSE Ceil(InPixels(request).w),
                    IF Ceil(InPixels(request).h) > High(request) - Ceil(InPixels(request).y)
                      THEN High(request) - Ceil(InPixels(request).y) ELSE Ceil(InPixels(request).h))
          BY <1>1, <5>2, ExtractedFacts
        <5>4. QED
          BY <3>2, <5>1, <5>3 DEF Slow!CutOff, Slow!Box, Box
      <4>4. data' = CutFor(request)
        BY <4>1, <4>3, SameCrop DEF CutFor
      <4>5. SlowHolds(request, "absolute", data', format')
        BY <2>4, <4>2, <4>4 DEF SlowHolds
      <4>6. QED
        BY <1>1, <1>2, <1>4, <2>1, <2>2, <4>1, <4>5 DEF PictureInv, AtWork, Goto
    <3>4. CASE ~Slow!Readable(Named(request), Loaded(request))
      <4>1. thrown' = "IllegalArgument"
        BY <2>1, <2>4, <3>1, <3>4 DEF Slow!Read, Slow!Throw
      <4>2. pc' = "done" /\ status' = 400
        BY <2>1, <4>1 DEF Answer
      <4>3. \/ ~Slow!Settable(Named(request))
            \/ Named(request).x >= Wide(request) \/ Named(request).y >= High(request)
        <5>1. Named(request) \in Rect /\ Wide(request) \in Int /\ High(request) \in Int
          BY <1>1, PixelFacts, CeilFacts, ExtentFacts DEF Named, Box, Rect
        <5>2. QED
          BY <3>2, <3>4, <5>1 DEF Slow!Readable, Rect
      <4>4. NothingExtracted(request)
        BY <1>1, <2>4, <4>3, Missed
      <4>5. Explained'
        BY <1>1, <4>2, <4>4 DEF Explained, BadCause, BadRequest, NothingExtracted
      <4>6. QED
        BY <1>1, <4>2, <4>5 DEF PictureInv, AtWork
    <3>5. QED
      BY <3>3, <3>4
  <2>5. QED
    BY <2>3, <2>4
<1>5. QED
  BY <1>3, <1>4 DEF Load

-----------------------------------------------------------------------------
(* Region.                                                                 *)

\* The image at hand before the crop has the size of the file, unless only a
\* part of it was read.
LEMMA SizeBeforeCrop ==
    ASSUME PictureInv, pc \in {"absolute", "crop"}
    PROVE  /\ OnFast \/ request.region.kind # "absolute" =>
                 Width = Wide(request) /\ Height = High(request)
           /\ OnSlow /\ request.region.kind = "absolute" =>
                 Width = Extracted(request).w /\ Height = Extracted(request).h
           /\ (OnFast /\ ~OnSlow) \/ (OnSlow /\ ~OnFast)
<1>1. /\ request \in Requests
      /\ (OnFast /\ ~OnSlow) \/ (OnSlow /\ ~OnFast)
      /\ OnFast => FastHolds(request, pc, data, size, pending, width, height, format)
      /\ OnSlow => SlowHolds(request, pc, data, format)
  BY DEF PictureInv, AtWork, OnFast, OnSlow
<1>2. CASE OnFast
  BY <1>1, <1>2 DEF FastHolds, Width, Height
<1>3. CASE OnSlow /\ request.region.kind # "absolute"
  <2>1. data = Loaded(request)
    BY <1>1, <1>3 DEF SlowHolds
  <2>2. QED
    BY <1>1, <1>3, <2>1, SourceFacts DEF Width, Height
<1>4. CASE OnSlow /\ request.region.kind = "absolute"
  <2>1. data = CutFor(request)
    BY <1>1, <1>4 DEF SlowHolds
  <2>2. /\ WidthOf(CutFor(request)) = Extracted(request).w
        /\ HeightOf(CutFor(request)) = Extracted(request).h
    BY <1>1, SourceFacts, ExtractedFacts, CroppedSize DEF CutFor
  <2>3. QED
    BY <1>1, <1>4, <2>1, <2>2 DEF Width, Height
<1>5. QED
  BY <1>1, <1>2, <1>3, <1>4

\* The region becomes pixels, or the request is a bad one.
LEMMA AbsoluteInv ==
    ASSUME PictureInv, MakeAbsolute \/ AlreadyAbsolute
    PROVE  PictureInv'
<1>1. /\ request \in Requests /\ pc = "absolute" /\ region = request.region
      /\ ~BadParameters(request)
      /\ backend \in {"JpegTran", "ImageIO"}
      /\ OnFast => FastHolds(request, "absolute", data, size, pending, width, height, format)
      /\ OnSlow => SlowHolds(request, "absolute", data, format)
  BY DEF PictureInv, AtWork, ParamHolds, MakeAbsolute, AlreadyAbsolute
<1>2. /\ UNCHANGED <<request, backend, target, data, size, pending, width, height, format>>
      /\ pc' = "crop" \/ (pc' = "done" /\ status' = 400)
  BY DEF MakeAbsolute, AlreadyAbsolute, Skip, Goto, Answer, control, params, image
<1>3. region' = InPixels(request)
  <2>1. CASE AlreadyAbsolute
    BY <1>1, <2>1 DEF AlreadyAbsolute, Skip, params, InPixels
  <2>2. CASE MakeAbsolute
    <3>1. request.region.kind = "relative" /\ region' = Absolute(request.region, Width, Height)
      BY <1>1, <2>2 DEF MakeAbsolute
    <3>2. Width = Wide(request) /\ Height = High(request)
      BY <1>1, <3>1, SizeBeforeCrop
    <3>3. QED
      BY <3>1, <3>2 DEF InPixels
  <2>3. QED
    BY <2>1, <2>2
<1>4. CASE pc' = "crop"
  <2>1. ParamHolds(request, "crop", InPixels(request), target)
    BY <1>1 DEF ParamHolds
  <2>2. OnFast => FastHolds(request, "crop", data, size, pending, width, height, format)
    BY <1>1 DEF FastHolds
  <2>3. OnSlow => SlowHolds(request, "crop", data, format)
    BY <1>1 DEF SlowHolds
  <2>4. QED
    BY <1>1, <1>2, <1>3, <1>4, <2>1, <2>2, <2>3 DEF PictureInv, AtWork, OnFast, OnSlow
<1>5. CASE pc' = "done" /\ status' = 400
  <2>1. MakeAbsolute /\ request.region.kind = "relative" /\ OffsetBeyond(region', Width, Height)
    BY <1>1, <1>5 DEF MakeAbsolute, AlreadyAbsolute, Skip, Goto, Answer
  <2>2. OffsetBeyond(InPixels(request), Wide(request), High(request))
    BY <1>1, <1>3, <2>1, SizeBeforeCrop
  <2>3. NothingExtracted(request)
    BY <1>1, <2>1, <2>2, Missed
  <2>4. BadRequest(request')
    BY <1>2, <2>3 DEF BadRequest
  <2>5. Explained'
    BY <1>5, <2>4 DEF Explained, BadCause
  <2>6. QED
    BY <1>1, <1>2, <1>5, <2>5 DEF PictureInv, AtWork
<1>6. QED
  BY <1>2, <1>4, <1>5

\* Where the comparison of transformImage() and the request agree.
LEMMA TakesAllFacts ==
    ASSUME PictureInv, pc = "crop"
    PROVE  /\ region = InPixels(request)
           /\ OnFast \/ request.region.kind # "absolute" => (TakesAll <=> AllOf(request))
           /\ OnSlow /\ request.region.kind = "absolute" =>
                 (TakesAll <=> /\ InPixels(request).w = Hundred * Extracted(request).w
                               /\ InPixels(request).h = Hundred * Extracted(request).h)
           /\ region.kind = "full" <=> request.region.kind = "full"
<1>1. request \in Requests /\ region = InPixels(request)
  BY DEF PictureInv, AtWork, ParamHolds
<1>2. /\ OnFast \/ request.region.kind # "absolute" =>
                 Width = Wide(request) /\ Height = High(request)
      /\ OnSlow /\ request.region.kind = "absolute" =>
                 Width = Extracted(request).w /\ Height = Extracted(request).h
  BY SizeBeforeCrop
<1>3. region.kind = "full" <=> request.region.kind = "full"
  BY <1>1, PixelFacts
<1>4. QED
  BY <1>1, <1>2, <1>3 DEF TakesAll, AllOf

\* A region of which something is cut out, or which is taken for the whole image,
\* is not empty.
LEMMA RegionNotEmpty ==
    ASSUME NEW r \in Requests, r.region.kind # "full",
           AllOf(r) \/ Inside(Extracted(r), Wide(r), High(r)) \/ Slow!Settable(Named(r))
    PROVE  InPixels(r).w > 0 /\ InPixels(r).h > 0
<1>1. PICK x, y, w, h \in Int, W, H \in Nat \ {0} :
              /\ W = Wide(r) /\ H = High(r)
              /\ Named(r) = Box(x, y, w, h)
              /\ Extracted(r) = Box(x, y, IF w > W - x THEN W - x ELSE w,
                                          IF h > H - y THEN H - y ELSE h)
              /\ InPixels(r).w > 0 <=> w > 0
              /\ InPixels(r).h > 0 <=> h > 0
  BY ExtractedNumbers
<1>2. CASE AllOf(r)
  <2>1. w = W /\ h = H
    BY <1>1, <1>2, AllNamed DEF Box
  <2>2. QED
    BY <1>1, <2>1
<1>3. CASE Inside(Extracted(r), Wide(r), High(r))
  <2>1. w > 0 /\ h > 0
    BY <1>1, <1>3 DEF Inside, Box
  <2>2. QED
    BY <1>1, <2>1
<1>4. CASE Slow!Settable(Named(r))
  <2>1. w > 0 /\ h > 0
    BY <1>1, <1>4 DEF Slow!Settable, Box
  <2>2. QED
    BY <1>1, <2>1
<1>5. QED
  BY <1>2, <1>3, <1>4

\* The crop of the fast backend.
LEMMA FastCropInv ==
    ASSUME PictureInv, OnFast, Crop \/ NoCrop
    PROVE  PictureInv'
<1>1. /\ request \in Requests /\ pc = "crop" /\ ~OnSlow
      /\ ParamHolds(request, "crop", region, target)
      /\ FastHolds(request, "crop", data, size, pending, width, height, format)
      /\ region = InPixels(request)
      /\ TakesAll <=> AllOf(request)
      /\ region.kind = "full" <=> request.region.kind = "full"
  <2>1. pc = "crop"
    BY DEF Crop, NoCrop
  <2>2. QED
    BY <2>1, TakesAllFacts DEF PictureInv, AtWork, OnFast, OnSlow
<1>2. UNCHANGED <<request, backend, region, target, width, height, format>>
  BY <1>1 DEF Crop, NoCrop, Skip, OnImage, Fast!Crop, Fast!Captured, control, params, image
<1>3. /\ data = Loaded(request) /\ pending = Waiting("NONE", NoRect, FALSE)
      /\ width = Wide(request) /\ height = High(request)
      /\ size = Target(Wide(request), High(request))
  BY <1>1 DEF FastHolds
<1>4. ASSUME pc' = "size", data' = Loaded(request), size' = size,
             pending' = Waiting("NONE", FastCut(request), FALSE), CropFits(request)
      PROVE  PictureInv'
  <2>a. request.region.kind # "full" => InPixels(request).w > 0 /\ InPixels(request).h > 0
    BY <1>1, <1>4, RegionNotEmpty DEF CropFits
  <2>1. ParamHolds(request, "size", region, target)
    BY <1>1, <2>a DEF ParamHolds
  <2>2. FastHolds(request, "size", data', size', pending', width, height, format)
    BY <1>1, <1>4 DEF FastHolds
  <2>3. QED
    BY <1>1, <1>2, <1>4, <2>1, <2>2 DEF PictureInv, AtWork, OnFast, OnSlow
<1>5. CASE NoCrop
  <2>1. /\ pc' = "size" /\ UNCHANGED <<data, size, pending>>
        /\ request.region.kind = "full" \/ AllOf(request)
    BY <1>1, <1>5 DEF NoCrop, Skip, Goto, image
  <2>2. FastCut(request) = NoRect /\ CropFits(request)
    BY <2>1 DEF FastCut, CropFits
  <2>3. QED
    BY <1>3, <1>4, <2>1, <2>2
<1>6. CASE Crop
  <2>1. /\ request.region.kind # "full" /\ ~AllOf(request)
        /\ Fast!Crop(InPixels(request)) /\ Continue("size")
    BY <1>1, <1>6 DEF Crop, OnImage
  <2>2. PICK x, y, w, h \in Int, W, H \in Nat \ {0} :
              /\ W = Wide(request) /\ H = High(request)
              /\ Named(request) = Box(x, y, w, h)
              /\ Extracted(request) = Box(x, y, IF w > W - x THEN W - x ELSE w,
                                          IF h > H - y THEN H - y ELSE h)
    BY <1>1, <2>1, ExtractedNumbers
  <2>3. /\ x = Ceil(InPixels(request).x) /\ y = Ceil(InPixels(request).y)
        /\ w = Ceil(InPixels(request).w) /\ h = Ceil(InPixels(request).h)
    BY <2>2 DEF Named, Box
  <2> DEFINE cut == Fast!Box(x, y, IF w > W - x THEN W - x ELSE w,
                                   IF h > H - y THEN H - y ELSE h)
  <2>4. cut = Extracted(request)
    BY <2>2, SameBox
  <2>5. \/ (x >= W \/ y >= H) /\ thrown' = "InvalidParameters"
        \/ Fast!Jpeg!Crop(Extracted(request)) /\ Fast!Translate("InvalidParameters")
    <3>1. /\ Fast!Ceil(InPixels(request).x) = x /\ Fast!Ceil(InPixels(request).y) = y
          /\ Fast!Ceil(InPixels(request).w) = w /\ Fast!Ceil(InPixels(request).h) = h
      BY <2>3, SameCeil
    <3>2. width = W /\ height = H
      BY <1>3, <2>2
    <3>3. QED
      BY <2>1, <2>4, <3>1, <3>2 DEF Fast!Crop, Fast!ThrowInvalid
  <2>6. ASSUME NothingExtracted(request), thrown' = "InvalidParameters" PROVE PictureInv'
    <3>1. pc' = "done" /\ status' = 400
      BY <2>1, <2>6 DEF Continue, Answer, StatusFor
    <3>2. BadCause
      BY <2>6 DEF BadCause, BadRequest
    <3>3. QED
      BY <1>2, <3>1, <3>2, AnsweredInv
  <2>7. CASE (x >= W \/ y >= H) /\ thrown' = "InvalidParameters"
    <3>1. Named(request).x >= Wide(request) \/ Named(request).y >= High(request)
      BY <2>2, <2>7 DEF Box
    <3>2. QED
      BY <1>1, <2>1, <2>6, <2>7, <3>1, Missed
  <2>8. CASE Fast!Jpeg!Crop(Extracted(request)) /\ Fast!Translate("InvalidParameters")
    <3>1. size.w = Wide(request) /\ size.h = High(request)
      BY <1>3 DEF Target
    <3>2. Fast!Jpeg!Inside(Extracted(request), Wide(request), High(request))
             <=> Inside(Extracted(request), Wide(request), High(request))
      BY SameInside
    <3>3. CASE Inside(Extracted(request), Wide(request), High(request))
      <4>1. /\ pending' = [pending EXCEPT !.rect = Extracted(request)]
            /\ data' = data /\ size' = size /\ raised' = "none" /\ thrown' = "none"
        BY <2>8, <3>1, <3>2, <3>3 DEF Fast!Jpeg!Crop, Fast!Jpeg!Return, Fast!Translate
      <4>2. pending' = Waiting("NONE", FastCut(request), FALSE)
        BY <1>3, <2>1, <4>1 DEF Waiting, FastCut
      <4>3. pc' = "size" /\ CropFits(request)
        BY <2>1, <3>3, <4>1 DEF Continue, Goto, CropFits
      <4>4. QED
        BY <1>3, <1>4, <4>1, <4>2, <4>3
    <3>4. CASE ~Inside(Extracted(request), Wide(request), High(request))
      <4>1. raised' = "IllegalArgument" /\ thrown' = "InvalidParameters"
        BY <2>8, <3>1, <3>2, <3>4 DEF Fast!Jpeg!Crop, Fast!Jpeg!Throw, Fast!Translate
      <4>2. NothingExtracted(request)
        BY <1>1, <3>4, ExtractedFacts
      <4>3. QED
        BY <2>6, <4>1, <4>2
    <3>5. QED
      BY <3>3, <3>4
  <2>9. QED
    BY <2>5, <2>7, <2>8
<1>7. QED
  BY <1>5, <1>6

\* The crop of the slow backend.
LEMMA SlowCropInv ==
    ASSUME PictureInv, OnSlow, Crop \/ NoCrop
    PROVE  PictureInv'
<1>1. /\ request \in Requests /\ pc = "crop" /\ ~OnFast
      /\ ParamHolds(request, "crop", region, target)
      /\ SlowHolds(request, "crop", data, format)
      /\ region = InPixels(request)
      /\ request.region.kind # "absolute" => (TakesAll <=> AllOf(request))
      /\ request.region.kind = "absolute" =>
            (TakesAll <=> /\ InPixels(request).w = Hundred * Extracted(request).w
                          /\ InPixels(request).h = Hundred * Extracted(request).h)
      /\ region.kind = "full" <=> request.region.kind = "full"
  <2>1. pc = "crop"
    BY DEF Crop, NoCrop
  <2>2. QED
    BY <2>1, TakesAllFacts DEF PictureInv, AtWork, OnFast, OnSlow
<1>2. UNCHANGED <<request, backend, region, target, width, height>>
  BY <1>1 DEF Crop, NoCrop, Skip, OnImage, control, params, image
<1>3. ASSUME pc' = "size", SlowCut(request) => data' = CutFor(request),
             request.region.kind # "full" => InPixels(request).w > 0 /\ InPixels(request).h > 0
      PROVE  PictureInv'
  <2>1. ParamHolds(request, "size", region, target)
    BY <1>1, <1>3 DEF ParamHolds
  <2>2. SlowHolds(request, "size", data', format')
    BY <1>1, <1>3 DEF SlowHolds
  <2>3. QED
    BY <1>1, <1>2, <1>3, <2>1, <2>2 DEF PictureInv, AtWork, OnFast, OnSlow
<1>4. request.region.kind # "absolute" => data = Loaded(request)
  BY <1>1 DEF SlowHolds
<1>5. request.region.kind = "absolute" =>
         /\ data = CutFor(request) /\ Slow!Settable(Named(request))
         /\ Named(request).x < Wide(request) /\ Named(request).y < High(request)
  BY <1>1 DEF SlowHolds
<1>6. CASE NoCrop
  <2>1. pc' = "size" /\ data' = data /\ (request.region.kind = "full" \/ TakesAll)
    BY <1>1, <1>6 DEF NoCrop, Skip, Goto, image
  <2>2. SlowCut(request) => data = CutFor(request)
    <3>1. CASE request.region.kind = "full"
      <4>1. Extracted(request) = Whole(WidthOf(Loaded(request)), HeightOf(Loaded(request)))
        BY <1>1, <3>1, ExtractedFacts, SourceFacts
      <4>2. CutFor(request) = Loaded(request)
        BY <1>1, <4>1, SourceFacts, CroppedWhole DEF CutFor
      <4>3. QED
        BY <1>4, <3>1, <4>2
    <3>2. CASE request.region.kind = "absolute"
      BY <1>5, <3>2
    <3>3. CASE request.region.kind = "relative"
      <4>1. AllOf(request)
        BY <1>1, <2>1, <3>3
      <4>2. QED
        BY <1>1, <1>4, <3>3, <4>1, SlowTakesAll DEF SlowCut
    <3>4. request.region.kind \in {"full", "absolute", "relative"}
      BY <1>1, RequestsAssumption DEF ParamHolds, BadParameters, RegionKinds
    <3>5. QED
      BY <3>1, <3>2, <3>3, <3>4
  <2>3. request.region.kind = "absolute" =>
            InPixels(request).w > 0 /\ InPixels(request).h > 0
    BY <1>1, <1>5, RegionNotEmpty
  <2>4. request.region.kind \notin {"full", "absolute"} =>
            InPixels(request).w > 0 /\ InPixels(request).h > 0
    BY <1>1, <2>1, RegionNotEmpty
  <2>5. QED
    BY <1>3, <2>1, <2>2, <2>3, <2>4
<1>7. CASE Crop
  <2>1. /\ request.region.kind # "full" /\ ~TakesAll
        /\ Slow!Crop(InPixels(request)) /\ Continue("size")
    BY <1>1, <1>7 DEF Crop, OnImage
  <2>2. request.region.kind \in {"absolute", "relative"}
    BY <1>1, <2>1, RequestsAssumption DEF ParamHolds, BadParameters, RegionKinds
  <2>3. thrown' = "none" => pc' = "size"
    BY <2>1 DEF Continue, Goto
  <2>4. ASSUME BadCause \/ thrown' = "RasterFormat", ErrorCause, thrown' \in {"InvalidParameters", "RasterFormat"}
        PROVE PictureInv'
    <3>1. pc' = "done" /\ status' = StatusFor(thrown')
      BY <2>1, <2>4 DEF Continue, Answer
    <3>2. StatusFor("InvalidParameters") = 400 /\ StatusFor("RasterFormat") = 500
      BY DEF StatusFor
    <3>3. QED
      BY <1>2, <2>4, <3>1, <3>2, AnsweredInv
  <2>5. CASE request.region.kind = "relative"
    <3>1. data = Loaded(request)
      BY <1>4, <2>5
    <3>2. \/ thrown' \in {"InvalidParameters", "RasterFormat"} /\ NothingExtracted(request)
          \/ /\ thrown' = "none" /\ format' = format
             /\ InPixels(request).w > 0 /\ InPixels(request).h > 0
             /\ Extracted(request).x >= 0 /\ Extracted(request).y >= 0 => data' = CutFor(request)
      BY <1>1, <2>1, <2>5, <3>1, SlowCropOnce
    <3>3. CASE thrown' \in {"InvalidParameters", "RasterFormat"} /\ NothingExtracted(request)
      BY <2>4, <3>3 DEF BadCause, BadRequest, ErrorCause
    <3>4. CASE /\ thrown' = "none"
               /\ InPixels(request).w > 0 /\ InPixels(request).h > 0
               /\ Extracted(request).x >= 0 /\ Extracted(request).y >= 0 => data' = CutFor(request)
      BY <1>3, <2>3, <2>5, <3>4 DEF SlowCut
    <3>5. QED
      BY <3>2, <3>3, <3>4
  <2>a. request.region.kind = "absolute" => InPixels(request).w > 0 /\ InPixels(request).h > 0
    BY <1>1, <1>5, RegionNotEmpty
  <2>6. CASE request.region.kind = "absolute" /\ ~CutTwiceOf(request)
    <3>1. thrown' = "none" /\ UNCHANGED <<data, format>>
      BY <1>1, <1>5, <2>1, <2>6, SlowCropAgain
    <3>2. QED
      BY <1>3, <1>5, <2>3, <2>a, <2>6, <3>1
  <2>7. CASE request.region.kind = "absolute" /\ CutTwiceOf(request)
    <3>1. CutTwice
      BY <1>1, <2>7 DEF CutTwice, CutTwiceOf
    <3>2. thrown' \in {"none", "InvalidParameters", "RasterFormat"}
      BY <2>1 DEF Slow!Crop, Slow!Succeed, Slow!Throw
    <3>3. CASE thrown' = "none"
      BY <1>3, <2>3, <2>a, <2>7, <3>3 DEF SlowCut
    <3>4. CASE thrown' # "none"
      BY <2>4, <3>1, <3>2, <3>4 DEF BadCause, ErrorCause
    <3>5. QED
      BY <3>3, <3>4
  <2>8. QED
    BY <2>2, <2>5, <2>6, <2>7
<1>8. QED
  BY <1>6, <1>7

-----------------------------------------------------------------------------
(* Size.                                                                   *)

\* The part asked for is a picture in the depth of the source.
LEMMA CutForType ==
    ASSUME NEW r \in Requests
    PROVE  CutFor(r) \in Picture /\ CutFor(r).depth = "source"
<1>1. Loaded(r) \in Picture /\ Loaded(r).depth = "source" /\ Extracted(r) \in Rect
  BY SourceFacts, ExtractedFacts
<1>2. CutFor(r) \in Picture
  BY <1>1, CroppedType DEF CutFor
<1>3. CutFor(r).depth = "source"
  BY <1>1 DEF CutFor, Cropped, Picture
<1>4. QED
  BY <1>2, <1>3

\* The size is calculated, or the request names none.
LEMMA SizeInv ==
    ASSUME PictureInv, CalculateSize \/ FullSize
    PROVE  PictureInv'
<1>1. /\ request \in Requests /\ pc = "size"
      /\ ParamHolds(request, "size", region, target)
      /\ region = InPixels(request)
      /\ backend \in {"JpegTran", "ImageIO"}
      /\ OnFast => FastHolds(request, "size", data, size, pending, width, height, format)
      /\ OnSlow => SlowHolds(request, "size", data, format)
      /\ (OnFast /\ ~OnSlow) \/ (OnSlow /\ ~OnFast)
  BY DEF PictureInv, AtWork, ParamHolds, CalculateSize, FullSize, OnFast, OnSlow
<1>2. UNCHANGED <<request, backend, region, data, size, pending, width, height, format>>
  BY DEF CalculateSize, FullSize, Skip, control, params, image
<1>3. CASE CalculateSize /\ ~ValidSize(request.size)
  <2>1. pc' = "done" /\ status' = 400 /\ target' = target
    BY <1>3 DEF CalculateSize, Answer
  <2>2. BadCause
    BY <1>3 DEF CalculateSize, BadCause, BadRequest
  <2>3. QED
    BY <1>2, <2>1, <2>2, AnsweredInv
<1>4. CASE CalculateSize /\ ValidSize(request.size)
  <2>1. /\ pc' = "scale" /\ request.size.kind # "full"
        /\ target' = Resize(request.size, IF region.kind = "full" THEN Width ELSE Trunc(region.w),
                                          IF region.kind = "full" THEN Height ELSE Trunc(region.h))
    BY <1>4 DEF CalculateSize, Goto
  <2>2. region.kind = "full" <=> request.region.kind = "full"
    BY <1>1, PixelFacts
  <2>3. request.region.kind = "full" => Width = Wide(request) /\ Height = High(request)
    <3>1. CASE OnFast
      BY <1>1, <3>1 DEF FastHolds, Width, Height
    <3>2. CASE OnSlow /\ request.region.kind = "full"
      <4>1. data = CutFor(request)
        BY <1>1, <3>2 DEF SlowHolds, SlowCut, CutTwiceOf
      <4>2. Extracted(request) = Whole(WidthOf(Loaded(request)), HeightOf(Loaded(request)))
        BY <1>1, <3>2, ExtractedFacts, SourceFacts
      <4>3. CutFor(request) = Loaded(request)
        BY <1>1, <4>2, SourceFacts, CroppedWhole DEF CutFor
      <4>4. QED
        BY <1>1, <3>2, <4>1, <4>3, SourceFacts DEF Width, Height
    <3>3. QED
      BY <1>1, <3>1, <3>2
  <2>4. target' = TargetOf(request)
    BY <1>1, <2>1, <2>2, <2>3 DEF TargetOf
  <2>5. TargetOf(request) \in Size
    <3>1. request.size.kind \notin {"full", "malformed"}
      BY <1>1, <2>1 DEF ParamHolds, BadParameters
    <3>2. request.region.kind # "full" => InPixels(request).w > 0 /\ InPixels(request).h > 0
      BY <1>1 DEF ParamHolds
    <3>3. QED
      BY <1>1, <1>4, <3>1, <3>2, TargetType
  <2>6. ParamHolds(request, "scale", region, target')
    BY <1>1, <1>4, <2>1, <2>4, <2>5 DEF ParamHolds
  <2>7. OnFast => FastHolds(request, "scale", data, size, pending, width, height, format)
    BY <1>1 DEF FastHolds
  <2>8. OnSlow => SlowHolds(request, "scale", data, format)
    BY <1>1 DEF SlowHolds
  <2>9. QED
    BY <1>1, <1>2, <2>1, <2>6, <2>7, <2>8 DEF PictureInv, AtWork, OnFast, OnSlow
<1>5. CASE FullSize
  <2>1. pc' = "mirror" /\ request.size.kind = "full" /\ target' = target
    BY <1>5 DEF FullSize, Skip, Goto, params
  <2>2. ParamHolds(request, "mirror", region, target)
    BY <1>1, <2>1 DEF ParamHolds
  <2>3. ~FastScaled(request)
    BY <2>1 DEF FastScaled
  <2>4. OnFast => FastHolds(request, "mirror", data, size, pending, width, height, format)
    BY <1>1, <2>3 DEF FastHolds, FastNotEnlarged, FastData, FastLeft
  <2>5. SizedFor(request) = CutFor(request)
    BY <1>1, <2>1, FullSizeAsAsked
  <2>6. CutFor(request) \in Picture /\ CutFor(request).depth = "source"
    BY <1>1, CutForType
  <2>7. OnSlow => SlowHolds(request, "mirror", data, format)
    BY <1>1, <2>5, <2>6 DEF SlowHolds, Regular
  <2>8. QED
    BY <1>1, <1>2, <2>1, <2>2, <2>4, <2>7 DEF PictureInv, AtWork, OnFast, OnSlow
<1>6. QED
  BY <1>3, <1>4, <1>5

\* Nothing larger than the image is cut out of it.
LEMMA ExtractedWithin ==
    ASSUME NEW r \in Requests, CropFits(r), FastCut(r) = NoRect
    PROVE  Extracted(r).w <= Wide(r) /\ Extracted(r).h <= High(r)
<1>1. CASE r.region.kind = "full"
  BY <1>1, ExtractedFacts, ExtentFacts DEF Whole, Box
<1>2. CASE r.region.kind # "full" /\ AllOf(r)
  <2>0. r.region.kind # "full"
    BY <1>2
  <2>1. PICK x, y, w, h \in Int, W, H \in Nat \ {0} :
              /\ W = Wide(r) /\ H = High(r)
              /\ Named(r) = Box(x, y, w, h)
              /\ Extracted(r) = Box(x, y, IF w > W - x THEN W - x ELSE w,
                                          IF h > H - y THEN H - y ELSE h)
    BY <2>0, ExtractedNumbers
  <2>2. w = W /\ h = H
    BY <1>2, <2>1, AllNamed DEF Box
  <2>3. QED
    BY <2>1, <2>2 DEF Box
<1>3. CASE r.region.kind # "full" /\ ~AllOf(r)
  <2>1. Inside(Extracted(r), Wide(r), High(r)) /\ Extracted(r) \in Rect
    BY <1>3, ExtractedFacts DEF CropFits
  <2>2. Wide(r) \in Int /\ High(r) \in Int
    BY ExtentFacts
  <2>3. QED
    BY <2>1, <2>2 DEF Inside, Rect
<1>4. QED
  BY <1>1, <1>2, <1>3

\* What is named of the state is what is named of the request.
LEMMA RescaledFacts ==
    ASSUME request \in Requests, region = InPixels(request),
           width = Wide(request), height = High(request), request.size.kind # "full"
    PROVE  Rescaled(request) <=> TargetOf(request) # Target(Wide(request), High(request))
<1>1. region.kind = "full" <=> request.region.kind = "full"
  BY PixelFacts
<1>2. QED
  BY <1>1 DEF Rescaled, TargetOf

\* The depths a quality may stand for.
LEMMA DepthValues ==
    ASSUME NEW r
    PROVE  /\ Depth(r) \in {"source", "COLOR", "GRAYSCALE", "BITONAL"}
           /\ Depth(r) = "COLOR" => r.quality = "color"
           /\ Depth(r) = "GRAYSCALE" <=> r.quality = "gray"
BY DEF Depth

\* What libjpeg-turbo refuses of an image not turned is off the grid, damaged, not
\* to be made gray or larger than its buffer.
LEMMA UprightExplained ==
    ASSUME request \in Requests, OnFast, region = InPixels(request),
           width = Wide(request), height = High(request), CropFits(request),
           Fast!Jpeg!Readable(Loaded(request)),
           NEW gray \in BOOLEAN, gray => Depth(request) = "GRAYSCALE",
           \/ ~Fast!Jpeg!Transformable(Loaded(request), Waiting("NONE", FastCut(request), gray))
           \/ Fast!Jpeg!MayOverflow(Loaded(request), Waiting("NONE", FastCut(request), gray))
    PROVE  ErrorCause
<1>1. FastCut(request) # NoRect => Inside(FastCut(request), Wide(request), High(request))
  BY CutFacts DEF CropFits
<1>2. \/ Loaded(request).bulky
      \/ ~Loaded(request).intact
      \/ gray /\ Loaded(request).coding \in {"RGB", "CMYK"}
      \/ /\ request.region.kind # "full" /\ ~AllOf(request)
         /\ \/ Extracted(request).x % Loaded(request).mcu.w # 0
            \/ Extracted(request).y % Loaded(request).mcu.h # 0
  <2>1. Fast!Jpeg!MayOverflow(Loaded(request), Waiting("NONE", FastCut(request), gray))
          => Loaded(request).bulky
    BY DEF Fast!Jpeg!MayOverflow, Fast!Jpeg!TurnsSideways, Waiting
  <2>2. QED
    BY <1>1, <2>1, UprightRefused
<1>3. TakesAll <=> AllOf(request)
  BY DEF TakesAll, AllOf, Width, Height
<1>4. CASE ~Loaded(request).intact
  BY <1>4 DEF ErrorCause, Damaged, Loaded
<1>5. CASE /\ request.region.kind # "full" /\ ~AllOf(request)
           /\ \/ Extracted(request).x % Loaded(request).mcu.w # 0
              \/ Extracted(request).y % Loaded(request).mcu.h # 0
  BY <1>3, <1>5 DEF ErrorCause, OffGrid, Loaded
<1>6. CASE Loaded(request).bulky
  BY <1>6 DEF ErrorCause, Overflows, Loaded
<1>7. CASE gray /\ Loaded(request).coding \in {"RGB", "CMYK"}
  BY <1>7, DepthValues DEF ErrorCause, GrayFails, Loaded
<1>8. QED
  BY <1>2, <1>4, <1>5, <1>6, <1>7

\* scale() of the fast backend scales down what is pending, or refuses to enlarge.
LEMMA FastScaleInv ==
    ASSUME PictureInv, OnFast, Scale
    PROVE  PictureInv'
<1>1. /\ request \in Requests /\ pc = "scale" /\ ~OnSlow
      /\ ParamHolds(request, "scale", region, target)
      /\ FastHolds(request, "scale", data, size, pending, width, height, format)
      /\ Fast!Scale(target) /\ Continue("mirror")
      /\ UNCHANGED <<request, backend, region, target, format>>
  BY DEF PictureInv, AtWork, OnFast, OnSlow, Scale, OnImage, control, params
<1>2. /\ region = InPixels(request) /\ request.size.kind # "full" /\ ValidSize(request.size)
      /\ target = TargetOf(request) /\ TargetOf(request) \in Size
  BY <1>1 DEF ParamHolds
<1>3. /\ width = Wide(request) /\ height = High(request) /\ CropFits(request)
      /\ size = Target(Wide(request), High(request)) /\ Fast!Jpeg!Readable(Loaded(request))
      /\ data = Loaded(request) /\ pending = Waiting("NONE", FastCut(request), FALSE)
  BY <1>1 DEF FastHolds
<1>4. UNCHANGED <<width, height>>
  BY <1>1 DEF Fast!Scale, Fast!Captured
<1>5. ASSUME pc' = "mirror", data' = FastData(request), FastNotEnlarged(request),
             pending' = Waiting("NONE", FastLeft(request), FALSE)
      PROVE  PictureInv'
  <2>1. ParamHolds(request, "mirror", region, target)
    BY <1>1 DEF ParamHolds
  <2>2. FastHolds(request, "mirror", data', size', pending', width, height, format)
    BY <1>1, <1>5 DEF FastHolds
  <2>3. QED
    BY <1>1, <1>4, <1>5, <2>1, <2>2 DEF PictureInv, AtWork, OnFast, OnSlow
<1>6. Fast!Target(width, height) = Target(Wide(request), High(request))
  BY <1>3, SameTarget
<1>7. CASE TargetOf(request) = Target(Wide(request), High(request))
  <2>1. thrown' = "none" /\ UNCHANGED <<data, pending>>
    BY <1>1, <1>2, <1>6, <1>7 DEF Fast!Scale
  <2>2. ~FastScaled(request)
    BY <1>7 DEF FastScaled
  <2>3. pc' = "mirror"
    BY <1>1, <2>1 DEF Continue, Goto
  <2>4. QED
    BY <1>3, <1>5, <2>1, <2>2, <2>3 DEF FastData, FastLeft, FastNotEnlarged
<1>8. CASE TargetOf(request) # Target(Wide(request), High(request))
  <2>1. FastScaled(request)
    BY <1>2, <1>8 DEF FastScaled
  <2>2. Fast!Jpeg!DownScale(target) /\ Fast!Translate("Transformation")
    BY <1>1, <1>2, <1>6, <1>8 DEF Fast!Scale
  <2>3. ASSUME raised' # "none", ErrorCause PROVE PictureInv'
    <3>1. thrown' = "Transformation"
      BY <2>2, <2>3 DEF Fast!Translate
    <3>2. pc' = "done" /\ status' = 500
      BY <1>1, <3>1 DEF Continue, Answer, StatusFor
    <3>3. QED
      BY <1>1, <1>4, <2>3, <3>2, AnsweredInv
  <2>4. /\ pending.op = "NONE" /\ pending.rect = FastCut(request)
        /\ Fast!Jpeg!MustTransformFirst <=> FastCut(request) # NoRect
    BY <1>3 DEF Waiting, Fast!Jpeg!MustTransformFirst, NoRect
  <2>5. PICK w, h \in Int : w = target.w /\ h = target.h
    BY <1>2 DEF Size
  \* the picture the new size is made from
  <2>6. ASSUME Fast!Jpeg!ScaleFrom(CutOut(request), SizeOf(CutOut(request)),
                                   Waiting("NONE", NoRect, FALSE), target)
        PROVE  PictureInv'
    <3> DEFINE W == WidthOf(CutOut(request))
               H == HeightOf(CutOut(request))
    <3>1. /\ SizeOf(CutOut(request)).w = W /\ SizeOf(CutOut(request)).h = H
          /\ W \in Int /\ H \in Int
      BY <1>1, CutFacts, SizesOfPicture DEF SizeOf
    <3>2. CASE w \in 1 .. W /\ h \in 1 .. H
      <4>1. /\ data' = Fast!Jpeg!Downscaled(CutOut(request), w, h)
            /\ pending' = Waiting("NONE", NoRect, FALSE) /\ raised' = "none"
        BY <2>5, <2>6, <3>1, <3>2 DEF Fast!Jpeg!ScaleFrom, Fast!Jpeg!SetImageData, Fast!Jpeg!Return
      <4>2. data' = FastData(request) /\ FastLeft(request) = NoRect /\ FastNotEnlarged(request)
        BY <1>2, <2>1, <2>5, <3>2, <4>1 DEF FastData, FastLeft, FastNotEnlarged
      <4>3. pc' = "mirror"
        BY <1>1, <2>2, <4>1 DEF Fast!Translate, Continue, Goto
      <4>4. QED
        BY <1>5, <4>1, <4>2, <4>3
    <3>3. CASE ~(w \in 1 .. W /\ h \in 1 .. H)
      <4>1. raised' = "IllegalArgument"
        BY <2>5, <2>6, <3>1, <3>3 DEF Fast!Jpeg!ScaleFrom
      <4>2. CASE w < 1 \/ h < 1
        <5>1. ~Slow!Allocatable(target)
          BY <2>5, <4>2 DEF Slow!Allocatable
        <5>2. QED
          BY <1>2, <2>3, <4>1, <5>1 DEF ErrorCause, NoSuchSize
      <4>3. CASE w > W \/ h > H
        <5>1. Extracted(request).w <= W /\ Extracted(request).h <= H
          <6>1. CASE FastCut(request) # NoRect
            <7>1. Extracted(request).w = W /\ Extracted(request).h = H
              BY <1>1, <6>1, CutFacts
            <7>2. QED
              BY <3>1, <7>1
          <6>2. CASE FastCut(request) = NoRect
            <7>1. W = Wide(request) /\ H = High(request)
              BY <1>1, <6>2, CutFacts
            <7>2. Extracted(request).w <= Wide(request) /\ Extracted(request).h <= High(request)
              BY <1>1, <1>3, <6>2, ExtractedWithin
            <7>3. QED
              BY <7>1, <7>2
          <6>3. QED
            BY <6>1, <6>2
        <5>2. w > Extracted(request).w \/ h > Extracted(request).h
          <6>1. Extracted(request).w \in Int /\ Extracted(request).h \in Int
            BY <1>1, ExtractedFacts DEF Rect
          <6>2. QED
            BY <3>1, <4>3, <5>1, <6>1
        <5>3. Rescaled(request)
          BY <1>1, <1>2, <1>3, <1>8, RescaledFacts
        <5>4. Enlarges
          BY <2>5, <5>2, <5>3 DEF Enlarges
        <5>5. QED
          BY <2>3, <4>1, <5>4 DEF ErrorCause
      <4>4. QED
        BY <3>1, <3>3, <4>2, <4>3
    <3>4. QED
      BY <3>2, <3>3
  <2>7. CASE FastCut(request) = NoRect
    <3>1. Fast!Jpeg!ScaleFrom(data, size, pending, target)
      BY <2>2, <2>4, <2>7 DEF Fast!Jpeg!DownScale
    <3>2. /\ CutOut(request) = data /\ pending = Waiting("NONE", NoRect, FALSE)
          /\ SizeOf(CutOut(request)) = size
      BY <1>1, <1>3, <2>7, SameBlocks, LoadedSeen DEF CutOut
    <3>3. QED
      BY <2>6, <3>1, <3>2
  <2>8. CASE FastCut(request) # NoRect
    <3>1. Fast!Jpeg!Nothing = Waiting("NONE", NoRect, FALSE)
      BY DEF Fast!Jpeg!Nothing, Waiting, NoRect
    <3>2. Fast!Jpeg!Transformed(data, pending) = CutOut(request)
      <4>1. Fast!Jpeg!Cropped(Loaded(request), FastCut(request))
               = Cropped(Loaded(request), FastCut(request))
        BY SameCrop
      <4>2. CutOut(request) = Cropped(Loaded(request), FastCut(request))
        BY <2>8 DEF CutOut
      <4>3. Fast!Jpeg!Transformed(Loaded(request), Waiting("NONE", FastCut(request), FALSE))
               = Fast!Jpeg!Cropped(Loaded(request), FastCut(request))
        BY <2>8, NothingApplied DEF Fast!Jpeg!Transformed, Waiting, NoRect
      <4>4. QED
        BY <1>3, <4>1, <4>2, <4>3
    <3>3. Fast!Jpeg!Readable(CutOut(request))
      <4>1. /\ CutOut(request).mcu = Loaded(request).mcu /\ CutOut(request).turns = Loaded(request).turns
            /\ CutOut(request).coding = Loaded(request).coding
            /\ CutOut(request).depth = Loaded(request).depth
        BY <1>1, CutFacts, SourceFacts
      <4>2. OutputMcu(CutOut(request), FALSE) = OutputMcu(Loaded(request), FALSE)
        BY <4>1 DEF OutputMcu, Sideways
      <4>3. QED
        BY <1>3, <4>2, SameBlocks
    <3>4. CASE Fast!Jpeg!TransformFails
      <4>1. raised' = "TJ"
        BY <3>4 DEF Fast!Jpeg!TransformFails, Fast!Jpeg!Throw
      <4>2. ErrorCause
        BY <1>1, <1>2, <1>3, <3>4, UprightExplained DEF Fast!Jpeg!TransformFails
      <4>3. QED
        BY <2>3, <4>1, <4>2
    <3>5. ~Fast!Jpeg!ResultIsUnreadable
      BY <3>2, <3>3 DEF Fast!Jpeg!ResultIsUnreadable
    <3>6. ASSUME ~Fast!Jpeg!TransformFails
          PROVE  Fast!Jpeg!ScaleFrom(Fast!Jpeg!Transformed(data, pending),
                    Fast!Jpeg!SizeOf(Fast!Jpeg!Transformed(data, pending)), Fast!Jpeg!Nothing, target)
      BY <2>2, <2>4, <2>8, <3>5, <3>6 DEF Fast!Jpeg!DownScale
    <3>7. ASSUME ~Fast!Jpeg!TransformFails PROVE PictureInv'
      <4>1. Fast!Jpeg!SizeOf(CutOut(request)) = SizeOf(CutOut(request))
        BY SameBlocks
      <4>2. QED
        BY <2>6, <3>1, <3>2, <3>6, <3>7, <4>1
    <3>8. QED
      BY <3>4, <3>7
  <2>9. QED
    BY <2>7, <2>8
<1>9. QED
  BY <1>7, <1>8

\* scale() of the slow backend resamples, or finds no room for the picture.
LEMMA SlowScaleInv ==
    ASSUME PictureInv, OnSlow, Scale
    PROVE  PictureInv'
<1>1. /\ request \in Requests /\ pc = "scale" /\ ~OnFast
      /\ ParamHolds(request, "scale", region, target)
      /\ SlowHolds(request, "scale", data, format)
      /\ Slow!Scale(target) /\ Continue("mirror")
      /\ UNCHANGED <<request, backend, region, target, width, height>>
  BY DEF PictureInv, AtWork, OnFast, OnSlow, Scale, OnImage, control, params
<1>2. /\ request.size.kind # "full" /\ target = TargetOf(request) /\ TargetOf(request) \in Size
  BY <1>1 DEF ParamHolds
<1>3. CASE thrown' = "none"
  <2>1. pc' = "mirror"
    BY <1>1, <1>3 DEF Continue, Goto
  <2>2. ParamHolds(request, "mirror", region, target)
    BY <1>1 DEF ParamHolds
  <2>3. Regular(request) =>
           data' = SizedFor(request) /\ SizedFor(request) \in Picture /\ SizedFor(request).depth = "source"
    <3>1. SUFFICES ASSUME SlowCut(request), SizedRight(request)
                   PROVE  /\ data' = SizedFor(request)
                          /\ SizedFor(request) \in Picture /\ SizedFor(request).depth = "source"
      BY DEF Regular
    <3>2. data = CutFor(request)
      BY <1>1, <3>1 DEF SlowHolds
    <3>3. QED
      BY <1>1, <1>2, <1>3, <3>1, <3>2, SlowSized
  <2>4. SlowHolds(request, "mirror", data', format')
    BY <2>3 DEF SlowHolds
  <2>5. QED
    BY <1>1, <2>1, <2>2, <2>4 DEF PictureInv, AtWork, OnFast, OnSlow
<1>4. CASE thrown' # "none"
  <2>1. thrown' = "IllegalArgument" /\ ~Slow!Allocatable(target)
    BY <1>1, <1>4 DEF Slow!Scale, Slow!Succeed, Slow!Throw
  <2>2. pc' = "done" /\ status' = 500
    BY <1>1, <2>1 DEF Continue, Answer, StatusFor
  <2>3. ErrorCause
    BY <1>2, <2>1 DEF ErrorCause, NoSuchSize
  <2>4. QED
    BY <1>1, <2>2, <2>3, AnsweredInv
<1>5. QED
  BY <1>3, <1>4

-----------------------------------------------------------------------------
(* Orientation, depth and format.                                          *)

\* What is known before one of the last steps.
LEMMA LateFacts ==
    ASSUME PictureInv, pc \in {"mirror", "rotate", "depth", "convert", "perform"}
    PROVE  /\ request \in Requests
           /\ \/ OnFast /\ ~OnSlow /\ FastHolds(request, pc, data, size, pending, width, height, format)
              \/ OnSlow /\ ~OnFast /\ SlowHolds(request, pc, data, format)
           /\ \A p \in {"mirror", "rotate", "depth", "convert", "perform"} :
                 ParamHolds(request, p, region, target)
<1>1. /\ request \in Requests
      /\ ParamHolds(request, pc, region, target)
      /\ \/ OnFast /\ ~OnSlow /\ FastHolds(request, pc, data, size, pending, width, height, format)
         \/ OnSlow /\ ~OnFast /\ SlowHolds(request, pc, data, format)
  BY DEF PictureInv, AtWork, OnFast, OnSlow
<1>2. ASSUME NEW p \in {"mirror", "rotate", "depth", "convert", "perform"}
      PROVE  ParamHolds(request, p, region, target)
  BY <1>1 DEF ParamHolds
<1>3. QED
  BY <1>1, <1>2

\* A step that goes on to another of the last ones.
LEMMA LateStep ==
    ASSUME PictureInv, pc \in {"mirror", "rotate", "depth", "convert"},
           pc' \in {"rotate", "depth", "convert", "perform"},
           UNCHANGED <<request, backend, region, target>>,
           OnFast => FastHolds(request, pc', data', size', pending', width', height', format'),
           OnSlow => SlowHolds(request, pc', data', format')
    PROVE  PictureInv'
<1>1. request \in Requests /\ ParamHolds(request, pc', region, target)
      /\ backend \in {"JpegTran", "ImageIO"}
  BY LateFacts DEF PictureInv, AtWork
<1>2. QED
  BY <1>1 DEF PictureInv, AtWork, OnFast, OnSlow

\* Mirroring is pending on the fast backend and done on the slow one.
LEMMA MirrorInv ==
    ASSUME PictureInv, Mirror \/ NoMirror
    PROVE  PictureInv'
<1>1. /\ pc = "mirror" /\ UNCHANGED <<request, backend, region, target>>
      /\ request \in Requests /\ request.mirror \in BOOLEAN
  BY RequestsAssumption DEF PictureInv, Mirror, NoMirror, Skip, control, params
<1>2. CASE OnFast
  <2>1. FastHolds(request, "mirror", data, size, pending, width, height, format) /\ ~OnSlow
    BY <1>1, <1>2, LateFacts
  <2>2. pending = Waiting("NONE", FastLeft(request), FALSE)
    BY <2>1 DEF FastHolds
  <2>3. /\ pc' = "rotate" /\ UNCHANGED <<data, width, height, format>>
        /\ pending' = IF request.mirror THEN [pending EXCEPT !.op = "HFLIP"] ELSE pending
    BY <1>1, <1>2, <2>1
       DEF Mirror, NoMirror, Skip, Goto, image, OnImage, Continue, Fast!FlipHorizontally,
           Fast!Jpeg!FlipHorizontal, Fast!Jpeg!SetOp, Fast!Captured
  <2>4. pending' = Waiting(FlipOp(request), FastLeft(request), FALSE)
    BY <1>1, <2>2, <2>3 DEF Waiting, FlipOp
  <2>5. FastHolds(request, "rotate", data', size', pending', width', height', format')
    BY <2>1, <2>3, <2>4 DEF FastHolds
  <2>6. QED
    BY <1>1, <2>1, <2>3, <2>5, LateStep
<1>3. CASE OnSlow
  <2>1. SlowHolds(request, "mirror", data, format) /\ ~OnFast
    BY <1>1, <1>3, LateFacts
  <2>2. /\ pc' = "rotate"
        /\ data' = IF request.mirror THEN Slow!Mirrored(data) ELSE data
    BY <1>1, <1>3, <2>1
       DEF Mirror, NoMirror, Skip, Goto, image, OnImage, Continue, Slow!FlipHorizontally, Slow!Succeed
  <2>3. Regular(request) => data' = FlippedFor(request, SizedFor(request))
    BY <1>1, <2>1, <2>2, SameMirror DEF SlowHolds, FlippedFor
  <2>4. SlowHolds(request, "rotate", data', format')
    BY <2>1, <2>3 DEF SlowHolds
  <2>5. QED
    BY <1>1, <2>1, <2>2, <2>4, LateStep
<1>4. QED
  BY <1>1, <1>2, <1>3, LateFacts

\* So is turning, which replaces a pending flip.
LEMMA RotateInv ==
    ASSUME PictureInv, Rotate \/ NoRotate
    PROVE  PictureInv'
<1>1. /\ pc = "rotate" /\ UNCHANGED <<request, backend, region, target>>
      /\ request \in Requests
  BY DEF PictureInv, Rotate, NoRotate, Skip, control, params
<1>2. PICK a \in Int : a = request.degrees
  BY <1>1, RequestsAssumption
<1>3. CASE OnFast
  <2>1. FastHolds(request, "rotate", data, size, pending, width, height, format) /\ ~OnSlow
    BY <1>1, <1>3, LateFacts
  <2>2. pending = Waiting(FlipOp(request), FastLeft(request), FALSE)
    BY <2>1 DEF FastHolds
  <2>3. UNCHANGED <<width, height, format>>
    BY <2>1 DEF Rotate, NoRotate, Skip, image, OnImage, Fast!Rotate, Fast!Captured
  <2>4. ASSUME pc' = "depth", data' = data, a \in {0, 90, 180, 270},
               pending' = Waiting(LastOp(request), FastLeft(request), FALSE)
        PROVE  PictureInv'
    <3>1. FastHolds(request, "depth", data', size', pending', width', height', format')
      BY <1>2, <2>1, <2>3, <2>4 DEF FastHolds
    <3>2. QED
      BY <1>1, <2>1, <2>4, <3>1, LateStep
  <2>5. CASE NoRotate
    <3>1. a = 0 /\ pc' = "depth" /\ data' = data /\ pending' = pending
      BY <1>2, <2>5 DEF NoRotate, Skip, Goto, image
    <3>2. LastOp(request) = FlipOp(request)
      BY <1>2, <3>1 DEF LastOp
    <3>3. QED
      BY <2>2, <2>4, <3>1, <3>2
  <2>6. CASE Rotate /\ a \notin {0, 90, 180, 270}
    <3>1. raised' = "IllegalArgument" /\ thrown' = "InvalidParameters"
      BY <1>2, <2>1, <2>6 DEF Rotate, OnImage, Fast!Rotate, Fast!Translate, Fast!Jpeg!Rotate, Fast!Jpeg!Throw
    <3>2. pc' = "done" /\ status' = 400
      BY <2>6, <3>1 DEF Rotate, Continue, Answer, StatusFor
    <3>3. BadCause
      BY <1>2, <1>3, <2>6 DEF BadCause, AngleRefused
    <3>4. QED
      BY <1>1, <2>3, <3>2, <3>3, AnsweredInv
  <2>7. CASE Rotate /\ a \in {0, 90, 180, 270}
    <3>1. a > 0 /\ Fast!Jpeg!Rotate(a) /\ Fast!Translate("InvalidParameters") /\ Continue("depth")
      BY <1>2, <2>1, <2>7 DEF Rotate, OnImage, Fast!Rotate
    <3>2. a \in {90, 180, 270}
      BY <2>7, <3>1
    <3> DEFINE op == IF a = 90 THEN "ROT90" ELSE IF a = 180 THEN "ROT180" ELSE "ROT270"
    <3>3. Fast!Jpeg!SetOp(op)
      BY <3>1, <3>2 DEF Fast!Jpeg!Rotate
    <3>4. op = LastOp(request)
      BY <1>2, <3>2 DEF LastOp
    <3>5. data' = data /\ raised' = "none" /\ pending' = [pending EXCEPT !.op = LastOp(request)]
      BY <3>3, <3>4 DEF Fast!Jpeg!SetOp, Fast!Jpeg!Return
    <3>6. pending' = Waiting(LastOp(request), FastLeft(request), FALSE)
      BY <2>2, <3>5 DEF Waiting
    <3>7. pc' = "depth"
      BY <3>1, <3>5 DEF Fast!Translate, Continue, Goto
    <3>8. QED
      BY <2>4, <2>7, <3>5, <3>6, <3>7
  <2>8. QED
    BY <2>5, <2>6, <2>7
<1>4. CASE OnSlow
  <2>1. SlowHolds(request, "rotate", data, format) /\ ~OnFast
    BY <1>1, <1>4, LateFacts
  <2>2. Regular(request) => /\ data = FlippedFor(request, SizedFor(request))
                            /\ SizedFor(request) \in Picture /\ SizedFor(request).depth = "source"
    BY <2>1 DEF SlowHolds
  <2>3. ASSUME pc' = "depth", Regular(request) => data' = TurnedFor(request, SizedFor(request))
        PROVE  PictureInv'
    <3>1. SlowHolds(request, "depth", data', format')
      BY <2>2, <2>3 DEF SlowHolds
    <3>2. QED
      BY <1>1, <2>1, <2>3, <3>1, LateStep
  <2>4. CASE NoRotate
    <3>1. a = 0 /\ pc' = "depth" /\ data' = data
      BY <1>2, <2>4 DEF NoRotate, Skip, Goto, image
    <3>2. Regular(request) => TurnedFor(request, SizedFor(request)) = data
      <4>1. SUFFICES ASSUME Regular(request)
                     PROVE  TurnedFor(request, SizedFor(request)) = data
        OBVIOUS
      <4>2. data \in Picture
        BY <2>2, <4>1, MirroredType DEF FlippedFor
      <4>3. TurnedFor(request, SizedFor(request)) = Turned(data, 0)
        BY <1>2, <2>2, <3>1, <4>1 DEF TurnedFor
      <4>4. QED
        BY <4>2, <4>3, TurnedByNothing
    <3>3. QED
      BY <2>3, <3>1, <3>2
  <2>5. CASE Rotate
    <3>1. Slow!Rotate(a) /\ Continue("depth") /\ UNCHANGED <<width, height>>
      BY <1>2, <2>1, <2>5 DEF Rotate, OnImage
    <3>2. CASE a % 90 = 0
      <4>1. data' = Turned(data, (a \div 90) % 4) /\ thrown' = "none"
        BY <3>1, <3>2, SameTurn DEF Slow!Rotate, Slow!Succeed
      <4>2. pc' = "depth"
        BY <3>1, <4>1 DEF Continue, Goto
      <4>3. QED
        BY <1>2, <2>2, <2>3, <4>1, <4>2 DEF TurnedFor
    <3>3. CASE a % 90 # 0
      <4>1. thrown' = "UnsupportedOperation"
        BY <3>1, <3>3 DEF Slow!Rotate, Slow!Throw
      <4>2. pc' = "done" /\ status' = 500
        BY <3>1, <4>1 DEF Continue, Answer, StatusFor
      <4>3. ErrorCause
        BY <1>2, <1>4, <3>3 DEF ErrorCause, AngleFails
      <4>4. QED
        BY <1>1, <3>1, <4>2, <4>3, AnsweredInv
    <3>4. QED
      BY <3>2, <3>3
  <2>6. QED
    BY <2>4, <2>5
<1>5. QED
  BY <1>1, <1>3, <1>4, LateFacts

\* Gray is pending on the fast backend; it knows no other depth.
LEMMA DepthInv ==
    ASSUME PictureInv, ToDepth \/ NoDepth
    PROVE  PictureInv'
<1>1. /\ pc = "depth" /\ UNCHANGED <<request, backend, region, target>>
      /\ request \in Requests
  BY DEF PictureInv, ToDepth, NoDepth, Skip, control, params
<1>2. CASE OnFast
  <2>1. FastHolds(request, "depth", data, size, pending, width, height, format) /\ ~OnSlow
    BY <1>1, <1>2, LateFacts
  <2>2. pending = Waiting(LastOp(request), FastLeft(request), FALSE)
    BY <2>1 DEF FastHolds
  <2>3. UNCHANGED <<width, height, format>>
    BY <2>1 DEF ToDepth, NoDepth, Skip, image, OnImage, Fast!ToDepth, Fast!Captured
  <2>4. ASSUME pc' = "convert", data' = data, pending' = LastPending(request),
               Depth(request) \in {"source", "GRAYSCALE"}
        PROVE  PictureInv'
    <3>1. FastHolds(request, "convert", data', size', pending', width', height', format')
      BY <2>1, <2>3, <2>4 DEF FastHolds
    <3>2. QED
      BY <1>1, <2>1, <2>4, <3>1, LateStep
  <2>5. CASE NoDepth
    <3>1. Depth(request) = "source" /\ pc' = "convert" /\ data' = data /\ pending' = pending
      BY <2>5 DEF NoDepth, Skip, Goto, image
    <3>2. LastPending(request) = pending
      BY <2>2, <3>1 DEF LastPending
    <3>3. QED
      BY <2>4, <3>1, <3>2
  <2>6. CASE ToDepth /\ Depth(request) = "GRAYSCALE"
    <3>1. Fast!Jpeg!ToGrayscale /\ thrown' = "none" /\ Continue("convert")
      BY <2>1, <2>6 DEF ToDepth, OnImage, Fast!ToDepth
    <3>2. pending' = [pending EXCEPT !.gray = TRUE] /\ data' = data /\ pc' = "convert"
      BY <3>1 DEF Fast!Jpeg!ToGrayscale, Continue, Goto
    <3>3. pending' = LastPending(request)
      BY <2>2, <2>6, <3>2 DEF Waiting, LastPending
    <3>4. QED
      BY <2>4, <2>6, <3>2, <3>3
  <2>7. CASE ToDepth /\ Depth(request) # "GRAYSCALE"
    <3>1. thrown' = "UnsupportedOperation" /\ Continue("convert") /\ Depth(request) # "source"
      BY <2>1, <2>7 DEF ToDepth, OnImage, Fast!ToDepth
    <3>2. pc' = "done" /\ status' = 500
      BY <3>1 DEF Continue, Answer, StatusFor
    <3>3. Depth(request) # "BITONAL"
      BY <2>1 DEF FastHolds
    <3>4. request.quality = "color"
      BY <2>7, <3>1, <3>3, DepthValues
    <3>5. ErrorCause
      BY <1>2, <3>4 DEF ErrorCause, ColorFails
    <3>6. QED
      BY <1>1, <2>3, <3>2, <3>5, AnsweredInv
  <2>8. QED
    BY <2>5, <2>6, <2>7
<1>3. CASE OnSlow
  <2>1. SlowHolds(request, "depth", data, format) /\ ~OnFast
    BY <1>1, <1>3, LateFacts
  <2>2. Regular(request) => /\ data = TurnedFor(request, SizedFor(request))
                            /\ SizedFor(request) \in Picture /\ SizedFor(request).depth = "source"
    BY <2>1 DEF SlowHolds
  <2>3. ASSUME pc' = "convert", Regular(request) => data' = Oriented(request, SizedFor(request))
        PROVE  PictureInv'
    <3>1. SlowHolds(request, "convert", data', format')
      BY <2>2, <2>3 DEF SlowHolds
    <3>2. QED
      BY <1>1, <2>1, <2>3, <3>1, LateStep
  <2>4. CASE NoDepth
    <3>1. Depth(request) = "source" /\ pc' = "convert" /\ data' = data
      BY <2>4 DEF NoDepth, Skip, Goto, image
    <3>2. Regular(request) => Oriented(request, SizedFor(request)) = data
      <4>1. SUFFICES ASSUME Regular(request)
                     PROVE  Oriented(request, SizedFor(request)) = data
        OBVIOUS
      <4>2. data \in Picture /\ data.depth = "source"
        BY <1>1, <2>2, <4>1, TurnedForType
      <4>3. Oriented(request, SizedFor(request)) = InDepth(data, "source")
        BY <2>2, <3>1, <4>1 DEF Oriented
      <4>4. QED
        BY <4>2, <4>3, InDepthType DEF Depths
    <3>3. QED
      BY <2>3, <3>1, <3>2
  <2>5. CASE ToDepth
    <3>1. data' = InDepth(data, Depth(request)) /\ pc' = "convert"
      BY <2>1, <2>5, SameDepth DEF ToDepth, OnImage, Slow!ToDepth, Slow!Succeed, Continue, Goto
    <3>2. QED
      BY <2>2, <2>3, <3>1 DEF Oriented
  <2>6. QED
    BY <2>4, <2>5
<1>4. QED
  BY <1>1, <1>2, <1>3, LateFacts

\* The fast backend is left alone, since it is asked for JPEG only.
LEMMA ConvertInv ==
    ASSUME PictureInv, Convert \/ NoConvert
    PROVE  PictureInv'
<1>1. /\ pc = "convert" /\ UNCHANGED <<request, backend, region, target>>
      /\ request \in Requests
  BY DEF PictureInv, Convert, NoConvert, Skip, control, params
<1>2. CASE OnFast
  <2>1. FastHolds(request, "convert", data, size, pending, width, height, format) /\ ~OnSlow
    BY <1>1, <1>2, LateFacts
  <2>2. NoConvert
    BY <2>1 DEF FastHolds, Convert
  <2>3. pc' = "perform" /\ UNCHANGED <<data, pending, width, height, format>>
    BY <2>2 DEF NoConvert, Skip, Goto, image
  <2>4. FastHolds(request, "perform", data', size', pending', width', height', format')
    BY <2>1, <2>3 DEF FastHolds
  <2>5. QED
    BY <1>1, <2>1, <2>3, <2>4, LateStep
<1>3. CASE OnSlow
  <2>1. SlowHolds(request, "convert", data, format) /\ ~OnFast
    BY <1>1, <1>3, LateFacts
  <2>2. pc' = "perform" /\ data' = data /\ format' = request.format
    BY <2>1 DEF Convert, NoConvert, Skip, Goto, Continue, image, OnImage, Slow!Convert, Slow!Succeed
  <2>3. SlowHolds(request, "perform", data', format')
    BY <2>1, <2>2 DEF SlowHolds
  <2>4. QED
    BY <1>1, <2>1, <2>2, <2>3, LateStep
<1>4. QED
  BY <1>1, <1>2, <1>3, LateFacts

-----------------------------------------------------------------------------
(* The last step.                                                          *)

\* What does not excuse a picture of the fast backend holds of its request.
LEMMA NoFastDeviation ==
    ASSUME OnFast, request \in Requests, region = InPixels(request),
           width = Wide(request), height = High(request),
           request.size.kind # "full" => target = TargetOf(request) /\ TargetOf(request) \in Size,
           request.degrees \in {0, 90, 180, 270},
           ~KnownDeviation
    PROVE  /\ OffsetRespected(request) /\ SizedRight(request)
           /\ EnlargedNot(request) /\ TurnedWhole(request) /\ MirroredWhole(request)
           /\ request.mirror => request.degrees \notin {90, 180, 270}
<1>1. TakesAll <=> AllOf(request)
  BY DEF TakesAll, AllOf, Width, Height
<1>2. region.kind = "full" <=> request.region.kind = "full"
  BY PixelFacts
<1>3. Rescaled(request) <=> FastScaled(request)
  BY RescaledFacts DEF Rescaled, FastScaled
<1>4. OffsetRespected(request)
  BY <1>1 DEF OffsetRespected, KnownDeviation, OffsetIgnored
<1>5. SizedRight(request)
  BY DEF SizedRight, KnownDeviation, SizedForAnother, TargetOf
<1>6. EnlargedNot(request)
  BY <1>3 DEF EnlargedNot, KnownDeviation, NotEnlarged
<1>7. TurnedWhole(request)
  BY <1>1, <1>3 DEF TurnedWhole, KnownDeviation, CutAfterTurn, CropMeetsTurn
<1>8. request.mirror => request.degrees \notin {90, 180, 270}
  BY DEF KnownDeviation, FlipOverwritten
<1>9. MirroredWhole(request)
  <2>1. FastScaled(request) => target = TargetOf(request) /\ TargetOf(request) \in Size
    BY DEF FastScaled
  <2>2. /\ FastData(request) \in Picture
        /\ FastData(request).depth = "source" /\ FastData(request).turns = 0
        /\ WidthOf(FastData(request)) = FastSize(request).w
        /\ HeightOf(FastData(request)) = FastSize(request).h
        /\ OutputMcu(FastData(request), Depth(request) = "GRAYSCALE") = FastBlocks(request)
    BY <2>1, FastDataFacts
  <2>3. BlocksTurned = FastBlocks(request)
    BY <1>3, DepthValues DEF BlocksTurned, FastBlocks, Loaded
  <2>4. FastSize(request) = IF Rescaled(request) THEN target ELSE Target(width, height)
    BY <1>3, <2>1 DEF FastSize
  <2>5. ~EdgeBlocksStay
    BY DEF KnownDeviation
  <2> DEFINE op   == LastOp(request)
             gray == Depth(request) = "GRAYSCALE"
             p    == FastData(request)
             fw   == WidthOf(p) % OutputMcu(p, gray).w = 0
             fh   == HeightOf(p) % OutputMcu(p, gray).h = 0
  <2>6. /\ request.degrees \in {180, 270} \/ (request.mirror /\ request.degrees # 90) => fw
        /\ request.degrees \in {90, 180} => fh
    BY <2>2, <2>3, <2>4, <2>5 DEF EdgeBlocksStay
  <2>7. /\ op \in UsedOps
        /\ op \in {"HFLIP", "ROT180", "ROT270"} =>
              request.degrees \in {180, 270} \/ (request.mirror /\ request.degrees # 90)
        /\ op \in {"ROT90", "ROT180"} => request.degrees \in {90, 180}
    BY DEF LastOp, FlipOp, UsedOps
  <2>8. gray \in BOOLEAN /\ p \in Picture /\ p.depth = "source" /\ p.turns = 0
    BY <2>2
  <2>9. MirroredWhole(request) <=> Fast!Jpeg!MirrorsWhole(p, op, gray)
    BY DEF MirroredWhole
  <2> HIDE DEF op, gray, p
  <2>10. /\ op \in {"HFLIP", "ROT180", "ROT270"} => fw
         /\ op \in {"ROT90", "ROT180"} => fh
    BY <2>6, <2>7
  <2>11. Fast!Jpeg!MirrorsWhole(p, op, gray)
    BY <2>7, <2>8, <2>10, FullBlocks
  <2>12. QED
    BY <2>9, <2>11
<1>10. QED
  BY <1>4, <1>5, <1>6, <1>7, <1>8, <1>9

\* The fast backend transforms: what is written is what was pending, and what
\* libjpeg-turbo refuses has its cause in the request or in the file.
LEMMA FastPerformInv ==
    ASSUME PictureInv, OnFast, Perform
    PROVE  PictureInv'
<1>1. /\ request \in Requests /\ pc = "perform" /\ ~OnSlow
      /\ ParamHolds(request, "perform", region, target)
      /\ FastHolds(request, "perform", data, size, pending, width, height, format)
  <2>1. pc = "perform"
    BY DEF Perform
  <2>2. QED
    BY <2>1, LateFacts DEF OnFast, OnSlow
<1>2. /\ Fast!Jpeg!Transform /\ Fast!Translate("Transformation")
      /\ UNCHANGED <<request, backend, region, target, width, height, format>>
      /\ IF thrown' = "none" THEN Answer(200) ELSE Answer(StatusFor(thrown'))
  BY <1>1 DEF Perform, OnImage, Fast!PerformTransformation, Fast!Captured, control, params
<1>3. /\ region = InPixels(request)
      /\ request.size.kind # "full" => target = TargetOf(request) /\ TargetOf(request) \in Size
  BY <1>1 DEF ParamHolds
<1>4. /\ width = Wide(request) /\ height = High(request)
      /\ format = "JPEG" /\ request.format = "JPEG" /\ CropFits(request)
      /\ data = FastData(request) /\ pending = LastPending(request) /\ FastNotEnlarged(request)
      /\ Fast!Jpeg!Readable(Loaded(request))
      /\ request.degrees \in {0, 90, 180, 270} /\ Depth(request) \in {"source", "GRAYSCALE"}
  BY <1>1 DEF FastHolds
<1>5. FastScaled(request) => TargetOf(request) \in Size /\ TargetOf(request) # Target(-1, -1)
  <2>1. SUFFICES ASSUME FastScaled(request)
                 PROVE  TargetOf(request) \in Size /\ TargetOf(request) # Target(-1, -1)
    OBVIOUS
  <2>2. TargetOf(request) \in Size
    BY <1>3, <2>1 DEF FastScaled
  <2>3. TargetOf(request).w \in 1 .. WidthOf(CutOut(request))
    BY <1>4, <2>1 DEF FastNotEnlarged
  <2>4. WidthOf(CutOut(request)) \in Int
    BY <1>1, CutFacts, SizesOfPicture
  <2>5. TargetOf(request).w # -1
    BY <2>3, <2>4
  <2>6. QED
    BY <2>2, <2>5 DEF Target
<1>6. LastOp(request) \in UsedOps /\ (LastOp(request) \in {"ROT90", "ROT270"} => request.degrees \in {90, 270})
  BY DEF LastOp, FlipOp, UsedOps
<1>7. ASSUME thrown' = "Transformation", ErrorCause PROVE PictureInv'
  <2>1. pc' = "done" /\ status' = 500
    BY <1>2, <1>7 DEF Answer, StatusFor
  <2>2. QED
    BY <1>2, <1>7, <2>1, AnsweredInv
<1>8. CASE raised' = "none"
  <2>1. /\ Fast!Jpeg!Transformable(data, pending)
        /\ data' = Fast!Jpeg!Transformed(data, pending) /\ thrown' = "none"
    BY <1>2, <1>8 DEF Fast!Jpeg!Transform, Fast!Jpeg!TransformFails, Fast!Jpeg!ResultIsUnreadable,
       Fast!Jpeg!SetImageData, Fast!Jpeg!Return, Fast!Jpeg!Throw, Fast!Translate
  <2>2. pc' = "done" /\ status' = 200
    BY <1>2, <2>1 DEF Answer
  <2>3. ASSUME ~KnownDeviation PROVE Right'
    <3>1. /\ OffsetRespected(request) /\ SizedRight(request)
          /\ EnlargedNot(request) /\ TurnedWhole(request) /\ MirroredWhole(request)
          /\ request.mirror => request.degrees \notin {90, 180, 270}
      BY <1>1, <1>3, <1>4, <2>3, NoFastDeviation
    <3>2. request.mirror => request.degrees = 0
      BY <1>4, <3>1
    <3>3. Look(data') = Look(PictureAskedFor(request))
      BY <1>1, <1>4, <1>5, <2>1, <3>1, <3>2, FastServes
    <3>4. QED
      BY <1>2, <1>4, <3>3 DEF Right
  <2>4. QED
    BY <1>2, <2>2, <2>3, AnsweredInv
<1>9. CASE Fast!Jpeg!TransformFails
  <2> DEFINE gray == Depth(request) = "GRAYSCALE"
  <2>1. thrown' = "Transformation"
    BY <1>2, <1>9 DEF Fast!Jpeg!TransformFails, Fast!Jpeg!Throw, Fast!Translate
  <2>2. \/ ~Fast!Jpeg!Transformable(data, pending)
        \/ Fast!Jpeg!MayOverflow(data, pending)
    BY <1>9 DEF Fast!Jpeg!TransformFails
  <2>3. CASE FastScaled(request)
    <3>1. pending = Waiting(LastOp(request), NoRect, gray)
      BY <1>4, <2>3 DEF LastPending, FastLeft
    <3>2. gray /\ Loaded(request).coding = "CMYK"
      <4> DEFINE waiting == Waiting(LastOp(request), NoRect, gray)
      <4>1. /\ ~(gray /\ Loaded(request).coding = "CMYK") =>
                  Fast!Jpeg!Transformable(FastData(request), waiting)
            /\ ~Fast!Jpeg!MayOverflow(FastData(request), waiting)
        <5>1. gray \in BOOLEAN /\ request \in Requests /\ TargetOf(request) \in Size
          BY <1>1, <1>5, <2>3
        <5> HIDE DEF gray
        <5>2. QED
          BY <2>3, <5>1, ScaledAccepted
      <4>2. data = FastData(request) /\ pending = waiting
        BY <1>4, <3>1
      <4> HIDE DEF waiting, gray
      <4>3. QED
        BY <2>2, <4>1, <4>2
    <3>3. GrayFails
      BY <3>2, DepthValues DEF GrayFails, Loaded
    <3>4. QED
      BY <1>7, <2>1, <3>3 DEF ErrorCause
  <2>4. CASE ~FastScaled(request)
    <3>1. /\ data = Loaded(request)
          /\ pending = Waiting(LastOp(request), FastCut(request), gray)
      BY <1>4, <2>4 DEF FastData, LastPending, FastLeft
    <3>2. CASE LastOp(request) = "NONE"
      <4>1. ErrorCause
        <5>1. \/ ~Fast!Jpeg!Transformable(Loaded(request), Waiting("NONE", FastCut(request), gray))
              \/ Fast!Jpeg!MayOverflow(Loaded(request), Waiting("NONE", FastCut(request), gray))
          BY <2>2, <3>1, <3>2
        <5>2. gray \in BOOLEAN /\ (gray => Depth(request) = "GRAYSCALE")
          OBVIOUS
        <5> HIDE DEF gray
        <5>3. QED
          BY <1>1, <1>3, <1>4, <5>1, <5>2, UprightExplained
      <4>2. QED
        BY <1>7, <2>1, <4>1
    <3>3. CASE LastOp(request) # "NONE" /\ FastCut(request) = NoRect
      <4>1. Loaded(request).coding \in {"YCC", "GRAY", "RGB", "CMYK"}
        BY <1>1, SourceFacts DEF Codings
      <4>2. ~data.intact \/ (gray /\ data.coding \in {"RGB", "CMYK"}) \/ data.bulky
        <5>1. /\ pending.op = LastOp(request) /\ pending.gray = gray
              /\ pending.rect = Fast!Jpeg!NoRect
          BY <3>1, <3>3 DEF Waiting, NoRect
        <5>2. Fast!Jpeg!Readable(data) /\ data.coding \in {"YCC", "GRAY", "RGB", "CMYK"}
          BY <1>4, <3>1, <4>1
        <5> HIDE DEF gray
        <5>3. ~Fast!Jpeg!Transformable(data, pending) =>
                 ~data.intact \/ (gray /\ data.coding \in {"RGB", "CMYK"})
          BY <5>1, <5>2 DEF Fast!Jpeg!Transformable
        <5>4. Fast!Jpeg!MayOverflow(data, pending) => data.bulky
          BY <5>1 DEF Fast!Jpeg!MayOverflow
        <5>5. QED
          BY <2>2, <5>3, <5>4
      <4>3. Damaged \/ GrayFails \/ Overflows
        BY <3>1, <4>2, DepthValues DEF Damaged, GrayFails, Overflows, Loaded
      <4>4. QED
        BY <1>7, <2>1, <4>3 DEF ErrorCause
    <3>4. CASE LastOp(request) # "NONE" /\ FastCut(request) # NoRect
      <4>1. Turns(request)
        BY <3>4 DEF LastOp, FlipOp, Turns
      <4>2. request.region.kind # "full" /\ ~AllOf(request)
        BY <1>1, <3>4, CutFacts
      <4>3. TakesAll <=> AllOf(request)
        BY <1>3, <1>4 DEF TakesAll, AllOf, Width, Height
      <4>4. ~Rescaled(request)
        BY <1>1, <1>3, <1>4, <2>4, RescaledFacts DEF Rescaled, FastScaled
      <4>5. CropMeetsTurn
        BY <4>1, <4>2, <4>3, <4>4 DEF CropMeetsTurn
      <4>6. QED
        BY <1>7, <2>1, <4>5 DEF ErrorCause
    <3>5. QED
      BY <3>2, <3>3, <3>4
  <2>5. QED
    BY <2>3, <2>4
<1>10. CASE Fast!Jpeg!ResultIsUnreadable
  <2> DEFINE gray == Depth(request) = "GRAYSCALE"
             p    == FastData(request)
             op   == LastOp(request)
  <2>1. thrown' = "Transformation" /\ ~Fast!Jpeg!Readable(Fast!Jpeg!Transformed(data, pending))
    BY <1>2, <1>10 DEF Fast!Jpeg!ResultIsUnreadable, Fast!Translate
  <2>2. /\ p \in Picture /\ p.depth = "source" /\ p.turns = 0
        /\ ~FastScaled(request) => p = Loaded(request)
        /\ FastScaled(request) => p.mcu \in {[w |-> 8, h |-> 8], [w |-> 16, h |-> 16]}
    BY <1>1, <1>5, FastDataFacts
  <2>3. FastLeft(request) \in Rect
    <3>1. FastCut(request) \in Rect
      BY <1>1, CutFacts
    <3>2. NoRect \in Rect
      BY DEF NoRect, Fast!Jpeg!NoRect, Fast!Jpeg!Whole, Fast!Jpeg!Box, Rect
    <3>3. QED
      BY <3>1, <3>2 DEF FastLeft
  <2>4. gray \in BOOLEAN /\ pending = Waiting(LastOp(request), FastLeft(request), gray)
    BY <1>4 DEF LastPending
  <2> HIDE DEF p, gray
  <2>5. OutputMcu(Fast!Jpeg!Transformed(p, Waiting(op, FastLeft(request), gray)), FALSE)
           = IF gray \/ p.coding = "GRAY" THEN [w |-> 8, h |-> 8]
             ELSE IF op \in {"ROT90", "ROT270"} THEN [w |-> p.mcu.h, h |-> p.mcu.w]
             ELSE p.mcu
    <3>1. op \in UsedOps /\ gray \in BOOLEAN /\ p \in Picture /\ p.depth = "source" /\ p.turns = 0
      BY <1>6, <2>2, <2>4
    <3> HIDE DEF op
    <3>2. QED
      BY <2>3, <3>1, BlocksAfter
  <2>6. OutputMcu(Fast!Jpeg!Transformed(p, Waiting(op, FastLeft(request), gray)), FALSE)
           \notin Samplings
    <3>1. data = p /\ pending = Waiting(op, FastLeft(request), gray)
      BY <1>4, <2>4 DEF p
    <3> DEFINE after == Fast!Jpeg!Transformed(p, Waiting(op, FastLeft(request), gray))
    <3>2. ~Fast!Jpeg!Readable(after)
      BY <2>1, <3>1
    <3> HIDE DEF after
    <3>3. QED
      <4>1. OutputMcu(after, FALSE) \notin Samplings
        BY <3>2, SameBlocks
      <4>2. QED
        BY <4>1 DEF after
  <2> DEFINE blocks == OutputMcu(Fast!Jpeg!Transformed(p, Waiting(op, FastLeft(request), gray)), FALSE)
             kept   == p.mcu
  <2> HIDE DEF op
  <2>7. ~(gray \/ p.coding = "GRAY")
    <3>1. [w |-> 8, h |-> 8] \in Samplings
      BY DEF Samplings
    <3>2. gray \/ p.coding = "GRAY" => blocks = [w |-> 8, h |-> 8]
      BY <2>5
    <3>3. blocks \notin Samplings
      BY <2>6
    <3> HIDE DEF blocks
    <3>4. QED
      BY <3>1, <3>2, <3>3, Zenon
  <2>8. blocks = IF op \in {"ROT90", "ROT270"} THEN [w |-> kept.h, h |-> kept.w] ELSE kept
    BY <2>5, <2>7, Zenon
  <2>9. blocks \notin Samplings
    BY <2>6
  <2> HIDE DEF blocks, kept
  <2>10. ~FastScaled(request)
    <3>1. FastScaled(request) => kept \in {[w |-> 8, h |-> 8], [w |-> 16, h |-> 16]}
      BY <2>2 DEF kept
    <3>2. QED
      BY <2>8, <2>9, <3>1 DEF Samplings
  <2>11. Loaded(request).mcu \in Samplings
    <3>1. OutputMcu(p, FALSE) = p.mcu
      BY <2>2, <2>7 DEF OutputMcu, Sideways
    <3>2. OutputMcu(Loaded(request), FALSE) \in Samplings
      BY <1>4, SameBlocks
    <3>3. QED
      BY <2>2, <2>10, <3>1, <3>2
  <2>12. /\ LastOp(request) \in {"ROT90", "ROT270"}
         /\ [w |-> kept.h, h |-> kept.w] \notin Samplings
         /\ kept = Loaded(request).mcu
    BY <2>2, <2>10, <2>11, <2>8, <2>9 DEF op, kept
  <2>13. Loaded(request).mcu = Target(32, 8)
    BY <2>11, <2>12 DEF Samplings, Target
  <2>14. TurnsNameless
    BY <1>6, <2>12, <2>13 DEF TurnsNameless, Loaded
  <2>15. QED
    BY <1>7, <2>1, <2>14 DEF ErrorCause
<1>11. QED
  BY <1>2, <1>8, <1>9, <1>10 DEF Fast!Jpeg!Transform, Fast!Jpeg!Return

\* The slow backend has done everything already.
LEMMA SlowPerformInv ==
    ASSUME PictureInv, OnSlow, Perform
    PROVE  PictureInv'
<1>1. /\ request \in Requests /\ pc = "perform" /\ ~OnFast
      /\ ParamHolds(request, "perform", region, target)
      /\ SlowHolds(request, "perform", data, format)
  <2>1. pc = "perform"
    BY DEF Perform
  <2>2. QED
    BY <2>1, LateFacts DEF OnFast, OnSlow
<1>2. /\ Slow!PerformTransformation
      /\ UNCHANGED <<request, backend, region, target, width, height>>
      /\ IF thrown' = "none" THEN Answer(200) ELSE Answer(StatusFor(thrown'))
  BY <1>1 DEF Perform, OnImage, control, params
<1>3. data' = data /\ format' = format /\ pc' = "done" /\ status' = 200
  BY <1>2 DEF Slow!PerformTransformation, Slow!Succeed, Answer
<1>4. region = InPixels(request)
  BY <1>1 DEF ParamHolds
<1>5. ASSUME ~KnownDeviation PROVE Right'
  <2>1. ~CutTwiceOf(request)
    BY <1>4, <1>5 DEF KnownDeviation, CutTwice, CutTwiceOf
  <2>2. request.region.kind = "relative" => Extracted(request).x >= 0 /\ Extracted(request).y >= 0
    <3>1. Extracted(request) \in Rect
      BY <1>1, ExtractedFacts
    <3>2. QED
      BY <1>5, <3>1 DEF KnownDeviation, OffsetIgnored, Rect
  <2>3. region.kind = "full" <=> request.region.kind = "full"
    BY <1>1, <1>4, PixelFacts
  <2>4. SizedRight(request)
    BY <1>4, <1>5 DEF SizedRight, KnownDeviation, SizedForAnother, TargetOf
  <2>5. Regular(request)
    BY <2>1, <2>2, <2>4 DEF Regular, SlowCut
  <2>6. data = Oriented(request, SizedFor(request)) /\ format = request.format
    BY <1>1, <2>5 DEF SlowHolds
  <2>7. QED
    BY <1>2, <1>3, <2>6, AskedInStages DEF Right
<1>6. QED
  BY <1>2, <1>3, <1>5, AnsweredInv

-----------------------------------------------------------------------------
\* PictureInv holds of every reachable state.
LEMMA PictureInvAlways == Spec => []PictureInv
<1>1. Init => PictureInv
  BY DEF Init, PictureInv, AtWork
<1>2. PictureInv /\ [Next]_vars => PictureInv'
  <2> SUFFICES ASSUME PictureInv, [Next]_vars PROVE PictureInv'
    OBVIOUS
  <2>1. CASE UNCHANGED vars
    <3>1. UNCHANGED <<pc, request, backend, region, target, status, data, size, pending, width, height,
                      format>>
      BY <2>1 DEF vars, control, params, image
    <3>2. CASE pc = "done"
      <4>1. Explained'
        BY <3>1, <3>2, CausesKept DEF PictureInv, Explained, Right
      <4>2. QED
        BY <3>1, <3>2, <4>1 DEF PictureInv, AtWork
    <3>3. CASE pc # "done"
      BY <3>1, <3>3 DEF PictureInv, OnFast, OnSlow
    <3>4. QED
      BY <3>2, <3>3
  <2>2. CASE Parse \/ Authorize \/ NoneLeft \/ NotSupported \/ Unrecognized
    BY <2>2, EarlySteps
  <2>3. CASE Unreadable \/ Load
    BY <2>3, UnreadableInv, LoadInv
  <2>4. CASE MakeAbsolute \/ AlreadyAbsolute
    BY <2>4, AbsoluteInv
  <2>5. CASE Crop \/ NoCrop
    <3>1. OnFast \/ OnSlow
      BY <2>5 DEF PictureInv, AtWork, Crop, NoCrop, OnFast, OnSlow
    <3>2. QED
      BY <2>5, <3>1, FastCropInv, SlowCropInv
  <2>6. CASE CalculateSize \/ FullSize
    BY <2>6, SizeInv
  <2>7. CASE Scale
    <3>1. OnFast \/ OnSlow
      BY <2>7 DEF Scale, OnImage
    <3>2. QED
      BY <2>7, <3>1, FastScaleInv, SlowScaleInv
  <2>8. CASE Mirror \/ NoMirror \/ Rotate \/ NoRotate
    BY <2>8, MirrorInv, RotateInv
  <2>9. CASE ToDepth \/ NoDepth \/ Convert \/ NoConvert
    BY <2>9, DepthInv, ConvertInv
  <2>10. CASE Perform
    <3>1. OnFast \/ OnSlow
      BY <2>10 DEF Perform, OnImage
    <3>2. QED
      BY <2>10, <3>1, FastPerformInv, SlowPerformInv
  <2>11. QED
    BY <2>1, <2>2, <2>3, <2>4, <2>5, <2>6, <2>7, <2>8, <2>9, <2>10 DEF Next, Step, Done
<1>3. QED
  BY <1>1, <1>2, PTL DEF Spec

\* Whatever the request and the source, 400 is answered only for parameters that
\* cannot be parsed, a size that is not valid, a region outside the image, an angle
\* the fast backend does not turn by, or a region the slow backend cuts twice: the
\* places where InvalidParametersException is thrown.
THEOREM BadRequestsHaveACause == Spec => []BadRequestsAreExplained
<1>1. PictureInv => BadRequestsAreExplained
  BY DEF PictureInv, Explained, BadCause, BadRequestsAreExplained
<1>2. QED
  BY <1>1, PictureInvAlways, PTL

\* Whatever the request and the source, 500 is answered only for a damaged file, a
\* region outside the image or one of the named limits of a backend (a size without
\* pixels, enlarging, a crop off the grid or turned, an angle, the color depth, gray
\* of RGB or CMYK, 4:1:1 turned sideways, a file that may not fit its buffer, a
\* region cut twice): nothing else that is legal to ask for ends in a
\* TransformationException or an UnsupportedOperationException.
THEOREM ServerErrorsHaveACause == Spec => []ServerErrorsAreExplained
<1>1. PictureInv => ServerErrorsAreExplained
  BY DEF PictureInv, Explained, ErrorCause, ServerErrorsAreExplained
<1>2. QED
  BY <1>1, PictureInvAlways, PTL

\* Whatever the request and the source, the picture served with 200 is the one the
\* request names (region, then size, then mirroring and turning, then quality, in
\* the format asked for), unless one of the known deviations applies.
THEOREM PicturesAreRight == Spec => []ServedAsRequested
<1>1. PictureInv => ServedAsRequested
  BY DEF PictureInv, Explained, Served, ServedAsRequested
<1>2. QED
  BY <1>1, PictureInvAlways, PTL
=============================================================================
