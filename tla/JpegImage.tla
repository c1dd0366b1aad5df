----------------------------- MODULE JpegImage -----------------------------
(***************************************************************************)
(* JpegImage.java: a JPEG file in memory (imgData) and one pending         *)
(* lossless transformation (transformOptions), which transform() hands to  *)
(* libjpeg-turbo.  Every operation but downScale() and transform() only    *)
(* writes into the pending transformation.                                 *)
(***************************************************************************)
EXTENDS Pictures

CONSTANTS Sources,      \* the pictures a file may hold when it is loaded
          Regions,      \* the rectangles callers pass to crop()
          Sizes,        \* the sizes callers pass to downScale()
          Angles        \* the angles callers pass to rotate()

ASSUME SourcesAssumption ==
    Sources \subseteq {p \in Picture :
        /\ InFrame(p)
        /\ OutputMcu(p, FALSE) \in Samplings}
ASSUME RegionsAssumption == Regions \subseteq Rect
ASSUME SizesAssumption   == Sizes \subseteq Size
ASSUME AnglesAssumption  == Angles \subseteq Int

VARIABLES data,     \* imgData, by what it shows
          size,     \* the width and height decomp read
          pending,  \* transformOptions
          raised    \* how the last call ended

vars == <<data, size, pending, raised>>

Ops == {"NONE", "HFLIP", "VFLIP", "TRANSPOSE", "TRANSVERSE",
        "ROT90", "ROT180", "ROT270"}

NoRect == Whole(0, 0)

\* new TJTransform(): no operation, an empty rectangle, no options.  The
\* CROP option is set exactly when the rectangle is.
Nothing == [op |-> "NONE", rect |-> NoRect, gray |-> FALSE]

Pending    == [op : Ops, rect : Rect, gray : BOOLEAN]
Exceptions == {"IllegalArgument", "TJ"}

Init ==
    /\ data \in Sources
    /\ size = SizeOf(data)
    /\ pending = Nothing
    /\ raised = "none"

Return   == raised' = "none"
Throw(e) == raised' = e /\ UNCHANGED <<data, size, pending>>

-----------------------------------------------------------------------------
(* tjTransform() of libjpeg-turbo.                                         *)

\* The picture the operation stands for.
Moved(p, op) ==
    CASE op = "NONE"       -> p
      [] op = "HFLIP"      -> Mirrored(p)
      [] op = "VFLIP"      -> Turned(Mirrored(p), 2)
      [] op = "TRANSPOSE"  -> Turned(Mirrored(p), 3)
      [] op = "TRANSVERSE" -> Turned(Mirrored(p), 1)
      [] op = "ROT90"      -> Turned(p, 1)
      [] op = "ROT180"     -> Turned(p, 2)
      [] op = "ROT270"     -> Turned(p, 3)

\* The axes of the output along which an operation mirrors.
MirrorsX == {"HFLIP", "TRANSVERSE", "ROT90", "ROT180"}
MirrorsY == {"VFLIP", "TRANSVERSE", "ROT180", "ROT270"}

\* Every block is moved when the extent mirrored is a multiple of a block's;
\* the caller asks neither to trim the others nor to refuse.
MirrorsWhole(p, op, gray) ==
    LET out == Moved(p, op)
        mcu == OutputMcu(out, gray)
    IN  /\ op \in MirrorsX => WidthOf(out) % mcu.w = 0
        /\ op \in MirrorsY => HeightOf(out) % mcu.h = 0

OpApplied(p, op, gray) ==
    IF MirrorsWhole(p, op, gray) THEN Moved(p, op) ELSE [Moved(p, op) EXCEPT !.patched = TRUE]

\* TJDecompressor and TJTransformer read the header first and refuse a
\* subsampling without a name: 4:1:1, say, turned sideways.
Readable(p) == OutputMcu(p, FALSE) \in Samplings

\* (Fault: the header of the result is not looked at.)
TransformableUnread(p, t) ==
    LET out == OpApplied(p, t.op, t.gray)
        mcu == OutputMcu(out, t.gray)
    IN  /\ p.intact
        /\ t.gray => p.coding \in {"YCC", "GRAY"}
        /\ t.rect # NoRect =>
            /\ Inside(t.rect, WidthOf(out), HeightOf(out))
            /\ t.rect.x % mcu.w = 0
            /\ t.rect.y % mcu.h = 0

\* Only the luminance of YCbCr is a gray image.  The rectangle is checked
\* against the image AFTER the operation, its corner has to lie on a block,
\* and a warning while decoding counts as a failure.
Transformable(p, t) ==
    LET out == OpApplied(p, t.op, t.gray)
        mcu == OutputMcu(out, t.gray)
    IN  /\ Readable(p) /\ p.intact
        /\ t.gray => p.coding \in {"YCC", "GRAY"}
        /\ t.rect # NoRect =>
            /\ Inside(t.rect, WidthOf(out), HeightOf(out))
            /\ t.rect.x % mcu.w = 0
            /\ t.rect.y % mcu.h = 0

TurnsSideways == {"TRANSPOSE", "TRANSVERSE", "ROT90", "ROT270"}

\* The buffers are allocated beforehand, by the size of the file or of the
\* rectangle in blocks that have not been turned.
MayOverflow(p, t) ==
    \/ p.bulky
    \/ t.rect # NoRect /\ t.op \in TurnsSideways /\ p.mcu.w # p.mcu.h

Transformed(p, t) ==
    LET out == OpApplied(p, t.op, t.gray)
        cut == IF t.rect = NoRect THEN out ELSE Cropped(out, t.rect)
    IN  IF t.gray THEN InDepth(cut, "GRAYSCALE") ELSE cut

\* EpegScaler decodes, resamples and encodes anew, YCbCr with 4:2:0 subsampling
\* and without the markers; it does not notice what libjpeg warns of.
Downscaled(p, w, h) ==
    [Resized(p, w, h) EXCEPT
        !.intact = TRUE, !.bulky = FALSE,
        !.coding = IF p.coding = "RGB" THEN "YCC" ELSE p.coding,
        !.mcu = IF p.coding = "CMYK" THEN [w |-> 8, h |-> 8] ELSE [w |-> 16, h |-> 16]]

-----------------------------------------------------------------------------
(* The operations of the class.                                            *)

Crop(r) ==
    \/ /\ Inside(r, size.w, size.h)
       /\ pending' = [pending EXCEPT !.rect = r]
       /\ Return
       /\ UNCHANGED <<data, size>>
    \/ /\ ~Inside(r, size.w, size.h)
       /\ Throw("IllegalArgument")

SetOp(op) ==
    /\ pending' = [pending EXCEPT !.op = op]
    /\ Return
    /\ UNCHANGED <<data, size>>

FlipHorizontal == SetOp("HFLIP")
FlipVertical   == SetOp("VFLIP")
Transpose      == SetOp("TRANSPOSE")
Transverse     == SetOp("TRANSVERSE")

\* Angle 0 passes the check and leaves the pending operation alone.
Rotate(angle) ==
    \/ angle \notin {0, 90, 180, 270} /\ Throw("IllegalArgument")
    \/ angle = 0   /\ SetOp(pending.op)
    \/ angle = 90  /\ SetOp("ROT90")
    \/ angle = 180 /\ SetOp("ROT180")
    \/ angle = 270 /\ SetOp("ROT270")

ToGrayscale ==
    /\ pending' = [pending EXCEPT !.gray = TRUE]
    /\ Return
    /\ UNCHANGED <<data, size>>

\* setImageData(): the file is replaced before its header is read.
SetImageData(p) ==
    /\ data' = p
    /\ size' = IF Readable(p) THEN SizeOf(p) ELSE size

TransformFails ==
    /\ ~Transformable(data, pending) \/ MayOverflow(data, pending)
    /\ Throw("TJ")

\* The new file is there, the orders it has been made by are still pending.
ResultIsUnreadable ==
    /\ Transformable(data, pending) /\ ~Readable(Transformed(data, pending))
    /\ SetImageData(Transformed(data, pending))
    /\ raised' = "TJ"
    /\ UNCHANGED pending

Transform ==
    \/ TransformFails
    \/ ResultIsUnreadable
    \/ /\ Transformable(data, pending) /\ Readable(Transformed(data, pending))
       /\ SetImageData(Transformed(data, pending))
       /\ pending' = Nothing
       /\ Return

\* (Fault: a pending flip or rotation is overlooked.)
MustTransformFirstForRect == pending.rect # NoRect

\* downScale() transforms first when an operation or a rectangle is pending;
\* a pending grayscale alone stays pending.  The size is checked afterwards,
\* so a call that throws may have transformed already.
MustTransformFirst == pending.op # "NONE" \/ pending.rect # NoRect

\* (Fault: sizes are checked against the image only, not to be positive.)
ScaleFromToNothing(p, known, t, s) ==
    /\ s.w <= known.w /\ s.h <= known.h
    /\ SetImageData(Downscaled(p, s.w, s.h))
    /\ pending' = t
    /\ Return

\* (Fault: the pending transformation is reset before the size is checked.)
ScaleFromForgetful(p, known, t, s) ==
    /\ ~(s.w \in 1..known.w /\ s.h \in 1..known.h)
    /\ data' = p /\ size' = known
    /\ pending' = Nothing
    /\ raised' = "IllegalArgument"

\* p is the file by now, known what decomp read of it, t what is pending.
ScaleFrom(p, known, t, s) ==
    \/ /\ s.w \in 1..known.w /\ s.h \in 1..known.h
       /\ SetImageData(Downscaled(p, s.w, s.h))
       /\ pending' = t
       /\ Return
    \/ /\ ~(s.w \in 1..known.w /\ s.h \in 1..known.h)
       /\ data' = p /\ size' = known
       /\ pending' = t
       /\ raised' = "IllegalArgument"

\* (Fault: only the operation is reset after the transformation.)
DownScaleKeepingRect(s) ==
    LET p == Transformed(data, pending)
    IN  /\ MustTransformFirst
        /\ Transformable(data, pending) /\ Readable(p)
        /\ ScaleFrom(p, SizeOf(p), [pending EXCEPT !.op = "NONE"], s)

\* (Fault: everything pending is reset, applied or not.)
DownScaleForgettingGray(s) ==
    /\ ~MustTransformFirst
    /\ ScaleFrom(data, size, Nothing, s)

DownScale(s) ==
    \/ /\ MustTransformFirst
       /\ TransformFails \/ ResultIsUnreadable
    \/ LET p == Transformed(data, pending)
       IN  /\ MustTransformFirst
           /\ Transformable(data, pending) /\ Readable(p)
           /\ ScaleFrom(p, SizeOf(p), Nothing, s)
    \/ /\ ~MustTransformFirst
       /\ ScaleFrom(data, size, pending, s)

Next ==
    \/ \E r \in Regions : Crop(r)
    \/ \E a \in Angles : Rotate(a)
    \/ \E s \in Sizes : DownScale(s)
    \/ FlipHorizontal
    \/ FlipVertical
    \/ Transpose
    \/ Transverse
    \/ ToGrayscale
    \/ Transform

Spec == Init /\ [][Next]_vars

-----------------------------------------------------------------------------
(* Properties.                                                             *)

\* Type correctness of JpegImage's fields and of the picture they hold.
TypeOK ==
    /\ data \in Picture
    /\ size \in Size
    /\ pending \in Pending
    /\ raised \in Exceptions \union {"none"}

\* crop() checks its rectangle against the image of that moment and keeps it
\* for later.  Whatever is called in between, in particular a downScale()
\* that replaces the image, the rectangle kept still lies in the image that
\* is there, as long as that can be read: it never outlives the image it was
\* checked against.
PendingRectFits ==
    Readable(data) /\ pending.rect # NoRect =>
        Inside(pending.rect, WidthOf(data), HeightOf(data))

\* However crops, flips, turns and resamplings follow each other, no crop
\* reaches over the edge of the image it is made from, in whatever frame the
\* rectangle was meant, and no image is empty.
ShowsPartOfFrame == InFrame(data)

\* What transform() would leave in imgData, now.
Outcome ==
    IF Transformable(data, pending) THEN Transformed(data, pending) ELSE data

\* The one result the header reader has no name for.
TurnsFourOneOne ==
    /\ OutputMcu(data, pending.gray) = [w |-> 32, h |-> 8]
    /\ pending.op \in TurnsSideways

\* A call that throws leaves the image as it would have come out without the
\* call, although downScale() may have transformed before it found the size
\* too large, forgets nothing that was pending, and leaves a file that can be
\* read.  There is one exception: when 4:1:1 is turned sideways the call throws
\* after the file has been replaced, and what was applied stays pending.
RefusedCallKeepsPicture ==
    [][raised' # "none" =>
        \/ Outcome' = Outcome /\ (Readable(data) => Readable(data'))
        \/ /\ TurnsFourOneOne
           /\ data' = Transformed(data, pending) /\ pending' = pending]_vars

\* What was applied and has stayed pending is never applied a second time: no
\* later call gets beyond the header of a file that cannot be read.
OrdersAreAppliedOnce == [][~Readable(data) => data' = data]_vars

\* toGrayscale() once asked for is never forgotten: no reset of the pending
\* transformation and no resampling loses it before it is applied.
GrayOrdered == pending.gray \/ data.depth = "GRAYSCALE"
GrayIsNeverForgotten == [][GrayOrdered => GrayOrdered']_vars
=============================================================================
