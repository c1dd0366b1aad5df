------------------------------ MODULE JAIImage ------------------------------
(***************************************************************************)
(* JAIImage.java: the Image of the ImageIO backend, a decoded image that   *)
(* every operation replaces at once.                                       *)
(***************************************************************************)
EXTENDS IiifParameters, Pictures

VARIABLES data,     \* image
          format,   \* formatString
          thrown

Succeed  == thrown' = "none"
Throw(e) == thrown' = e /\ UNCHANGED <<data, format>>

\* Rectangles ImageReadParam accepts; those of them the reader finds something
\* in, and what it cuts them down to.
Settable(r) == r.x >= 0 /\ r.y >= 0 /\ r.w > 0 /\ r.h > 0

Readable(r, p) == Settable(r) /\ r.x < WidthOf(p) /\ r.y < HeightOf(p)

CutOff(r, p) ==
    LET upTo(extent, room) == IF extent > room THEN room ELSE extent
    IN  Box(r.x, r.y, upTo(r.w, WidthOf(p) - r.x), upTo(r.h, HeightOf(p) - r.y))

Corner(region) == Box(Ceil(region.x), Ceil(region.y), Ceil(region.w), Ceil(region.h))

\* new JAIImage(data, region): of an absolute region only the part inside the
\* image is decoded.
Read(p, f, region) ==
    \/ /\ region.kind # "absolute"
       /\ data' = p /\ format' = f
       /\ Succeed
    \/ /\ region.kind = "absolute" /\ Readable(Corner(region), p)
       /\ data' = Cropped(p, CutOff(Corner(region), p)) /\ format' = f
       /\ Succeed
    \/ /\ region.kind = "absolute" /\ ~Readable(Corner(region), p)
       /\ Throw("IllegalArgument")

\* crop() again, relative to what has been decoded.  The sums wrap.
Crop(region) ==
    LET r == Corner(region)
        upTo(offset, extent, all) ==
            IF Wrapped(offset + extent) > all THEN all - offset ELSE extent
        cut == Box(r.x, r.y, upTo(r.x, r.w, WidthOf(data)),
                             upTo(r.y, r.h, HeightOf(data)))
        same == cut.w = WidthOf(data) /\ cut.h = HeightOf(data)
    IN  \/ /\ r.x >= WidthOf(data) \/ r.y >= HeightOf(data)
           /\ Throw("InvalidParameters")
        \/ /\ r.x < WidthOf(data) /\ r.y < HeightOf(data) /\ same
           /\ Succeed /\ UNCHANGED <<data, format>>
        \/ /\ r.x < WidthOf(data) /\ r.y < HeightOf(data) /\ ~same
           /\ Inside(cut, WidthOf(data), HeightOf(data))
           /\ data' = Cropped(data, cut)
           /\ Succeed /\ UNCHANGED format
        \/ /\ r.x < WidthOf(data) /\ r.y < HeightOf(data) /\ ~same
           /\ ~Inside(cut, WidthOf(data), HeightOf(data))
           /\ Throw("RasterFormat")

\* An image needs positive sides and fewer than MaxInt pixels.
Allocatable(target) ==
    /\ target.w > 0 /\ target.h > 0
    /\ target.w <= MaxInt \div target.h

Scale(target) ==
    \/ /\ target = Target(WidthOf(data), HeightOf(data))
       /\ Succeed /\ UNCHANGED <<data, format>>
    \/ /\ target # Target(WidthOf(data), HeightOf(data))
       /\ Allocatable(target)
       /\ data' = Resized(data, target.w, target.h)
       /\ Succeed /\ UNCHANGED format
    \/ /\ target # Target(WidthOf(data), HeightOf(data))
       /\ ~Allocatable(target)
       /\ Throw("IllegalArgument")

FlipHorizontally ==
    /\ data' = Mirrored(data)
    /\ Succeed /\ UNCHANGED format

\* (Fault: turns counter-clockwise.)
RotateCounter(angle) ==
    \/ /\ angle % 90 > 0
       /\ Throw("UnsupportedOperation")
    \/ /\ angle % 90 = 0
       /\ data' = Turned(data, (-(angle \div 90)) % 4)
       /\ Succeed /\ UNCHANGED format

\* 0 and 360 turn nothing.
Rotate(angle) ==
    \/ /\ angle % 90 > 0
       /\ Throw("UnsupportedOperation")
    \/ /\ angle % 90 = 0
       /\ data' = Turned(data, (angle \div 90) % 4)
       /\ Succeed /\ UNCHANGED format

ToDepth(depth) ==
    /\ data' = InDepth(data, depth)
    /\ Succeed /\ UNCHANGED format

Convert(f) ==
    /\ format' = f
    /\ Succeed /\ UNCHANGED data

\* Nothing is pending in an eager image.
PerformTransformation == Succeed /\ UNCHANGED <<data, format>>
=============================================================================
