--------------------------- MODULE IiifParameters ---------------------------
(***************************************************************************)
(* The parameters of an image request as the parser service hands them     *)
(* on, and the two calculations the model classes make with them:          *)
(* RegionParametersImpl.makeAbsolute() and the copy constructor of         *)
(* ResizeParametersImpl.                                                   *)
(*                                                                         *)
(* Offsets and extents of a region are floats in the code.  Here they are  *)
(* integers that count hundredths: of a pixel in an absolute region, of    *)
(* the image's extent (per cent) in a relative one; products and quotients *)
(* are exact, the rounding of float arithmetic is left out.  A conversion  *)
(* (int) of a float saturates at MaxInt, the largest int.                  *)
(***************************************************************************)
EXTENDS Integers

CONSTANT MaxInt

ASSUME MaxIntAssumption == MaxInt \in Nat \ {0}

Hundred == 100

Saturated(v) ==
    CASE v > MaxInt      -> MaxInt
      [] v < -MaxInt - 1 -> -MaxInt - 1
      [] OTHER           -> v

\* The result of an addition of two ints.
Wrapped(v) == ((v + MaxInt + 1) % (2 * (MaxInt + 1))) - (MaxInt + 1)

\* (int) Math.ceil(v) and (int) v of v hundredths.
Ceil(v)  == Saturated(-((-v) \div Hundred))
Trunc(v) == Saturated(IF v >= 0 THEN v \div Hundred ELSE -((-v) \div Hundred))

\* (int) Math.ceil(n / d): Infinity becomes MaxInt, NaN becomes 0.
CeilOfRatio(n, d) ==
    CASE d # 0            -> Saturated(-((-n) \div d))
      [] d = 0 /\ n = 0   -> 0
      [] d = 0 /\ n # 0   -> MaxInt

-----------------------------------------------------------------------------
(* Regions.                                                                *)

RegionKinds == {"full", "absolute", "relative", "malformed"}

Region(kind, x, y, w, h) == [kind |-> kind, x |-> x, y |-> y, w |-> w, h |-> h]
FullRegion == Region("full", 0, 0, 0, 0)

\* makeAbsolute(): hundredths of the extent become hundredths of a pixel, and
\* width and height end at the image's edge.  The offset is checked last.
Absolute(r, imageWidth, imageHeight) ==
    LET x == r.x * imageWidth
        y == r.y * imageHeight
        w == r.w * imageWidth
        h == r.h * imageHeight
        clippedTo(extent, room) == IF extent > room THEN room ELSE extent
    IN  Region("absolute", x, y,
               clippedTo(w, Hundred * imageWidth - x),
               clippedTo(h, Hundred * imageHeight - y))

\* (Fault: refuses regions that end at the edge.)
OffsetBeyondEnd(r, imageWidth, imageHeight) ==
    r.x + r.w >= Hundred * imageWidth \/ r.y + r.h >= Hundred * imageHeight

OffsetBeyond(r, imageWidth, imageHeight) ==
    r.x > Hundred * imageWidth \/ r.y > Hundred * imageHeight

-----------------------------------------------------------------------------
(* Sizes.                                                                  *)

SizeKinds == {"full", "percent", "width", "height", "exact", "max", "malformed"}

\* "pct:n" is [percent, n, 0], "w," [width, w, 0], ",h" [height, 0, h].
SizeParam(kind, w, h) == [kind |-> kind, w |-> w, h |-> h]

Target(w, h) == [w |-> w, h |-> h]
NoTarget     == Target(0, 0)

\* Each form of the parameter with no number that is not positive.
Sized(s) ==
    CASE s.kind \in {"percent", "width"} -> s.w > 0
      [] s.kind = "height"               -> s.h > 0
      [] s.kind \in {"exact", "max"}     -> s.w > 0 /\ s.h > 0

\* "w,0" and "0,h" are parsed into the same object as "w," and ",h".
MeansWidth(s)  == s.kind \in {"width", "exact"} /\ s.w > 0 /\ s.h = 0
MeansHeight(s) == s.kind \in {"height", "exact"} /\ s.h > 0 /\ s.w = 0

ValidSize(s) == Sized(s) \/ MeansWidth(s) \/ MeansHeight(s)

\* Scaling by num/den, the smaller ratio of two.
ScaledBy(num, den, w, h) == Target(CeilOfRatio(w * num, den), CeilOfRatio(h * num, den))

\* The "!w,h" branch.  Both sides smaller than the maximum: -1, -1.
WithinMax(s, w, h) ==
    CASE s.h > h /\ s.w > w -> Target(-1, -1)
      [] s.h < h /\ s.w > w -> ScaledBy(s.h, h, w, h)
      [] s.h > h /\ s.w < w -> ScaledBy(s.w, w, w, h)
      [] OTHER ->
            IF s.h * w <= s.w * h THEN ScaledBy(s.h, h, w, h)
                                  ELSE ScaledBy(s.w, w, w, h)

\* new ResizeParametersImpl(s, w, h) of a valid s.
Resize(s, w, h) ==
    CASE MeansWidth(s)      -> Target(s.w, CeilOfRatio(s.w * h, w))
      [] MeansHeight(s)     -> Target(CeilOfRatio(s.h * w, h), s.h)
      [] s.kind = "exact" /\ s.w > 0 /\ s.h > 0 -> Target(s.w, s.h)
      [] s.kind = "percent" -> ScaledBy(s.w, Hundred, w, h)
      [] s.kind = "max"     -> WithinMax(s, w, h)
=============================================================================
