------------------------------ MODULE Pictures ------------------------------
(***************************************************************************)
(* What an encoded or decoded image shows, without its pixels.             *)
(*                                                                         *)
(* A picture is a rectangle of a frame, then mirrored (flip), then turned  *)
(* clockwise by quarter turns, shown at a bit depth.  The frame is the     *)
(* source image, or the result of the resamplings listed in stages: each   *)
(* one stretched a rectangle of the frame before it over a new frame of    *)
(* the given size.  Mirroring and turning commute with the other operations *)
(* up to a change of coordinates, so two pictures are equal exactly when   *)
(* every source pixel lands in the same place.                             *)
(*                                                                         *)
(* patched says that some of the pixels lie elsewhere: a lossless transfor- *)
(* mation leaves the blocks at an edge where they are when the edge does   *)
(* not fill them.                                                          *)
(*                                                                         *)
(* Of the file, mcu is the size of the JPEG blocks of the frame (the       *)
(* subsampling), coding its colours (YCC: YCbCr, CMYK: or YCCK), intact says *)
(* that the entropy-coded data decodes without a libjpeg warning, and      *)
(* bulky that markers or doubled components may take more room than the    *)
(* pixels let expect.                                                      *)
(***************************************************************************)
EXTENDS Integers, Sequences

Rect == [x : Int, y : Int, w : Int, h : Int]
Size == [w : Int, h : Int]
Depths == {"source", "COLOR", "GRAYSCALE", "BITONAL"}
Codings == {"YCC", "GRAY", "RGB", "CMYK"}

Picture == [stages : Seq([rect : Rect, size : Size]), frame : Size, rect : Rect,
            flip : BOOLEAN, turns : 0..3, patched : BOOLEAN, depth : Depths,
            mcu : Size, coding : Codings, intact : BOOLEAN, bulky : BOOLEAN]

Box(x, y, w, h) == [x |-> x, y |-> y, w |-> w, h |-> h]
Whole(w, h)     == Box(0, 0, w, h)

\* A freshly loaded photograph of w times h pixels.
Original(w, h, mcu, intact) ==
    [stages |-> <<>>, frame |-> [w |-> w, h |-> h], rect |-> Whole(w, h),
     flip |-> FALSE, turns |-> 0, patched |-> FALSE, depth |-> "source",
     mcu |-> mcu, coding |-> "YCC", intact |-> intact, bulky |-> FALSE]

\* The same in a file of other colours, with or without long markers.
Coded(p, coding, bulky) == [p EXCEPT !.coding = coding, !.bulky = bulky]

-----------------------------------------------------------------------------
Sideways(p) == p.turns \in {1, 3}

\* The size a viewer sees.
WidthOf(p)  == IF Sideways(p) THEN p.rect.h ELSE p.rect.w
HeightOf(p) == IF Sideways(p) THEN p.rect.w ELSE p.rect.h
SizeOf(p)   == [w |-> WidthOf(p), h |-> HeightOf(p)]

\* A non-empty rectangle of a w times h image.
Inside(r, w, h) ==
    /\ r.x >= 0 /\ r.y >= 0
    /\ r.w > 0  /\ r.h > 0
    /\ r.x + r.w <= w
    /\ r.y + r.h <= h

\* A rectangle in the coordinates a viewer sees, in those before the turns.
Unturned(p, r) ==
    CASE p.turns = 0 -> r
      [] p.turns = 1 -> Box(r.y, p.rect.h - r.x - r.w, r.h, r.w)
      [] p.turns = 2 -> Box(p.rect.w - r.x - r.w, p.rect.h - r.y - r.h, r.w, r.h)
      [] p.turns = 3 -> Box(p.rect.w - r.y - r.h, r.x, r.h, r.w)

Unflipped(p, r) ==
    IF p.flip THEN [r EXCEPT !.x = p.rect.w - r.x - r.w] ELSE r

\* The block size of a file: 8 by 8 with a single component.
OutputMcu(p, gray) ==
    IF gray \/ p.depth = "GRAYSCALE" \/ p.coding = "GRAY" THEN [w |-> 8, h |-> 8]
    ELSE IF Sideways(p) THEN [w |-> p.mcu.h, h |-> p.mcu.w] ELSE p.mcu

\* The block sizes TurboJPEG has a name for: 4:4:4, 4:2:2, 4:2:0, 4:4:0, 4:1:1.
Samplings == {[w |-> 8, h |-> 8], [w |-> 16, h |-> 8], [w |-> 16, h |-> 16],
              [w |-> 8, h |-> 16], [w |-> 32, h |-> 8]}

-----------------------------------------------------------------------------
(* The operations, each in the coordinates the viewer sees.                *)

Cropped(p, r) ==
    LET q == Unflipped(p, Unturned(p, r))
    IN  [p EXCEPT !.rect = Box(p.rect.x + q.x, p.rect.y + q.y, q.w, q.h)]

Mirrored(p)  == [p EXCEPT !.flip = ~p.flip, !.turns = (4 - p.turns) % 4]
\* (Fault: full turns are not taken off.)
TurnedPastFull(p, k) == [p EXCEPT !.turns = p.turns + k]
Turned(p, k) == [p EXCEPT !.turns = (p.turns + k) % 4]
InDepth(p, d) == [p EXCEPT !.depth = d]

\* Stretching to the size it already has changes nothing that can be seen.
Resized(p, w, h) ==
    LET frame == IF Sideways(p) THEN [w |-> h, h |-> w] ELSE [w |-> w, h |-> h]
    IN  IF frame.w = p.rect.w /\ frame.h = p.rect.h THEN p
        ELSE [p EXCEPT !.stages = Append(p.stages, [rect |-> p.rect, size |-> frame]),
                       !.frame  = frame,
                       !.rect   = Whole(frame.w, frame.h)]

\* The picture shows nothing but pixels of its frame, at least one.
InFrame(p) == Inside(p.rect, p.frame.w, p.frame.h)

\* What a viewer can tell of a picture: not how the file is coded.
Look(p) == [stages |-> p.stages, frame |-> p.frame, rect |-> p.rect, flip |-> p.flip,
            turns |-> p.turns, patched |-> p.patched, depth |-> p.depth]
=============================================================================
