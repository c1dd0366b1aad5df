-------------------------- MODULE JpegImageCareful --------------------------
(***************************************************************************)
(* A caller of JpegImage that never lets two pending operations meet: it   *)
(* crops, flips or rotates only when the one before has been applied, by   *)
(* transform() or by downScale().  Nor does it mirror or turn an image     *)
(* whose blocks the edge does not fill, or one whose subsampling has no    *)
(* name when it lies on its side.  For that caller the lazy class keeps    *)
(* the promise of an eager image.  JpegTranImage is not such a caller: see *)
(* the findings of ImageService.                                           *)
(***************************************************************************)
EXTENDS JpegImage

Idle == pending.op = "NONE" /\ pending.rect = NoRect

\* In colour and in gray: toGrayscale() may be called later.
DoneWell(op) ==
    /\ Readable(Moved(data, op))
    /\ \A gray \in BOOLEAN : MirrorsWhole(data, op, gray)

CarefulNext ==
    \/ Idle /\ \E r \in Regions : Crop(r)
    \/ Idle /\ (\E a \in Angles : Rotate(a)) /\ DoneWell(pending'.op)
    \/ Idle /\ DoneWell("HFLIP") /\ FlipHorizontal
    \/ Idle /\ DoneWell("VFLIP") /\ FlipVertical
    \/ Idle /\ DoneWell("TRANSPOSE") /\ Transpose
    \/ Idle /\ DoneWell("TRANSVERSE") /\ Transverse
    \/ \E s \in Sizes : DownScale(s)
    \/ ToGrayscale
    \/ Transform

CarefulSpec == Init /\ [][CarefulNext]_vars

\* The picture the calls so far have ordered: the region, then the flip or
\* the rotation, whether applied or not.
OrderedPicture ==
    LET cut == IF pending.rect = NoRect THEN data ELSE Cropped(data, pending.rect)
        out == Moved(cut, pending.op)
    IN  Look(IF pending.gray THEN InDepth(out, "GRAYSCALE") ELSE out)

Eager == INSTANCE EagerImage WITH picture <- OrderedPicture

\* The lazy image implements the eager one: each call is one operation on the
\* picture or leaves it alone, transform() changes nothing a caller ordered,
\* and downScale() resamples what was ordered before it, applied or not.
ImplementsEagerImage == Eager!Spec
=============================================================================
