----------------------------- MODULE EagerImage -----------------------------
(***************************************************************************)
(* What the callers of an image object are promised: one picture, and      *)
(* operations that apply to it in the order they are called.  An operation *)
(* may refuse, and then the picture is as it was.                          *)
(*                                                                         *)
(* The promise is the one of the Image interface ("after having called     *)
(* performTransformation, the image has actually undergone the applied     *)
(* transformations") and of the controller's comment on the order of the   *)
(* manipulations.                                                          *)
(***************************************************************************)
EXTENDS Pictures

CONSTANTS Sources,      \* the pictures an image may be loaded from
          Regions,      \* the rectangles a caller asks for
          Sizes         \* the sizes a caller asks for

VARIABLE picture

Init == picture \in {Look(p) : p \in Sources}

Crop ==
    \E r \in Regions :
        /\ Inside(r, WidthOf(picture), HeightOf(picture))
        /\ picture' = Cropped(picture, r)

\* An image never grows.
Shrink ==
    \E s \in Sizes :
        /\ s.w \in 1..WidthOf(picture) /\ s.h \in 1..HeightOf(picture)
        /\ picture' = Resized(picture, s.w, s.h)

Turn          == \E k \in 1..3 : picture' = Turned(picture, k)
MirrorAndTurn == \E k \in 0..3 : picture' = Turned(Mirrored(picture), k)
ToGrayscale   == picture' = InDepth(picture, "GRAYSCALE")

Next == Crop \/ Shrink \/ Turn \/ MirrorAndTurn \/ ToGrayscale

Spec == Init /\ [][Next]_picture
=============================================================================
