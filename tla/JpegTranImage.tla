--------------------------- MODULE JpegTranImage ---------------------------
(***************************************************************************)
(* JpegTranImage.java: the Image of the fast backend.  It translates the   *)
(* parameters for JpegImage and JpegImage's exceptions for the service,    *)
(* and keeps the width and height the file had when it was loaded.         *)
(***************************************************************************)
EXTENDS IiifParameters, Pictures

VARIABLES data, size, pending, raised,  \* the fields of the JpegImage inside
          width, height,                \* as captured by setBackendImage()
          thrown                        \* how the call to this class ended

\* The sets JpegImage draws its inputs from play no part here.
Jpeg == INSTANCE JpegImage WITH
            Sources <- {}, Regions <- {}, Sizes <- {}, Angles <- {}

Captured == <<width, height>>

\* new JpegTranImage(data) of a file whose header can be read.
Load(p) ==
    /\ data' = p
    /\ size' = SizeOf(p)
    /\ pending' = Jpeg!Nothing
    /\ raised' = "none"
    /\ width' = WidthOf(p)
    /\ height' = HeightOf(p)
    /\ thrown' = "none"

ThrowInvalid == thrown' = "InvalidParameters" /\ UNCHANGED <<data, size, pending, raised>>

\* An exception of JpegImage becomes the one the Image interface declares.
Translate(e) == thrown' = IF raised' = "none" THEN "none" ELSE e

\* The width or height is cut at the image's edge, the offset is not.
Crop(region) ==
    LET x == Ceil(region.x)
        y == Ceil(region.y)
        cutTo(extent, room) == IF extent > room THEN room ELSE extent
    IN  /\ UNCHANGED Captured
        /\ \/ /\ x >= width \/ y >= height
              /\ ThrowInvalid
           \/ /\ x < width /\ y < height
              /\ Jpeg!Crop(Box(x, y, cutTo(Ceil(region.w), width - x),
                                     cutTo(Ceil(region.h), height - y)))
              /\ Translate("InvalidParameters")

\* "No scaling needed" compares with the captured size, not with the size the
\* pending crop leaves.
Scale(target) ==
    /\ UNCHANGED Captured
    /\ \/ /\ target = Target(width, height)
          /\ thrown' = "none"
          /\ UNCHANGED <<data, size, pending, raised>>
       \/ /\ target # Target(width, height)
          /\ Jpeg!DownScale(target)
          /\ Translate("Transformation")

FlipHorizontally ==
    /\ Jpeg!FlipHorizontal
    /\ thrown' = "none"
    /\ UNCHANGED Captured

Rotate(angle) ==
    /\ Jpeg!Rotate(angle)
    /\ Translate("InvalidParameters")
    /\ UNCHANGED Captured

ToDepth(depth) ==
    /\ UNCHANGED Captured
    /\ \/ /\ depth = "GRAYSCALE"
          /\ Jpeg!ToGrayscale
          /\ thrown' = "none"
       \/ /\ depth # "GRAYSCALE"
          /\ thrown' = "UnsupportedOperation"
          /\ UNCHANGED <<data, size, pending, raised>>

Convert ==
    /\ thrown' = "UnsupportedOperation"
    /\ UNCHANGED <<data, size, pending, raised, width, height>>

PerformTransformation ==
    /\ Jpeg!Transform
    /\ Translate("Transformation")
    /\ UNCHANGED Captured
=============================================================================
