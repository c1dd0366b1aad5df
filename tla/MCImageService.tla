--------------------------- MODULE MCImageService ---------------------------
(***************************************************************************)
(* A source of 32 by 16 pixels with blocks of 16 by 8, in every state a    *)
(* source can be in, sources of other codings, and regions that lie in it, *)
(* on and off the grid, reach over its edges, miss it, are empty, larger   *)
(* than an int, or not in whole pixels.                                    *)
(***************************************************************************)
EXTENDS ImageServiceFindings

Photo == Original(32, 16, [w |-> 16, h |-> 8], TRUE)

Jpeg     == Source("sound", "JPEG", Photo)
BadJpeg  == Source("sound", "JPEG", [Photo EXCEPT !.intact = FALSE])
Png      == Source("sound", "PNG", Photo)

\* Photographs the fast backend has trouble with: 4:1:1, four components, long
\* markers, and a subsampling without a name.
OddJpegs ==
    {Source("sound", "JPEG", p) :
        p \in {[Photo EXCEPT !.mcu = Target(32, 8)], [Photo EXCEPT !.coding = "CMYK"],
               [Photo EXCEPT !.coding = "RGB"], [Photo EXCEPT !.coding = "GRAY"],
               [Photo EXCEPT !.bulky = TRUE], [Photo EXCEPT !.mcu = Target(32, 16)]}}

NoImages == {Source("broken", "JPEG", Photo), Source("broken", "PNG", Photo),
             Source("alien", "none", Photo), Source("missing", "none", Photo)}

MCRepositories    == <<"JpegTran", "ImageIO">>
MCWritableFormats == {"JPEG", "PNG"}

Pixels(x, y, w, h)  == Region("absolute", 100 * x, 100 * y, 100 * w, 100 * h)
Percent(x, y, w, h) == Region("relative", x, y, w, h)

InnerRegions ==
    {FullRegion,
     Pixels(0, 0, 32, 16), Pixels(16, 8, 16, 8), Pixels(16, 0, 16, 16),
     Pixels(8, 0, 8, 8), Pixels(0, 0, 8, 8), Pixels(3, 2, 10, 7),
     Percent(25, 0, 50, 100), Percent(0, 0, 33, 33)}

OuterRegions ==
    {Pixels(16, 0, 32, 16), Pixels(16, 8, 24, 16), Pixels(0, 0, 40, 24),
     Pixels(8, 0, 30000, 16), Region("absolute", 250, 0, 850, 800),
     Region("absolute", 0, 0, 50, 800),
     Pixels(32, 0, 8, 8), Pixels(-8, 0, 16, 8), Pixels(0, 0, 0, 8),
     Percent(50, 50, 100, 100), Percent(100, 0, 10, 10), Percent(120, 0, 10, 10),
     Percent(-25, 0, 75, 100), Percent(0, 0, 800, 800),
     Percent(-25, 0, 100, 100), Percent(-25, 0, 100, 97)}

Malformed == Region("malformed", 0, 0, 0, 0)

FullSize_ == SizeParam("full", 0, 0)

MCSizes ==
    {FullSize_, SizeParam("percent", 50, 0), SizeParam("percent", 200, 0),
     SizeParam("width", 8, 0), SizeParam("height", 0, 4), SizeParam("exact", 32, 16),
     SizeParam("exact", 8, 8), SizeParam("max", 20, 5), SizeParam("max", 64, 64),
     SizeParam("max", 8, 64), SizeParam("width", 0, 0)}

\* Every region with every size, upright and turned.
Geometry ==
    [source : {Jpeg, Png}, allowed : {TRUE},
     region : InnerRegions \union OuterRegions, size : MCSizes,
     mirror : BOOLEAN, degrees : {0, 90, 180, 270}, quality : {"default"},
     format : {"JPEG", "PNG"}]

\* Everything else that may be right or wrong with a request.
Circumstances ==
    [source : {Jpeg, BadJpeg, Png} \union NoImages, allowed : BOOLEAN,
     region : {FullRegion, Pixels(16, 8, 16, 8), Pixels(0, 0, 0, 8), Malformed},
     size : {FullSize_, SizeParam("exact", 8, 8), SizeParam("malformed", 0, 0)},
     mirror : {FALSE}, degrees : {0, 45, 90, 360, 400},
     quality : Qualities \union {"sepia"},
     format : {"JPEG", "PNG", "PDF", "bmp"}]

\* Files of other kinds, cut, scaled, turned and in gray.
Codings_ ==
    [source : OddJpegs, allowed : {TRUE},
     region : {FullRegion, Pixels(0, 0, 32, 8)},
     size : {FullSize_, SizeParam("exact", 8, 8), SizeParam("exact", 16, 16)},
     mirror : BOOLEAN, degrees : {0, 90, 180, 270},
     quality : {"default", "gray"}, format : {"JPEG", "PNG"}]

MCRequests == Geometry \union Circumstances \union Codings_

\* For the finding: the whole image, mirrored and turned.
FindingRequests ==
    [source : {Jpeg}, allowed : {TRUE}, region : {FullRegion}, size : {FullSize_},
     mirror : BOOLEAN, degrees : {0, 90, 180}, quality : {"default"},
     format : {"JPEG", "PNG"}]
=============================================================================
