---------------------------- MODULE MCJpegImage ----------------------------
(* A 32 by 16 image whose subsampling makes blocks of 16 by 8 pixels, or of *)
(* 32 by 8, a damaged one, one with long markers and one that is not made of *)
(* YCbCr; rectangles on and off the block grid, and outside.                *)
EXTENDS JpegImage

Photo == Original(32, 16, [w |-> 16, h |-> 8], TRUE)

MCSources ==
    {Photo, [Photo EXCEPT !.intact = FALSE], [Photo EXCEPT !.bulky = TRUE],
     [Photo EXCEPT !.coding = "CMYK"], [Photo EXCEPT !.mcu = [w |-> 32, h |-> 8]]}

MCRegions ==
    {Box(16, 0, 16, 16), Box(0, 8, 32, 8), Box(8, 0, 8, 8),
     Box(0, 0, 16, 24), Box(-8, 0, 8, 8), Box(0, 0, 0, 8)}

MCSizes == {[w |-> 32, h |-> 16], [w |-> 8, h |-> 16],
            [w |-> 16, h |-> 8], [w |-> 0, h |-> 8]}

MCAngles == {0, 45, 90, 180, 270, 360}
=============================================================================
