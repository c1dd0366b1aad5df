------------------------- MODULE MCJpegImageCareful -------------------------
(* Constants as in MCJpegImage, with a caller that applies each operation  *)
(* before it orders the next.                                               *)
EXTENDS JpegImageCareful

Photo == Original(32, 16, [w |-> 16, h |-> 8], TRUE)

MCSources ==
    {Photo, [Photo EXCEPT !.intact = FALSE], [Photo EXCEPT !.bulky = TRUE],
     [Photo EXCEPT !.coding = "CMYK"], [Photo EXCEPT !.mcu = [w |-> 32, h |-> 8]]}

MCRegions ==
    {Box(16, 0, 16, 16), Box(0, 8, 32, 8), Box(8, 0, 8, 8),
     Box(0, 0, 16, 24), Box(-8, 0, 8, 8), Box(0, 0, 0, 8)}

\* No size is another one on its side: scaling before turning is not scaling after.
MCSizes == {[w |-> 32, h |-> 16], [w |-> 8, h |-> 16],
            [w |-> 24, h |-> 8], [w |-> 0, h |-> 8]}

MCAngles == {0, 45, 90, 180, 270, 360}
=============================================================================
