------------------------ MODULE MCLosslessTransform ------------------------
(* Blocks of two by two samples, images of up to three iMCUs and a partial   *)
(* one in each direction, of every subsampling and of some that have none.   *)
EXTENDS LosslessTransform

F(h, v) == [h |-> h, v |-> v]
One == F(1, 1)

Samplings ==
    {<<"YCC", <<F(h, v), One, One>>>> : h \in {1, 2}, v \in {1, 2}}
        \union {<<"YCC", <<F(4, 1), One, One>>>>, <<"YCC", <<F(2, 2), F(1, 2), F(1, 2)>>>>,
                <<"GRAY", <<F(2, 2)>>>>, <<"YCCK", <<F(2, 1), One, One, F(2, 1)>>>>,
                <<"YCC", <<One, F(2, 1), One>>>>}

MCImages ==
    {[w |-> w, h |-> h, colour |-> s[1], samp |-> s[2], markers |-> 0] :
        w \in {1, 4, 7, 8}, h \in {3, 4, 6}, s \in Samplings}
    \union {[w |-> 8, h |-> 8, colour |-> "YCC", samp |-> <<F(2, 1), One, One>>, markers |-> m] :
        m \in {2, 1000}}
    \union {[w |-> 16, h |-> 16, colour |-> "YCC", samp |-> <<F(4, 1), One, One>>, markers |-> 0],
            [w |-> 16, h |-> 1, colour |-> "YCCK",
             samp |-> <<F(2, 2), F(1, 2), F(1, 2), F(2, 2)>>, markers |-> 0]}

Crops == {NoCrop} \union
    [x : {0, 2, 4}, y : {0, 1, 2, 4}, w : {1, 3, 4}, h : {2, 4}]
        \union {[x |-> 0, y |-> 0, w |-> 16, h |-> 2]}

MCRequests ==
    [op : Transforms, crop : Crops, gray : BOOLEAN, trim : BOOLEAN, perfect : {FALSE}]
        \union [op : Transforms, crop : {NoCrop}, gray : BOOLEAN, trim : {FALSE}, perfect : {TRUE}]

\* For the finding, in real sizes: a photograph of 64 by 64 samples in 4:2:0 with
\* 3000 bytes of markers (Exif, ICC), unturned, as a whole or cropped.
FindingImages ==
    {[w |-> 64, h |-> 64, colour |-> "YCC", samp |-> <<F(2, 2), One, One>>, markers |-> 3000]}
FindingRequests ==
    [op : {"NONE"}, crop : {NoCrop, [x |-> 16, y |-> 16, w |-> 16, h |-> 16]},
     gray : {FALSE}, trim : {FALSE}, perfect : {FALSE}]
=============================================================================
