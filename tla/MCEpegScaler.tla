---------------------------- MODULE MCEpegScaler ----------------------------
(* Pictures that are decoded at every fraction from 8/8 to 1/8, some limited *)
(* by one direction only, one with more pixels than the buffer's size can    *)
(* say, one that libjpeg refuses after its header, and texts that repeat.    *)
EXTENDS EpegScaler

F(w, h, comps, texts) ==
    [w |-> w, h |-> h, comps |-> comps, texts |-> texts, body |-> "sound"]
MCFiles == {F(9, 4, 3, <<>>), F(4, 9, 1, <<"uri", "comment", "uri">>),
            F(7, 7, 4, <<>>), F(17, 3, 3, <<"comment", "mime", "comment">>),
            F(8, 8, 3, <<>>), F(10, 10, 3, <<>>),
            [F(4, 4, 3, <<"mime", "mime">>) EXCEPT !.body = "refused"]}
MCSizes == [w : {1, 2, 3, 4, 6, 7, 9}, h : {1, 2, 3, 4, 5, 7, 8}]
=============================================================================
