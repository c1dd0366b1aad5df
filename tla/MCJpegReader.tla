---------------------------- MODULE MCJpegReader ----------------------------
(* A gray baseline file with restart markers, an RGB one with more than one    *)
(* scan, and a frame of a film, in 4:1:1 and without Huffman tables.           *)
EXTENDS JpegReader

Photograph ==
    <<Marker("SOI"), Named("APP", "Exif"), Named("DQT", "q1"), Frame({1}, 10, "named"),
      Named("DHT", "own"), Counting("DRI", 1)>>
    \o Scan({1}, 10, 1, "own") \o <<EOI>>
Scanned ==
    <<Marker("SOI"), Adobe(0), Named("APP", "ICC"), Named("DQT", "q2"),
      Frame({1, 2, 3}, 3, "named"), Named("DHT", "standard"), Counting("DRI", 2)>>
    \o Scan({1}, 3, 2, "standard") \o Scan({2, 3}, 3, 2, "standard") \o <<EOI>>
Film ==
    <<Marker("SOI"), Named("APP", "AVI"), Named("DQT", "q2"), Frame({1, 2, 3}, 2, "4:1:1")>>
    \o Scan({1, 2, 3}, 2, 0, "standard") \o <<EOI>>

MCSounds == [photograph |-> Photograph, scanned |-> Scanned, film |-> Film]

MCStrays ==
    {Marker("SOI"), EOI, Marker("TEM"), Marker("RES"), Junk, Counting("RST", 0),
     Named("APP", "JFIF"), Adobe(2), Named("DQT", "q3"), SOF({1}, 2, "unsupported"),
     SOF({1}, 2, "12bit"), SOS({1})}
=============================================================================
