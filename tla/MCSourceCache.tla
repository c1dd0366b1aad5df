--------------------------- MODULE MCSourceCache ---------------------------
(* Two requests at a time for one identifier: keys do not interfere.        *)
EXTENDS SourceCache

CONSTANTS c1, c2, id1

MCClients == {c1, c2}

\* What a conversion to JPEG may meet, and what repositories tell apart without.
MCKinds == [forced \in BOOLEAN |->
    IF forced THEN {"png", "deep", "alien"} ELSE {"absent", "jpeg", "png", "broken"}]
=============================================================================
