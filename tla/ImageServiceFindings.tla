------------------------ MODULE ImageServiceFindings ------------------------
(* A sentence of the repository's own comments that the pipeline does not   *)
(* keep, stated for requests in which nothing else can go wrong.            *)
EXTENDS ImageServiceContract

Unscaled(r)  == r.region.kind = "full" /\ r.size.kind = "full"

\* "If the rotation parameter includes mirroring, the mirroring is applied
\* before the rotation": JpegImage.rotate() overwrites the pending flip.
MirroringIsAppliedBeforeRotation == Served /\ Unscaled(request) => Right
=============================================================================
