------------------------ MODULE ImageServiceContract ------------------------
(***************************************************************************)
(* What a client of ImageService asked for, and what the answers mean.     *)
(***************************************************************************)
EXTENDS ImageService

-----------------------------------------------------------------------------
(* The picture a request asks for: "Region THEN Size THEN Rotation THEN    *)
(* Quality THEN Format", mirroring before rotation.                        *)

\* The part of the region that lies in a w times h image, in whole pixels.
Extract(r, w, h) ==
    LET abs   == IF r.kind = "relative" THEN Absolute(r, w, h) ELSE r
        x     == Ceil(abs.x)
        y     == Ceil(abs.y)
        upTo(extent, room) == IF extent > room THEN room ELSE extent
    IN  IF r.kind = "full" THEN Whole(w, h)
        ELSE Box(x, y, upTo(Ceil(abs.w), w - x), upTo(Ceil(abs.h), h - y))

Extracted(r) ==
    Extract(r.region, WidthOf(r.source.picture), HeightOf(r.source.picture))

\* The size for the region that is extracted; a picture that fits a maximum
\* already is left as it is.
SizeAskedFor(r) ==
    LET box == Extracted(r)
        t   == Resize(r.size, box.w, box.h)
    IN  IF r.size.kind = "full" \/ t = Target(-1, -1) THEN Target(box.w, box.h) ELSE t

PictureAskedFor(r) ==
    LET cut     == Cropped(r.source.picture, Extracted(r))
        sized   == Resized(cut, SizeAskedFor(r).w, SizeAskedFor(r).h)
        flipped == IF r.mirror THEN Mirrored(sized) ELSE sized
    IN  InDepth(Turned(flipped, (r.degrees \div 90) % 4), Depth(r))

Served == pc = "done" /\ status = 200

Right == /\ Look(data) = Look(PictureAskedFor(request))
         /\ format = request.format

-----------------------------------------------------------------------------
(* Requests that are answered with another picture, by cause.              *)

Turns(r) == r.mirror \/ r.degrees \in {90, 180, 270}

\* The size calculated for the region is not the size of the file.
Rescaled(r) ==
    LET t == IF region.kind = "full" THEN Resize(r.size, width, height)
             ELSE Resize(r.size, Trunc(region.w), Trunc(region.h))
    IN  r.size.kind # "full" /\ t # Target(width, height)

\* The pending flip is overwritten by the pending rotation.
FlipOverwritten == OnFast /\ request.mirror /\ request.degrees \in {90, 180, 270}

\* The rectangle is cut out of the turned image, unless downScale() cut it
\* out before.
CropMeetsTurn ==
    /\ OnFast /\ Turns(request)
    /\ request.region.kind # "full" /\ ~TakesAll
    /\ ~Rescaled(request)

CutAfterTurn == CropMeetsTurn /\ Extracted(request) # Whole(width, height)

\* An absolute region is cut out when the file is read and, unless the size of
\* the part that was read is exactly the region's, once more in crop().
CutTwice ==
    LET box == Extracted(request)
    IN  /\ OnSlow /\ request.region.kind = "absolute"
        /\ region.w # Hundred * box.w \/ region.h # Hundred * box.h
        /\ box.x # 0 \/ box.y # 0

\* A region with the image's width and height is not cut out at all, wherever
\* it begins.  JAIImage.crop() compares whole pixels: there a region that begins
\* outside passes for the whole image, too.
OffsetIgnored ==
    LET box == Extracted(request)
    IN  /\ request.region.kind # "full"
        /\ \/ OnFast /\ TakesAll /\ (box.x # 0 \/ box.y # 0)
           \/ OnSlow /\ request.region.kind = "relative" /\ (box.x < 0 \/ box.y < 0)

\* The size is calculated for another rectangle than the one cut out.
SizedForAnother ==
    /\ request.size.kind # "full" /\ request.region.kind # "full"
    /\ Resize(request.size, Trunc(region.w), Trunc(region.h)) # SizeAskedFor(request)

\* The size asked for is the size of the file, and the region is smaller.
NotEnlarged ==
    /\ OnFast /\ request.size.kind # "full"
    /\ ~Rescaled(request)
    /\ Extracted(request) # Whole(width, height)

\* The blocks of the file that is turned at last: of the one downScale() wrote,
\* or of the source.
BlocksTurned ==
    LET p == request.source.picture
    IN  CASE request.quality = "gray" \/ p.coding = "GRAY" -> Target(8, 8)
          [] OTHER ->
                IF ~Rescaled(request) THEN p.mcu
                ELSE IF p.coding = "CMYK" THEN Target(8, 8) ELSE Target(16, 16)

\* A lossless mirroring leaves the blocks at the edge that are not full where
\* they are, and with them displaces all others.
EdgeBlocksStay ==
    LET turned == IF Rescaled(request) THEN target ELSE Target(width, height)
        alongWidth  == \/ request.degrees \in {180, 270}
                       \/ request.mirror /\ request.degrees # 90
        alongHeight == request.degrees \in {90, 180}
    IN  /\ OnFast
        /\ \/ alongWidth  /\ turned.w % BlocksTurned.w # 0
           \/ alongHeight /\ turned.h % BlocksTurned.h # 0

KnownDeviation ==
    \/ FlipOverwritten \/ CutAfterTurn \/ CutTwice \/ EdgeBlocksStay
    \/ OffsetIgnored \/ SizedForAnother \/ NotEnlarged

-----------------------------------------------------------------------------
(* Why a request may be refused.                                           *)

\* No whole pixel of the region lies in the image.
NothingExtracted(r) ==
    LET p == r.source.picture
    IN  ~Inside(Extracted(r), WidthOf(p), HeightOf(p))

BadRequest(r) ==
    \/ BadParameters(r)
    \/ NothingExtracted(r)
    \/ r.size.kind # "full" /\ ~ValidSize(r.size)

\* The fast backend refuses angles it cannot do, the slow one fails on them.
AngleRefused == OnFast /\ request.degrees \notin {0, 90, 180, 270}
AngleFails   == OnSlow /\ request.degrees % 90 # 0

NoRepository(r) ==
    \A i \in 1..Len(Repositories) :
        ~Supports(Repositories[i], r) \/ NotRecognized(Repositories[i], r.source)

\* The size calculated has no pixels, or too many for one image.
NoSuchSize == request.size.kind # "full" /\ ~Slow!Allocatable(target)

\* The fast backend cannot enlarge.
Enlarges ==
    /\ OnFast /\ Rescaled(request)
    /\ target.w > Extracted(request).w \/ target.h > Extracted(request).h

\* The fast backend crops at block boundaries only.
OffGrid ==
    LET mcu == request.source.picture.mcu
        box == Extracted(request)
    IN  /\ OnFast /\ request.region.kind # "full" /\ ~TakesAll
        /\ box.x % mcu.w # 0 \/ box.y % mcu.h # 0

\* The fast backend offers color and cannot convert to it.
ColorFails == OnFast /\ request.quality = "color"

\* A lossless transformation stops at what a decoder only warns of.
Damaged == OnFast /\ ~request.source.picture.intact

\* It takes the gray from the luminance of YCbCr only.
GrayFails ==
    OnFast /\ request.quality = "gray" /\ request.source.picture.coding \in {"RGB", "CMYK"}

\* 4:1:1 turned sideways is a subsampling without a name.
TurnsNameless ==
    /\ OnFast /\ request.degrees \in {90, 270}
    /\ request.source.picture.mcu = Target(32, 8)

\* The buffer for the result is allocated by the size in pixels.
Overflows == OnFast /\ request.source.picture.bulky

\* The fast repository is asked first and cannot read the header.
HeaderRefusedFor(r) ==
    \E i \in 1..Len(Repositories) :
        Supports(Repositories[i], r) /\ HeaderRefused(Repositories[i], r.source)

-----------------------------------------------------------------------------
(* Properties.                                                             *)

\* Whatever backend serves a request, the picture is the one the parameters
\* ask for, in the format asked for, except in the cases named above.
ServedAsRequested == Served /\ ~KnownDeviation => Right

\* A request is refused as bad for a reason the client can see in its own
\* parameters and in the size of the image; else a backend was confused by a
\* region it cut twice or by an angle.
BadRequestsAreExplained ==
    pc = "done" /\ status = 400 =>
        BadRequest(request) \/ AngleRefused \/ CutTwice

\* Not found is answered for an image that is denied, missing or broken only, or
\* for a subsampling unknown to the fast repository, whatever else is wrong with
\* the request.
NotFoundIsExplained ==
    pc = "done" /\ status = 404 =>
        \/ ~request.allowed
        \/ request.source.state \in {"missing", "broken"}
        \/ HeaderRefusedFor(request)

\* Unsupported is answered only when no repository could do the job: trying one
\* after the other misses none.
UnsupportedIsExplained ==
    pc = "done" /\ status = 415 =>
        request.format \notin FormatsKnown \/ NoRepository(request)

\* A server error, too, has one of these causes; every other request is served
\* or refused.
ServerErrorsAreExplained ==
    pc = "done" /\ status = 500 =>
        \/ NoSuchSize \/ Enlarges \/ OffGrid \/ Damaged
        \/ GrayFails \/ TurnsNameless \/ Overflows
        \/ AngleFails \/ ColorFails \/ CropMeetsTurn \/ CutTwice
        \/ NothingExtracted(request)

\* Every request is answered.
EveryRequestIsAnswered == <>(pc = "done")
=============================================================================
