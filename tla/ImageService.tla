---------------------------- MODULE ImageService ----------------------------
(***************************************************************************)
(* One image request, from the controller to the answer:                   *)
(* IIIFImageApiController.getImageRepresentation() parses the parameters,  *)
(* ImageServiceImpl.processImage() asks the security service, lets the     *)
(* repositories try in order, and transforms the image step by step, with  *)
(* the operations of JpegTranImage (fast) or of JAIImage (slow).           *)
(*                                                                         *)
(* The caches are module SourceCache; here a source is what a repository   *)
(* reads when it loads the image.                                          *)
(***************************************************************************)
EXTENDS IiifParameters, Pictures

CONSTANTS Repositories,     \* the repositories in the order they are tried
          WritableFormats,  \* the formats ImageIO has a writer for
          Requests          \* what clients ask for

FormatsKnown == {"GIF", "JP2", "JPEG", "PDF", "PNG", "TIF", "WEBP"}
Qualities    == {"bitonal", "color", "default", "gray", "native"}

\* missing: not to be resolved or read; broken: the header does not parse;
\* alien: no reader knows the format; sound: width and height can be read.
SourceStates == {"missing", "broken", "alien", "sound"}

Source(state, format, picture) ==
    [state |-> state, format |-> format, picture |-> picture]

ASSUME RepositoriesAssumption == Repositories \in Seq({"JpegTran", "ImageIO"})
ASSUME FormatsAssumption == "JPEG" \in WritableFormats /\ WritableFormats \subseteq FormatsKnown
\* The source is a file as it is loaded: upright, of any colours and in blocks of
\* eight samples times a sampling factor.  An image as wide or high as MaxInt fits no memory.
ASSUME RequestsAssumption ==
    \A r \in Requests :
        /\ r.source.state \in SourceStates
        /\ LET p == r.source.picture
           IN  /\ p \in Picture
               /\ p = Coded(Original(p.frame.w, p.frame.h, p.mcu, p.intact), p.coding, p.bulky)
               /\ p.frame.w \in Nat \ {0} /\ p.frame.w < MaxInt
               /\ p.frame.h \in Nat \ {0} /\ p.frame.h < MaxInt
               /\ p.mcu.w \in {8, 16, 24, 32} /\ p.mcu.h \in {8, 16, 24, 32}
               /\ p.intact \in BOOLEAN
        /\ r.allowed \in BOOLEAN
        /\ r.region.kind \in RegionKinds
        /\ r.region.x \in Int /\ r.region.y \in Int
        /\ r.region.w \in Int /\ r.region.h \in Int
        /\ r.size.kind \in SizeKinds
        /\ r.size.w \in Int /\ r.size.h \in Int
        /\ r.size.kind = "width" => r.size.h = 0
        /\ r.size.kind = "height" => r.size.w = 0
        /\ r.mirror \in BOOLEAN /\ r.degrees \in Int

VARIABLES pc,
          request,      \* the parameters as parsed
          tried,        \* how many repositories have been passed over
          backend,      \* whose image it is
          region,       \* regionParameters, which makeAbsolute() overwrites
          target,       \* sizeParameters, replaced by the calculated size
          status,       \* of the answer
          data, size, pending, raised, width, height,   \* the image: JpegTranImage
          format,                                       \* the image: JAIImage
          thrown

image   == <<data, size, pending, raised, width, height, format>>
control == <<request, tried, backend>>
params  == <<region, target>>
vars    == <<pc, control, params, status, image, thrown>>

Fast == INSTANCE JpegTranImage
Slow == INSTANCE JAIImage

OnFast == backend = "JpegTran"
OnSlow == backend = "ImageIO"

NoPicture == Original(0, 0, [w |-> 8, h |-> 8], FALSE)

Init ==
    /\ pc = "parse"
    /\ request \in Requests
    /\ tried = 0
    /\ backend = "none"
    /\ region = request.region
    /\ target = NoTarget
    /\ status = 0
    /\ data = NoPicture /\ size = NoTarget /\ pending = Fast!Jpeg!Nothing /\ raised = "none"
    /\ width = 0 /\ height = 0
    /\ format = "none"
    /\ thrown = "none"

-----------------------------------------------------------------------------
Goto(step)  == pc' = step /\ UNCHANGED status
Answer(code) == pc' = "done" /\ status' = code

\* (Fault: invalid parameters found late are not caught.)
StatusForUncaught(e) ==
    CASE e = "UnsupportedFormat" -> 415
      [] e = "ResourceNotFound"  -> 404
      [] OTHER                   -> 500

\* The controller turns these exceptions into answers of their own; all
\* others are left to the container, which answers 500.
StatusFor(e) ==
    CASE e = "InvalidParameters" -> 400
      [] e = "UnsupportedFormat" -> 415
      [] e = "ResourceNotFound"  -> 404
      [] OTHER                   -> 500

\* A step of transformImage() that may throw.
Continue(step) ==
    IF thrown' = "none" THEN Goto(step) ELSE Answer(StatusFor(thrown'))

Skip(step) == Goto(step) /\ UNCHANGED <<control, params, image, thrown>>

\* An operation of the image in hand, by the class the image has.
OnImage(fastOp, slowOp) ==
    \/ OnFast /\ fastOp /\ UNCHANGED format
    \/ OnSlow /\ slowOp /\ UNCHANGED <<size, pending, raised, width, height>>

-----------------------------------------------------------------------------
(* Controller and parser service.                                          *)

BadParameters(r) ==
    \/ r.region.kind = "malformed"
    \/ r.size.kind = "malformed"
    \/ r.degrees < 0 \/ r.degrees > 360
    \/ r.quality \notin Qualities

\* The format is parsed last.
Parse ==
    /\ pc = "parse"
    /\ UNCHANGED <<control, params, image, thrown>>
    /\ \/ BadParameters(request) /\ Answer(400)
       \/ ~BadParameters(request) /\ request.format \notin FormatsKnown /\ Answer(415)
       \/ ~BadParameters(request) /\ request.format \in FormatsKnown /\ Goto("authorize")

Depth(r) ==
    CASE r.quality = "bitonal" -> "BITONAL"
      [] r.quality = "color"   -> "COLOR"
      [] r.quality = "gray"    -> "GRAYSCALE"
      [] OTHER                 -> "source"

-----------------------------------------------------------------------------
(* Access and choice of the repository.                                    *)

Authorize ==
    /\ pc = "authorize"
    /\ UNCHANGED <<control, params, image, thrown>>
    /\ IF request.allowed THEN Goto("select") ELSE Answer(404)

\* The test of the fast repository looks at the parsed numbers, which are
\* fractions when the region is relative.
Divisible(r) ==
    r.kind = "full" \/ \A v \in {r.x, r.y, r.w, r.h} : v % (8 * Hundred) = 0

Supports(repo, r) ==
    CASE repo = "JpegTran" -> /\ Divisible(r.region)
                              /\ r.format = "JPEG"
                              /\ Depth(r) # "BITONAL"
      [] repo = "ImageIO"  -> r.format \in WritableFormats

Candidate == Repositories[tried + 1]

\* (Fault: no image is taken for not found.)
NoneLeftNotFound ==
    /\ pc = "select" /\ tried = Len(Repositories)
    /\ Answer(404)
    /\ UNCHANGED <<control, params, image, thrown>>

NoneLeft ==
    /\ pc = "select" /\ tried = Len(Repositories)
    /\ Answer(415)
    /\ UNCHANGED <<control, params, image, thrown>>

\* (Fault: the loop does not advance.)
PassOverInPlace ==
    /\ Goto("select")
    /\ UNCHANGED <<control, params, image, thrown>>

PassOver ==
    /\ tried' = tried + 1
    /\ Goto("select")
    /\ UNCHANGED <<request, backend, params, image, thrown>>

\* (Fault: the first repository decides.)
NotSupportedAtAll ==
    /\ pc = "select" /\ tried < Len(Repositories)
    /\ ~Supports(Candidate, request)
    /\ Answer(415)
    /\ UNCHANGED <<control, params, image, thrown>>

NotSupported ==
    /\ pc = "select" /\ tried < Len(Repositories)
    /\ ~Supports(Candidate, request)
    /\ PassOver

\* What a repository cannot identify it leaves to the next one.
NotRecognized(repo, source) ==
    \/ source.state = "alien"
    \/ repo = "JpegTran" /\ source.state # "missing" /\ source.format # "JPEG"

Unrecognized ==
    /\ pc = "select" /\ tried < Len(Repositories)
    /\ Supports(Candidate, request)
    /\ NotRecognized(Candidate, request.source)
    /\ PassOver

\* TurboJPEG reads no header whose subsampling it has no name for; its exception
\* is an IOException like any other.
HeaderRefused(repo, source) ==
    repo = "JpegTran" /\ source.state = "sound" /\ ~Fast!Jpeg!Readable(source.picture)

\* A source that cannot be read, or whose header is broken or refused, ends the
\* search: the repository returns null, and null is not found.  ImageIO looks
\* at the rectangle before it looks at the header.
RejectsRectangle(source) ==
    /\ source.state = "broken" /\ Candidate = "ImageIO"
    /\ region.kind = "absolute" /\ ~Slow!Settable(Slow!Corner(region))

Unreadable ==
    /\ pc = "select" /\ tried < Len(Repositories)
    /\ Supports(Candidate, request)
    /\ ~NotRecognized(Candidate, request.source)
    /\ \/ request.source.state \in {"missing", "broken"}
       \/ HeaderRefused(Candidate, request.source)
    /\ IF RejectsRectangle(request.source) THEN Answer(400) ELSE Answer(404)
    /\ UNCHANGED <<control, params, image, thrown>>

Load ==
    /\ pc = "select" /\ tried < Len(Repositories)
    /\ Supports(Candidate, request)
    /\ ~NotRecognized(Candidate, request.source)
    /\ request.source.state = "sound" /\ ~HeaderRefused(Candidate, request.source)
    /\ backend' = Candidate
    /\ UNCHANGED <<request, tried, params>>
    /\ \/ /\ Candidate = "JpegTran"
          /\ Fast!Load(request.source.picture)
          /\ format' = "JPEG"
          /\ Goto("absolute")
       \/ /\ Candidate = "ImageIO"
          /\ Slow!Read(request.source.picture, request.source.format, region)
          /\ UNCHANGED <<size, pending, raised, width, height>>
          /\ IF thrown' = "none" THEN Goto("absolute") ELSE Answer(400)

-----------------------------------------------------------------------------
(* transformImage().                                                       *)

Width  == IF OnFast THEN width  ELSE WidthOf(data)
Height == IF OnFast THEN height ELSE HeightOf(data)

MakeAbsolute ==
    /\ pc = "absolute" /\ region.kind = "relative"
    /\ region' = Absolute(region, Width, Height)
    /\ UNCHANGED <<control, target, image, thrown>>
    /\ IF OffsetBeyond(region', Width, Height) THEN Answer(400) ELSE Goto("crop")

AlreadyAbsolute ==
    /\ pc = "absolute" /\ region.kind # "relative"
    /\ Skip("crop")

\* The region is taken for the whole image when its width and height are the
\* image's, whatever its offset.
TakesAll == region.w = Hundred * Width /\ region.h = Hundred * Height

Crop ==
    /\ pc = "crop" /\ region.kind # "full" /\ ~TakesAll
    /\ OnImage(Fast!Crop(region), Slow!Crop(region))
    /\ UNCHANGED <<control, params>>
    /\ Continue("size")

NoCrop ==
    /\ pc = "crop" /\ (region.kind = "full" \/ TakesAll)
    /\ Skip("size")

\* The size is calculated from the region's width and height as the region
\* stands, without the image's edge.
CalculateSize ==
    LET w == IF region.kind = "full" THEN Width  ELSE Trunc(region.w)
        h == IF region.kind = "full" THEN Height ELSE Trunc(region.h)
    IN  /\ pc = "size" /\ request.size.kind # "full"
        /\ UNCHANGED <<control, region, image, thrown>>
        /\ \/ /\ ValidSize(request.size)
              /\ target' = Resize(request.size, w, h)
              /\ Goto("scale")
           \/ /\ ~ValidSize(request.size)
              /\ UNCHANGED target
              /\ Answer(400)

FullSize ==
    /\ pc = "size" /\ request.size.kind = "full"
    /\ Skip("mirror")

Scale ==
    /\ pc = "scale"
    /\ OnImage(Fast!Scale(target), Slow!Scale(target))
    /\ UNCHANGED <<control, params>>
    /\ Continue("mirror")

Mirror ==
    /\ pc = "mirror" /\ request.mirror
    /\ OnImage(Fast!FlipHorizontally, Slow!FlipHorizontally)
    /\ UNCHANGED <<control, params>>
    /\ Continue("rotate")

NoMirror == pc = "mirror" /\ ~request.mirror /\ Skip("rotate")

Rotate ==
    /\ pc = "rotate" /\ request.degrees > 0
    /\ OnImage(Fast!Rotate(request.degrees), Slow!Rotate(request.degrees))
    /\ UNCHANGED <<control, params>>
    /\ Continue("depth")

NoRotate == pc = "rotate" /\ request.degrees = 0 /\ Skip("depth")

ToDepth ==
    /\ pc = "depth" /\ Depth(request) # "source"
    /\ OnImage(Fast!ToDepth(Depth(request)), Slow!ToDepth(Depth(request)))
    /\ UNCHANGED <<control, params>>
    /\ Continue("convert")

NoDepth == pc = "depth" /\ Depth(request) = "source" /\ Skip("convert")

Convert ==
    /\ pc = "convert" /\ request.format # format
    /\ OnImage(Fast!Convert, Slow!Convert(request.format))
    /\ UNCHANGED <<control, params>>
    /\ Continue("perform")

NoConvert == pc = "convert" /\ request.format = format /\ Skip("perform")

\* performTransformation(), after which the controller fetches the bytes.
Perform ==
    /\ pc = "perform"
    /\ OnImage(Fast!PerformTransformation, Slow!PerformTransformation)
    /\ UNCHANGED <<control, params>>
    /\ IF thrown' = "none" THEN Answer(200) ELSE Answer(StatusFor(thrown'))

Step ==
    \/ Parse \/ Authorize
    \/ NoneLeft \/ NotSupported \/ Unrecognized \/ Unreadable \/ Load
    \/ MakeAbsolute \/ AlreadyAbsolute \/ Crop \/ NoCrop
    \/ CalculateSize \/ FullSize \/ Scale
    \/ Mirror \/ NoMirror \/ Rotate \/ NoRotate
    \/ ToDepth \/ NoDepth \/ Convert \/ NoConvert \/ Perform

Done == pc = "done" /\ UNCHANGED vars

Next == Step \/ Done

\* A request runs on a thread of the servlet container to its end.
Spec == Init /\ [][Next]_vars /\ WF_vars(Step)
=============================================================================
