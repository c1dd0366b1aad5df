------------------------- MODULE LosslessTransform -------------------------
(***************************************************************************)
(* tjTransform() of one image, as JpegImage.transform() asks for it: the   *)
(* blocks that transupp.c moves, the arrays it moves them in, and the      *)
(* buffer the result is written to.                                        *)
(*                                                                         *)
(* A block of coefficients is the source block it came from, whether it    *)
(* was transposed, and then mirrored by changing signs.  Sample values,    *)
(* quantization and entropy coding are left out: what is written has some  *)
(* length.                                                                 *)
(***************************************************************************)
EXTENDS Integers, Sequences, FiniteSetsExt

CONSTANTS DCTSIZE,      \* 8
          Slack,        \* 2048, what tjBufSize() adds
          TableBytes,   \* bounds the headers the compressor writes
          Images, Requests

ASSUME SizesAssumption ==
    DCTSIZE \in Nat \ {0} /\ Slack \in Nat /\ TableBytes \in Nat

\* Images of a JpegImage: tjDecompressHeader3() has named their colour space, by
\* the number of components (default_decompress_parms()).
ASSUME ImagesAssumption ==
    \A i \in Images :
        /\ i.w \in Nat \ {0} /\ i.h \in Nat \ {0} /\ i.markers \in Nat
        /\ i.samp \in Seq([h : 1..4, v : 1..4])
        /\ \/ i.colour = "GRAY" /\ Len(i.samp) = 1
           \/ i.colour \in {"YCC", "RGB"} /\ Len(i.samp) = 3
           \/ i.colour \in {"CMYK", "YCCK"} /\ Len(i.samp) = 4

\* JpegImage.crop() lets no negative offset pass.
ASSUME RequestsAssumption ==
    \A r \in Requests :
        /\ r.op \in {"NONE", "HFLIP", "VFLIP", "TRANSPOSE", "TRANSVERSE",
                     "ROT90", "ROT180", "ROT270"}
        /\ r.gray \in BOOLEAN /\ r.trim \in BOOLEAN /\ r.perfect \in BOOLEAN
        /\ r.crop \in [x : Nat, y : Nat, w : Nat, h : Nat]

VARIABLES pc, image, request,
          info,         \* jpeg_transform_info
          out,          \* the destination: size and sampling factors
          size,         \* of the destination buffer
          blocks,       \* per component, what the destination array holds
          result

vars == <<pc, image, request, info, out, size, blocks, result>>

Transforms == {"NONE", "HFLIP", "VFLIP", "TRANSPOSE", "TRANSVERSE",
               "ROT90", "ROT180", "ROT270"}
Sideways   == {"TRANSPOSE", "TRANSVERSE", "ROT90", "ROT270"}
\* The transforms that mirror what they put out, left to right and upside down.
MirrorsX   == {"HFLIP", "TRANSVERSE", "ROT90", "ROT180"}
MirrorsY   == {"VFLIP", "TRANSVERSE", "ROT180", "ROT270"}

NoCrop  == [x |-> 0, y |-> 0, w |-> 0, h |-> 0]
Nothing == <<>>

CeilDiv(a, b) == (a + b - 1) \div b
RoundUp(a, b) == CeilDiv(a, b) * b

\* An image: w, h, a colour space, and sampling factors h, v per component.
MaxH(samp) == Max({samp[c].h : c \in DOMAIN samp})
MaxV(samp) == Max({samp[c].v : c \in DOMAIN samp})
Swapped(samp) == [c \in DOMAIN samp |-> [h |-> samp[c].v, v |-> samp[c].h]]

\* width_in_blocks and height_in_blocks of a component.
BlocksAcross(i, c) == CeilDiv(i.w * i.samp[c].h, MaxH(i.samp) * DCTSIZE)
BlocksDown(i, c)   == CeilDiv(i.h * i.samp[c].v, MaxV(i.samp) * DCTSIZE)

\* The coefficient arrays of the source are padded to whole iMCUs.
SourceColumns(c) == RoundUp(BlocksAcross(image, c), image.samp[c].h)
SourceRows(c)    == RoundUp(BlocksDown(image, c), image.samp[c].v)

-----------------------------------------------------------------------------
(* Subsampling.                                                            *)

Subsamplings == [S444 |-> <<1, 1>>, S422 |-> <<2, 1>>, S420 |-> <<2, 2>>,
                 GRAY |-> <<1, 1>>, S440 |-> <<1, 2>>, S411 |-> <<4, 1>>]
McuWidth(s)  == DCTSIZE * Subsamplings[s][1]
McuHeight(s) == DCTSIZE * Subsamplings[s][2]

\* Of YCCK the fourth component is sampled like the first.
Matches(i, first, others) ==
    /\ i.samp[1] = first
    /\ \A k \in 2..Len(i.samp) :
          i.samp[k] = IF i.colour = "YCCK" /\ k = 4 THEN first ELSE others

Sampling(h, v) == [h |-> h, v |-> v]
Standard(s)    == Sampling(Subsamplings[s][1], Subsamplings[s][2])

\* 4:2:2 and 4:4:0 may also be written with factors twice as large.
GetSubsamp(i) ==
    IF i.colour = "GRAY" THEN "GRAY"
    ELSE LET found == {s \in DOMAIN Subsamplings \ {"GRAY"} :
                 \/ Matches(i, Standard(s), Sampling(1, 1))
                 \/ /\ s \in {"S422", "S440"}
                    /\ Matches(i, Sampling(2, 2), Sampling(Standard(s).v, Standard(s).h))}
         IN  IF found = {} THEN "unknown" ELSE CHOOSE s \in found : TRUE

(* (Fault: the size is not padded to whole MCUs.) *)
BufSizeUnpadded(w, h, s) ==
    w * h * (2 + IF s = "GRAY" THEN 0
                 ELSE (4 * DCTSIZE * DCTSIZE) \div (McuWidth(s) * McuHeight(s))) + Slack

BufSize(w, h, s) ==
    RoundUp(w, McuWidth(s)) * RoundUp(h, McuHeight(s))
        * (2 + IF s = "GRAY" THEN 0
               ELSE (4 * DCTSIZE * DCTSIZE) \div (McuWidth(s) * McuHeight(s))) + Slack

-----------------------------------------------------------------------------
(* jtransform_request_workspace().                                         *)

PartialX(i, mcu) == i.w % mcu.w # 0
PartialY(i, mcu) == i.h % mcu.h # 0

\* jtransform_perfect_transform()
Perfect(i, mcu, op) ==
    /\ op \in {"HFLIP", "ROT270", "TRANSVERSE", "ROT180"} => ~PartialX(i, mcu)
    /\ op \in {"VFLIP", "ROT90", "TRANSVERSE", "ROT180"} => ~PartialY(i, mcu)

SingleComponent ==
    Len(image.samp) = 1 \/ (request.gray /\ image.colour = "YCC" /\ Len(image.samp) = 3)

SourceMcu == IF SingleComponent THEN [w |-> DCTSIZE, h |-> DCTSIZE]
             ELSE [w |-> MaxH(image.samp) * DCTSIZE, h |-> MaxV(image.samp) * DCTSIZE]

Turned(s) == [w |-> s.h, h |-> s.w]

(* (Fault: the offset is checked, the extent is not.) *)
CropFitsAtCorner(r, full) == r.x < full.w /\ r.y < full.h

CropFits(r, full) ==
    /\ r.x < full.w /\ r.y < full.h
    /\ r.w \in 1..full.w /\ r.x <= full.w - r.w
    /\ r.h \in 1..full.h /\ r.y <= full.h - r.h

\* trim_right_edge() and trim_bottom_edge(), of one direction: a partial iMCU
\* goes if it is that of the image and not all there is.
Trimmed(length, offset, mcu, full) ==
    LET whole == length \div mcu
    IN  IF whole > 0 /\ offset + whole = full \div mcu THEN whole * mcu ELSE length

\* The sampling factors in the workspace, and whether there is one at all.
WorkspaceSampling(op) ==
    [c \in 1..(IF SingleComponent THEN 1 ELSE Len(image.samp)) |->
        IF SingleComponent THEN Sampling(1, 1)
        ELSE IF op \in Sideways THEN Swapped(image.samp)[c] ELSE image.samp[c]]

NeedsWorkspace(op, x, y) ==
    CASE op = "NONE"  -> x # 0 \/ y # 0
      [] op = "HFLIP" -> y # 0
      [] OTHER        -> TRUE

Workspace(r) ==
    LET op   == r.op
        mcu  == IF op \in Sideways THEN Turned(SourceMcu) ELSE SourceMcu
        full == IF op \in Sideways THEN Turned([w |-> image.w, h |-> image.h])
                                   ELSE [w |-> image.w, h |-> image.h]
        w    == IF r.crop = NoCrop THEN full.w ELSE r.crop.w + (r.crop.x % mcu.w)
        h    == IF r.crop = NoCrop THEN full.h ELSE r.crop.h + (r.crop.y % mcu.h)
        x    == r.crop.x \div mcu.w
        y    == r.crop.y \div mcu.h
        outW == IF r.trim /\ op \in MirrorsX THEN Trimmed(w, x, mcu.w, full.w) ELSE w
        outH == IF r.trim /\ op \in MirrorsY THEN Trimmed(h, y, mcu.h, full.h) ELSE h
    IN  [w |-> outW, h |-> outH, x |-> x, y |-> y, mcu |-> mcu, full |-> full,
         needed  |-> NeedsWorkspace(op, x, y),
         samp    |-> WorkspaceSampling(op),
         columns |-> CeilDiv(outW, mcu.w), rows |-> CeilDiv(outH, mcu.h)]

Init ==
    /\ pc = "header"
    /\ image \in Images /\ request \in Requests
    /\ request.crop # NoCrop =>      \* what JpegImage.crop() lets pass
          CropFits(request.crop, [w |-> image.w, h |-> image.h])
    /\ info = Nothing /\ out = Nothing /\ blocks = Nothing
    /\ size = 0
    /\ result = "none"

Refuse(reason) ==
    /\ pc' = "over" /\ result' = reason
    /\ UNCHANGED <<image, request, info, out, size, blocks>>

Continue(step) == pc' = step /\ UNCHANGED <<image, request, result>>

ReadHeader ==
    /\ pc = "header"
    /\ \/ GetSubsamp(image) = "unknown" /\ Refuse("unknown subsampling")
       \/ /\ GetSubsamp(image) # "unknown"
          /\ Continue("workspace") /\ UNCHANGED <<info, out, size, blocks>>

RequestWorkspace ==
    /\ pc = "workspace"
    /\ LET r        == request
           wanted   == Workspace(r)
           perfect  == ~r.perfect \/ Perfect(image, SourceMcu, r.op)
           fits     == r.crop = NoCrop \/ CropFits(r.crop, wanted.full)
           onCorner == r.crop.x % wanted.mcu.w = 0 /\ r.crop.y % wanted.mcu.h = 0
       IN  \/ ~perfect /\ Refuse("not perfect")
           \/ perfect /\ ~fits /\ Refuse("bad crop")
           \/ perfect /\ fits /\ ~onCorner /\ Refuse("crop corner")
           \/ /\ perfect /\ fits /\ onCorner
              /\ info' = wanted
              /\ Continue("adjust") /\ UNCHANGED <<out, size, blocks>>

-----------------------------------------------------------------------------
(* jtransform_adjust_parameters() and the size of the buffer.              *)

GrayPossible ==
    /\ image.colour \in {"YCC", "GRAY"}
    /\ image.samp[1] = Sampling(MaxH(image.samp), MaxV(image.samp))

(* (Fault: the factors of the first component only are transposed.) *)
DestinationLumaOnly ==
    [w |-> info.w, h |-> info.h,
     colour |-> IF request.gray THEN "GRAY" ELSE image.colour,
     samp |-> IF Len(info.samp) = 1 THEN <<Sampling(1, 1)>>
              ELSE IF request.op \in Sideways
                   THEN [image.samp EXCEPT ![1] = Swapped(image.samp)[1]] ELSE image.samp]

Destination ==
    [w |-> info.w, h |-> info.h,
     colour |-> IF request.gray THEN "GRAY" ELSE image.colour,
     samp |-> IF Len(info.samp) = 1 THEN <<Sampling(1, 1)>>
              ELSE IF request.op \in Sideways THEN Swapped(image.samp) ELSE image.samp]

AdjustParameters ==
    /\ pc = "adjust"
    /\ \/ request.gray /\ ~GrayPossible /\ Refuse("no conversion")
       \/ /\ request.gray => GrayPossible
          /\ size' = LET s == GetSubsamp(image)
                     IN  IF request.crop = NoCrop THEN BufSize(image.w, image.h, s)
                         ELSE BufSize(request.crop.w, request.crop.h, s)
          /\ out' = Destination
          /\ Continue("execute") /\ UNCHANGED <<info, blocks>>

-----------------------------------------------------------------------------
(* jtransform_execute_transform(): which source block each one becomes.    *)

Block(x, y, transposed, mirroredX, mirroredY) ==
    [x |-> x, y |-> y, t |-> transposed, mx |-> mirroredX, my |-> mirroredY]

\* The part of component c that can be mirrored, and where the crop begins.
CompWidth(c) ==
    (info.full.w \div (MaxH(out.samp) * DCTSIZE)) * out.samp[c].h
CompHeight(c) ==
    (info.full.h \div (MaxV(out.samp) * DCTSIZE)) * out.samp[c].v
Left(c, x) == info.x * out.samp[c].h + x
Top(c, y)  == info.y * out.samp[c].v + y

\* Whole rows of iMCUs are processed, and columns of them when transposing.
InX(c, x) == Left(c, x - (x % out.samp[c].h)) < CompWidth(c)
InY(c, y) == Top(c, y - (y % out.samp[c].v)) < CompHeight(c)
FromRight(c, x)  == CompWidth(c) - Left(c, x) - 1
FromBottom(c, y) == CompHeight(c) - Top(c, y) - 1

DoCrop(c, x, y) == Block(Left(c, x), Top(c, y), FALSE, FALSE, FALSE)

DoFlipH(c, x, y) ==
    IF Left(c, x) < CompWidth(c)
    THEN Block(FromRight(c, x), Top(c, y), FALSE, TRUE, FALSE)
    ELSE Block(Left(c, x), Top(c, y), FALSE, FALSE, FALSE)

DoFlipV(c, x, y) ==
    IF InY(c, y) THEN Block(Left(c, x), FromBottom(c, y), FALSE, FALSE, TRUE)
    ELSE Block(Left(c, x), Top(c, y), FALSE, FALSE, FALSE)

DoTranspose(c, x, y) == Block(Top(c, y), Left(c, x), TRUE, FALSE, FALSE)

(* (Fault: the crop offset is forgotten where rows are counted from below.) *)
DoRot270Uncropped(c, x, y) ==
    IF InY(c, y) THEN Block(CompHeight(c) - y - 1, Left(c, x), TRUE, FALSE, TRUE)
    ELSE Block(Top(c, y), Left(c, x), TRUE, FALSE, FALSE)

DoRot90(c, x, y) ==
    IF InX(c, x) THEN Block(Top(c, y), FromRight(c, x), TRUE, TRUE, FALSE)
    ELSE Block(Top(c, y), Left(c, x), TRUE, FALSE, FALSE)

DoRot270(c, x, y) ==
    IF InY(c, y) THEN Block(FromBottom(c, y), Left(c, x), TRUE, FALSE, TRUE)
    ELSE Block(Top(c, y), Left(c, x), TRUE, FALSE, FALSE)

DoRot180(c, x, y) ==
    LET mirrored == Left(c, x) < CompWidth(c)
    IN  Block(IF mirrored THEN FromRight(c, x) ELSE Left(c, x),
              IF InY(c, y) THEN FromBottom(c, y) ELSE Top(c, y),
              FALSE, mirrored, InY(c, y))

DoTransverse(c, x, y) ==
    Block(IF InY(c, y) THEN FromBottom(c, y) ELSE Top(c, y),
          IF InX(c, x) THEN FromRight(c, x) ELSE Left(c, x),
          TRUE, InX(c, x), InY(c, y))

Columns(n) == 0..(n - 1)
SourceRow(c, y) == [x \in Columns(SourceColumns(c)) |-> Block(x, y, FALSE, FALSE, FALSE)]
Mirror(b) == [b EXCEPT !.mx = ~@]

\* do_flip_h_no_crop() works in place: blocks are swapped from both ends
\* inwards, one in the middle with itself, and then moved to the left.
FlippedRow(c, y) ==
    LET width == CompWidth(c)
        swap[n \in 0..CeilDiv(width, 2)] ==
            IF n = 0 THEN SourceRow(c, y)
            ELSE LET row == swap[n - 1]
                 IN  [row EXCEPT ![n - 1] = Mirror(row[width - n]),
                                 ![width - n] = Mirror(row[n - 1])]
    IN  swap[CeilDiv(width, 2)]

InPlace(c, y) ==
    LET move[n \in 0..BlocksAcross(out, c)] ==
            IF n = 0 THEN FlippedRow(c, y)
            ELSE LET row == move[n - 1] IN [row EXCEPT ![n - 1] = row[Left(c, n - 1)]]
    IN  IF info.x = 0 THEN FlippedRow(c, y) ELSE move[BlocksAcross(out, c)]

\* What a routine writes: rows of whole iMCUs, and columns when transposing.
Written(c) ==
    Columns(IF request.op \in Sideways THEN RoundUp(BlocksAcross(out, c), out.samp[c].h)
            ELSE BlocksAcross(out, c))
        \X Columns(RoundUp(BlocksDown(out, c), out.samp[c].v))

Moved(Routine(_, _, _), c) == [p \in Written(c) |-> Routine(c, p[1], p[2])]

Transformed(c) ==
    CASE request.op = "NONE" /\ info.needed -> Moved(DoCrop, c)
      [] request.op = "NONE" /\ ~info.needed ->
             [p \in Columns(SourceColumns(c)) \X Columns(SourceRows(c)) |->
                 Block(p[1], p[2], FALSE, FALSE, FALSE)]
      [] request.op = "HFLIP" /\ info.needed -> Moved(DoFlipH, c)
      [] request.op = "HFLIP" /\ ~info.needed ->
             LET rows == [y \in Columns(RoundUp(BlocksDown(out, c), out.samp[c].v)) |->
                             InPlace(c, y)]
             IN  [p \in Columns(SourceColumns(c)) \X DOMAIN rows |-> rows[p[2]][p[1]]]
      [] request.op = "VFLIP"      -> Moved(DoFlipV, c)
      [] request.op = "TRANSPOSE"  -> Moved(DoTranspose, c)
      [] request.op = "TRANSVERSE" -> Moved(DoTransverse, c)
      [] request.op = "ROT90"      -> Moved(DoRot90, c)
      [] request.op = "ROT180"     -> Moved(DoRot180, c)
      [] request.op = "ROT270"     -> Moved(DoRot270, c)

ExecuteTransform ==
    /\ pc = "execute"
    /\ blocks' = [c \in DOMAIN out.samp |-> Transformed(c)]
    /\ Continue("write") /\ UNCHANGED <<info, out, size>>

-----------------------------------------------------------------------------
(* The compressor's output, and what JpegImage does with it.               *)

\* Samples of the result, padded to whole iMCUs.
Uncompressed ==
    LET blocksOf(c) == RoundUp(BlocksAcross(out, c), out.samp[c].h)
                           * RoundUp(BlocksDown(out, c), out.samp[c].v)
        upTo[c \in 0..Len(out.samp)] == IF c = 0 THEN 0 ELSE upTo[c - 1] + blocksOf(c)
    IN  DCTSIZE * DCTSIZE * upTo[Len(out.samp)]

\* empty_mem_output_buffer() is called as soon as the buffer is full.
Overruns(length) == length >= size

\* Entropy-coded data are taken to be no longer than the samples.  All the
\* markers of the source are copied.
WriteCoefficients ==
    /\ pc = "write"
    /\ \E tables \in {0, TableBytes}, data \in {0, Uncompressed} :
          LET length == tables + image.markers + data
          IN  \/ Overruns(length) /\ Refuse("too small")
              \/ /\ ~Overruns(length)
                 /\ Continue("reopen") /\ UNCHANGED <<info, out, size, blocks>>

\* setImageData() reads the header of the result.
Reopen ==
    /\ pc = "reopen"
    /\ Refuse(IF GetSubsamp(out) = "unknown" THEN "unreadable" ELSE "done")

Next ==
    \/ ReadHeader \/ RequestWorkspace \/ AdjustParameters
    \/ ExecuteTransform \/ WriteCoefficients \/ Reopen
    \/ pc = "over" /\ UNCHANGED vars

Spec == Init /\ [][Next]_vars

-----------------------------------------------------------------------------
(* Properties.                                                             *)

Executed == blocks # Nothing

\* No routine reads or writes outside of the arrays it was given, and the
\* compressor finds every block it is going to read.
ArraysSuffice ==
    Executed => \A c \in DOMAIN blocks :
        /\ \A p \in DOMAIN blocks[c] :
              /\ blocks[c][p].x \in Columns(SourceColumns(c))
              /\ blocks[c][p].y \in Columns(SourceRows(c))
              /\ info.needed => /\ p[1] < info.columns * info.samp[c].h
                                /\ p[2] < info.rows * info.samp[c].v
        /\ Columns(BlocksAcross(out, c)) \X Columns(BlocksDown(out, c))
              \subseteq DOMAIN blocks[c]

\* Where a sample of the result comes from, as its block says.
SampleOf(b, x, y) ==
    LET i == IF b.mx THEN DCTSIZE - 1 - (x % DCTSIZE) ELSE x % DCTSIZE
        j == IF b.my THEN DCTSIZE - 1 - (y % DCTSIZE) ELSE y % DCTSIZE
    IN  IF b.t THEN <<b.x * DCTSIZE + j, b.y * DCTSIZE + i>>
               ELSE <<b.x * DCTSIZE + i, b.y * DCTSIZE + j>>

\* Where it should come from: the whole iMCUs of the image are mirrored as one
\* picture, what is beyond them stays where it is.
WholeX(c) == (info.full.w \div info.mcu.w) * out.samp[c].h * DCTSIZE
WholeY(c) == (info.full.h \div info.mcu.h) * out.samp[c].v * DCTSIZE
Reflected(n, whole, on) == IF on /\ n < whole THEN whole - 1 - n ELSE n
Origin(c, x, y) ==
    LET X == Reflected(x + info.x * out.samp[c].h * DCTSIZE, WholeX(c), request.op \in MirrorsX)
        Y == Reflected(y + info.y * out.samp[c].v * DCTSIZE, WholeY(c), request.op \in MirrorsY)
    IN  IF request.op \in Sideways THEN <<Y, X>> ELSE <<X, Y>>

Samples(c) == Columns(BlocksAcross(out, c) * DCTSIZE)
                  \X Columns(BlocksDown(out, c) * DCTSIZE)

\* Every sample of every component is where the transform, then the crop, put
\* it, whatever the block sizes, the subsampling and the offsets.
MovesEverySample ==
    Executed => \A c \in DOMAIN blocks : \A p \in Samples(c) :
        SampleOf(blocks[c][<<p[1] \div DCTSIZE, p[2] \div DCTSIZE>>], p[1], p[2])
            = Origin(c, p[1], p[2])

\* A picture asked to be perfect, or to be trimmed, shows no strip at an edge
\* that was not mirrored with the rest, unless it is a strip and nothing else.
NoStripIsLeftOver ==
    Executed /\ (request.perfect \/ request.trim) =>
        /\ request.op \in MirrorsX => \/ info.w < info.mcu.w
                                      \/ info.x * info.mcu.w + info.w
                                             <= (info.full.w \div info.mcu.w) * info.mcu.w
        /\ request.op \in MirrorsY => \/ info.h < info.mcu.h
                                      \/ info.y * info.mcu.h + info.h
                                             <= (info.full.h \div info.mcu.h) * info.mcu.h

Slanted == request.op \in Sideways /\ request.crop # NoCrop

\* Four components of 4:2:2 or 4:4:0 with factors twice as large: their MCUs are
\* larger than those of the name that getSubsamp() gives.
FourDoubled == Len(image.samp) = 4 /\ image.samp[1] # Standard(GetSubsamp(image))

\* The buffer is too small only for markers that are longer than what
\* tjBufSize() adds, for a crop of an image turned sideways whose MCUs are not
\* square, which it pads in the wrong direction, or for four components of which
\* it knows the sampling by a name only.
TooSmallForACause ==
    result = "too small" =>
        \/ TableBytes + image.markers >= Slack
        \/ Slanted /\ LET s == GetSubsamp(image) IN McuWidth(s) # McuHeight(s)
        \/ FourDoubled

\* What tjTransform() makes its own header reader takes, 4:1:1 turned sideways
\* excepted: its subsampling has no name.
UnreadableForACause ==
    result = "unreadable" =>
        GetSubsamp(image) = "S411" /\ request.op \in Sideways /\ ~request.gray

\* turbojpeg.h of tjBufSize(): "The maximum size of the buffer (in bytes) required
\* to hold a JPEG image with the given parameters."
BufferHoldsTheImage == result # "too small"
=============================================================================
