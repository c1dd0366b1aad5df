-------------------------------- MODULE Epeg --------------------------------
(***************************************************************************)
(* epeg_main.c as the native scaler uses it: open a JPEG file in memory,   *)
(* decode it at a fraction of its size, scale the pixels in place, encode  *)
(* them into a memory block that grows by one buffer at a time, close.     *)
(* Every allocation may fail, any number of times; libjpeg's errors leave  *)
(* a function by longjmp().  Pixels are identified by where they were in   *)
(* the decoded picture, the bytes of the new file by the part of it they   *)
(* encode.                                                                 *)
(***************************************************************************)
EXTENDS Integers, Sequences

CONSTANTS Files,         \* what may be scaled
          BufferSize,    \* parts of a file that fill one buffer of 65536 bytes
          SizeLimit,     \* 2^31 in such parts: the sizes an int cannot hold
          Word           \* 2^32: where a product of unsigned ints wraps

\* texts: the markers of a file whose text epeg keeps, comments and the
\* Thumb:: markers of a location and of a type; comps: what a pixel is
\* decoded to, one sample, three or four.
TextNames == {"comment", "uri", "mime"}

ASSUME FilesAssumption ==
    \A f \in Files : /\ f.w \in Nat \ {0} /\ f.h \in Nat \ {0}
                     /\ f.comps \in {1, 3, 4}
                     /\ f.texts \in Seq(TextNames)
                     /\ f.body \in {"sound", "refused"}
ASSUME BufferAssumption == BufferSize \in Nat \ {0, 1}
ASSUME WidthsAssumption ==
    /\ SizeLimit \in Nat /\ SizeLimit > BufferSize /\ SizeLimit % BufferSize = 0
    /\ Word \in Nat \ {0}

VARIABLES
    file,      \* the input
    looked,    \* markers looked at for a text
    size,      \* out.w and out.h, the size asked for
    live,      \* the memory blocks that are allocated
    held,      \* those the handle points to
    pixels,    \* the pixel buffer, row by row
    row,       \* rows scaled so far, then rows encoded so far
    buffer,    \* the destination manager's buffer
    block,     \* the output block: what was written to it
    destSize,  \* the size reported for it, an int
    starved,   \* an allocation has failed
    jumped,    \* encoding was left by longjmp()
    pc

imageVars  == <<pixels, row>>
outputVars == <<buffer, block, destSize>>
fileVars   == <<file, looked>>
vars == <<fileVars, size, live, held, imageVars, outputVars, starved, jumped, pc>>

\* The handle owns these through its own fields or those of its two codecs.
HandleBlocks ==
    {"decoder", "source", "pixels", "lines", "encoder", "dstMgr"} \cup TextNames
\* "overwritten": texts no pointer is left of.
Blocks == HandleBlocks \cup {"handle", "dstBuf", "output", "overwritten"}

\* The parts of a file besides its rows 0, 1, ..., and what was never written.
Headers == -1
End == -2
Undefined == -3

Goto(label) == pc' = label
Fail == starved' = TRUE
Works == UNCHANGED starved
Allocate(names) == live' = live \cup names /\ held' = held \cup (names \cap HandleBlocks)
Free(names) == live' = live \ names /\ held' = held \ names

-----------------------------------------------------------------------------
(* (Fault: the encoded file goes with the handle.) *)
ClosedWithOutput == live \ (held \cup {"handle", "output"})

\* epeg_close() frees what the handle points to, and the handle.
Closed == live \ (held \cup {"handle"})

Open ==
    /\ pc = "open"
    /\ Works /\ Allocate({"handle", "decoder", "source"}) /\ Goto("header")
    /\ UNCHANGED <<fileVars, size, imageVars, outputVars, jumped>>

\* calloc() of the handle or of the source manager, or what libjpeg allocates:
\* whatever there is already is closed again.
OpenFails ==
    /\ pc = "open"
    /\ Fail /\ Goto("nullHandle")
    /\ UNCHANGED <<fileVars, size, live, held, imageVars, outputVars, jumped>>

\* The texts of the header: a comment is freed before the next one is kept, the
\* pointer to a location or a type is just overwritten.  Out of memory, the
\* pointer becomes NULL, or the text is not looked at.
KeepText ==
    /\ pc = "header" /\ looked < Len(file.texts)
    /\ looked' = looked + 1
    /\ LET text == file.texts[looked + 1]
           old  == IF text # "comment" /\ text \in held THEN {"overwritten"} ELSE {}
       IN  \/ Works /\ live' = live \cup {text} \cup old /\ held' = held \cup {text}
           \/ Fail /\ live' = (live \ {text}) \cup old /\ held' = held \ {text}
           \/ Fail /\ text # "comment" /\ UNCHANGED <<live, held>>
    /\ UNCHANGED <<file, size, imageVars, outputVars, jumped, pc>>

Within(n, extent) == IF n < 1 THEN 1 ELSE IF n > extent THEN extent ELSE n

DecodeSizeSet ==
    /\ pc = "header" /\ looked = Len(file.texts) /\ Goto("decode")
    /\ size' = [w |-> Within(size.w, file.w), h |-> Within(size.h, file.h)]
    /\ UNCHANGED <<fileVars, live, held, imageVars, outputVars, starved, jumped>>

-----------------------------------------------------------------------------
\* libjpeg decodes at n eighths: the least that is not below 1/denom.
CeilDiv(a, b) == (a + b - 1) \div b
OutputExtent(extent, denom) == CeilDiv(extent * CeilDiv(8, denom), 8)

ScaleDenom(f, s) ==
    LET w == f.w \div s.w   h == f.h \div s.h
        smaller == IF h < w THEN h ELSE w
    IN  Within(smaller, 8)

OutputWidth  == OutputExtent(file.w, ScaleDenom(file, size))
OutputHeight == OutputExtent(file.h, ScaleDenom(file, size))

\* Each decoded pixel is known by its place.
DecodedPixels ==
    [y \in 0 .. OutputHeight - 1 |-> [x \in 0 .. OutputWidth - 1 |-> <<x, y>>]]

\* The size of the buffer is a product of unsigned ints: it may wrap.
BufferWraps == OutputWidth * OutputHeight * file.comps >= Word

Decode ==
    /\ pc = "decode" /\ file.body = "sound" /\ ~BufferWraps
    /\ Works /\ Allocate({"pixels", "lines"}) /\ Goto("scale")
    /\ pixels' = DecodedPixels
    /\ UNCHANGED <<fileVars, size, row, outputVars, jumped>>

\* A buffer that is too small is written beyond its end.
DecodeOverruns ==
    /\ pc = "decode" /\ BufferWraps
    /\ Works /\ Allocate({"pixels", "lines"}) /\ Goto("overrun")
    /\ UNCHANGED <<fileVars, size, imageVars, outputVars, jumped>>

\* libjpeg refuses the file, or is out of memory, with both arrays allocated.
DecodeJumps ==
    /\ pc = "decode"
    /\ \/ file.body = "refused" /\ Works
       \/ Fail
    /\ Allocate({"pixels", "lines"}) /\ Goto("close")
    /\ UNCHANGED <<fileVars, size, imageVars, outputVars, jumped>>

(* (Fault: the pointer to the freed pixels is kept.) *)
DecodeFailsDangling ==
    /\ pc = "decode"
    /\ Fail /\ Goto("close")
    /\ held' \in {held, held \cup {"pixels"}}
    /\ UNCHANGED <<fileVars, size, live, imageVars, outputVars, jumped>>

\* malloc() of the pixels or of the lines; the pixels are freed in that case.
DecodeFails ==
    /\ pc = "decode"
    /\ Fail /\ Goto("close")
    /\ UNCHANGED <<fileVars, size, live, held, imageVars, outputVars, jumped>>

-----------------------------------------------------------------------------
(* (Fault: from the last column to the first.) *)
RowScaledBackwards(buf, y, s) ==
    LET from == (y * OutputHeight) \div s.h
        after[n \in 0 .. s.w] ==
            IF n = 0 THEN buf
            ELSE LET x == s.w - n IN
                 [after[n - 1] EXCEPT
                    ![y][x] = after[n - 1][from][(x * OutputWidth) \div s.w]]
    IN  after[s.w]

\* One row of _epeg_scale(): pixel by pixel, in the buffer it reads from.
RowScaled(buf, y, s) ==
    LET from == (y * OutputHeight) \div s.h
        after[n \in 0 .. s.w] ==
            IF n = 0 THEN buf
            ELSE LET x == n - 1 IN
                 [after[n - 1] EXCEPT
                    ![y][x] = after[n - 1][from][(x * OutputWidth) \div s.w]]
    IN  after[s.w]

NeedsScaling == size # [w |-> file.w, h |-> file.h]

(* (Fault: a row that stays in its place is not counted.) *)
ScaleRowUncounted ==
    /\ pc = "scale" /\ NeedsScaling /\ row < size.h
    /\ pixels' = RowScaled(pixels, row, size)
    /\ row' = IF (row * OutputHeight) \div size.h = row THEN row ELSE row + 1
    /\ UNCHANGED <<fileVars, size, live, held, outputVars, starved, jumped, pc>>

ScaleRow ==
    /\ pc = "scale" /\ NeedsScaling /\ row < size.h
    /\ pixels' = RowScaled(pixels, row, size)
    /\ row' = row + 1
    /\ UNCHANGED <<fileVars, size, live, held, outputVars, starved, jumped, pc>>

Scaled ==
    /\ pc = "scale" /\ (NeedsScaling => row = size.h)
    /\ row' = 0 /\ Goto("compress")
    /\ UNCHANGED <<fileVars, size, live, held, pixels, outputVars, starved, jumped>>

-----------------------------------------------------------------------------
\* The first half of _epeg_encode(): the destination is reset, its manager and
\* the buffer allocated, the headers written.  They never fill the buffer.
StartCompress ==
    /\ pc = "compress"
    /\ Works /\ Allocate({"encoder", "dstMgr", "dstBuf"}) /\ Goto("rows")
    /\ buffer' = <<Headers>> /\ block' = <<>> /\ destSize' = 0
    /\ UNCHANGED <<fileVars, size, imageVars, jumped>>

\* calloc() of the manager: returns past the label "done".
NoManager ==
    /\ pc = "compress"
    /\ Fail /\ Allocate({"encoder"}) /\ Goto("close")
    /\ block' = <<>> /\ destSize' = 0
    /\ UNCHANGED <<fileVars, size, imageVars, buffer, jumped>>

\* malloc() of the buffer: the manager is not yet known to the encoder.
NoBuffer ==
    /\ pc = "compress"
    /\ Fail /\ Goto("done")
    /\ live' = live \cup {"encoder", "dstMgr"} /\ held' = held \cup {"encoder"}
    /\ block' = <<>> /\ destSize' = 0
    /\ UNCHANGED <<fileVars, size, imageVars, buffer, jumped>>

\* jpeg_create_compress() is out of memory before anything else happened.
CreateJumps ==
    /\ pc = "compress"
    /\ Fail /\ Goto("done")
    /\ UNCHANGED <<fileVars, size, live, held, imageVars, outputVars, jumped>>

\* jpeg_start_compress() is.
StartJumps ==
    /\ pc = "compress"
    /\ Fail /\ Allocate({"encoder", "dstMgr", "dstBuf"}) /\ Goto("done")
    /\ buffer' = <<>> /\ block' = <<>> /\ destSize' = 0
    /\ jumped' = TRUE
    /\ UNCHANGED <<fileVars, size, imageVars>>

\* realloc() of the output leaves what was between its old end and psize as
\* it finds it.
Grown(blk, psize, parts) ==
    [i \in 1 .. psize + Len(parts) |->
        IF i <= Len(blk) THEN blk[i]
        ELSE IF i <= psize THEN Undefined ELSE parts[i - psize]]

\* The new size of the output, an int that wraps.
Enlarged(parts) ==
    LET n == destSize + Len(parts) IN IF n < SizeLimit THEN n ELSE n - 2 * SizeLimit

(* (Fault: the buffer is kept after it was written.) *)
EmptyOutputBufferKeeping(parts) ==
    /\ destSize >= 0 /\ Enlarged(parts) > 0
    /\ Works /\ live' = live \cup {"output"} /\ UNCHANGED held
    /\ block' = Grown(block, destSize, parts)
    /\ destSize' = Enlarged(parts)
    /\ buffer' = SubSeq(parts, 1, 1)

EmptyOutputBuffer(parts) ==
    /\ destSize >= 0 /\ Enlarged(parts) > 0
    /\ Works /\ live' = live \cup {"output"} /\ UNCHANGED held
    /\ block' = Grown(block, destSize, parts)
    /\ destSize' = Enlarged(parts)
    /\ buffer' = <<>>

\* The size has grown before realloc() fails, as it must for a negative size.
OutputBufferStays(parts) ==
    /\ destSize' = Enlarged(parts)
    /\ IF destSize' < 0 THEN Works ELSE destSize >= 0 /\ Fail
    /\ UNCHANGED <<live, held, buffer, block>>

\* The size is back at 0: realloc() frees the block that is written and freed
\* again, or what it returns is written in front of its beginning.
OutputOverruns(parts) ==
    /\ destSize < 0 /\ Enlarged(parts) >= 0
    /\ Works /\ Goto("overrun")
    /\ UNCHANGED <<live, held, outputVars>>

\* jpeg_write_scanlines(): if the buffer cannot be emptied the encoder
\* suspends, and the loop tries the same row again, for as long as it takes.
WriteRow ==
    /\ pc = "rows" /\ row < size.h
    /\ LET parts == Append(buffer, row) IN
       \/ /\ Len(parts) < BufferSize /\ buffer' = parts /\ row' = row + 1
          /\ UNCHANGED <<live, held, block, destSize, starved, pc>>
       \/ /\ Len(parts) = BufferSize /\ EmptyOutputBuffer(parts) /\ row' = row + 1
          /\ UNCHANGED pc
       \/ Len(parts) = BufferSize /\ OutputBufferStays(parts) /\ UNCHANGED <<row, pc>>
       \/ Len(parts) = BufferSize /\ OutputOverruns(parts) /\ UNCHANGED row
    /\ UNCHANGED <<fileVars, size, pixels, jumped>>

\* jpeg_finish_compress() up to the last byte; here suspending is an error.
FinishCompress ==
    /\ pc = "rows" /\ row = size.h
    /\ LET parts == Append(buffer, End) IN
       \/ /\ Len(parts) < BufferSize /\ buffer' = parts /\ Goto("term")
          /\ UNCHANGED <<live, held, block, destSize, starved, jumped>>
       \/ /\ Len(parts) = BufferSize /\ EmptyOutputBuffer(parts) /\ Goto("term")
          /\ UNCHANGED jumped
       \/ /\ Len(parts) = BufferSize /\ OutputBufferStays(parts) /\ Goto("done")
          /\ jumped' = TRUE
    /\ UNCHANGED <<fileVars, size, imageVars>>

\* A failure of this realloc() goes unnoticed.
TermDestination ==
    /\ pc = "term" /\ Goto("done")
    /\ EmptyOutputBuffer(buffer) \/ OutputBufferStays(buffer)
    /\ UNCHANGED <<fileVars, size, imageVars, jumped>>

(* (Fault: the destination manager is freed, its buffer is not.) *)
EncodeDoneLeavingBuffer ==
    /\ pc = "done" /\ Goto("close")
    /\ Free({"decoder", "encoder", "dstMgr"})
    /\ UNCHANGED <<fileVars, size, imageVars, outputVars, starved, jumped>>

\* The label "done".  dst_mgr is a local variable changed after setjmp(): after
\* a longjmp() it has its last value or the one it had then, NULL.
EncodeDone ==
    /\ pc = "done" /\ Goto("close")
    /\ \/ Free({"decoder", "encoder", "dstMgr", "dstBuf"})
       \/ jumped /\ Free({"decoder", "encoder"})
    /\ UNCHANGED <<fileVars, size, imageVars, outputVars, starved, jumped>>

Close ==
    /\ pc = "close" /\ Goto("release")
    /\ live' = Closed /\ held' = {}
    /\ UNCHANGED <<fileVars, size, imageVars, outputVars, starved, jumped>>
=============================================================================
