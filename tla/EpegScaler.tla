----------------------------- MODULE EpegScaler -----------------------------
(***************************************************************************)
(* EpegScaler.downScaleJpegImage() and epeg-jni.c: one call from           *)
(* JpegImage.downScale() through JNI to epeg and back.  The glue looks at  *)
(* no result of epeg: a handle that is not there is used all the same, and *)
(* so is a size of -1.                                                     *)
(***************************************************************************)
EXTENDS Epeg

CONSTANT Sizes       \* the sizes the callers ask for

ASSUME SizesAssumption ==
    \A s \in Sizes : s.w \in Nat \ {0} /\ s.h \in Nat \ {0}

VARIABLES
    pinned,      \* Java arrays between Get- and ReleasePrimitiveArrayCritical
    outcome,     \* "none", "returned", or "lost": the process is gone, or
                 \* its heap is written over
    delivered    \* the content of the array that is returned

glueVars == <<pinned, outcome, delivered>>
allVars  == <<vars, glueVars>>

\* JpegImage.downScale() admits sizes within the image only.
Init ==
    /\ file \in Files /\ looked = 0
    /\ size \in {s \in Sizes : s.w <= file.w /\ s.h <= file.h}
    /\ live = {} /\ held = {} /\ pixels = <<>> /\ row = 0
    /\ buffer = <<>> /\ block = <<>>
    /\ destSize = -1
    /\ starved = FALSE /\ jumped = FALSE /\ pc = "enter"
    /\ pinned = {} /\ outcome = "none" /\ delivered = <<>>

Enter ==
    /\ pc = "enter" /\ Goto("open")
    /\ pinned' = {"input"}
    /\ UNCHANGED <<fileVars, size, live, held, imageVars, outputVars, starved,
                   jumped, outcome, delivered>>

\* The process ends and with it whatever it held.
Lose ==
    /\ outcome' = "lost" /\ Goto("over")
    /\ UNCHANGED <<fileVars, size, live, held, imageVars, outputVars, jumped,
                   pinned, delivered>>

UseNullHandle == pc = "nullHandle" /\ Works /\ Lose

Overrun == pc = "overrun" /\ Works /\ Lose

ReleaseInput ==
    /\ pc = "release" /\ Goto("newArray")
    /\ pinned' = {}
    /\ UNCHANGED <<fileVars, size, live, held, imageVars, outputVars, starved,
                   jumped, outcome, delivered>>

NewArray ==
    /\ pc = "newArray"
    /\ destSize >= 0 /\ Works /\ Goto("copy")
    /\ pinned' = {"output"}
    /\ UNCHANGED <<fileVars, size, live, held, imageVars, outputVars, jumped,
                   outcome, delivered>>

\* NewByteArray() throws for a negative size or a full Java heap; the glue pins
\* the null it returns.
NoArray ==
    /\ pc = "newArray"
    /\ (destSize < 0 /\ Works) \/ Fail
    /\ Lose

\* memcpy() of destSize bytes: more than the block has when it could not grow
\* at the end.
CopyOut ==
    /\ pc = "copy" /\ (destSize > 0 => "output" \in live)
    /\ delivered' = Grown(block, destSize, <<>>)
    /\ pinned' = {} /\ Free({"output"})
    /\ outcome' = "returned" /\ Goto("over")
    /\ UNCHANGED <<fileVars, size, imageVars, outputVars, starved, jumped>>

\* From NULL, when nothing was ever allocated, or from behind the block.
CopyFaults ==
    /\ pc = "copy"
    /\ \/ destSize > 0 /\ "output" \notin live
       \/ destSize > Len(block)
    /\ Works /\ Lose

EpegStep ==
    \/ Open \/ OpenFails \/ KeepText \/ DecodeSizeSet
    \/ Decode \/ DecodeOverruns \/ DecodeJumps \/ DecodeFails
    \/ ScaleRow \/ Scaled
    \/ StartCompress \/ NoManager \/ NoBuffer \/ CreateJumps \/ StartJumps
    \/ WriteRow \/ FinishCompress \/ TermDestination
    \/ EncodeDone \/ Close

Step ==
    \/ EpegStep /\ UNCHANGED glueVars
    \/ Enter \/ UseNullHandle \/ Overrun \/ ReleaseInput
    \/ NewArray \/ NoArray \/ CopyOut \/ CopyFaults

Over == pc = "over" /\ UNCHANGED allVars

Next == Step \/ Over

\* A native call runs to its end on the thread that made it.
Spec == Init /\ [][Next]_allVars /\ WF_allVars(Step)

-----------------------------------------------------------------------------
\* epeg_close() and the error paths free by pointer: while the handle lives,
\* none of its pointers dangles, or a block would be freed a second time.
NoPointerDangles == held \subseteq live

\* The file names its location or its type more than once.
Repeated ==
    \E i, j \in 1 .. Len(file.texts) :
        i < j /\ file.texts[i] = file.texts[j] /\ file.texts[i] # "comment"

\* A call that returns to Java has released every block and every array, but
\* for the buffer of an encoder left by longjmp(), because dst_mgr is not
\* volatile, and for the texts of Thumb:: markers that are repeated.
EverythingIsReleased ==
    outcome = "returned" =>
        /\ live \subseteq (IF jumped THEN {"dstBuf"} ELSE {})
                          \cup (IF Repeated THEN {"overwritten"} ELSE {})
        /\ pinned = {}

\* What a picture scaled into a buffer of its own would hold.
Reference ==
    [y \in 0 .. size.h - 1 |-> [x \in 0 .. size.w - 1 |->
        <<(x * OutputWidth) \div size.w, (y * OutputHeight) \div size.h>>]]

\* Scaling in place overwrites no pixel that is still to be read: as long as
\* the decoder yields at least the size asked for, in both directions.
ScalesAsIfAside ==
    pc \in {"compress", "rows", "term"} =>
        \A y \in 0 .. size.h - 1, x \in 0 .. size.w - 1 :
            pixels[y][x] = Reference[y][x]

WholeFile ==
    <<Headers>> \o [i \in 1 .. size.h |-> i - 1] \o <<End>>

\* Unless memory ran out the array handed to Java is the whole new file, each
\* part once and in order, though the block it is built in moves and grows.
DeliversTheWholeFile ==
    outcome = "returned" => delivered = WholeFile \/ starved

\* The new file is longer than an int says.
TooLong == size.h + 2 >= SizeLimit

\* The process is lost only when memory ran out, when libjpeg refused a file
\* whose header it had accepted, when the size of the pixels wraps or when the
\* new file is too long for the size that is reported.
LostForACause ==
    outcome = "lost" => starved \/ file.body = "refused" \/ BufferWraps \/ TooLong

\* Every call ends, by returning or with the process, though allocations may
\* go on failing for ever: each failure makes the reported size larger.
EveryCallEnds == <>(outcome # "none")
=============================================================================
