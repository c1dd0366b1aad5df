-------------------------- MODULE EpegScalerProofs --------------------------
(***************************************************************************)
(* What holds of EpegScaler for every file and size, every size of its     *)
(* buffers and its ints, and any number of allocations that fail.          *)
(***************************************************************************)
EXTENDS EpegScaler, SequenceTheorems, WellFoundedInduction, TLAPS

(***************************************************************************)
(* Numbers: induction, functions defined by recursion, division.           *)
(***************************************************************************)

\* A set of naturals has a least element.
LEMMA LeastNat ==
    ASSUME NEW T, T \subseteq Nat, T # {}
    PROVE  \E m \in T : \A k \in T : m <= k
<1> DEFINE R == OpToRel(<, Nat)
<1>1. IsWellFoundedOn(R, Nat)
  BY NatLessThanWellFounded
<1>2. \E x \in T : \A y \in T : ~(<<y, x>> \in R)
  <2> HIDE DEF R
  <2>1. QED
    BY <1>1, WFMin
<1>3. \A x, y \in Nat : <<y, x>> \in R <=> y < x
  BY DEF OpToRel
<1> HIDE DEF R
<1>4. PICK x \in T : \A y \in T : ~(<<y, x>> \in R)
  BY <1>2
<1>5. \A y \in T : x <= y
  <2> SUFFICES ASSUME NEW y \in T PROVE x <= y
    OBVIOUS
  <2>1. x \in Nat /\ y \in Nat
    OBVIOUS
  <2>2. ~(y < x)
    BY <1>3, <1>4, <2>1
  <2>3. QED
    BY <2>1, <2>2
<1>6. QED
  BY <1>4, <1>5

\* What holds of 0 and is passed on holds of all numbers up to a bound.
LEMMA BoundedInduction ==
    ASSUME NEW m \in Nat, NEW S, 0 \in S,
           \A n \in 0 .. m - 1 : n \in S => n + 1 \in S
    PROVE  0 .. m \subseteq S
<1> DEFINE T == {n \in 0 .. m : n \notin S}
<1> SUFFICES ASSUME T # {} PROVE FALSE
  OBVIOUS
<1>1. T \subseteq Nat
  OBVIOUS
<1>2. PICK k \in T : \A n \in T : k <= n
  <2> HIDE DEF T
  <2>1. QED
    BY <1>1, LeastNat
<1>3. k \in 0 .. m /\ k # 0 /\ k \notin S
  OBVIOUS
<1>4. k - 1 \in 0 .. m - 1 /\ k - 1 \notin T /\ (k - 1) + 1 = k
  BY <1>2, <1>3
<1>5. k - 1 \in S
  BY <1>4
<1>6. QED
  BY <1>3, <1>4, <1>5

\* What is computed in m steps from a first value exists: a function that is
\* defined by recursion on 0 .. m satisfies its definition.
StepFunctions(m, V) == [1 .. m -> [V -> V]]
Iterates(g, m, first, F) == g[0] = first /\ \A n \in 1 .. m : g[n] = F[n][g[n - 1]]

LEMMA Iteration ==
    ASSUME NEW m \in Nat, NEW V, NEW first \in V, NEW F \in StepFunctions(m, V)
    PROVE  \E g \in [0 .. m -> V] : Iterates(g, m, first, F)
<1> USE DEF StepFunctions
<1> DEFINE Upto(k, g) == g[0] = first /\ \A n \in 1 .. k : g[n] = F[n][g[n - 1]]
           S == {k \in 0 .. m : \E g \in [0 .. k -> V] : Upto(k, g)}
<1>1. 0 \in S
  <2> DEFINE g == [i \in 0 .. 0 |-> first]
  <2>1. g \in [0 .. 0 -> V] /\ Upto(0, g)
    OBVIOUS
  <2>2. 0 \in 0 .. m
    OBVIOUS
  <2> HIDE DEF g, Upto
  <2>3. QED
    BY <2>1, <2>2
<1>2. ASSUME NEW k \in 0 .. m - 1, k \in S PROVE k + 1 \in S
  <2>1. PICK g \in [0 .. k -> V] : Upto(k, g)
    BY <1>2
  <2> DEFINE h == [i \in 0 .. k + 1 |-> IF i <= k THEN g[i] ELSE F[k + 1][g[k]]]
  <2>2. g[k] \in V /\ k + 1 \in 1 .. m /\ k \in Nat
    BY <1>2
  <2>3. F[k + 1][g[k]] \in V
    BY <2>2
  <2>4. h \in [0 .. k + 1 -> V]
    BY <2>2, <2>3
  <2>5. h[0] = first
    BY <2>1, <2>2
  <2>6. ASSUME NEW n \in 1 .. k + 1 PROVE h[n] = F[n][h[n - 1]]
    <3>1. CASE n <= k
      BY <2>1, <2>2, <3>1
    <3>2. CASE n = k + 1
      <4>1. h[n] = F[k + 1][g[k]] /\ h[n - 1] = g[k]
        BY <2>2, <3>2
      <4>2. QED
        BY <3>2, <4>1
    <3>3. QED
      BY <2>2, <3>1, <3>2
  <2>7. Upto(k + 1, h)
    BY <2>5, <2>6
  <2> HIDE DEF h, Upto
  <2>8. QED
    BY <1>2, <2>2, <2>4, <2>7
<1>3. 0 .. m \subseteq S
  <2> HIDE DEF S
  <2>1. QED
    BY <1>1, <1>2, BoundedInduction
<1>4. m \in S
  BY <1>3
<1>5. QED
  BY <1>4 DEF Iterates

\* Division: the quotient is the one number with these bounds.
LEMMA Quotient ==
    ASSUME NEW a \in Nat, NEW b \in Nat \ {0}
    PROVE  /\ a \div b \in Nat
           /\ b * (a \div b) <= a /\ a < b * (a \div b) + b
OBVIOUS

LEMMA QuotientAtLeast ==
    ASSUME NEW a \in Nat, NEW b \in Nat \ {0}, NEW q \in Nat, b * q <= a
    PROVE  q <= a \div b
<1> DEFINE d == a \div b
<1>1. d \in Nat /\ a < b * d + b
  BY Quotient
<1> HIDE DEF d
<1>2. CASE d + 1 <= q
  <2>1. PICK e \in Nat : q = d + 1 + e
    <3>1. q - (d + 1) \in Nat /\ q = d + 1 + (q - (d + 1))
      BY <1>1, <1>2
    <3>2. QED
      BY <3>1
  <2>2. b * q = b * d + b + b * e /\ b * e \in Nat /\ b * d \in Nat
    BY <1>1, <2>1
  <2>3. QED
    BY <1>1, <2>2
<1>3. QED
  BY <1>1, <1>2 DEF d

LEMMA QuotientBelow ==
    ASSUME NEW a \in Nat, NEW b \in Nat \ {0}, NEW q \in Nat, a < b * q
    PROVE  a \div b < q
<1> DEFINE d == a \div b
<1>1. d \in Nat /\ b * d <= a
  BY Quotient
<1> HIDE DEF d
<1>2. CASE q <= d
  <2>1. PICK e \in Nat : d = q + e
    <3>1. d - q \in Nat /\ d = q + (d - q)
      BY <1>1, <1>2
    <3>2. QED
      BY <3>1
  <2>2. b * d = b * q + b * e /\ b * e \in Nat /\ b * q \in Nat
    BY <1>1, <2>1
  <2>3. QED
    BY <1>1, <2>2
<1>3. QED
  BY <1>1, <1>2 DEF d

-----------------------------------------------------------------------------

USE DEF Goto, Works

BeforeEncoding == {"enter", "open", "nullHandle", "header", "decode", "scale",
                   "compress"}
Encoding       == {"rows", "term"}
AfterEncoding  == {"done", "close", "release", "newArray", "copy", "over"}

\* Every variable but the pixels has its type; the output has no size before
\* the encoder starts.
TypeInv ==
    /\ file \in Files /\ looked \in 0 .. Len(file.texts)
    /\ size.w \in Nat \ {0} /\ size.h \in Nat \ {0}
    /\ live \subseteq Blocks /\ held \subseteq HandleBlocks
    /\ row \in Nat /\ starved \in BOOLEAN /\ destSize \in Int
    /\ buffer \in Seq(Int) /\ block \in Seq(Int)
    /\ jumped \in BOOLEAN
    /\ pc \in BeforeEncoding \cup Encoding \cup AfterEncoding \cup {"overrun"}
    /\ outcome \in {"none", "returned", "lost"}
    /\ pc \in BeforeEncoding => destSize = -1
    /\ destSize < SizeLimit
    /\ pc \in Encoding => Len(buffer) < BufferSize
    /\ pc = "copy" => destSize \in Nat
    /\ pc = "compress" => row = 0

\* The texts the handle points to come from markers that were looked at.
TextsInv ==
    \A t \in TextNames \cap held : \E i \in 1 .. looked : file.texts[i] = t

\* What is allocated and not reachable from the handle, at each label.
Left == (IF jumped THEN {"dstBuf"} ELSE {}) \cup (IF Repeated THEN {"overwritten"} ELSE {})
OwnedInv ==
    /\ held \subseteq live
    /\ pc \in {"enter", "open", "nullHandle"} => live = {}
    /\ pc \in {"header", "decode", "scale", "compress"} =>
           live \subseteq held \cup {"handle"} \cup Left
    /\ pc \in Encoding => live \subseteq held \cup {"handle", "dstBuf", "output"} \cup Left
    /\ pc = "done" =>
           /\ live \subseteq held \cup {"handle", "dstBuf", "output", "dstMgr"} \cup Left
           /\ jumped /\ "dstMgr" \in live => "dstMgr" \in held
    /\ pc = "close" => live \subseteq held \cup {"handle", "output"} \cup Left
    /\ pc \in {"release", "newArray", "copy"} => live \subseteq {"output"} \cup Left
    /\ outcome = "returned" => live \subseteq Left /\ pinned = {}
    /\ jumped => pc \in AfterEncoding
    /\ outcome # "none" => pc = "over"

\* What goes wrong has a cause, and without one the output is there.
Sound == ~starved /\ file.body # "refused" /\ ~BufferWraps /\ ~TooLong
CauseInv ==
    /\ pc = "nullHandle" => starved
    /\ pc = "overrun" => ~Sound
    /\ pc \in Encoding \cup AfterEncoding /\ Sound => destSize >= 0
    /\ pc \notin {"over", "overrun"} /\ ~starved /\ destSize > 0 => "output" \in live
    /\ outcome = "lost" => ~Sound

-----------------------------------------------------------------------------
LEMMA WithinExtent ==
    ASSUME NEW n \in Int, NEW extent \in Nat \ {0}
    PROVE  Within(n, extent) \in Nat \ {0}
BY DEF Within

LEMMA FileFacts ==
    ASSUME NEW f \in Files
    PROVE  /\ f.w \in Nat \ {0} /\ f.h \in Nat \ {0} /\ f.body \in {"sound", "refused"}
           /\ f.texts \in Seq(TextNames)
BY FilesAssumption

\* What realloc() and memcpy() leave: the old bytes, a gap, the new ones.
LEMMA GrownContent ==
    ASSUME NEW blk \in Seq(Int), NEW parts \in Seq(Int), NEW psize \in Nat
    PROVE  /\ Grown(blk, psize, parts) \in Seq(Int)
           /\ Len(Grown(blk, psize, parts)) = psize + Len(parts)
           /\ \A i \in 1 .. psize + Len(parts) :
                 Grown(blk, psize, parts)[i] =
                   IF i <= Len(blk) THEN blk[i]
                   ELSE IF i <= psize THEN Undefined ELSE parts[i - psize]
<1> DEFINE n == psize + Len(parts)
           g == Grown(blk, psize, parts)
<1>1. n \in Nat /\ Len(blk) \in Nat /\ Len(parts) \in Nat
  BY LenProperties
<1>2. \A i \in 1 .. n :
         (IF i <= Len(blk) THEN blk[i]
          ELSE IF i <= psize THEN Undefined ELSE parts[i - psize]) \in Int
  <2> SUFFICES ASSUME NEW i \in 1 .. n
               PROVE  (IF i <= Len(blk) THEN blk[i]
                       ELSE IF i <= psize THEN Undefined ELSE parts[i - psize]) \in Int
    OBVIOUS
  <2>1. CASE i <= Len(blk)
    <3>1. i \in 1 .. Len(blk)
      BY <1>1, <2>1
    <3>2. QED
      BY <3>1, <2>1, ElementOfSeq
  <2>2. CASE ~(i <= Len(blk)) /\ i <= psize
    BY <2>2 DEF Undefined
  <2>3. CASE ~(i <= Len(blk)) /\ ~(i <= psize)
    <3>1. i - psize \in 1 .. Len(parts)
      BY <1>1, <2>3
    <3>2. QED
      BY <3>1, <2>3, ElementOfSeq
  <2>4. QED
    BY <2>1, <2>2, <2>3
<1>3. g \in [1 .. n -> Int]
  BY <1>2 DEF Grown
<1>4. g \in Seq(Int)
  BY <1>1, <1>3, SeqDef
<1>5. Len(g) = n
  <2>1. DOMAIN g = 1 .. n /\ DOMAIN g = 1 .. Len(g) /\ Len(g) \in Nat
    BY <1>3, <1>4, LenProperties
  <2>2. QED
    BY <2>1, <1>1
<1>6. \A i \in 1 .. n :
         g[i] = IF i <= Len(blk) THEN blk[i]
                ELSE IF i <= psize THEN Undefined ELSE parts[i - psize]
  BY DEF Grown
<1>7. QED
  BY <1>4, <1>5, <1>6

\* The size of the output is that of its parts or, if an int cannot hold it,
\* negative.
LEMMA EnlargedSize ==
    ASSUME NEW parts \in Seq(Int), Len(parts) <= BufferSize,
           destSize \in Int, destSize < SizeLimit
    PROVE  /\ Len(parts) \in Nat /\ Enlarged(parts) \in Int /\ Enlarged(parts) < SizeLimit
           /\ IF destSize + Len(parts) < SizeLimit THEN Enlarged(parts) = destSize + Len(parts)
              ELSE Enlarged(parts) < 0
<1>1. Len(parts) \in Nat /\ SizeLimit \in Nat /\ BufferSize \in Nat /\ BufferSize < SizeLimit
  BY LenProperties, WidthsAssumption, BufferAssumption
<1>2. QED
  BY <1>1 DEF Enlarged

LEMMA TypeHolds == TypeInv /\ [Next]_allVars => TypeInv'
<1> SUFFICES ASSUME TypeInv, [Next]_allVars PROVE TypeInv'
  OBVIOUS
<1> USE WidthsAssumption, BufferAssumption DEF TypeInv, BeforeEncoding, Encoding, AfterEncoding, fileVars, imageVars,
            outputVars, glueVars, Fail, Allocate, Free, HandleBlocks, Blocks, TextNames
<1>1. CASE UNCHANGED allVars
  BY <1>1 DEF allVars, vars
<1>2. CASE Open /\ UNCHANGED glueVars
  BY <1>2 DEF Open
<1>3. CASE OpenFails /\ UNCHANGED glueVars
  BY <1>3 DEF OpenFails
<1>3a. CASE KeepText /\ UNCHANGED glueVars
  <2>1. /\ file.texts \in Seq(TextNames) /\ Len(file.texts) \in Nat
        /\ looked + 1 \in 1 .. Len(file.texts)
    BY <1>3a, FileFacts, LenProperties DEF KeepText
  <2>2. PICK text \in TextNames : text = file.texts[looked + 1]
    BY <2>1, ElementOfSeq
  <2>3. live' \subseteq Blocks /\ held' \subseteq HandleBlocks /\ starved' \in BOOLEAN
    BY <1>3a, <2>2 DEF KeepText
  <2>4. QED
    BY <1>3a, <2>1, <2>3 DEF KeepText
<1>4. CASE DecodeSizeSet /\ UNCHANGED glueVars
  <2>1. size.w \in Int /\ size.h \in Int
    OBVIOUS
  <2>2. file.w \in Nat \ {0} /\ file.h \in Nat \ {0}
    BY FileFacts
  <2>3. Within(size.w, file.w) \in Nat \ {0} /\ Within(size.h, file.h) \in Nat \ {0}
    BY <2>1, <2>2, WithinExtent
  <2>4. size'.w \in Nat \ {0} /\ size'.h \in Nat \ {0}
    BY <1>4, <2>3 DEF DecodeSizeSet
  <2>5. QED
    BY <1>4, <2>4 DEF DecodeSizeSet
<1>5. CASE Decode /\ UNCHANGED glueVars
  BY <1>5 DEF Decode
<1>5a. CASE DecodeOverruns /\ UNCHANGED glueVars
  BY <1>5a DEF DecodeOverruns
<1>6. CASE DecodeJumps /\ UNCHANGED glueVars
  BY <1>6 DEF DecodeJumps
<1>7. CASE DecodeFails /\ UNCHANGED glueVars
  BY <1>7 DEF DecodeFails
<1>8. CASE ScaleRow /\ UNCHANGED glueVars
  BY <1>8 DEF ScaleRow
<1>9. CASE Scaled /\ UNCHANGED glueVars
  BY <1>9 DEF Scaled
<1>10. CASE StartCompress /\ UNCHANGED glueVars
  <2>1. buffer' \in Seq(Int) /\ block' \in Seq(Int)
    BY <1>10 DEF StartCompress, Headers
  <2>2. Len(buffer') = 1 /\ 1 < BufferSize /\ 0 < SizeLimit
    BY <1>10 DEF StartCompress
  <2>3. QED
    BY <1>10, <2>1, <2>2 DEF StartCompress
<1>11. CASE NoManager /\ UNCHANGED glueVars
  BY <1>11 DEF NoManager
<1>12. CASE NoBuffer /\ UNCHANGED glueVars
  BY <1>12 DEF NoBuffer
<1>13. CASE CreateJumps /\ UNCHANGED glueVars
  BY <1>13 DEF CreateJumps
<1>14. CASE StartJumps /\ UNCHANGED glueVars
  BY <1>14 DEF StartJumps
<1>15. ASSUME NEW parts \in Seq(Int), Len(parts) <= BufferSize,
              \/ EmptyOutputBuffer(parts)
              \/ OutputBufferStays(parts)
              \/ OutputOverruns(parts)
       PROVE  /\ live' \subseteq Blocks /\ held' = held
              /\ starved' \in BOOLEAN /\ destSize' \in Int /\ destSize' < SizeLimit
              /\ pc \in Encoding => Len(buffer') < BufferSize
              /\ buffer' \in Seq(Int) /\ block' \in Seq(Int)
  <2>1. Enlarged(parts) \in Int /\ Enlarged(parts) < SizeLimit
    BY <1>15, EnlargedSize
  <2>2. CASE EmptyOutputBuffer(parts)
    <3>1. destSize \in Nat
      BY <2>2 DEF EmptyOutputBuffer
    <3>2. Grown(block, destSize, parts) \in Seq(Int)
      BY <3>1, GrownContent
    <3>3. <<>> \in Seq(Int) /\ Len(<<>>) = 0
      BY EmptySeq
    <3>4. QED
      BY <2>1, <2>2, <3>1, <3>2, <3>3 DEF EmptyOutputBuffer
  <2>3. CASE OutputBufferStays(parts)
    BY <2>1, <2>3 DEF OutputBufferStays
  <2>4. CASE OutputOverruns(parts)
    BY <2>4 DEF OutputOverruns
  <2>5. QED
    BY <1>15, <2>2, <2>3, <2>4
<1>16. CASE WriteRow /\ UNCHANGED glueVars
  <2> DEFINE parts == Append(buffer, row)
  <2>1. parts \in Seq(Int)
    BY AppendProperties
  <2> HIDE DEF parts
  <2>2. CASE Len(parts) < BufferSize /\ buffer' = parts /\ row' = row + 1
             /\ UNCHANGED <<live, held, block, destSize, starved, pc>>
    BY <1>16, <2>1, <2>2 DEF WriteRow
  <2>3. CASE Len(parts) = BufferSize /\ EmptyOutputBuffer(parts) /\ row' = row + 1 /\ UNCHANGED pc
    <3>1. /\ live' \subseteq Blocks /\ held' = held
          /\ starved' \in BOOLEAN /\ destSize' \in Int /\ destSize' < SizeLimit
          /\ pc \in Encoding => Len(buffer') < BufferSize
          /\ buffer' \in Seq(Int) /\ block' \in Seq(Int)
      BY <1>15, <1>16, <2>1, <2>3 DEF WriteRow
    <3>2. QED
      BY <1>16, <2>3, <3>1 DEF WriteRow
  <2>4. CASE Len(parts) = BufferSize /\ OutputBufferStays(parts) /\ UNCHANGED <<row, pc>>
    <3>1. /\ live' \subseteq Blocks /\ held' = held
          /\ starved' \in BOOLEAN /\ destSize' \in Int /\ destSize' < SizeLimit
          /\ pc \in Encoding => Len(buffer') < BufferSize
          /\ buffer' \in Seq(Int) /\ block' \in Seq(Int)
      BY <1>15, <1>16, <2>1, <2>4 DEF WriteRow
    <3>2. QED
      BY <1>16, <2>4, <3>1 DEF WriteRow
  <2>5. CASE Len(parts) = BufferSize /\ OutputOverruns(parts) /\ UNCHANGED row
    <3>1. /\ live' \subseteq Blocks /\ held' = held
          /\ starved' \in BOOLEAN /\ destSize' \in Int /\ destSize' < SizeLimit
          /\ pc \in Encoding => Len(buffer') < BufferSize
          /\ buffer' \in Seq(Int) /\ block' \in Seq(Int)
      BY <1>15, <2>1, <2>5
    <3>2. QED
      BY <1>16, <2>5, <3>1 DEF WriteRow, OutputOverruns
  <2>6. QED
    BY <1>16, <2>2, <2>3, <2>4, <2>5 DEF WriteRow, parts
<1>17. CASE FinishCompress /\ UNCHANGED glueVars
  <2> DEFINE parts == Append(buffer, End)
  <2>1. parts \in Seq(Int)
    BY AppendProperties DEF End
  <2> HIDE DEF parts
  <2>2. CASE Len(parts) < BufferSize /\ buffer' = parts /\ Goto("term")
             /\ UNCHANGED <<live, held, block, destSize, starved, jumped>>
    BY <1>17, <2>1, <2>2 DEF FinishCompress
  <2>3. CASE Len(parts) = BufferSize /\ EmptyOutputBuffer(parts) /\ Goto("term") /\ UNCHANGED jumped
    <3>1. /\ live' \subseteq Blocks /\ held' = held
          /\ starved' \in BOOLEAN /\ destSize' \in Int /\ destSize' < SizeLimit
          /\ pc \in Encoding => Len(buffer') < BufferSize
          /\ buffer' \in Seq(Int) /\ block' \in Seq(Int)
      BY <1>15, <1>17, <2>1, <2>3 DEF FinishCompress
    <3>2. QED
      BY <1>17, <2>3, <3>1 DEF FinishCompress
  <2>4. CASE Len(parts) = BufferSize /\ OutputBufferStays(parts) /\ Goto("done") /\ jumped' = TRUE
    <3>1. /\ live' \subseteq Blocks /\ held' = held
          /\ starved' \in BOOLEAN /\ destSize' \in Int /\ destSize' < SizeLimit
          /\ pc \in Encoding => Len(buffer') < BufferSize
          /\ buffer' \in Seq(Int) /\ block' \in Seq(Int)
      BY <1>15, <1>17, <2>1, <2>4 DEF FinishCompress
    <3>2. QED
      BY <1>17, <2>4, <3>1 DEF FinishCompress
  <2>5. QED
    BY <1>17, <2>2, <2>3, <2>4 DEF FinishCompress, parts
<1>18. CASE TermDestination /\ UNCHANGED glueVars
  <2>1. /\ live' \subseteq Blocks /\ held' = held
        /\ starved' \in BOOLEAN /\ destSize' \in Int /\ destSize' < SizeLimit
        /\ pc \in Encoding => Len(buffer') < BufferSize
        /\ buffer' \in Seq(Int) /\ block' \in Seq(Int)
    BY <1>15, <1>18 DEF TermDestination
  <2>2. QED
    BY <1>18, <2>1 DEF TermDestination
<1>19. CASE EncodeDone /\ UNCHANGED glueVars
  BY <1>19 DEF EncodeDone
<1>20. CASE Close /\ UNCHANGED glueVars
  BY <1>20 DEF Close, Closed
<1>21. CASE Enter
  BY <1>21 DEF Enter
<1>22. CASE UseNullHandle
  BY <1>22 DEF UseNullHandle, Lose
<1>22a. CASE Overrun
  BY <1>22a DEF Overrun, Lose
<1>23. CASE ReleaseInput
  BY <1>23 DEF ReleaseInput
<1>24. CASE NewArray
  BY <1>24 DEF NewArray
<1>25. CASE NoArray
  BY <1>25 DEF NoArray, Lose
<1>26. CASE CopyOut
  BY <1>26 DEF CopyOut
<1>27. CASE CopyFaults
  BY <1>27 DEF CopyFaults, Lose
<1>28. QED
  BY <1>1, <1>2, <1>3, <1>3a, <1>4, <1>5, <1>5a, <1>6, <1>7, <1>8, <1>9, <1>10,
     <1>11, <1>12, <1>13, <1>14, <1>16, <1>17, <1>18, <1>19, <1>20, <1>21, <1>22,
     <1>22a, <1>23, <1>24, <1>25, <1>26, <1>27
     DEF Next, Step, EpegStep, Over
-----------------------------------------------------------------------------
\* A text that is overwritten was there in an earlier marker.
LEMMA TextsAreFound ==
    ASSUME TypeInv, TextsInv, KeepText
    PROVE  /\ TextsInv'
           /\ Repeated' <=> Repeated
           /\ "overwritten" \in live' \ live => Repeated
<1> DEFINE text == file.texts[looked + 1]
<1>1. /\ file.texts \in Seq(TextNames) /\ Len(file.texts) \in Nat
      /\ looked \in Nat /\ looked + 1 \in 1 .. Len(file.texts)
      /\ file' = file /\ looked' = looked + 1
  BY FileFacts, LenProperties DEF TypeInv, KeepText, fileVars
<1>2. text \in TextNames
  BY <1>1, ElementOfSeq
<1>3. TextsInv'
  <2>1. SUFFICES ASSUME NEW t \in TextNames, t \in held'
                 PROVE  \E i \in 1 .. looked' : file'.texts[i] = t
    BY DEF TextsInv
  <2>2. CASE t = text
    BY <1>1, <2>2
  <2>3. CASE t # text
    <3>1. t \in held
      BY <2>1, <2>3 DEF KeepText
    <3>2. PICK i \in 1 .. looked : file.texts[i] = t
      BY <2>1, <3>1 DEF TextsInv
    <3>3. i \in 1 .. looked'
      BY <1>1
    <3>4. QED
      BY <1>1, <3>2, <3>3
  <2>4. QED
    BY <2>2, <2>3
<1>4. Repeated' <=> Repeated
  BY <1>1 DEF Repeated
<1>5. ASSUME "overwritten" \in live' \ live PROVE Repeated
  <2>1. text # "comment" /\ text \in held
    BY <1>2, <1>5 DEF KeepText, TextNames
  <2>2. PICK i \in 1 .. looked : file.texts[i] = text
    BY <1>2, <2>1 DEF TextsInv
  <2>3. i \in 1 .. Len(file.texts) /\ i < looked + 1
    BY <1>1
  <2> HIDE DEF text
  <2>4. file.texts[i] = file.texts[looked + 1] /\ file.texts[i] # "comment"
    BY <2>1, <2>2 DEF text
  <2>5. QED
    BY <1>1, <2>3, <2>4 DEF Repeated
<1>6. QED
  BY <1>3, <1>4, <1>5

LEMMA TextsHold == TypeInv /\ TextsInv /\ [Next]_allVars => TextsInv'
<1> SUFFICES ASSUME TypeInv, TextsInv, [Next]_allVars PROVE TextsInv'
  OBVIOUS
<1>1. ASSUME UNCHANGED fileVars, TextNames \cap held' \subseteq held PROVE TextsInv'
  BY <1>1 DEF TextsInv, fileVars
<1>2. CASE KeepText
  BY <1>2, TextsAreFound
<1>3. CASE Open \/ OpenFails \/ DecodeSizeSet
  BY <1>1, <1>3 DEF Open, OpenFails, DecodeSizeSet, Allocate, TextNames
<1>4. CASE Decode \/ DecodeOverruns \/ DecodeJumps \/ DecodeFails
  BY <1>1, <1>4 DEF Decode, DecodeOverruns, DecodeJumps, DecodeFails, Allocate, TextNames
<1>5. CASE ScaleRow \/ Scaled
  BY <1>1, <1>5 DEF ScaleRow, Scaled
<1>6. CASE StartCompress \/ NoManager \/ NoBuffer \/ CreateJumps \/ StartJumps
  BY <1>1, <1>6 DEF StartCompress, NoManager, NoBuffer, CreateJumps, StartJumps,
                    Allocate, TextNames
<1>7. CASE WriteRow \/ FinishCompress \/ TermDestination
  BY <1>1, <1>7 DEF WriteRow, FinishCompress, TermDestination, EmptyOutputBuffer,
                    OutputBufferStays, OutputOverruns
<1>8. CASE EncodeDone \/ Close
  BY <1>1, <1>8 DEF EncodeDone, Close, Free
<1>9. CASE Enter \/ UseNullHandle \/ Overrun \/ ReleaseInput \/ NewArray \/ NoArray
           \/ CopyOut \/ CopyFaults
  BY <1>1, <1>9 DEF Enter, UseNullHandle, Overrun, ReleaseInput, NewArray, NoArray,
                    CopyOut, CopyFaults, Lose, Free
<1>10. CASE UNCHANGED allVars
  BY <1>1, <1>10 DEF allVars, vars
<1>11. QED
  BY <1>2, <1>3, <1>4, <1>5, <1>6, <1>7, <1>8, <1>9, <1>10 DEF Next, Step, EpegStep, Over

LEMMA OwnershipHolds == TypeInv /\ TextsInv /\ OwnedInv /\ [Next]_allVars => OwnedInv'
<1> SUFFICES ASSUME TypeInv, TextsInv, OwnedInv, [Next]_allVars PROVE OwnedInv'
  OBVIOUS
<1> USE DEF TypeInv, OwnedInv, Left, BeforeEncoding, Encoding, AfterEncoding, imageVars,
            outputVars, glueVars, Fail, Allocate, Free, HandleBlocks, Blocks, TextNames
<1>a. file' = file
  BY DEF Next, Step, EpegStep, Over, Open, OpenFails, KeepText, DecodeSizeSet, Decode,
         DecodeOverruns, DecodeJumps, DecodeFails, ScaleRow, Scaled, StartCompress,
         NoManager, NoBuffer, CreateJumps, StartJumps, WriteRow, FinishCompress,
         TermDestination, EncodeDone, Close, Enter, UseNullHandle, Overrun, ReleaseInput,
         NewArray, NoArray, CopyOut, CopyFaults, Lose, allVars, vars, fileVars
<1>b. Repeated' = Repeated /\ Repeated \in BOOLEAN
  BY <1>a DEF Repeated
<1>1. CASE UNCHANGED allVars
  BY <1>1, <1>b DEF allVars, vars
<1>2. CASE Open /\ UNCHANGED glueVars
  BY <1>2, <1>b DEF Open
<1>3. CASE OpenFails /\ UNCHANGED glueVars
  BY <1>3, <1>b DEF OpenFails
<1>3a. CASE KeepText /\ UNCHANGED glueVars
  <2>1. "overwritten" \in live' \ live => Repeated
    BY <1>3a, TextsAreFound
  <2>2. /\ pc = "header" /\ pc' = "header" /\ UNCHANGED <<jumped, pinned, outcome>>
    BY <1>3a DEF KeepText
  <2>3. PICK text \in TextNames : text = file.texts[looked + 1]
    <3>1. /\ file.texts \in Seq(TextNames) /\ Len(file.texts) \in Nat
          /\ looked + 1 \in 1 .. Len(file.texts)
      BY <1>3a, FileFacts, LenProperties DEF KeepText
    <3>2. QED
      BY <3>1, ElementOfSeq
  <2>4. PICK old \in SUBSET {"overwritten"} :
            \/ live' = live \cup {text} \cup old /\ held' = held \cup {text}
            \/ live' = (live \ {text}) \cup old /\ held' = held \ {text}
            \/ old = {} /\ live' = live /\ held' = held
    BY <1>3a, <2>3 DEF KeepText
  <2>5. old \subseteq Left /\ Left' = Left
    BY <1>b, <2>1, <2>2, <2>4
  <2>6. live' \subseteq held' \cup {"handle"} \cup Left'
    BY <2>2, <2>4, <2>5
  <2>7. held' \subseteq live'
    BY <2>3, <2>4
  <2>8. QED
    BY <2>2, <2>6, <2>7
<1>4. CASE DecodeSizeSet /\ UNCHANGED glueVars
  BY <1>4, <1>b DEF DecodeSizeSet
<1>5. CASE Decode /\ UNCHANGED glueVars
  BY <1>5, <1>b DEF Decode
<1>5a. CASE DecodeOverruns /\ UNCHANGED glueVars
  BY <1>5a, <1>b DEF DecodeOverruns
<1>6. CASE DecodeJumps /\ UNCHANGED glueVars
  BY <1>6, <1>b DEF DecodeJumps
<1>7. CASE DecodeFails /\ UNCHANGED glueVars
  BY <1>7, <1>b DEF DecodeFails
<1>8. CASE ScaleRow /\ UNCHANGED glueVars
  BY <1>8, <1>b DEF ScaleRow
<1>9. CASE Scaled /\ UNCHANGED glueVars
  BY <1>9, <1>b DEF Scaled
<1>10. CASE StartCompress /\ UNCHANGED glueVars
  BY <1>10, <1>b DEF StartCompress
<1>11. CASE NoManager /\ UNCHANGED glueVars
  BY <1>11, <1>b DEF NoManager
<1>12. CASE NoBuffer /\ UNCHANGED glueVars
  BY <1>12, <1>b DEF NoBuffer
<1>13. CASE CreateJumps /\ UNCHANGED glueVars
  BY <1>13, <1>b DEF CreateJumps
<1>14. CASE StartJumps /\ UNCHANGED glueVars
  BY <1>14, <1>b DEF StartJumps
<1>15. CASE WriteRow /\ UNCHANGED glueVars
  BY <1>15, <1>b DEF WriteRow, EmptyOutputBuffer, OutputBufferStays, OutputOverruns
<1>16. CASE FinishCompress /\ UNCHANGED glueVars
  <2>1. CASE pc' = "term"
    <3>1. /\ live' = live \/ live' = live \cup {"output"}
          /\ UNCHANGED <<held, pinned, outcome, jumped>> /\ pc = "rows"
      BY <1>16, <2>1 DEF FinishCompress, EmptyOutputBuffer
    <3>2. QED
      BY <1>b, <2>1, <3>1
  <2>2. CASE pc' = "done"
    <3>1. /\ UNCHANGED <<live, held, pinned, outcome>> /\ jumped' = TRUE
          /\ pc = "rows"
      BY <1>16, <2>2 DEF FinishCompress, OutputBufferStays
    <3>2. "dstMgr" \in live => "dstMgr" \in held
      BY <3>1
    <3>3. QED
      BY <1>b, <2>2, <3>1, <3>2
  <2>3. QED
    BY <1>16, <2>1, <2>2 DEF FinishCompress
<1>17. CASE TermDestination /\ UNCHANGED glueVars
  BY <1>17, <1>b DEF TermDestination, EmptyOutputBuffer, OutputBufferStays
<1>18. CASE EncodeDone /\ UNCHANGED glueVars
  BY <1>18, <1>b DEF EncodeDone
<1>19. CASE Close /\ UNCHANGED glueVars
  BY <1>19, <1>b DEF Close, Closed
<1>20. CASE Enter
  BY <1>20, <1>b DEF Enter
<1>21. CASE UseNullHandle
  BY <1>21, <1>b DEF UseNullHandle, Lose
<1>21a. CASE Overrun
  BY <1>21a, <1>b DEF Overrun, Lose
<1>22. CASE ReleaseInput
  BY <1>22, <1>b DEF ReleaseInput
<1>23. CASE NewArray
  BY <1>23, <1>b DEF NewArray
<1>24. CASE NoArray
  BY <1>24, <1>b DEF NoArray, Lose
<1>25. CASE CopyOut
  BY <1>25, <1>b DEF CopyOut
<1>26. CASE CopyFaults
  BY <1>26, <1>b DEF CopyFaults, Lose
<1>27. QED
  BY <1>1, <1>2, <1>3, <1>3a, <1>4, <1>5, <1>5a, <1>6, <1>7, <1>8, <1>9, <1>10,
     <1>11, <1>12, <1>13, <1>14, <1>15, <1>16, <1>17, <1>18, <1>19, <1>20, <1>21,
     <1>21a, <1>22, <1>23, <1>24, <1>25, <1>26
     DEF Next, Step, EpegStep, Over

-----------------------------------------------------------------------------
(* The new file.  Part(i) is what belongs at its place i.                    *)

Part(i) == IF i = 1 THEN Headers ELSE IF i <= size.h + 1 THEN i - 2 ELSE End

\* The output block, followed by the buffer, holds the first n parts.
Holds(n) ==
    /\ Len(block) = destSize
    /\ Len(block) + Len(buffer) = n
    /\ \A i \in 1 .. Len(block) : block[i] = Part(i)
    /\ \A i \in 1 .. Len(buffer) : buffer[i] = Part(Len(block) + i)

\* The output block holds the whole file.
Complete ==
    /\ Len(block) = destSize /\ destSize = size.h + 2
    /\ \A i \in 1 .. Len(block) : block[i] = Part(i)

FileInv ==
    /\ pc = "rows" => row <= size.h
    /\ ~starved =>
         /\ pc = "rows" /\ destSize >= 0 => Holds(row + 1)
         /\ pc = "term" /\ destSize >= 0 => Holds(size.h + 2)
         /\ pc \in {"done", "close", "release", "newArray", "copy"} /\ destSize >= 0
               => Complete
         /\ outcome = "returned" => delivered = WholeFile

LEMMA ConcatOfInts ==
    ASSUME NEW a \in Seq(Int), NEW b \in Seq(Int)
    PROVE  /\ a \o b \in Seq(Int) /\ Len(a \o b) = Len(a) + Len(b)
           /\ \A i \in 1 .. Len(a) + Len(b) :
                 (a \o b)[i] = IF i <= Len(a) THEN a[i] ELSE b[i - Len(a)]
BY ConcatProperties

LEMMA PartsOfTheFile ==
    ASSUME TypeInv
    PROVE  /\ WholeFile \in Seq(Int) /\ Len(WholeFile) = size.h + 2
           /\ \A i \in 1 .. size.h + 2 : WholeFile[i] = Part(i)
<1> DEFINE rows == [i \in 1 .. size.h |-> i - 1]
<1>1. size.h \in Nat \ {0}
  BY DEF TypeInv
<1>2. rows \in [1 .. size.h -> Int]
  BY <1>1
<1>3. rows \in Seq(Int)
  BY <1>1, <1>2, SeqDef
<1>4. Len(rows) = size.h
  <2>1. DOMAIN rows = 1 .. size.h /\ DOMAIN rows = 1 .. Len(rows) /\ Len(rows) \in Nat
    BY <1>2, <1>3, LenProperties
  <2>2. QED
    BY <2>1, <1>1
<1>5. \A i \in 1 .. size.h : rows[i] = i - 1
  OBVIOUS
<1> HIDE DEF rows
<1>6. /\ <<Headers>> \in Seq(Int) /\ Len(<<Headers>>) = 1 /\ <<Headers>>[1] = Headers
      /\ <<End>> \in Seq(Int) /\ Len(<<End>>) = 1 /\ <<End>>[1] = End
  BY DEF Headers, End
<1> DEFINE front == <<Headers>> \o rows
<1>7. /\ front \in Seq(Int) /\ Len(front) = size.h + 1
      /\ \A i \in 1 .. size.h + 1 : front[i] = IF i = 1 THEN Headers ELSE i - 2
  <2>1. /\ front \in Seq(Int) /\ Len(front) = 1 + size.h
        /\ \A i \in 1 .. 1 + size.h : front[i] =
               IF i <= 1 THEN <<Headers>>[i] ELSE rows[i - 1]
    BY <1>3, <1>4, <1>6, ConcatProperties
  <2>2. ASSUME NEW i \in 1 .. size.h + 1
        PROVE  front[i] = IF i = 1 THEN Headers ELSE i - 2
    <3>1. CASE i = 1
      BY <1>1, <1>6, <2>1, <3>1
    <3>2. CASE i # 1
      <4>1. i - 1 \in 1 .. size.h /\ ~(i <= 1) /\ i \in 1 .. 1 + size.h
        BY <1>1, <3>2
      <4>2. rows[i - 1] = i - 2
        BY <1>5, <4>1
      <4>3. QED
        BY <2>1, <3>2, <4>1, <4>2
    <3>3. QED
      BY <3>1, <3>2
  <2>3. QED
    BY <1>1, <2>1, <2>2
<1> HIDE DEF front
<1>8. WholeFile = front \o <<End>>
  BY DEF WholeFile, front, rows
<1>9. /\ WholeFile \in Seq(Int) /\ Len(WholeFile) = size.h + 2
      /\ \A i \in 1 .. size.h + 2 : WholeFile[i] =
             IF i <= size.h + 1 THEN front[i] ELSE <<End>>[i - (size.h + 1)]
  <2> DEFINE last == <<End>>
             k == size.h + 1
  <2>1. k \in Nat /\ size.h + 2 = k + 1
    BY <1>1
  <2>2. last \in Seq(Int) /\ Len(last) = 1
    BY <1>6
  <2>3. front \in Seq(Int) /\ Len(front) = k
    BY <1>7
  <2> HIDE DEF last, k
  <2>4. /\ front \o last \in Seq(Int) /\ Len(front \o last) = k + 1
        /\ \A i \in 1 .. k + 1 :
              (front \o last)[i] = IF i <= k THEN front[i] ELSE last[i - k]
    BY <2>1, <2>2, <2>3, ConcatOfInts
  <2>5. QED
    BY <1>8, <2>1, <2>4 DEF last, k
<1>10. ASSUME NEW i \in 1 .. size.h + 2
       PROVE  WholeFile[i] = Part(i)
  <2>1. CASE i <= size.h + 1
    <3>1. i \in 1 .. size.h + 1
      BY <1>1, <2>1
    <3>2. QED
      BY <1>7, <1>9, <2>1, <3>1 DEF Part
  <2>2. CASE ~(i <= size.h + 1)
    <3>1. i - (size.h + 1) = 1 /\ i # 1
      BY <1>1, <2>2
    <3>2. QED
      BY <1>6, <1>9, <2>2, <3>1 DEF Part
  <2>3. QED
    BY <2>1, <2>2
<1>11. QED
  BY <1>9, <1>10

\* One part more in the buffer.
LEMMA OneMore ==
    ASSUME TypeInv, NEW n \in Nat, Holds(n), NEW e \in Int, e = Part(n + 1)
    PROVE  LET parts == Append(buffer, e) IN
           /\ parts \in Seq(Int) /\ Len(block) + Len(parts) = n + 1
           /\ \A i \in 1 .. Len(parts) : parts[i] = Part(Len(block) + i)
<1> DEFINE parts == Append(buffer, e)
<1>1. buffer \in Seq(Int) /\ Len(block) \in Nat /\ Len(buffer) \in Nat
  BY LenProperties DEF TypeInv
<1>2. /\ parts \in Seq(Int) /\ Len(parts) = Len(buffer) + 1
      /\ \A i \in 1 .. Len(buffer) : parts[i] = buffer[i]
      /\ parts[Len(buffer) + 1] = e
  BY <1>1, AppendProperties
<1> HIDE DEF parts
<1>3. Len(block) + Len(buffer) = n
  BY DEF Holds
<1>4. ASSUME NEW i \in 1 .. Len(parts)
      PROVE  parts[i] = Part(Len(block) + i)
  <2>1. CASE i = Len(buffer) + 1
    <3>1. Len(block) + i = n + 1
      BY <1>1, <1>3, <2>1
    <3>2. QED
      BY <1>2, <2>1, <3>1
  <2>2. CASE i # Len(buffer) + 1
    <3>1. i \in 1 .. Len(buffer)
      BY <1>1, <1>2, <2>2
    <3>2. QED
      BY <1>2, <3>1 DEF Holds
  <2>3. QED
    BY <2>1, <2>2
<1>5. Len(block) + Len(parts) = n + 1
  BY <1>1, <1>2, <1>3
<1>6. QED
  BY <1>2, <1>4, <1>5 DEF parts

\* Emptying the buffer into the block keeps what both hold together.
LEMMA EmptiedInOrder ==
    ASSUME TypeInv, size' = size, NEW n \in Nat, NEW parts \in Seq(Int),
           Len(block) = destSize, Len(block) + Len(parts) = n,
           \A i \in 1 .. Len(block) : block[i] = Part(i),
           \A i \in 1 .. Len(parts) : parts[i] = Part(Len(block) + i),
           Len(parts) <= BufferSize, EmptyOutputBuffer(parts)
    PROVE  /\ Holds(n)' /\ Len(block') = destSize' /\ destSize' = n
           /\ \A i \in 1 .. Len(block') : block'[i] = Part(i)'
<1>1. /\ Len(block) \in Nat /\ Len(parts) \in Nat /\ destSize \in Nat
      /\ block \in Seq(Int)
  BY LenProperties DEF TypeInv
<1>2. /\ block' = Grown(block, destSize, parts) /\ destSize' = destSize + Len(parts)
      /\ buffer' = <<>>
  BY <1>1, EnlargedSize DEF EmptyOutputBuffer, TypeInv
<1>3. /\ Len(block') = n
      /\ \A i \in 1 .. n : block'[i] =
            IF i <= Len(block) THEN block[i]
            ELSE IF i <= destSize THEN Undefined ELSE parts[i - destSize]
  <2>1. destSize + Len(parts) = n
    BY <1>1
  <2>2. /\ Len(Grown(block, destSize, parts)) = destSize + Len(parts)
        /\ \A i \in 1 .. destSize + Len(parts) : Grown(block, destSize, parts)[i] =
              IF i <= Len(block) THEN block[i]
              ELSE IF i <= destSize THEN Undefined ELSE parts[i - destSize]
    BY <1>1, GrownContent
  <2>3. QED
    BY <1>2, <2>1, <2>2
<1>4. ASSUME NEW i \in 1 .. n
      PROVE  block'[i] = Part(i)
  <2>1. CASE i <= Len(block)
    <3>1. i \in 1 .. Len(block)
      BY <1>1, <2>1
    <3>2. QED
      BY <1>3, <2>1, <3>1
  <2>2. CASE ~(i <= Len(block))
    <3>1. i - destSize \in 1 .. Len(parts) /\ ~(i <= destSize)
          /\ Len(block) + (i - destSize) = i
      BY <1>1, <2>2
    <3>2. parts[i - destSize] = Part(i)
      BY <3>1
    <3>3. QED
      BY <1>3, <2>2, <3>1, <3>2
  <2>3. QED
    BY <2>1, <2>2
<1>5. \A i \in 1 .. n : Part(i)' = Part(i)
  BY DEF Part
<1>6. Len(buffer') = 0
  BY <1>2, EmptySeq
<1>7. \A i \in 1 .. Len(block') : block'[i] = Part(i)'
  BY <1>3, <1>4, <1>5
<1>8. destSize' = n /\ Len(block') + Len(buffer') = n
  BY <1>1, <1>2, <1>3, <1>6
<1>9. QED
  BY <1>3, <1>6, <1>7, <1>8 DEF Holds

\* Most steps leave the output as it is.
LEMMA OutputFrame ==
    ASSUME TypeInv, UNCHANGED <<size, outputVars>>
    PROVE  /\ Complete' <=> Complete
           /\ WholeFile' = WholeFile
           /\ \A n \in Nat : Holds(n)' <=> Holds(n)
BY DEF Complete, WholeFile, Holds, Part, outputVars

LEMMA FileHolds ==
    TypeInv /\ OwnedInv /\ FileInv /\ [Next]_allVars => FileInv'
<1> SUFFICES ASSUME TypeInv, OwnedInv, FileInv, [Next]_allVars PROVE FileInv'
  OBVIOUS
<1>0. /\ starved \in BOOLEAN /\ row \in Nat /\ size.h \in Nat \ {0} /\ destSize \in Int
      /\ block \in Seq(Int) /\ buffer \in Seq(Int)
  BY DEF TypeInv
<1>a. ASSUME starved', pc' # "rows" PROVE FileInv' 
  BY <1>a DEF FileInv
<1>b. ASSUME Fail, pc' # "rows" PROVE FileInv'
  BY <1>0, <1>a, <1>b DEF Fail
<1>1. CASE UNCHANGED allVars
  <2>1. UNCHANGED <<size, buffer, block, destSize, row, starved, pc, outcome, delivered>>
    BY <1>1 DEF allVars, vars, glueVars, imageVars, outputVars
  <2>2. QED
    BY <2>1 DEF FileInv, Complete, WholeFile, Holds, Part
<1>2. CASE Open /\ UNCHANGED glueVars
  BY <1>2, <1>0, <1>a, OutputFrame
     DEF Open, FileInv, TypeInv, OwnedInv, BeforeEncoding, Encoding, AfterEncoding,
         fileVars, glueVars, imageVars, outputVars, Fail
<1>3. CASE OpenFails /\ UNCHANGED glueVars
  BY <1>3, <1>0, <1>a, OutputFrame
     DEF OpenFails, FileInv, TypeInv, OwnedInv, BeforeEncoding, Encoding, AfterEncoding,
         fileVars, glueVars, imageVars, outputVars, Fail
<1>3a. CASE KeepText /\ UNCHANGED glueVars
  BY <1>3a, <1>0, <1>a, OutputFrame
     DEF KeepText, FileInv, TypeInv, OwnedInv, BeforeEncoding, Encoding, AfterEncoding,
         fileVars, glueVars, imageVars, outputVars, Fail
<1>4. CASE DecodeSizeSet /\ UNCHANGED glueVars
  BY <1>4, <1>0, <1>a, OutputFrame
     DEF DecodeSizeSet, FileInv, TypeInv, OwnedInv, BeforeEncoding, Encoding, AfterEncoding,
         fileVars, glueVars, imageVars, outputVars, Fail
<1>5. CASE Decode /\ UNCHANGED glueVars
  BY <1>5, <1>0, <1>a, OutputFrame
     DEF Decode, FileInv, TypeInv, OwnedInv, BeforeEncoding, Encoding, AfterEncoding,
         fileVars, glueVars, imageVars, outputVars, Fail
<1>5a. CASE DecodeOverruns /\ UNCHANGED glueVars
  BY <1>5a, <1>0, <1>a, OutputFrame
     DEF DecodeOverruns, FileInv, TypeInv, OwnedInv, BeforeEncoding, Encoding, AfterEncoding,
         fileVars, glueVars, imageVars, outputVars, Fail
<1>6. CASE DecodeJumps /\ UNCHANGED glueVars
  BY <1>6, <1>0, <1>a, OutputFrame
     DEF DecodeJumps, FileInv, TypeInv, OwnedInv, BeforeEncoding, Encoding, AfterEncoding,
         fileVars, glueVars, imageVars, outputVars, Fail
<1>7. CASE DecodeFails /\ UNCHANGED glueVars
  BY <1>7, <1>0, <1>a, OutputFrame
     DEF DecodeFails, FileInv, TypeInv, OwnedInv, BeforeEncoding, Encoding, AfterEncoding,
         fileVars, glueVars, imageVars, outputVars, Fail
<1>8. CASE ScaleRow /\ UNCHANGED glueVars
  BY <1>8, <1>0, <1>a, OutputFrame
     DEF ScaleRow, FileInv, TypeInv, OwnedInv, BeforeEncoding, Encoding, AfterEncoding,
         fileVars, glueVars, imageVars, outputVars, Fail
<1>9. CASE Scaled /\ UNCHANGED glueVars
  BY <1>9, <1>0, <1>a, OutputFrame
     DEF Scaled, FileInv, TypeInv, OwnedInv, BeforeEncoding, Encoding, AfterEncoding,
         fileVars, glueVars, imageVars, outputVars, Fail
<1>10. CASE StartCompress /\ UNCHANGED glueVars
  <2>1. /\ size' = size /\ row' = 0 /\ pc' = "rows" /\ outcome' = outcome
        /\ buffer' = <<Headers>> /\ block' = <<>> /\ destSize' = 0
    BY <1>10 DEF StartCompress, imageVars, glueVars, TypeInv
  <2>2. Len(block') = 0 /\ Len(buffer') = 1 /\ buffer'[1] = Headers
    BY <2>1
  <2>3. Holds(1)'
    BY <2>1, <2>2 DEF Holds, Part
  <2>4. outcome # "returned"
    BY <1>10 DEF StartCompress, OwnedInv
  <2>5. QED
    BY <1>0, <2>1, <2>3, <2>4 DEF FileInv
<1>11. CASE NoManager /\ UNCHANGED glueVars
  BY <1>11, <1>b DEF NoManager
<1>12. CASE NoBuffer /\ UNCHANGED glueVars
  BY <1>12, <1>b DEF NoBuffer
<1>13. CASE CreateJumps /\ UNCHANGED glueVars
  BY <1>13, <1>b DEF CreateJumps
<1>14. CASE StartJumps /\ UNCHANGED glueVars
  BY <1>14, <1>b DEF StartJumps
<1>15. CASE WriteRow /\ UNCHANGED glueVars
  <2> DEFINE parts == Append(buffer, row)
  <2>1. /\ size' = size /\ outcome' = outcome /\ pc = "rows" /\ row < size.h
        /\ outcome # "returned" /\ destSize' \in Int
    BY <1>15, TypeHolds DEF WriteRow, glueVars, OwnedInv, TypeInv
  <2>2. CASE OutputOverruns(parts)
    BY <2>1, <2>2 DEF OutputOverruns, FileInv
  <2>3. CASE pc' = "rows" /\ (starved' \/ destSize' < 0) /\ row' = row
    BY <1>0, <2>1, <2>3 DEF FileInv
  <2>4. CASE OutputBufferStays(parts) /\ UNCHANGED <<row, pc>>
    <3>1. destSize' < 0 \/ starved'
      BY <2>4 DEF OutputBufferStays, Fail
    <3>2. QED
      BY <2>1, <2>3, <2>4, <3>1
  <2>5. ASSUME row' = row + 1, UNCHANGED <<pc, starved>>,
               \/ Len(parts) < BufferSize /\ buffer' = parts /\ UNCHANGED <<block, destSize>>
               \/ Len(parts) = BufferSize /\ EmptyOutputBuffer(parts)
        PROVE  FileInv'
    <3>1. row' <= size'.h /\ row' \in Nat
      BY <1>0, <2>1, <2>5
    <3>2. PICK n \in Nat : n = row + 2
      BY <1>0
    <3>3. ASSUME ~starved, destSize >= 0 PROVE Holds(n)'
      <4>1. Holds(row + 1) /\ row + 1 \in Nat /\ (row + 1) + 1 = n
        BY <1>0, <2>1, <3>2, <3>3 DEF FileInv
      <4>2. row = Part((row + 1) + 1) /\ row \in Int
        BY <1>0, <2>1 DEF Part
      <4> HIDE DEF parts
      <4>3. /\ parts \in Seq(Int) /\ Len(block) + Len(parts) = n
            /\ \A i \in 1 .. Len(parts) : parts[i] = Part(Len(block) + i)
        BY <4>1, <4>2, OneMore DEF parts
      <4>4. CASE buffer' = parts /\ UNCHANGED <<block, destSize>>
        BY <2>1, <4>1, <4>3, <4>4 DEF Holds, Part
      <4>5. CASE Len(parts) = BufferSize /\ EmptyOutputBuffer(parts)
        <5>1. Len(parts) <= BufferSize
          BY <4>5, BufferAssumption
        <5>2. QED
          BY <2>1, <3>2, <4>1, <4>3, <4>5, <5>1, EmptiedInOrder DEF Holds
      <4>6. QED
        BY <2>5, <4>4, <4>5 DEF parts
    <3>4. destSize' >= 0 => destSize >= 0
      BY <2>5 DEF EmptyOutputBuffer
    <3>5. ASSUME ~starved, destSize' >= 0 PROVE Holds(row + 1)'
      <4>1. Holds(n)' /\ row' + 1 = n
        BY <1>0, <2>5, <3>2, <3>3, <3>4, <3>5
      <4>2. QED
        BY <4>1
    <3>6. QED
      BY <2>1, <2>5, <3>1, <3>5 DEF FileInv
  <2>6. QED
    BY <1>15, <2>2, <2>4, <2>5 DEF WriteRow, EmptyOutputBuffer
<1>16. CASE FinishCompress /\ UNCHANGED glueVars
  <2> DEFINE parts == Append(buffer, End)
  <2>1. /\ size' = size /\ outcome' = outcome /\ pc = "rows" /\ row = size.h
        /\ outcome # "returned" /\ pc' \in {"term", "done"}
    BY <1>16 DEF FinishCompress, glueVars, OwnedInv
  <2>2. CASE OutputBufferStays(parts)
    <3>1. destSize' < 0 \/ starved'
      BY <2>2 DEF OutputBufferStays, Fail
    <3>2. destSize' \in Int
      BY <2>1, <2>2, TypeHolds DEF TypeInv
    <3>3. QED
      BY <1>a, <2>1, <3>1, <3>2 DEF FileInv
  <2>3. ASSUME ~OutputBufferStays(parts) PROVE FileInv'
    <3> HIDE DEF parts
    <3>1. /\ pc' = "term" /\ UNCHANGED starved
          /\ \/ buffer' = parts /\ UNCHANGED <<block, destSize>>
             \/ Len(parts) = BufferSize /\ EmptyOutputBuffer(parts)
      BY <1>16, <2>3 DEF FinishCompress, EmptyOutputBuffer, parts
    <3>2. destSize' >= 0 => destSize >= 0
      BY <3>1 DEF EmptyOutputBuffer
    <3>3. ASSUME ~starved, destSize >= 0 PROVE Holds(size.h + 2)'
      <4>1. Holds(size.h + 1)
        BY <2>1, <3>3 DEF FileInv
      <4>2. End = Part(size.h + 1 + 1) /\ End \in Int
        BY <1>0 DEF Part, End
      <4>3. /\ parts \in Seq(Int) /\ Len(block) + Len(parts) = size.h + 2
            /\ \A i \in 1 .. Len(parts) : parts[i] = Part(Len(block) + i)
        BY <1>0, <4>1, <4>2, OneMore DEF parts
      <4>4. CASE buffer' = parts /\ UNCHANGED <<block, destSize>>
        BY <1>0, <2>1, <4>1, <4>3, <4>4 DEF Holds, Part
      <4>5. CASE Len(parts) = BufferSize /\ EmptyOutputBuffer(parts)
        <5>1. Len(parts) <= BufferSize
          BY <4>5, BufferAssumption
        <5>2. PICK n \in Nat : n = size.h + 2
          BY <1>0
        <5>3. /\ Len(block) = destSize /\ Len(block) + Len(parts) = n
              /\ \A i \in 1 .. Len(block) : block[i] = Part(i)
          BY <4>1, <4>3, <5>2 DEF Holds
        <5>4. Holds(n)'
          <6>1. size' = size /\ EmptyOutputBuffer(parts) /\ parts \in Seq(Int)
            BY <2>1, <4>3, <4>5
          <6>2. \A i \in 1 .. Len(parts) : parts[i] = Part(Len(block) + i)
            BY <4>3
          <6>3. QED
            BY <6>1, <6>2, <5>1, <5>3, EmptiedInOrder
        <5>5. QED
          BY <2>1, <5>2, <5>4 DEF Holds
      <4>6. QED
        BY <3>1, <4>4, <4>5
    <3>4. QED
      BY <2>1, <3>1, <3>2, <3>3 DEF FileInv
  <2>4. QED
    BY <2>2, <2>3
<1>17. CASE TermDestination /\ UNCHANGED glueVars
  <2>1. /\ size' = size /\ outcome' = outcome /\ pc = "term" /\ pc' = "done"
        /\ outcome # "returned"
    BY <1>17 DEF TermDestination, glueVars, OwnedInv
  <2>2. CASE OutputBufferStays(buffer)
    <3>1. destSize' < 0 \/ starved'
      BY <2>2 DEF OutputBufferStays, Fail
    <3>2. destSize' \in Int
      BY TypeHolds DEF TypeInv
    <3>3. QED
      BY <1>a, <2>1, <3>1, <3>2 DEF FileInv
  <2>3. CASE EmptyOutputBuffer(buffer) /\ ~starved
    <3>1. Holds(size.h + 2) /\ UNCHANGED starved
      BY <2>1, <2>3 DEF FileInv, EmptyOutputBuffer
    <3>2. Len(buffer) <= BufferSize
      <4>1. Len(buffer) < BufferSize /\ BufferSize \in Nat /\ Len(buffer) \in Nat
        BY <1>0, <2>1, BufferAssumption, LenProperties DEF TypeInv, Encoding
      <4>2. QED
        BY <4>1
    <3>3. /\ Len(block') = destSize' /\ destSize' = size.h + 2
          /\ \A i \in 1 .. Len(block') : block'[i] = Part(i)'
      <4>1. PICK n \in Nat : n = size.h + 2
        BY <1>0
      <4>2. /\ Len(block) = destSize /\ Len(block) + Len(buffer) = n
            /\ \A i \in 1 .. Len(block) : block[i] = Part(i)
            /\ \A i \in 1 .. Len(buffer) : buffer[i] = Part(Len(block) + i)
        BY <3>1, <4>1 DEF Holds
      <4>3. /\ Len(block') = destSize' /\ destSize' = n
            /\ \A i \in 1 .. Len(block') : block'[i] = Part(i)'
        BY <1>0, <2>1, <2>3, <3>2, <4>2, EmptiedInOrder
      <4>4. QED
        BY <4>1, <4>3
    <3>4. Complete'
      BY <2>1, <3>3 DEF Complete
    <3>5. QED
      BY <2>1, <3>4 DEF FileInv
  <2>4. CASE EmptyOutputBuffer(buffer) /\ starved
    BY <1>a, <2>1, <2>4 DEF EmptyOutputBuffer
  <2>5. QED
    BY <1>0, <1>17, <2>2, <2>3, <2>4 DEF TermDestination
<1>18. CASE EncodeDone /\ UNCHANGED glueVars
  BY <1>18, <1>0, <1>a, OutputFrame
     DEF EncodeDone, FileInv, TypeInv, OwnedInv, BeforeEncoding, Encoding, AfterEncoding,
         fileVars, glueVars, imageVars, outputVars, Fail
<1>19. CASE Close /\ UNCHANGED glueVars
  BY <1>19, <1>0, <1>a, OutputFrame
     DEF Close, FileInv, TypeInv, OwnedInv, BeforeEncoding, Encoding, AfterEncoding,
         fileVars, glueVars, imageVars, outputVars, Fail
<1>20. CASE Enter
  BY <1>20, <1>0, <1>a, OutputFrame
     DEF Enter, FileInv, TypeInv, OwnedInv, BeforeEncoding, Encoding, AfterEncoding,
         fileVars, glueVars, imageVars, outputVars, Fail
<1>21. CASE UseNullHandle
  BY <1>21, <1>0, <1>a, OutputFrame
     DEF UseNullHandle, Lose, FileInv, TypeInv, OwnedInv, BeforeEncoding, Encoding, AfterEncoding,
         fileVars, glueVars, imageVars, outputVars, Fail
<1>21a. CASE Overrun
  BY <1>21a, <1>0, <1>a, OutputFrame
     DEF Overrun, Lose, FileInv, TypeInv, OwnedInv, BeforeEncoding, Encoding, AfterEncoding,
         fileVars, glueVars, imageVars, outputVars, Fail
<1>22. CASE ReleaseInput
  BY <1>22, <1>0, <1>a, OutputFrame
     DEF ReleaseInput, FileInv, TypeInv, OwnedInv, BeforeEncoding, Encoding, AfterEncoding,
         fileVars, glueVars, imageVars, outputVars, Fail
<1>23. CASE NewArray
  BY <1>23, <1>0, <1>a, OutputFrame
     DEF NewArray, FileInv, TypeInv, OwnedInv, BeforeEncoding, Encoding, AfterEncoding,
         fileVars, glueVars, imageVars, outputVars, Fail
<1>24. CASE NoArray
  BY <1>24, <1>0, <1>a, OutputFrame
     DEF NoArray, Lose, FileInv, TypeInv, OwnedInv, BeforeEncoding, Encoding, AfterEncoding,
         fileVars, glueVars, imageVars, outputVars, Fail
<1>25. CASE CopyOut
  <2>1. /\ UNCHANGED <<size, outputVars, starved>> /\ pc = "copy" /\ pc' = "over"
        /\ delivered' = Grown(block, destSize, <<>>)
    BY <1>25 DEF CopyOut
  <2>2. CASE starved
    BY <1>a, <2>1, <2>2
  <2>3. CASE ~starved
    <3>1. destSize \in Nat
      BY <2>1 DEF TypeInv
    <3>2. Len(block) = destSize /\ destSize = size.h + 2
          /\ \A i \in 1 .. size.h + 2 : block[i] = Part(i)
      BY <2>1, <2>3, <3>1 DEF FileInv, Complete
    <3>3. <<>> \in Seq(Int) /\ Len(<<>>) = 0
      BY EmptySeq
    <3>4. /\ delivered' \in Seq(Int) /\ Len(delivered') = size.h + 2
          /\ \A i \in 1 .. size.h + 2 : delivered'[i] = Part(i)
      <4> DEFINE none == <<>>
                 g == Grown(block, destSize, none)
      <4>0. none \in Seq(Int) /\ Len(none) = 0
        BY <3>3
      <4> HIDE DEF none
      <4>1. /\ g \in Seq(Int) /\ Len(g) = destSize + Len(none)
            /\ \A i \in 1 .. destSize + Len(none) :
                  g[i] = IF i <= Len(block) THEN block[i]
                         ELSE IF i <= destSize THEN Undefined ELSE none[i - destSize]
        BY <1>0, <3>1, <4>0, GrownContent
      <4> HIDE DEF g
      <4>2. destSize + Len(none) = size.h + 2
        BY <3>1, <3>2, <4>0
      <4>3. ASSUME NEW i \in 1 .. size.h + 2 PROVE g[i] = Part(i)
        <5>1. i \in 1 .. destSize + Len(none) /\ i <= Len(block)
          BY <1>0, <3>1, <3>2, <4>2, <4>3
        <5>2. g[i] = block[i]
          BY <4>1, <5>1
        <5>3. QED
          BY <3>2, <5>2
      <4>4. QED
        BY <2>1, <4>1, <4>2, <4>3 DEF g, none
    <3>5. delivered' = WholeFile
      BY <3>4, PartsOfTheFile, SeqEqual
    <3>6. WholeFile' = WholeFile
      BY <2>1, OutputFrame
    <3>7. QED
      BY <2>1, <3>5, <3>6 DEF FileInv
  <2>4. QED
    BY <2>2, <2>3
<1>26. CASE CopyFaults
  BY <1>26, <1>0, <1>a, OutputFrame
     DEF CopyFaults, Lose, FileInv, TypeInv, OwnedInv, BeforeEncoding, Encoding, AfterEncoding,
         fileVars, glueVars, imageVars, outputVars, Fail
<1>27. QED
  BY <1>1, <1>2, <1>3, <1>3a, <1>4, <1>5, <1>5a, <1>6, <1>7, <1>8, <1>9, <1>10,
     <1>11, <1>12, <1>13, <1>14, <1>15, <1>16, <1>17, <1>18, <1>19, <1>20, <1>21,
     <1>21a, <1>22, <1>23, <1>24, <1>25, <1>26
     DEF Next, Step, EpegStep, Over

\* While the block and the buffer hold the beginning of the file, the size
\* turns negative only if the file is too long.
LEMMA NoOverflow ==
    ASSUME TypeInv, NEW n \in Nat, Holds(n), n < size.h + 2,
           NEW e \in Int, e = Part(n + 1), Len(Append(buffer, e)) <= BufferSize,
           ~TooLong
    PROVE  Enlarged(Append(buffer, e)) >= 0
<1> DEFINE parts == Append(buffer, e)
<1>1. parts \in Seq(Int) /\ Len(block) + Len(parts) = n + 1 /\ Len(block) = destSize
  BY OneMore DEF Holds
<1> HIDE DEF parts
<1>2. Len(parts) <= BufferSize
  BY DEF parts
<1>3. n + 1 < SizeLimit /\ SizeLimit \in Nat
  BY WidthsAssumption DEF TooLong, TypeInv
<1>4. Enlarged(parts) = destSize + Len(parts)
  BY <1>1, <1>2, <1>3, EnlargedSize DEF TypeInv
<1>5. QED
  BY <1>1, <1>4 DEF parts

LEMMA CausesHold ==
    TypeInv /\ OwnedInv /\ CauseInv /\ FileInv /\ [Next]_allVars => CauseInv'
<1> SUFFICES ASSUME TypeInv, OwnedInv, CauseInv, FileInv, [Next]_allVars PROVE CauseInv'
  OBVIOUS
<1> DEFINE Cause == file.body = "refused" \/ BufferWraps \/ TooLong
<1>0. Sound <=> ~starved /\ ~Cause
  BY DEF Sound
<1>0a. Sound' <=> ~starved' /\ ~Cause'
  BY DEF Sound
<1>0b. ASSUME UNCHANGED <<file, size>> PROVE Cause' <=> Cause
  BY <1>0b DEF BufferWraps, TooLong, OutputWidth, OutputHeight
<1>0c. file.body # "sound" => Cause
  BY FileFacts DEF TypeInv
<1>0d. BufferWraps => Cause
  OBVIOUS
<1>0e. destSize' \in Int /\ starved' \in BOOLEAN
  BY TypeHolds DEF TypeInv
<1> HIDE DEF Cause
<1> USE <1>0, <1>0a, <1>0b, <1>0c, <1>0e DEF TypeInv, OwnedInv, CauseInv, BeforeEncoding, Encoding,
            AfterEncoding, fileVars, imageVars, outputVars, glueVars, Fail, Allocate, Free,
            HandleBlocks, Blocks, TextNames
<1>1. CASE UNCHANGED allVars
  BY <1>1 DEF allVars, vars
<1>2. CASE Open /\ UNCHANGED glueVars
  BY <1>2 DEF Open
<1>3. CASE OpenFails /\ UNCHANGED glueVars
  BY <1>3 DEF OpenFails
<1>3a. CASE KeepText /\ UNCHANGED glueVars
  BY <1>3a DEF KeepText
<1>4. CASE DecodeSizeSet /\ UNCHANGED glueVars
  BY <1>4 DEF DecodeSizeSet
<1>5. CASE Decode /\ UNCHANGED glueVars
  BY <1>5 DEF Decode
<1>5a. CASE DecodeOverruns /\ UNCHANGED glueVars
  BY <1>5a, <1>0d DEF DecodeOverruns
<1>6. CASE DecodeJumps /\ UNCHANGED glueVars
  BY <1>6 DEF DecodeJumps
<1>7. CASE DecodeFails /\ UNCHANGED glueVars
  BY <1>7 DEF DecodeFails
<1>8. CASE ScaleRow /\ UNCHANGED glueVars
  BY <1>8 DEF ScaleRow
<1>9. CASE Scaled /\ UNCHANGED glueVars
  BY <1>9 DEF Scaled
<1>10. CASE StartCompress /\ UNCHANGED glueVars
  BY <1>10 DEF StartCompress
<1>11. CASE NoManager /\ UNCHANGED glueVars
  BY <1>11 DEF NoManager
<1>12. CASE NoBuffer /\ UNCHANGED glueVars
  BY <1>12 DEF NoBuffer
<1>13. CASE CreateJumps /\ UNCHANGED glueVars
  BY <1>13 DEF CreateJumps
<1>14. CASE StartJumps /\ UNCHANGED glueVars
  BY <1>14 DEF StartJumps
<1>15. CASE WriteRow /\ UNCHANGED glueVars
  <2> DEFINE parts == Append(buffer, row)
  <2>1. /\ UNCHANGED <<file, size, outcome>> /\ pc = "rows" /\ row < size.h /\ outcome = "none"
    BY <1>15 DEF WriteRow
  <2>2. ASSUME Sound, Len(parts) = BufferSize PROVE Enlarged(parts) >= 0
    <3>1. Holds(row + 1) /\ row + 1 \in Nat /\ row + 1 < size.h + 2
      BY <2>1, <2>2 DEF FileInv
    <3>2. row = Part((row + 1) + 1) /\ row \in Int
      BY <2>1 DEF Part
    <3>3. ~TooLong /\ Len(parts) <= BufferSize
      BY <2>2, BufferAssumption DEF Sound
    <3>4. QED
      BY <3>1, <3>2, <3>3, NoOverflow
  <2> HIDE DEF parts
  <2>3. CASE /\ Len(parts) < BufferSize /\ buffer' = parts /\ row' = row + 1
             /\ UNCHANGED <<live, held, block, destSize, starved, pc>>
    BY <2>1, <2>3
  <2>4. CASE Len(parts) = BufferSize /\ EmptyOutputBuffer(parts) /\ UNCHANGED pc
    BY <2>1, <2>4 DEF EmptyOutputBuffer
  <2>5. CASE Len(parts) = BufferSize /\ OutputBufferStays(parts) /\ UNCHANGED <<row, pc>>
    BY <2>1, <2>2, <2>5 DEF OutputBufferStays
  <2>6. CASE Len(parts) = BufferSize /\ OutputOverruns(parts) /\ UNCHANGED row
    BY <2>1, <2>6 DEF OutputOverruns
  <2>7. QED
    BY <1>15, <2>3, <2>4, <2>5, <2>6 DEF WriteRow, parts
<1>16. CASE FinishCompress /\ UNCHANGED glueVars
  <2> DEFINE parts == Append(buffer, End)
  <2>1. /\ UNCHANGED <<file, size, outcome>> /\ pc = "rows" /\ row = size.h /\ outcome = "none"
    BY <1>16 DEF FinishCompress
  <2>2. ASSUME Sound, Len(parts) = BufferSize PROVE Enlarged(parts) >= 0
    <3>1. Holds(row + 1) /\ row + 1 \in Nat /\ row + 1 < size.h + 2
      BY <2>1, <2>2 DEF FileInv
    <3>2. End = Part((row + 1) + 1) /\ End \in Int
      BY <2>1 DEF Part, End
    <3>3. ~TooLong /\ Len(parts) <= BufferSize
      BY <2>2, BufferAssumption DEF Sound
    <3>4. QED
      BY <3>1, <3>2, <3>3, NoOverflow
  <2> HIDE DEF parts
  <2>3. CASE /\ Len(parts) < BufferSize /\ buffer' = parts /\ Goto("term")
             /\ UNCHANGED <<live, held, block, destSize, starved, jumped>>
    BY <2>1, <2>3
  <2>4. CASE Len(parts) = BufferSize /\ EmptyOutputBuffer(parts) /\ Goto("term")
             /\ UNCHANGED jumped
    BY <2>1, <2>4 DEF EmptyOutputBuffer
  <2>5. CASE Len(parts) = BufferSize /\ OutputBufferStays(parts) /\ Goto("done")
             /\ jumped' = TRUE
    BY <2>1, <2>2, <2>5 DEF OutputBufferStays
  <2>6. QED
    BY <1>16, <2>3, <2>4, <2>5 DEF FinishCompress, parts
<1>17. CASE TermDestination /\ UNCHANGED glueVars
  <2>1. /\ UNCHANGED <<file, size, outcome>> /\ pc = "term" /\ pc' = "done" /\ outcome = "none"
    BY <1>17 DEF TermDestination
  <2>2. ASSUME Sound PROVE Enlarged(buffer) >= 0
    <3>1. Holds(size.h + 2)
      BY <2>1, <2>2 DEF FileInv
    <3>2. Len(buffer) <= BufferSize /\ Len(buffer) \in Nat
      <4>1. BufferSize \in Nat /\ Len(buffer) \in Nat /\ Len(buffer) < BufferSize
        BY <2>1, BufferAssumption, LenProperties
      <4>2. QED
        BY <4>1
    <3>3. destSize + Len(buffer) = size.h + 2
      BY <3>1 DEF Holds
    <3>4. size.h + 2 < SizeLimit
      BY <2>2, WidthsAssumption DEF Sound, TooLong
    <3>5. Enlarged(buffer) = destSize + Len(buffer)
      BY <3>2, <3>3, <3>4, EnlargedSize
    <3>6. QED
      BY <3>3, <3>5
  <2>3. CASE EmptyOutputBuffer(buffer)
    BY <2>1, <2>3 DEF EmptyOutputBuffer
  <2>4. CASE OutputBufferStays(buffer)
    BY <2>1, <2>2, <2>4 DEF OutputBufferStays
  <2>5. QED
    BY <1>17, <2>3, <2>4 DEF TermDestination
<1>18. CASE EncodeDone /\ UNCHANGED glueVars
  BY <1>18 DEF EncodeDone
<1>19. CASE Close /\ UNCHANGED glueVars
  BY <1>19 DEF Close, Closed
<1>20. CASE Enter
  BY <1>20 DEF Enter
<1>21. CASE UseNullHandle
  BY <1>21 DEF UseNullHandle, Lose
<1>21a. CASE Overrun
  BY <1>21a DEF Overrun, Lose
<1>22. CASE ReleaseInput
  BY <1>22 DEF ReleaseInput
<1>23. CASE NewArray
  BY <1>23 DEF NewArray
<1>24. CASE NoArray
  BY <1>24 DEF NoArray, Lose
<1>25. CASE CopyOut
  BY <1>25 DEF CopyOut
<1>26. CASE CopyFaults
  <2>1. pc = "copy" /\ UNCHANGED <<file, size, starved, destSize>> /\ pc' = "over"
    BY <1>26 DEF CopyFaults, Lose
  <2>2. ASSUME Sound PROVE FALSE
    <3>1. destSize >= 0 /\ Len(block) = destSize
      BY <2>1, <2>2 DEF FileInv, Complete
    <3>2. QED
      BY <1>26, <2>1, <2>2, <3>1 DEF CopyFaults
  <2>3. QED
    BY <1>26, <2>1, <2>2 DEF CopyFaults, Lose
<1>27. QED
  BY <1>1, <1>2, <1>3, <1>3a, <1>4, <1>5, <1>5a, <1>6, <1>7, <1>8, <1>9, <1>10,
     <1>11, <1>12, <1>13, <1>14, <1>15, <1>16, <1>17, <1>18, <1>19, <1>20, <1>21,
     <1>21a, <1>22, <1>23, <1>24, <1>25, <1>26
     DEF Next, Step, EpegStep, Over

\* The picture is decoded at a fraction that leaves at least the size asked for.
LEMMA DecodedLargeEnough ==
    ASSUME NEW extent \in Nat \ {0}, NEW n \in Nat \ {0}, NEW denom \in 1 .. 8,
           denom <= extent \div n
    PROVE  OutputExtent(extent, denom) \in Nat /\ n <= OutputExtent(extent, denom)
<1>1. denom * n <= extent
  <2> DEFINE q == extent \div n
  <2>1. q \in Nat /\ n * q <= extent
    BY Quotient
  <2> HIDE DEF q
  <2>2. PICK e \in Nat : q = denom + e
    <3>1. q - denom \in Nat /\ q = denom + (q - denom)
      BY <2>1 DEF q
    <3>2. QED
      BY <3>1
  <2>3. n * q = denom * n + n * e /\ n * e \in Nat
    BY <2>1, <2>2
  <2>4. QED
    BY <2>1, <2>3
<1>2. \/ denom = 1 /\ CeilDiv(8, denom) = 8
      \/ denom = 2 /\ CeilDiv(8, denom) = 4
      \/ denom = 3 /\ CeilDiv(8, denom) = 3
      \/ denom = 4 /\ CeilDiv(8, denom) = 2
      \/ denom = 5 /\ CeilDiv(8, denom) = 2
      \/ denom = 6 /\ CeilDiv(8, denom) = 2
      \/ denom = 7 /\ CeilDiv(8, denom) = 2
      \/ denom = 8 /\ CeilDiv(8, denom) = 1
  BY DEF CeilDiv
<1>3. PICK c \in 1 .. 8 : c = CeilDiv(8, denom)
  BY <1>2
<1>4. 8 * n <= extent * c + 7
  BY <1>1, <1>2, <1>3
<1>5. OutputExtent(extent, denom) = (extent * c + 7) \div 8
  <2>1. extent * c \in Nat /\ extent * c + 8 - 1 = extent * c + 7
    BY <1>3
  <2>2. OutputExtent(extent, denom) = (extent * c + 8 - 1) \div 8
    BY <1>3 DEF OutputExtent, CeilDiv
  <2>3. QED
    BY <2>1, <2>2
<1>6. QED
  <2>1. extent * c + 7 \in Nat
    BY <1>3
  <2> DEFINE m == extent * c + 7
  <2>2. m \in Nat /\ 8 * n <= m
    BY <2>1, <1>4
  <2> HIDE DEF m
  <2>3. n <= m \div 8 /\ m \div 8 \in Nat
    BY <2>2
  <2>4. QED
    BY <2>3, <1>5 DEF m

\* The reading place is never behind the writing place, and within the row.
LEMMA ReadsAhead ==
    ASSUME NEW extent \in Nat, NEW n \in Nat \ {0}, n <= extent, NEW x \in 0 .. n - 1
    PROVE  /\ (x * extent) \div n \in Nat
           /\ x <= (x * extent) \div n /\ (x * extent) \div n < extent
<1>1. PICK e \in Nat : extent = n + e
  <2>1. extent - n \in Nat /\ extent = n + (extent - n)
    OBVIOUS
  <2>2. QED
    BY <2>1
<1>2. PICK r \in Nat : n = x + 1 + r
  <2>1. n - (x + 1) \in Nat /\ n = x + 1 + (n - (x + 1))
    OBVIOUS
  <2>2. QED
    BY <2>1
<1>3. x \in Nat /\ x * extent \in Nat
  OBVIOUS
<1>4. n * x <= x * extent
  <2>1. x * extent = n * x + x * e /\ x * e \in Nat
    BY <1>1, <1>3
  <2>2. QED
    BY <1>3, <2>1
<1>5. x * extent < n * extent
  <2>1. n * extent = x * extent + extent + r * extent /\ r * extent \in Nat
    BY <1>2, <1>3
  <2>2. extent > 0
    OBVIOUS
  <2>3. QED
    BY <1>3, <2>1, <2>2
<1>6. QED
  <2> DEFINE a == x * extent
  <2>1. a \in Nat /\ n * x <= a /\ a < n * extent
    BY <1>3, <1>4, <1>5
  <2> HIDE DEF a
  <2>2. a \div n \in Nat
    BY <2>1, Quotient
  <2>3. x <= a \div n
    BY <1>3, <2>1, QuotientAtLeast
  <2>4. a \div n < extent
    BY <2>1, QuotientBelow
  <2>5. QED
    BY <2>2, <2>3, <2>4 DEF a

\* The pictures that fit the pixel buffer, and where a place of the result is
\* read from.
Places(width, height) == [0 .. height - 1 -> [0 .. width - 1 -> Nat \X Nat]]
From(x, extent, n) == (x * extent) \div n

LEMMA ColumnWritten ==
    ASSUME NEW W \in Nat, NEW H \in Nat, NEW b \in Places(W, H),
           NEW y \in 0 .. H - 1, NEW x \in 0 .. W - 1,
           NEW i \in 0 .. H - 1, NEW j \in 0 .. W - 1,
           NEW c, c = [b EXCEPT ![y][x] = b[i][j]]
    PROVE  /\ c \in Places(W, H)
           /\ c[y][x] = b[i][j]
           /\ \A k \in 0 .. W - 1 : k # x => c[y][k] = b[y][k]
           /\ \A z \in 0 .. H - 1 : z # y => c[z] = b[z]
<1> DEFINE Rows == [0 .. W - 1 -> Nat \X Nat]
           r == [b[y] EXCEPT ![x] = b[i][j]]
<1>1. b \in [0 .. H - 1 -> Rows] /\ b[y] \in Rows /\ b[i] \in Rows
  BY DEF Places
<1>2. b[i][j] \in Nat \X Nat
  BY <1>1
<1>3. r \in Rows /\ r[x] = b[i][j] /\ \A k \in 0 .. W - 1 : k # x => r[k] = b[y][k]
  BY <1>1, <1>2
<1>4. c = [b EXCEPT ![y] = r]
  OBVIOUS
<1> HIDE DEF r, Rows
<1>5. c \in [0 .. H - 1 -> Rows] /\ c[y] = r /\ \A z \in 0 .. H - 1 : z # y => c[z] = b[z]
  BY <1>1, <1>3, <1>4
<1>6. QED
  BY <1>3, <1>5 DEF Places, Rows

IsScaledRow(new, buf, y, s, W, H) ==
    /\ new \in Places(W, H)
    /\ \A x \in 0 .. s.w - 1 : new[y][x] = buf[From(y, H, s.h)][From(x, W, s.w)]
    /\ \A x \in s.w .. W - 1 : new[y][x] = buf[y][x]
    /\ \A z \in 0 .. H - 1 : z # y => new[z] = buf[z]

\* A row scaled in place is the row scaled aside: what is overwritten has been
\* read already.
LEMMA ScalingARow ==
    ASSUME NEW W \in Nat, NEW H \in Nat, OutputWidth = W, OutputHeight = H,
           NEW s, s.w \in Nat \ {0}, s.h \in Nat \ {0}, s.w <= W, s.h <= H,
           NEW buf \in Places(W, H), NEW y \in 0 .. s.h - 1
    PROVE  IsScaledRow(RowScaled(buf, y, s), buf, y, s, W, H)
<1> DEFINE from == From(y, H, s.h)
           V == Places(W, H)
           Put(n, b) == [b EXCEPT ![y][n - 1] = b[from][From(n - 1, W, s.w)]]
           Recursion(g) == g = [n \in 0 .. s.w |-> IF n = 0 THEN buf ELSE Put(n, g[n - 1])]
           after == CHOOSE g : Recursion(g)
           F == [n \in 1 .. s.w |-> [b \in V |-> Put(n, b)]]
<1>1. RowScaled(buf, y, s) = after[s.w]
  BY DEF RowScaled, From
<1>2. from \in 0 .. H - 1 /\ y <= from /\ y \in 0 .. H - 1
  BY ReadsAhead DEF From
<1>3. ASSUME NEW n \in 1 .. s.w
      PROVE  /\ n - 1 \in 0 .. W - 1 /\ From(n - 1, W, s.w) \in 0 .. W - 1
             /\ n - 1 <= From(n - 1, W, s.w)
  <2>1. PICK x \in 0 .. s.w - 1 : x = n - 1
    OBVIOUS
  <2>2. From(x, W, s.w) \in Nat /\ x <= From(x, W, s.w) /\ From(x, W, s.w) < W
    BY ReadsAhead DEF From
  <2>3. QED
    BY <2>1, <2>2
<1> HIDE DEF from
<1>4. ASSUME NEW n \in 1 .. s.w, NEW b \in V
      PROVE  /\ Put(n, b) \in V
             /\ Put(n, b)[y][n - 1] = b[from][From(n - 1, W, s.w)]
             /\ \A k \in 0 .. W - 1 : k # n - 1 => Put(n, b)[y][k] = b[y][k]
             /\ \A z \in 0 .. H - 1 : z # y => Put(n, b)[z] = b[z]
  BY <1>2, <1>3, ColumnWritten
<1> HIDE DEF Put, V
<1>5. Recursion(after)
  <2>1. F \in [1 .. s.w -> [V -> V]]
    BY <1>4
  <2>2. buf \in V /\ s.w \in Nat
    BY DEF V
  <2> HIDE DEF F
  <2>3. PICK g \in [0 .. s.w -> V] : g[0] = buf /\ \A n \in 1 .. s.w : g[n] = F[n][g[n - 1]]
    <3>1. F \in StepFunctions(s.w, V)
      BY <2>1 DEF StepFunctions
    <3>2. \E g \in [0 .. s.w -> V] : Iterates(g, s.w, buf, F)
      BY <2>2, <3>1, Iteration
    <3>3. QED
      BY <3>2 DEF Iterates
  <2>4. ASSUME NEW n \in 0 .. s.w
        PROVE  g[n] = IF n = 0 THEN buf ELSE Put(n, g[n - 1])
    <3>1. CASE n = 0
      BY <2>3, <3>1
    <3>2. CASE n # 0
      <4>1. n \in 1 .. s.w /\ n - 1 \in 0 .. s.w /\ g[n - 1] \in V
        BY <3>2
      <4>2. F[n][g[n - 1]] = Put(n, g[n - 1])
        BY <4>1 DEF F
      <4>3. QED
        BY <2>3, <3>2, <4>1, <4>2
    <3>3. QED
      BY <3>1, <3>2
  <2>5. Recursion(g)
    BY <2>4
  <2> HIDE DEF Recursion
  <2>6. QED
    BY <2>5
<1> HIDE DEF after
<1> DEFINE Done(n, b) ==
              /\ b \in V
              /\ \A x \in 0 .. n - 1 : b[y][x] = buf[from][From(x, W, s.w)]
              /\ \A x \in n .. W - 1 : b[y][x] = buf[y][x]
              /\ \A z \in 0 .. H - 1 : z # y => b[z] = buf[z]
           T == {n \in 0 .. s.w : Done(n, after[n])}
<1>6. 0 \in T
  <2>1. after[0] = buf
    BY <1>5
  <2>2. Done(0, buf)
    BY DEF V
  <2>3. QED
    BY <2>1, <2>2
<1>7. ASSUME NEW n \in 0 .. s.w - 1, n \in T PROVE n + 1 \in T
  <2> DEFINE b == after[n]
             c == after[n + 1]
  <2>1. Done(n, b)
    BY <1>7
  <2>2. n + 1 \in 1 .. s.w /\ n + 1 \in 0 .. s.w /\ n + 1 # 0 /\ (n + 1) - 1 = n /\ n \in Nat
    OBVIOUS
  <2>3. c = Put(n + 1, b)
    BY <1>5, <2>2
  <2> HIDE DEF b, c
  <2>4. /\ c \in V
        /\ c[y][n] = b[from][From(n, W, s.w)]
        /\ \A k \in 0 .. W - 1 : k # n => c[y][k] = b[y][k]
        /\ \A z \in 0 .. H - 1 : z # y => c[z] = b[z]
    <3>1. PICK m \in 1 .. s.w : m = n + 1 /\ m - 1 = n
      BY <2>2
    <3>2. b \in V /\ c = Put(m, b)
      BY <2>1, <2>3, <3>1
    <3> HIDE DEF Done
    <3>3. /\ Put(m, b) \in V
          /\ Put(m, b)[y][m - 1] = b[from][From(m - 1, W, s.w)]
          /\ \A k \in 0 .. W - 1 : k # m - 1 => Put(m, b)[y][k] = b[y][k]
          /\ \A z \in 0 .. H - 1 : z # y => Put(m, b)[z] = b[z]
      BY <1>4, <3>2
    <3>4. QED
      BY <3>1, <3>2, <3>3
  <2>5. /\ From(n, W, s.w) \in n .. W - 1 /\ n \in 0 .. W - 1
    BY <1>3, <2>2
  <2>6. b[from][From(n, W, s.w)] = buf[from][From(n, W, s.w)]
    <3>1. CASE from = y
      BY <2>1, <2>5, <3>1
    <3>2. CASE from # y
      BY <1>2, <2>1, <3>2
    <3>3. QED
      BY <3>1, <3>2
  <2>7. ASSUME NEW x \in 0 .. n PROVE c[y][x] = buf[from][From(x, W, s.w)]
    <3>1. CASE x = n
      BY <2>4, <2>6, <3>1
    <3>2. CASE x # n
      <4>1. x \in 0 .. n - 1 /\ x \in 0 .. W - 1
        BY <2>2, <2>5, <3>2
      <4>2. QED
        BY <2>1, <2>4, <3>2, <4>1
    <3>3. QED
      BY <3>1, <3>2
  <2>8. ASSUME NEW x \in n + 1 .. W - 1 PROVE c[y][x] = buf[y][x]
    <3>1. x \in n .. W - 1 /\ x # n /\ x \in 0 .. W - 1
      BY <2>2
    <3>2. QED
      BY <2>1, <2>4, <3>1
  <2>9. \A z \in 0 .. H - 1 : z # y => c[z] = buf[z]
    BY <2>1, <2>4
  <2>10. (n + 1) - 1 = n
    OBVIOUS
  <2>11. Done(n + 1, c)
    BY <2>4, <2>7, <2>8, <2>9, <2>10
  <2>12. QED
    BY <2>2, <2>11 DEF c
<1>8. 0 .. s.w \subseteq T
  <2> HIDE DEF T
  <2>1. QED
    BY <1>6, <1>7, BoundedInduction
<1>9. Done(s.w, after[s.w])
  BY <1>8
<1>10. QED
  BY <1>1, <1>9 DEF V, from, IsScaledRow

-----------------------------------------------------------------------------
LEMMA ExtentsSuffice ==
    ASSUME file.w \in Nat \ {0}, file.h \in Nat \ {0},
           size.w \in Nat \ {0}, size.h \in Nat \ {0},
           size.w <= file.w, size.h <= file.h
    PROVE  /\ OutputWidth \in Nat /\ size.w <= OutputWidth
           /\ OutputHeight \in Nat /\ size.h <= OutputHeight
<1> DEFINE p == file.w \div size.w
           q == file.h \div size.h
<1>1. p \in Nat /\ q \in Nat
  BY Quotient
<1>2. 1 <= p /\ 1 <= q
  <2>1. size.w * 1 <= file.w /\ size.h * 1 <= file.h
    OBVIOUS
  <2>2. QED
    BY <2>1, QuotientAtLeast
<1>3. PICK denom \in 1 .. 8 : denom = ScaleDenom(file, size)
  <2> HIDE DEF p, q
  <2>1. Within(IF q < p THEN q ELSE p, 8) \in 1 .. 8
    BY <1>1, <1>2 DEF Within
  <2>2. ScaleDenom(file, size) = Within(IF q < p THEN q ELSE p, 8)
    BY DEF ScaleDenom, p, q
  <2>3. QED
    BY <2>1, <2>2
<1>4. denom <= p /\ denom <= q
  <2>1. denom = Within(IF q < p THEN q ELSE p, 8)
    BY <1>3 DEF ScaleDenom
  <2> HIDE DEF p, q
  <2>2. QED
    BY <1>1, <1>2, <2>1 DEF Within
<1>5. QED
  BY <1>3, <1>4, DecodedLargeEnough DEF OutputWidth, OutputHeight

LEMMA DecodedWhole ==
    ASSUME NEW f, f.w \in Nat \ {0}, f.h \in Nat \ {0}, NEW s, s = [w |-> f.w, h |-> f.h]
    PROVE  /\ OutputExtent(f.w, ScaleDenom(f, s)) = f.w
           /\ OutputExtent(f.h, ScaleDenom(f, s)) = f.h
<1>1. PICK w \in Nat \ {0}, h \in Nat \ {0} : f.w = w /\ f.h = h /\ s.w = w /\ s.h = h
  OBVIOUS
<1>2. w \div w = 1 /\ h \div h = 1
  <2>1. w * 1 <= w /\ w < w * 2 /\ h * 1 <= h /\ h < h * 2
    OBVIOUS
  <2>2. w \div w \in Nat /\ h \div h \in Nat
    BY Quotient
  <2>3. 1 <= w \div w /\ w \div w < 2 /\ 1 <= h \div h /\ h \div h < 2
    BY <2>1, QuotientAtLeast, QuotientBelow
  <2>4. QED
    BY <2>2, <2>3
<1>3. ScaleDenom(f, s) = 1
  BY <1>1, <1>2 DEF ScaleDenom, Within
<1>4. \A n \in Nat \ {0} : OutputExtent(n, 1) = n
  BY DEF OutputExtent, CeilDiv
<1>5. QED
  BY <1>1, <1>3, <1>4

LEMMA FromItself ==
    ASSUME NEW n \in Nat \ {0}, NEW x \in Nat
    PROVE  From(x, n, n) = x
<1>1. x * n \in Nat /\ n * x <= x * n /\ x * n < n * (x + 1) /\ x + 1 \in Nat
  OBVIOUS
<1> DEFINE a == x * n
<1>2. a \in Nat /\ n * x <= a /\ a < n * (x + 1)
  BY <1>1
<1> HIDE DEF a
<1>3. a \div n \in Nat /\ x <= a \div n /\ a \div n < x + 1
  BY <1>1, <1>2, Quotient, QuotientAtLeast, QuotientBelow
<1>4. QED
  BY <1>3 DEF From, a

\* How far the pixels are scaled: rows 0 .. n - 1 are, and the columns beyond
\* the new width and the rows below are still as they were decoded.
ScaledUpTo(n) ==
    \A y \in 0 .. OutputHeight - 1, x \in 0 .. OutputWidth - 1 :
        pixels[y][x] = IF y < n /\ x < size.w
                       THEN <<From(x, OutputWidth, size.w), From(y, OutputHeight, size.h)>>
                       ELSE <<x, y>>

PixelsInv ==
    /\ size.w <= file.w /\ size.h <= file.h
    /\ pc \in {"enter", "open", "header", "decode"} => row = 0
    /\ pc = "scale" => /\ row <= size.h
                       /\ pixels \in Places(OutputWidth, OutputHeight)
                       /\ ScaledUpTo(row)
    /\ ScalesAsIfAside

LEMMA PixelsFrame ==
    ASSUME PixelsInv, UNCHANGED <<file, size, pixels>>,
           pc' # "scale",
           pc' \in {"enter", "open", "header", "decode"} => row' = 0,
           pc' \in {"compress", "rows", "term"} => pc \in {"compress", "rows", "term"}
    PROVE  PixelsInv'
BY DEF PixelsInv, ScalesAsIfAside, Reference, OutputWidth, OutputHeight

LEMMA PixelsHold == TypeInv /\ PixelsInv /\ [Next]_allVars => PixelsInv'
<1> SUFFICES ASSUME TypeInv, PixelsInv, [Next]_allVars PROVE PixelsInv'
  OBVIOUS
<1>a. /\ file.w \in Nat \ {0} /\ file.h \in Nat \ {0}
      /\ size.w \in Nat \ {0} /\ size.h \in Nat \ {0} /\ row \in Nat
      /\ size.w <= file.w /\ size.h <= file.h
  BY FileFacts DEF TypeInv, PixelsInv
<1>b. PICK W \in Nat, H \in Nat : /\ OutputWidth = W /\ OutputHeight = H
                                  /\ size.w <= W /\ size.h <= H
  BY <1>a, ExtentsSuffice
<1>c. ASSUME UNCHANGED <<file, size>> PROVE OutputWidth' = W /\ OutputHeight' = H
  BY <1>b, <1>c DEF OutputWidth, OutputHeight
<1>d. ASSUME UNCHANGED <<file, size>>, \A y \in 0 .. size.h - 1, x \in 0 .. size.w - 1 :
                 pixels'[y][x] = <<From(x, W, size.w), From(y, H, size.h)>>
      PROVE  ScalesAsIfAside'
  <2>1. Reference' = [y \in 0 .. size.h - 1 |-> [x \in 0 .. size.w - 1 |->
            <<From(x, W, size.w), From(y, H, size.h)>>]]
    BY <1>c, <1>d DEF Reference, From
  <2>2. QED
    BY <1>d, <2>1 DEF ScalesAsIfAside
<1>1. CASE UNCHANGED allVars
  BY <1>1 DEF allVars, vars, fileVars, imageVars, PixelsInv, ScalesAsIfAside, Reference, ScaledUpTo,
              OutputWidth, OutputHeight
<1>2. CASE Open \/ OpenFails
  BY <1>2, PixelsFrame DEF Open, OpenFails, PixelsInv, fileVars, imageVars
<1>2a. CASE KeepText
  BY <1>2a, PixelsFrame DEF KeepText, PixelsInv, fileVars, imageVars
<1>3. CASE DecodeSizeSet
  <2>1. Within(size.w, file.w) <= file.w /\ Within(size.h, file.h) <= file.h
    BY <1>a DEF Within
  <2>2. /\ size'.w <= file'.w /\ size'.h <= file'.h /\ row' = 0 /\ pc' = "decode"
    BY <1>3, <2>1 DEF DecodeSizeSet, PixelsInv, fileVars, imageVars
  <2>3. QED
    BY <2>2 DEF PixelsInv, ScalesAsIfAside
<1>4. CASE Decode
  <2>1. UNCHANGED <<file, size>> /\ row' = 0 /\ pc' = "scale"
        /\ pixels' = [y \in 0 .. H - 1 |-> [x \in 0 .. W - 1 |-> <<x, y>>]]
    BY <1>4, <1>b DEF Decode, DecodedPixels, PixelsInv, fileVars
  <2>2. pixels' \in Places(W, H)
    BY <2>1 DEF Places
  <2>3. ScaledUpTo(0)'
    BY <1>c, <2>1 DEF ScaledUpTo
  <2>4. QED
    BY <1>a, <1>c, <2>1, <2>2, <2>3 DEF PixelsInv, ScalesAsIfAside
<1>5. CASE DecodeOverruns \/ DecodeJumps \/ DecodeFails
  BY <1>5, PixelsFrame DEF DecodeOverruns, DecodeJumps, DecodeFails, fileVars, imageVars
<1>6. CASE ScaleRow
  <2> DEFINE new == RowScaled(pixels, row, size)
  <2>1. /\ UNCHANGED <<file, size, pc>> /\ pc = "scale" /\ row' = row + 1
        /\ pixels' = new /\ row \in 0 .. size.h - 1
        /\ pixels \in Places(W, H) /\ ScaledUpTo(row)
    BY <1>6, <1>a, <1>b DEF ScaleRow, PixelsInv, fileVars
  <2>2. /\ new \in Places(W, H)
        /\ \A x \in 0 .. size.w - 1 :
              new[row][x] = pixels[From(row, H, size.h)][From(x, W, size.w)]
        /\ \A x \in size.w .. W - 1 : new[row][x] = pixels[row][x]
        /\ \A z \in 0 .. H - 1 : z # row => new[z] = pixels[z]
    <3>1. /\ OutputWidth = W /\ OutputHeight = H
          /\ size.w \in Nat \ {0} /\ size.h \in Nat \ {0} /\ size.w <= W /\ size.h <= H
          /\ pixels \in Places(W, H) /\ row \in 0 .. size.h - 1
      BY <1>a, <1>b, <2>1
    <3>2. QED
      BY <3>1, ScalingARow DEF IsScaledRow
  <2> HIDE DEF new
  <2>3. /\ From(row, H, size.h) \in 0 .. H - 1 /\ row <= From(row, H, size.h)
    BY <1>a, <1>b, <2>1, ReadsAhead DEF From
  <2>4. ASSUME NEW x \in 0 .. size.w - 1
        PROVE  /\ From(x, W, size.w) \in 0 .. W - 1 /\ x <= From(x, W, size.w)
    BY <1>a, <1>b, ReadsAhead DEF From
  <2>5. ASSUME NEW y \in 0 .. H - 1, NEW x \in 0 .. W - 1
        PROVE  new[y][x] = IF y < row + 1 /\ x < size.w
                           THEN <<From(x, W, size.w), From(y, H, size.h)>> ELSE <<x, y>>
    <3>0. \A j \in 0 .. H - 1, i \in 0 .. W - 1 :
            pixels[j][i] = IF j < row /\ i < size.w
                           THEN <<From(i, W, size.w), From(j, H, size.h)>> ELSE <<i, j>>
      BY <1>b, <2>1 DEF ScaledUpTo
    <3>1. CASE y # row
      <4>1. new[y][x] = pixels[y][x]
        BY <2>2, <3>1
      <4>2. y < row + 1 <=> y < row
        BY <1>a, <3>1
      <4>3. QED
        BY <3>0, <4>1, <4>2
    <3>2. CASE y = row /\ x < size.w
      <4>1. x \in 0 .. size.w - 1
        BY <1>a, <3>2
      <4>2. new[y][x] = pixels[From(row, H, size.h)][From(x, W, size.w)]
        BY <2>2, <3>2, <4>1
      <4>3. pixels[From(row, H, size.h)][From(x, W, size.w)]
               = <<From(x, W, size.w), From(row, H, size.h)>>
        <5>1. ~(From(row, H, size.h) < row)
          BY <1>a, <2>3
        <5>2. QED
          BY <2>3, <2>4, <3>0, <4>1, <5>1
      <4>4. y < row + 1
        BY <1>a, <3>2
      <4>5. QED
        BY <3>2, <4>2, <4>3, <4>4
    <3>3. CASE y = row /\ ~(x < size.w)
      <4>1. x \in size.w .. W - 1
        BY <1>a, <3>3
      <4>2. new[y][x] = pixels[y][x]
        BY <2>2, <3>3, <4>1
      <4>3. QED
        BY <3>0, <3>3, <4>2
    <3>4. QED
      BY <3>1, <3>2, <3>3
  <2>6. PICK n \in Nat : n = row + 1
    BY <1>a
  <2>7. ScaledUpTo(n)'
    BY <1>c, <2>1, <2>5, <2>6 DEF ScaledUpTo
  <2>8. row' = n /\ n <= size.h
    BY <1>a, <2>1, <2>6
  <2>9. QED
    BY <1>a, <1>c, <2>1, <2>2, <2>7, <2>8 DEF PixelsInv, ScalesAsIfAside
<1>7. CASE Scaled
  <2>1. /\ UNCHANGED <<file, size, pixels>> /\ pc = "scale" /\ pc' = "compress"
        /\ NeedsScaling => row = size.h
        /\ ScaledUpTo(row)
    BY <1>7 DEF Scaled, PixelsInv, fileVars
  <2>2. ASSUME NEW y \in 0 .. size.h - 1, NEW x \in 0 .. size.w - 1
        PROVE  pixels[y][x] = <<From(x, W, size.w), From(y, H, size.h)>>
    <3>1. y \in 0 .. H - 1 /\ x \in 0 .. W - 1 /\ y < size.h /\ x < size.w
      BY <1>a, <1>b
    <3>2. pixels[y][x] = IF y < row /\ x < size.w
                         THEN <<From(x, W, size.w), From(y, H, size.h)>> ELSE <<x, y>>
      BY <1>b, <2>1, <3>1 DEF ScaledUpTo
    <3>3. CASE NeedsScaling
      BY <2>1, <3>1, <3>2, <3>3
    <3>4. CASE ~NeedsScaling
      <4>1. size = [w |-> file.w, h |-> file.h]
        BY <3>4 DEF NeedsScaling
      <4>2. W = size.w /\ H = size.h
        BY <1>a, <1>b, <4>1, DecodedWhole DEF OutputWidth, OutputHeight
      <4>3. From(x, W, size.w) = x /\ From(y, H, size.h) = y
        BY <1>a, <4>2, FromItself
      <4>4. QED
        BY <3>2, <4>3
    <3>5. QED
      BY <3>3, <3>4
  <2>3. ScalesAsIfAside'
    BY <1>d, <2>1, <2>2
  <2>4. QED
    BY <1>a, <2>1, <2>3 DEF PixelsInv
<1>8. CASE StartCompress \/ NoManager \/ NoBuffer \/ CreateJumps \/ StartJumps
  BY <1>8, PixelsFrame DEF StartCompress, NoManager, NoBuffer, CreateJumps, StartJumps, fileVars, imageVars
<1>9. CASE WriteRow
  BY <1>9, PixelsFrame DEF WriteRow, OutputOverruns, fileVars
<1>10. CASE FinishCompress
  BY <1>10, PixelsFrame DEF FinishCompress, fileVars, imageVars
<1>11. CASE TermDestination
  BY <1>11, PixelsFrame DEF TermDestination, fileVars, imageVars
<1>12. CASE EncodeDone \/ Close
  BY <1>12, PixelsFrame DEF EncodeDone, Close, fileVars, imageVars
<1>13. CASE Enter
  BY <1>13, PixelsFrame DEF Enter, PixelsInv, fileVars, imageVars
<1>14. CASE UseNullHandle \/ Overrun \/ ReleaseInput \/ NewArray \/ NoArray \/ CopyOut \/ CopyFaults
  BY <1>14, PixelsFrame DEF UseNullHandle, Overrun, ReleaseInput, NewArray, NoArray, CopyOut,
                            CopyFaults, Lose, fileVars, imageVars
<1>15. QED
  BY <1>1, <1>2, <1>2a, <1>3, <1>4, <1>5, <1>6, <1>7, <1>8, <1>9, <1>10, <1>11, <1>12,
     <1>13, <1>14
     DEF Next, Step, EpegStep, Over

-----------------------------------------------------------------------------
IInv == TypeInv /\ TextsInv /\ OwnedInv /\ CauseInv /\ FileInv /\ PixelsInv

LEMMA IInvStarts == Init => IInv
<1> SUFFICES ASSUME Init PROVE IInv
  OBVIOUS
<1>1. /\ file \in Files /\ size.w \in Nat \ {0} /\ size.h \in Nat \ {0}
  BY SizesAssumption DEF Init
<1>2. <<>> \in Seq(Int)
  BY EmptySeq
<1>3. /\ live = {} /\ held = {} /\ row = 0 /\ looked = 0 /\ starved = FALSE /\ destSize = -1
      /\ buffer = <<>> /\ block = <<>> /\ jumped = FALSE /\ pc = "enter"
      /\ outcome = "none"
  BY DEF Init
<1>4. TypeInv
  <2>1. buffer \in Seq(Int) /\ block \in Seq(Int)
    BY <1>2, <1>3
  <2>2. jumped \in BOOLEAN /\ starved \in BOOLEAN
    BY <1>3
  <2>3. /\ live \subseteq Blocks /\ held \subseteq HandleBlocks
        /\ row \in Nat /\ destSize \in Int
        /\ outcome \in {"none", "returned", "lost"}
    BY <1>3
  <2>4. /\ pc \in BeforeEncoding \cup Encoding \cup AfterEncoding
        /\ pc \in BeforeEncoding => destSize = -1
        /\ pc = "copy" => destSize \in Nat
        /\ pc = "compress" => row = 0
    BY <1>3 DEF BeforeEncoding, Encoding, AfterEncoding
  <2>5. QED
    BY <1>1, <1>3, <2>1, <2>2, <2>3, <2>4, WidthsAssumption, FileFacts, LenProperties
       DEF TypeInv, Encoding
<1>5. TextsInv /\ OwnedInv /\ CauseInv /\ FileInv
  BY <1>3 DEF TextsInv, OwnedInv, CauseInv, FileInv, Encoding, AfterEncoding
<1>6. PixelsInv
  <2>1. size.w <= file.w /\ size.h <= file.h
    BY DEF Init
  <2>2. QED
    BY <1>3, <2>1 DEF PixelsInv, ScalesAsIfAside
<1>7. QED
  BY <1>4, <1>5, <1>6 DEF IInv

LEMMA AlwaysIInv == Spec => []IInv
<1>1. IInv /\ [Next]_allVars => IInv'
  BY TypeHolds, TextsHold, OwnershipHolds, CausesHold, FileHolds, PixelsHold DEF IInv
<1>2. QED
  BY <1>1, IInvStarts, PTL DEF Spec

\* No pointer of a handle dangles (_epeg_decode(), epeg_close() and the error
\* paths of epeg_main.c).
THEOREM PointersAreGood == Spec => []NoPointerDangles
<1>1. IInv => NoPointerDangles
  BY DEF IInv, OwnedInv, NoPointerDangles
<1>2. QED
  BY <1>1, AlwaysIInv, PTL

\* A call that returns has released everything, except for the buffer of an
\* encoder that libjpeg left by longjmp() and for the texts that epeg's header
\* reader overwrites (epeg-jni.c, epeg_close(), _epeg_open_header()).
THEOREM NothingIsLeft == Spec => []EverythingIsReleased
<1>1. IInv => EverythingIsReleased
  BY DEF IInv, OwnedInv, Left, EverythingIsReleased
<1>2. QED
  BY <1>1, AlwaysIInv, PTL

\* A call that returns although no allocation failed returns the whole new
\* file, however often its block has moved (_jpeg_empty_output_buffer() and
\* _jpeg_term_destination()).
THEOREM WholeFileArrives == Spec => []DeliversTheWholeFile
<1>1. IInv => DeliversTheWholeFile
  BY DEF IInv, TypeInv, FileInv, DeliversTheWholeFile
<1>2. QED
  BY <1>1, AlwaysIInv, PTL

\* The process is lost only for want of memory, to a refused file, or when one
\* of two sizes wraps, that of the pixels or that of the new file: the glue
\* that looks at no result meets no other failure.
THEOREM LossesAreCaused == Spec => []LostForACause
<1>1. IInv => LostForACause
  BY DEF IInv, CauseInv, Sound, LostForACause
<1>2. QED
  BY <1>1, AlwaysIInv, PTL

\* The pixels that are encoded are those of a picture scaled into a buffer of
\* its own: the source of a pixel is never left of or above it, so scaling in
\* the buffer it reads from loses nothing (_epeg_scale(), for every size of
\* picture and every size asked for).
THEOREM InPlaceScalingIsSound == Spec => []ScalesAsIfAside
<1>1. IInv => ScalesAsIfAside
  BY DEF IInv, PixelsInv
<1>2. QED
  BY <1>1, AlwaysIInv, PTL
=============================================================================
