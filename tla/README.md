# A TLA+ model of the IIIF Image API server

This project models the logic of the image server of this repository: a Spring MVC
controller that answers IIIF Image API 2.0 requests, the service that walks through
image repositories and transforms what they load, a fast backend on libjpeg-turbo
(lossless, lazy), a slow backend on Java ImageIO (eager), and the caches in front of
the sources.

Paths below are shortened: `backend-impl` is
`src/iiif-image-backend-impl/.../repository`, `business-impl` is
`src/iiif-image-business-impl/.../service/v2`, `model-impl` is
`src/iiif-image-model-impl/.../v2`, `frontend` is
`src/iiif-image-frontend-impl-springmvc/.../springmvc`.

## 1. Inventory

| Component | State | Operations | Talks to |
|---|---|---|---|
| `frontend/controller/v2/IIIFImageApiController` | none of its own (logging context per thread) | `getImageRepresentation`, `getInfo`, `getInfoRedirect` | parser service, image service; exceptions become 400, 404, 415, 500 |
| `business-impl/IiifParameterParserServiceImpl` | none | one parse method per URL segment | model classes |
| `model-impl/RegionParametersImpl` | absolute or relative rectangle of floats, mutable | `makeAbsolute` overwrites it | used by service and images |
| `model-impl/ResizeParametersImpl` | requested or calculated size | copy constructor calculates | used by service and images |
| `business-impl/ImageServiceImpl` | none | `processImage`, `getImageInfo` | security service, ordered list of repositories, images |
| `backend-impl/v2/Abstract-, JpegTran-, ImageIo-ImageRepository` | none | support tests, `getImage`, `getImageInfo` (cached) | data repository, image constructors |
| `backend-impl/v2/ImageDataRepositoryImpl` | caches `sourceImages`, `imageInfos` (Ehcache) | `getImageData` (cached), `convertToJpeg` | resource service |
| `backend-impl/jpegtran/v2/JpegTranImage` | a `JpegImage`, width and height at loading | crop, scale, flip, rotate, toDepth, convert, performTransformation | `JpegImage` |
| `backend-impl/jpegtran/v2/JpegImage` | encoded bytes, one pending `TJTransform` | crop, flips, rotate, toGrayscale, downScale, transform | `tjTransform` and `EpegScaler` through JNI |
| `backend-impl/imageio/v2/JAIImage` | decoded image, format name | the same operations as `JpegTranImage`, applied at once | ImageIO, Scalr |
| `EpegScaler`, `epeg-jni.c`, `epeg_main.c` | native handle, texts of the markers, pixel buffer and output block of one call | `downScaleJpegImage`: open, set size, decode, scale in place, encode, close | libjpeg; allocator |
| turbojpeg bindings and `turbojpeg-jni.c` | a native handle per Java object, arrays pinned during a call | constructors, `close`, finalizers, `transform`, header decoding | `turbojpeg.c`; class loader; finalizer thread |
| `turbojpeg.c`, `transupp.c` | the handle's libjpeg objects, workspace arrays, a buffer of fixed size; static `errStr` | `tjTransform`, `tjDecompressHeader3`, `tjBufSize` | libjpeg |
| libjpeg-turbo codec (`jdmarker.c`, `jdinput.c`, `jdhuff.c`, ...) | decompression object: tables, marker, restart and input state, colours guessed | header reading, coefficient reading, writing of markers, abort | source manager |
| `LibraryLoader` | a temporary file | `loadLibrary` | class initializers |
| `EventLogger`, Spring configuration, exceptions | none | wiring, logging | |

**What is hard here.**

* *Order of operations.* `JpegImage` is lazy: crop, flip, rotation and grayscale
  write into one record that a later call hands to libjpeg-turbo. One field per kind
  means that later orders replace earlier ones and that crop and rotation are
  applied in libjpeg-turbo's order, not in the caller's.
* *Two backends, one promise.* The same request may be served by either; the
  controller's comment fixes region, size, rotation, quality, format in this order
  for both.
* *State captured early and used late.* Width and height at loading, a region
  checked against an image that is replaced afterwards, a size calculated for a
  region that is cut off later, tables and markers that a libjpeg object keeps from
  the file before.
* *Failure part way.* `downScale` may have transformed before it throws; `transform`
  replaces the file before it has read its header again; a repository that throws
  anything makes the service try the next, one that returns null ends the search;
  every allocation of the native scaler may fail, and libjpeg leaves functions by
  `longjmp()`.
* *Concurrency.* Requests run on container threads and share the caches, which
  `@CacheResult` fills by look-up, load and store without a lock, and which evict at
  will; sources change underneath; entries never expire. They also share class
  initialization and the buffer for native error messages.
* *Resources.* Native handles are freed by `close()` or by a finalizer, arrays are
  pinned during native calls, blocks move between two coefficient arrays, some of
  them in place, and the output buffer is sized before it is known what goes in.
* *Numbers.* Float regions, `(int)` conversions that saturate, int sums that wrap,
  zero extents, block boundaries that depend on subsampling and rotation, restart
  markers counted modulo eight.

**What makes each component correct.** `JpegImage`: a rectangle never outlives the
image it was checked against; a call that throws changes nothing visible; for a
caller that does not mix orders it is an eager image. Service: what is served is
what was asked for, each refusal has a cause, every request is answered. Caches:
answers are no older than what was in circulation when the request began, refusals
are not cached, a forgotten version stays forgotten. Native scaler: nothing is freed
twice or left behind, scaling in place overwrites nothing that is still to be read,
the whole new file arrives. Bindings: no array stays pinned, no handle is left, a
message belongs to the call that failed. `transupp`: every sample lands where the
transform puts it, inside its arrays. Reader: a sound file is served whatever was
read before, a damaged one is not served in silence with data in the wrong place,
what is written has the markers and the colours of what was read, and reading ends.

## 2. Modules

| Module | Models |
|---|---|
| `Pictures` | values: what an image shows (a rectangle of a frame, mirrored, turned, at a depth), and the operations on it |
| `EagerImage` | abstract specification: operations apply at once, in the order of the calls (`Image.java`, controller comment) |
| `JpegImage` | `JpegImage.java` and the semantics of `tjTransform` and `EpegScaler` it relies on |
| `JpegImageCareful` | a restricted caller of `JpegImage`, with the refinement mapping to `EagerImage` |
| `IiifParameters` | `makeAbsolute()` and the size calculation, in exact hundredths |
| `JpegTranImage`, `JAIImage` | the two `Image` classes; `JpegTranImage` instantiates `JpegImage` and translates its exceptions |
| `ImageService` | one request from the controller to its answer; instantiates both images |
| `ImageServiceContract` | what the request asked for, the causes of deviation and refusal, the properties |
| `ImageServiceFindings` | a sentence of the controller's comments that the pipeline does not keep |
| `SourceCache` | concurrent image and info requests, both caches, eviction, changing sources |
| `Epeg` | `epeg_main.c`: the handle, its blocks, decoding at a fraction, scaling in place, the growing output block |
| `EpegScaler` | `EpegScaler.java` and `epeg-jni.c` around `Epeg`: one native call, its properties |
| `TurboJpegCalls` | class initialization, `LibraryLoader`, handles, finalizers, pinned arrays and `errStr`, for several threads |
| `LosslessTransform` | `tjTransform()` and `transupp.c`, block by block, with array bounds and buffer size |
| `JpegReader` | how the codec reads a file for `tjDecompressHeader3()` or `tjTransform()`, on a handle that lives through several calls |
| `JpegImageProofs`, `ImageServiceProofs`, `SourceCacheProofs`, `TurboJpegCallsProofs`, `EpegScalerProofs`, `LosslessTransformProofs`, `JpegReaderProofs`, `JpegResyncProofs` | TLAPS proofs |
| `MC*` | constants for TLC |

**Composition.** `ImageService` calls the images, `JpegTranImage` calls `JpegImage`.
Below that the levels are modelled apart, each with what the level above takes for
granted: `JpegImage` takes a native transformation or scaling as one step with the
picture it yields; `LosslessTransform` justifies that picture block by block,
`EpegScaler` the scaled one pixel by pixel; `JpegReader` says which files are read
without a warning (`intact` in a picture stands for that), and `TurboJpegCalls` adds
the threads. `SourceCache` stands beside `ImageService`: it says which content a
request gets, `ImageService` what becomes of it.

**Correspondence.** A `JpegImage` is `data` (what `imgData` shows), `size` (width
and height as the decompressor last read them), `pending` (`transformOptions`:
operation, rectangle, grayscale; the crop option is set exactly when the rectangle
is) and `raised` (how the last call ended). Every public operation is one action
with all its early exits. `SetImageData` replaces the file first and reads its
header then: when TurboJPEG has no name for the subsampling, the call throws with
the new file in place, the old `size` and the orders still pending. `ImageService`
has one action per statement of `getImageRepresentation`, `processImage`, `getImage`
and `transformImage` that decides or changes something; `pc` names the next one. A
header that cannot be read (`HeaderRefused`) makes the repository return null, which
ends the search with 404. In `SourceCache` a step of a request is one access to
shared state: a look-up, a load, a store, or what is decided without shared state.
Other names follow the code.

A *picture* identifies where each source pixel lands, without pixels: `stages` lists
the resamplings so far, each a rectangle of one frame stretched over the next. Two
pictures are equal exactly when every pixel lands in the same place, so order
matters in the model wherever it matters in the code. `mcu` is the block size
(subsampling), `coding` the colours of the file, `bulky` says that its markers do
not fit the buffer of a result, `intact` tells a file libjpeg warns of. `patched` is
set when a lossless mirroring met an image whose blocks the edge does not fill: the
routines leave those blocks where they are, so that such a picture is no longer the
mirrored one (`MirrorsWhole`).

In `Epeg`, `live` is the set of blocks that are allocated and `held` those the
handle points to; an action is a function up to the next allocation, error or row,
and each allocation may fail, any number of times; `starved` remembers that one did.
`looked` counts the markers whose texts the header reader has looked at: the text of
a comment is freed before the next one is kept, that of a `Thumb::` marker is
overwritten. A pixel is its place in the decoded picture, the new file a sequence of
its headers, rows and end, of which `BufferSize` fill a buffer. The number of pixels
is a product of unsigned ints, modulo `Word`; a buffer that it makes too small is
overrun. While the output block cannot grow, `OutputBufferStays` is repeated as the
loop around `jpeg_write_scanlines()` is: each time the size that is reported grows,
until it wraps at `SizeLimit`. `jumped` is the `longjmp()` after which the local
variable `dst_mgr` of `_epeg_encode()`, which is not volatile, has either value.

In `TurboJpegCalls` a request is a program of eleven labels: three that need a
class, four that create a handle (`super` is the implicit call of the superclass's
constructor), four that make a native call. A native call pins its arrays, may fail
in steps that write the two halves of `errStr`, unpins and throws. `handle` is the
field of a Java object, `native` what is allocated. A handle that cannot be created
leaves nothing, or libjpeg's memory manager (`pools`), if that one was there already
when the error came. While an image is loaded a `TJException` is an `IOException`,
which the repository turns into null: the search ends with 404. An `Error` goes to
the next repository.

In `LosslessTransform` a coefficient block is the source block it came from, whether
it was transposed and in which directions it was mirrored. The routines `DoFlipH`,
`DoRot90`, ... say which source block an output block is, with the same tests for
partial iMCUs as the loops; `InPlace` follows the two passes of
`do_flip_h_no_crop()` one block at a time.

In `JpegReader` a file is a sequence of tokens: markers with what matters of their
parameters, and one token for the data of each MCU. A sound file may be damaged in
one place: a stretch lost, truncated or repeated, a token put in or replaced.
`dinfo` is the decompression object; `Reset` and `Abort` list the fields that
`reset_input_controller()`, `reset_marker_reader()` and `jpeg_abort()` clear, so
that what survives a call survives in the model. A decoder out of step with its data
yields `Bogus`. `Colours` guesses what the components mean from the JFIF and Adobe
markers as `default_decompress_parms()` does; `Compose` writes those markers where
the compressor does and copies the others, the file's own JFIF or Adobe marker only
where the writer has none. `named` and `Unnamed` say whether TurboJPEG has a name
for the sampling; if not, the call is refused behind a header without error.

Definitions headed `(Fault: ...)` are mutated forms of the definition after them:
each property is known to fail when the code had that fault. No specification uses
them.

## 3. Runs

| Run | Instance | Shows |
|---|---|---|
| `jpeg_image` | five 32x16 files: sound, damaged, with long markers, of four components (all with 16x8 blocks), and 4:1:1; rectangles on and off the grid, outside, empty; sizes equal, smaller, too small; six angles. 136 040 states | any sequence of calls keeps rectangles inside their image, a refused call keeps the outcome but in the one case named, what was applied before a refusal is not applied again, grayscale is never lost |
| `jpeg_image_careful` | the same files and rectangles, sizes none of which is another on its side. 44 406 states | `JpegImage` implements `EagerImage` for a caller that never lets two orders meet and mirrors only images that fill their blocks and can be read when they lie on their side |
| `image_service` | both repositories; JPEG, damaged JPEG, PNG, broken, alien and missing sources; 25 regions by 11 sizes upright and turned, every other circumstance (qualities, formats, angles, access), and JPEGs of other kinds: 4:1:1, RGB, four components, gray, long markers, a subsampling without a name. 159 696 states | served pictures are the ones asked for except in seven named cases; 400, 404, 415 and 500 each have a stated cause; every request is answered |
| `source_cache` | two requests at a time, one identifier; without `forceJpeg` contents absent, JPEG, PNG and broken, with it contents a conversion succeeds and fails on; one change of the source, any number of evictions and requests. 525 977 states | bound on staleness, refusals are not cached (those of a conversion neither), a superseded version never returns, every request ends |
| `native_scaler` | files of 9x4, 4x9, 7x7, 17x3, 8x8 pixels, one of 10x10 whose pixels are more than the product says, and one that libjpeg refuses; comments and `Thumb::` texts, some repeated; 49 sizes, a buffer of three parts; any allocation may fail, for ever. 27 813 states | no dangling pointer, nothing left behind but in two named cases, scaling in place equals scaling aside, the whole file arrives, the process is lost for a cause only, each call ends |
| `native_calls` | two threads, every kind of file, the library missing or not, finalizers at any time. 98 548 states | no array stays pinned, what leaks is the overwritten handle and the memory manager of a handle that was not made, no message is older than the call, answers have causes, each request ends |
| `lossless_blocks` | all eight transforms with gray, trim and perfect; ten samplings with and without a name; images of up to three iMCUs and a partial one; crops on and off the corner. 435 750 states | blocks stay inside their arrays and land where they should; a buffer is too small for one of three causes, a result unreadable for one |
| `jpeg_stream` | two calls on one object: a gray photograph with a restart marker after each MCU, an RGB file with more than one scan, a frame of a film in 4:1:1 and without Huffman tables, what a transformation wrote, and one damage of any kind in any place. 590 779 states | sound files are served after any call but in named cases, silence is justified, intact segments land, markers and colours are kept, each call ends |
| `finding_*` | few requests each | one counterexample each, see section 6 |

**Bounds and why they suffice.** The picture of `jpeg_image` is two blocks wide and
two high, the least with rectangles on the grid that are not the image; `stages`
grows only by resampling to another size, and images do not grow, so the state space
is finite without a bound. `MaxInt` is 30 000 in `image_service`: larger than any
product that occurs with ordinary regions, smaller than the region of 30 000 pixels
whose sum wraps; nothing else depends on the width of an int. `MaxVersion` is 1: a
hazard of the caches needs one old and one new content. Two clients: a hazard is a
request that stores what it read before another one did; further requests add
nothing to what is in circulation that one of the two could not have put there. Keys
do not interfere, so that one identifier is enough; the theorems of section 4 are
about any number of each.

The files of `native_scaler` are decoded at every fraction from 8/8 to 1/8, in some
limited by one direction only, which is where a row might be overwritten before it
is read. `BufferSize` is 3, so that a file ends within a buffer, exactly at its end,
and behind it. Allocations fail freely, so that one on the way out of the first
failure may fail, too. `SizeLimit` is 9, three buffers, so that the reported size
becomes negative for the tallest pictures as it does after many failures; `Word` is
256, so that the 300 samples of a 10x10 picture in colour wrap and those of smaller
ones do not. Two threads in `native_calls` suffice for a class initialized by
another thread and for a message overwritten by one. The five files of `jpeg_image`
are one for each way a transformation is refused, and one for none; the sizes
include one that the blocks of a scaled image do not fill, so that a mirroring is
met both whole and patched. `DCTSIZE` is 2 in `lossless_blocks`: mirroring within a
block is visible with two samples; `Slack` 4 and `TableBytes` 3 keep the proportion
in which headers nearly fill the slack of 2048 bytes. Images of one to four blocks
in each direction have no, one and two whole iMCUs and a partial one, the cases that
the loops tell apart. In `jpeg_stream` ten MCUs with as many restart intervals make
the count wrap at eight; `Span` 5 loses or repeats two segments and more, one more
than the decoder promises to survive, and loses the end of one scan with the header
and the beginning of the next, whose rest is then decoded where the end was missing:
data counts as `Intact` only behind the header of its own scan; `MaxCalls` 2 has one
call inherit from another. The strays are one of each kind that the marker reader or
the search for a restart marker treats differently, among them a JFIF and an Adobe
marker that contradict the colours of the file.

**Fairness.** `ImageService` and `EpegScaler` have `WF(Step)`: a thread that has
begun a request or a native call executes it to its end; nothing in it waits. That
is also why the write loop of `Epeg` ends while memory stays exhausted: each turn is
a step of the thread, and the reported size cannot grow for ever without wrapping.
`JpegReader` has `WF(Work)`, for the same reason. `SourceCache` and `TurboJpegCalls`
have weak fairness for the work of each thread; a thread that waits for a class that
another one initializes is enabled again once that one is through. There is none for
what the environment does: beginning requests and calls, changing sources, evicting,
finalizing. The safety runs need none.

**Deadlock** is checked in every run except `jpeg_stream`, which stops when its
calls are used up. A finished `ImageService` request, `EpegScaler` call,
`TurboJpegCalls` request or `LosslessTransform` stutters; the other systems never
stop.

## 4. Proofs

All theorems hold for every value of the constants that satisfies the named
assumptions: sources of `JpegImage` are pictures that lie in their frame and have a
subsampling with a name (others never become a `JpegImage`), rectangles and sizes
are integer records, angles are integers; `MaxVersion` of `SourceCache` is a natural
number and `Kinds` maps each setting of `forceJpeg` to kinds of content; no thread
is one of the marks of a class; files and sizes of `EpegScaler` have positive
extents, a file any sequence of texts and one, three or four components, a buffer
holds at least two parts, the sizes an int cannot hold begin at a multiple of it,
and a product wraps somewhere; repositories of `ImageService` are a sequence of the
two kinds, and its requests hold what a URL can express, for sources that are
upright as they are loaded, of any colours, in blocks of eight samples times a
sampling factor, each side shorter than `MaxInt`; images of `LosslessTransform` have
one, three or four components with factors from one to four and positive extents,
one component is gray, and a crop is of natural numbers (what `JpegImage.crop()`
lets pass is in `Init`); sound files of `JpegReader` are laid out as baseline files
are (`Layout`: one frame, tables and restart interval in front of the first scan,
the MCUs of a scan one after another with a restart marker after each interval) and
send each component in one scan, as `validate_script()` demands of sequential files
(`OneScan`); strays are tokens that `read_markers()` does not refuse outright, and
noise: no frame header that is accepted, no Huffman tables and no data that decodes
to an MCU (`StraysAssumption`), since a forged one of these cannot be told from the
file's.

* Numbers: each component whose code loops and divides has proofs that open with the
  same few lemmas, so that they rest on nothing but the component and the library.
  `LeastNat` gives a set of naturals its least element, from which follow
  `BoundedInduction` for sets, and `Iteration`: a function defined by recursion over
  an interval is any function that satisfies the same two equations. The proofs
  about recursive functions and about the search of the next marker rest on it.
* Pictures: `JpegImageProofs` and `ImageServiceProofs` open with type and frame
  lemmas for the picture operations. The central one, `CroppedInFrame`, says that a
  rectangle inside what a viewer sees, taken back through turns and mirroring, is
  inside the frame.
* `JpegImageProofs`: `IInv == TypeOK /\ ShowsPartOfFrame /\ PendingRectFits /\
  KnowsItsFile` is inductive. The parts need each other: `transform()` crops by the
  pending rectangle, so frames hold only because that rectangle fits; it fits only
  because every operation that replaces the image also drops it; a rectangle is only
  found to fit by `tjTransform` after the operation, so both checks are used.
  `KnowsItsFile` says that the size kept is that of the file, or that the file
  cannot be read and the operation that made it is still pending; from the second
  case no call gets beyond the header, so that nothing is measured against a stale
  size. From `IInv` follow `TypeCorrect`, `FramesHold`, `PendingRectsFit`, and with
  it the three action properties `GrayKept`, `RefusedCallsKeepPicture` and
  `OrdersAppliedOnce`. The second names its exception, 4:1:1 turned sideways: the
  file has been replaced when the call throws.
* In the same module: the careful caller implements `EagerImage`
  (`CarefulImplementsEager`). The mapping shows the pending orders applied; the
  invariant added to `IInv` is `OneOrder`, that of crop and operation one at most is
  pending, and an operation only if it is `DoneWell`: what it makes can be read, and
  it mirrors the image as a whole, in colour and in gray. Each operation is a lemma
  of its own, most of them about how depth, turn and rectangle commute in what a
  viewer sees.
* `ImageServiceProofs`: for any list of repositories and any requests.
  `NotFoundHasACause` and `UnsupportedHasACause` follow from `SearchInv`: every
  repository passed over could not do the job; of the image operations only what
  they throw is needed. `PicturesAreRight`, `BadRequestsHaveACause` and
  `ServerErrorsHaveACause` follow from `PictureInv`, which carries the picture from
  statement to statement. Its part `ParamHolds` says what region and target have
  been calculated; `SlowHolds` says, label by label, that the eager image shows the
  operations so far applied to what was loaded; `FastHolds` says the same of the
  lazy image, whose picture and pending orders together stand for the operations so
  far, names the cases in which two orders have met and those in which blocks stay
  at an edge; `Explained` is the conclusion for an answer. A step of the proof takes
  the arithmetic of a region or a size as a lemma (`Ceil`, `Trunc`, `Absolute`,
  `Resize` and their bounds) and the picture operations as the lemmas it opens with.
* `SourceCacheProofs`: for any number of clients, identifiers and versions.
  `TypeInv`, then `HasMet`: what is in circulation for an identifier, in the caches
  and in the hands of all requests, is contained in what each running request on it
  has met. It is inductive because a store adds nothing that was not in circulation
  (`WorkCirculates`). `Justified` carries the cause of a refusal from the step that
  met it to the answer. `ForgottenForGood` is an action property from the same
  lemmas.
* `TurboJpegCallsProofs`: for any number of threads. `TypeInv` includes that a class
  marked with a thread is on that thread's stack of initializations; `PinInv` ties
  pinned arrays to the label; `MessageInv` says that the two halves of `errStr`,
  once a call has failed, were written since it began, by any thread; `HandleInv`
  says that a decompressor has no handle but the one in its field, a transformer no
  transform handle but that one, and that a memory manager without a handle belongs
  to a request that has failed; `CauseInv` links outcomes to files and classes.
* `EpegScalerProofs`: for every file, its texts, every size and buffer size and any
  number of failures. `OwnedInv` bounds, label by label, the blocks that the handle
  does not reach; `Left` are the two kinds that are left for good, the buffer of an
  encoder left by `longjmp()` and texts that others have overwritten, which
  `TextsInv` traces to markers that repeat. `FileInv` says that the block followed
  by the buffer is the beginning of the new file unless an allocation failed, which
  every reallocation that succeeds keeps (`EmptiedInOrder`). `CauseInv` gives the
  loss of the process its cause: want of memory, a file that libjpeg refuses, a
  product that wraps, a result longer than an int says. From these follow
  `PointersAreGood`, `NothingIsLeft`, `WholeFileArrives` and `LossesAreCaused`.
  `InPlaceScalingIsSound` is about the recursive function over the array: by
  induction a pixel that is still to be read lies at or behind the one that is
  written, since a picture is never enlarged.
* `LosslessTransformProofs`: for every image, sampling, block size, transform and
  crop. The invariant `LInv` says that what has been computed is a function of the
  image and the request (`Asked`: the workspace that is granted; `Prepared`: the
  destination). The rest is arithmetic over blocks: rows and columns of iMCUs are
  inside the mirrored part as a whole (`WithinPart`), every routine writes the block
  `Ideal` that mirroring sample by sample asks for (`Routines`), that block is in
  the source (`IdealInside`) and its samples are the right ones (`IdealSamples`).
  `do_flip_h_no_crop()` works in place, so its swaps and moves get closed forms by
  induction (`FlippedInPlace`, `MovedInPlace`). These give `ArraysAreLargeEnough`
  and `EverySampleMoves`; `NoStrip` gives `EdgesAreWhole`; `Readable` gives
  `UnreadableHasACause`. For `TooSmallHasACause` the blocks of an iMCU are at most
  what the name of the sampling reckons (`NamedIsCovered`) and the iMCUs no more
  than it pads to (`McusBound`). That proof showed a third cause that no run had
  met: four components of 4:2:2 or 4:4:0 whose factors are doubled (`FourDoubled`);
  the run has such an image since.
* `JpegReaderProofs`: for any sound files and strays, any stretch of damage and any
  number of calls. `TypeInv` contains `TypeOK` and says of the object and of the
  file what every step needs: the frame has components and MCUs, a scan's components
  are those of the frame, the coefficient arrays have one place per MCU, the place
  to read at is inside the file or just behind it, and what `tjTransform()` wrote is
  a file again. Damage keeps a file a sequence of tokens, and the search of the next
  marker ends (`LeastNat`), since the source manager inserts an EOI. `MarkerInv`
  says that the markers saved so far are those of the file in front of the place
  that is read, but for the pending one; `MarkersAreKept` follows, since what is
  written repeats them, except those that the writer's own replace.
  `SoundFilesGetServed` rests on two more invariants, which need each other because
  a file that was written may be the next to be read. `SoundInv` follows a sound
  file token by token: up to the first scan what has been read of the headers is
  what the object knows (`Headed`), behind it the object has all of them
  (`Scanning`), and during a pass the next token is the MCU or the restart marker
  that is due, with the count to the next restart and its number calculated from the
  MCUs so far (`McuNext`, `RestartNext`). The exception during a pass is
  `Borrowing`: the file has no Huffman tables and the object has others; whatever
  then goes wrong, no step brings the right ones. Behind a header there are two
  refusals that the file has brought about itself, `Nameless` and `OddColours`.
  `WrittenInv` says that what was written is a sound file: `ComposedIsSound` gives
  its layout. Only a header call that failed leaves the object in the middle of a
  header, which is why `inherited` is the last exception. `SilenceHasACause` is
  about damaged files, which no layout describes. `Torn` says what is left of it: in
  front of one place (`Cut`) and behind another (`Rest`) the file is the one it was,
  a fixed number of tokens apart (`Shift`), and between them is at most one stray.
  Its invariant `TrackInv` says that a transformation that has not warned will fail
  because of a header that an earlier call left half read (`Doomed`), borrows
  tables, or is on its track. At the markers that is: what the tokens so far say of
  tables and restart interval is what the object knows (`Knows`), and a block that
  is not blank is `Sure` - the file's, or `Bogus` while some data is not intact - as
  are all blocks of the components whose scans have been passed (`Filled`). Within a
  pass the decoder is in front of a segment (`Opening`), in place (`InPlace`), or
  `Adrift`: out of step, with data that is not intact to blame for it. There is one
  more case, which makes the invariant inductive and is the reason why silence is
  safe: `Displaced`, by whole restart intervals, when a stretch between two restart
  markers of equal number was lost or repeated. The segments then land in other
  places and every single one is accepted. But the MCUs of the scan no longer add
  up: either the next marker comes too early and the zeros put in for the rest are
  warned of, or the pass ends with data left (`DataAhead`) that `next_marker()`
  skips with a warning (`DataIsLeft`). `OutOfStep` is the other half of the
  argument: data that does not fit is not intact, or the tables are not the file's.
* `JpegResyncProofs`, on top of these: `IntactSegmentsAreDecoded` is about what is
  saved of a damaged file after a warning, where `TrackInv` says nothing. It needs
  to know which marker `jpeg_resync_to_restart()` meets. If a stretch with at most
  two restart markers is lost, the marker behind it has a number at most two ahead
  of the expected one (`TwoMarkersAtMost`, `AheadOfTheGap`), so that it is left for
  later; if such a stretch is repeated, the markers of the copy are at most two
  behind (`RepeatedAreBehind`), and are skipped. Counting is modulo eight, and two
  ahead is never two behind. The invariant `LandInv` says that the decoder is
  `Ordered` (its place in the damaged file is the place in the file, with the
  restart that is due), `Astray` (in what is left of a cut segment, or waiting at
  the marker behind it while MCUs are made up; `Ahead` has the number of that
  marker), or `Copying` (in front of a marker of the copy). In all three places
  `Kept` holds: intact data that has been passed is decoded where it belongs
  (`Landed`) and what is still to be decoded is blank (`Blanks`). The second part
  makes the first inductive, because blocks are not cleared before they are decoded:
  what has been made up must lie where nothing intact will follow. That is so
  because each component has one scan and the count of MCUs never runs ahead.

Every safety invariant and action property of the passing runs is stated by a
theorem but one: `KeepsTheColours` is only model-checked. So is all liveness,
because fairness and ENABLED are out of the prover's reach. Proved, and not among
the runs, are the types of `TurboJpegCalls` and `EdgesAreWhole`, about images that
are to be trimmed or perfect, which `JpegImage` never asks for. The library's
induction theorems take an operator as a parameter and cannot be used; induction
over an interval is done with sets (`BoundedInduction`), so that recursive functions
over numbers are within reach, folds over sequences and RECURSIVE operators are not.

## 5. Abstractions and what is left out

* Products and quotients in `IiifParameters` are exact; Java computes them in 32-bit
  floats, so a ceiling may be one larger in the code. `NaN`, which
  `Float.parseFloat` accepts, is not a value of the model.
* In `JpegImage` and above a picture of which partial blocks have stayed at an edge
  is `patched`, and nothing is said of where its blocks are; that is in
  `LosslessTransform`.
* Pixel types of ImageIO images (alpha, custom types that `new BufferedImage`
  refuses, samples of 16 bits that no JPEG writer takes), running out of memory in
  Java outside of the native calls, and writers that fail for one image only.
* `ImageIO.write()` that finds no writer yields an empty array; modelled for
  `forceJpeg` in `SourceCache`, not for the delivery of a format without a writer,
  which the support test excludes.
* In `SourceCache` reading a source is one step that yields one content; a file that
  is overwritten while it is read is not modelled. Ehcache's tiers are one map, and
  a store that is refused for lack of room is a store followed by an eviction.
  `getImageInfo()` begins after its access check, which is the one of
  `ImageService`.
* In `Epeg` an allocation of libjpeg that fails, and a file it refuses, look the
  same from outside; headers fit into the first buffer. The header reader keeps the
  texts of comments and of `Thumb::URI` and `Thumb::Mimetype`, which are modelled;
  the numbers of the other `Thumb::` markers are not allocated. Functions of epeg
  that the glue does not call (reading and writing files, getters and setters of
  comments and thumbnails, raw pixels) are left out.
* In `TurboJpegCalls` what a native call does with its file is one outcome; what it
  writes is in `LosslessTransform`. A `LibraryLoader` succeeds or fails; copying the
  library to a temporary file is I/O.
* In `LosslessTransform` coefficient values, signs and quantization are left out,
  and entropy-coded data are taken to be no longer than the samples; one output and
  no custom filter, as the bindings call it.
* In `JpegReader` damage is at the granularity of a token: one MCU of data, one
  marker. Progressive and arithmetic-coded files, several components' own tables,
  and non-interleaved padding are left out, and of what a transformation may write
  so are gray and crops. A JFIF or Adobe marker behind the first scan header has no
  part in guessing the colours, but is copied in front of it, which may change them:
  the exception of `KeepsTheColours`. After the last MCU of a scan the bit buffer
  may hold one token of data more, in the code a few bytes. The bindings make two
  calls on an object, the header call and then the transformation of the same file;
  in the model any two calls follow each other, on any files, as `turbojpeg.h`
  admits.
* Dead code: relative regions in the two `crop()` methods, `supportsInputFormat`,
  `supportsScaleOperation`, `@Cacheable` on `createImage` (called on `this`, past
  the proxy), `setImageData` and `setTransformOptions` from outside.
* Not modelled: JSON and headers, logging, Spring wiring. Of the vendored codec the
  greater part is computation on data: DCT and its inverse, SIMD code, quantizers,
  colour conversion, Huffman and arithmetic codes bit by bit, upsampling, test
  programs and tools that the server never runs. It is most of the C code of the
  repository and has no control worth a state machine, so that the map covers a
  small share of its lines.

## 6. Where code and comments disagree

Each `finding_*` run checks one sentence of the repository for the requests that
have one cause of deviation only.

| Property | What TLC finds |
|---|---|
| `MirroringIsAppliedBeforeRotation` | `!90` on the fast backend is served without mirroring |
| `MissingInfoIsNotFound` | `info.json` of a missing image is answered 415 |
| `CloseFreesTheHandles` | a transformer is created and closed; the handle that its superclass's constructor stored in the same field stays allocated |
| `BufferHoldsTheImage` | a crop of 16x16 of a 64x64 photograph in 4:2:0 with 3000 bytes of markers does not fit the buffer of `tjBufSize()`, which has 2816 |

Other sentences that do not hold for all requests are exceptions of the properties
of `image_service`, which show that there are no further ones within the bounds.
`KnownDeviation` in `ImageServiceContract` names them:

* `FlipOverwritten`: the case of the first row above.
* `CutAfterTurn`: region and rotation without scaling, on the fast backend; the
  region is cut out of the rotated image.
* `CutTwice`: a region over the edge, on the slow backend; the offset is applied
  twice.
* `OffsetIgnored`: on the fast backend a region of the image's own size at another
  offset is not cut; on the slow one neither is a relative region that begins
  outside of the image.
* `SizedForAnother`: sizes are calculated for the region before it is cut off.
* `NotEnlarged`: regions are not enlarged when the size asked for is the file's.
* `EdgeBlocksStay`: on the fast backend an image is mirrored or turned along a side
  that its blocks do not fill; those at the edge stay where they are.

Among the refusals, `!w,h` larger than the image is an error instead of the unscaled
image (`NoSuchSize`), `color.jpg` of a JPEG is an error (`ColorFails`), and the fast
image refuses 360 degrees (`AngleRefused`). The fast image also fails on gray of
other colours than YCbCr (`GrayFails`), on 4:1:1 turned sideways (`TurnsNameless`)
and on markers that its buffer does not hold (`Overflows`). A sound JPEG with a
subsampling that TurboJPEG has no name for is not found (`HeaderRefusedFor`).

The properties of the native runs name exceptions too. A sound file is refused when
`tjDecompressHeader3()` failed on the file before and left its object in the middle
of the header, and a file without Huffman tables is decoded with those of the file
before (`inherited`, `Borrows` in `JpegReader`); it is refused for a sampling
without a name or an Adobe marker of other colours (`Nameless`, `OddColours`). 4:1:1
turned sideways has no name and cannot be read again (`UnreadableForACause`). The
native scaler loses the process to a number of pixels that wraps (`BufferWraps`) or
to a result longer than an int says (`TooLong`), and leaves a text behind when a
`Thumb::` marker is repeated (`Repeated`).

## 7. Plan

Done, in this order: `Pictures`, `JpegImage` with its proofs, the refinement,
`IiifParameters` and the two images, `ImageService` with its contract,
`SourceCache`; the native scaler, the bindings and `LibraryLoader`, the lossless
transform, the reader; the proofs of `TurboJpegCalls`, `SourceCache`, the
refinement, `EpegScaler`, `ImageService` and `LosslessTransform`; of `JpegReader`
its type invariant, the markers, sound files, what damage does without a warning,
and what is saved when segments are lost or repeated.

Next, modelling:

1. Rounding: the size calculation with 32-bit floats against the exact one over
   bounded inputs (the hazard at `ResizeParametersImpl.java:55` has no property).
2. Pixel types in `JAIImage`: an image of 16 bits per sample that is to be delivered
   as JPEG, or flipped, fails after everything has been accepted (the hazard at
   `JAIImage.java:230` has none either).
3. An abstract service (a request is answered by the picture asked for or refused)
   that `ImageService` implements where no known deviation applies.
4. Progressive files in `JpegReader`, whose scans refine what earlier ones left.

Next, proofs:

1. `EveryRequestIsAnswered` and the other liveness properties have no theorem; that
   the label only moves forward can be stated as an action property and proved.
2. `KeepsTheColours`: that the markers in front of the first scan of what is written
   lead to the same guess as those of the file.
