---------------------------- MODULE SourceCache ----------------------------
(***************************************************************************)
(* How concurrent requests get at the bytes of a source: the caches        *)
(* sourceImages and imageInfos, filled by @CacheResult methods without a   *)
(* lock, while the sources change and the caches evict.                    *)
(*                                                                         *)
(* A content is what a source held between two changes; its kind says what *)
(* the decoders make of it.  The image requests here end where module      *)
(* ImageService begins to transform.                                       *)
(***************************************************************************)
EXTENDS Naturals, Sequences

CONSTANTS Clients,      \* the threads of the servlet container
          Identifiers,
          Kinds,        \* what sources may hold, of AllKinds
          MaxVersion    \* bounds how often a source changes

ASSUME MaxVersionAssumption == MaxVersion \in Nat

\* absent: not to be resolved, not readable, or empty; deep: decodable, but with
\* more bits per sample than a JPEG writer takes; broken: a JPEG whose header
\* does not parse; alien: no reader knows it.  "void" is what a conversion without a writer yields.
AllKinds == {"absent", "jpeg", "png", "deep", "broken", "alien"}
Bytes    == [kind : (AllKinds \ {"absent"}) \union {"void"}, version : 0..MaxVersion]
ASSUME KindsAssumption == Kinds \in [BOOLEAN -> SUBSET AllKinds]

Nowhere  == [kind |-> "none", version |-> 0]

\* The repositories whose support tests the request passes, in order.
Eligible == {<<"JpegTran", "ImageIO">>, <<"ImageIO">>, <<>>}
Asks     == [what : {"image"}, id : Identifiers, repos : Eligible]
                \union [what : {"info"}, id : Identifiers, repos : {<<"JpegTran", "ImageIO">>}]

VARIABLES forceJpeg,    \* iiif.image.forceJpeg, which nothing changes
          source,       \* what each identifier resolves to
          sourceImages, imageInfos,
          pc, ask, tried,
          bytes,        \* what the request has in hand
          status,       \* of its answer, 0 while it runs
          met           \* history: what was about when the request began, in the
                        \* source, in a cache or in other hands, and what the
                        \* source has held since

Contents == [kind : Kinds[forceJpeg], version : 0..MaxVersion]

caches == <<sourceImages, imageInfos>>
vars   == <<forceJpeg, source, caches, pc, ask, tried, bytes, status, met>>

Init ==
    /\ forceJpeg \in BOOLEAN
    /\ source \in [Identifiers -> {c \in Contents : c.version = 0}]
    /\ sourceImages = [id \in Identifiers |-> Nowhere]
    /\ imageInfos   = [id \in Identifiers |-> Nowhere]
    /\ pc     = [c \in Clients |-> "idle"]
    /\ ask    \in [Clients -> {a \in Asks : a.repos = <<>>}]
    /\ tried  = [c \in Clients |-> 0]
    /\ bytes  = [c \in Clients |-> Nowhere]
    /\ status = [c \in Clients |-> 0]
    /\ met    = [c \in Clients |-> {}]

-----------------------------------------------------------------------------
Goto(c, step)   == pc' = [pc EXCEPT ![c] = step] /\ UNCHANGED <<forceJpeg, status>>
Answer(c, code) == pc' = [pc EXCEPT ![c] = "idle"] /\ status' = [status EXCEPT ![c] = code] /\ UNCHANGED forceJpeg

At(c, step) == pc[c] = step
Id(c)       == ask[c].id

\* (Fault: the loop does not advance.)
TryNextInPlace(c) ==
    UNCHANGED tried /\ Goto(c, IF ask[c].what = "info" THEN "info" ELSE "data")

\* The next repository, after one that did not work.
TryNext(c) ==
    /\ tried' = [tried EXCEPT ![c] = tried[c] + 1]
    /\ IF tried'[c] = Len(ask[c].repos) THEN Answer(c, 415)
       ELSE Goto(c, IF ask[c].what = "info" THEN "info" ELSE "data")

Take(c, b) == bytes' = [bytes EXCEPT ![c] = b]

Busy(id) == {c \in Clients : pc[c] # "idle" /\ Id(c) = id}

\* What an answer about id may show, from now on and until the source changes.
InCirculation(id) ==
    ({source[id], sourceImages[id], imageInfos[id]} \union {bytes[c] : c \in Busy(id)})
        \ {Nowhere}

\* (Fault: a thread uses again what it read for its last request.)
BeginWithLastBytes(c) ==
    /\ At(c, "idle")
    /\ \E a \in {a \in Asks : a.repos # <<>>} :
        /\ ask' = [ask EXCEPT ![c] = a]
        /\ met' = [met EXCEPT ![c] = InCirculation(a.id)]
        /\ pc' = [pc EXCEPT ![c] =
                     IF bytes[c] # Nowhere THEN "decode"
                     ELSE IF a.what = "info" THEN "info" ELSE "data"]
    /\ status' = [status EXCEPT ![c] = 0]
    /\ tried' = [tried EXCEPT ![c] = 0]
    /\ UNCHANGED <<forceJpeg, source, caches, bytes>>

Begin(c) ==
    /\ At(c, "idle")
    /\ \E a \in Asks :
        /\ ask' = [ask EXCEPT ![c] = a]
        /\ met' = [met EXCEPT ![c] = InCirculation(a.id)]
        /\ \/ /\ a.repos = <<>>
              /\ Answer(c, 415)
           \/ /\ a.repos # <<>>
              /\ pc' = [pc EXCEPT ![c] = IF a.what = "info" THEN "info" ELSE "data"]
              /\ status' = [status EXCEPT ![c] = 0]
    /\ tried' = [tried EXCEPT ![c] = 0]
    /\ Take(c, Nowhere)
    /\ UNCHANGED <<forceJpeg, source, caches>>

-----------------------------------------------------------------------------
(* getImageData(): look up, load, store.                                   *)

LookUpData(c) ==
    /\ At(c, "data")
    /\ UNCHANGED <<source, caches, ask, tried, met>>
    /\ \/ /\ sourceImages[Id(c)] # Nowhere
          /\ Take(c, sourceImages[Id(c)])
          /\ Goto(c, "decode")
       \/ /\ sourceImages[Id(c)] = Nowhere
          /\ Goto(c, "load")
          /\ UNCHANGED bytes

\* (Fault: no writer is found for what was decoded.)
ConvertedToVoid(b) == IF b.kind \in {"jpeg", "broken"} THEN b ELSE [b EXCEPT !.kind = "void"]

\* convertToJpeg() looks at the first two bytes; what no reader knows makes
\* ImageIO.write() throw, what no writer takes becomes an array of length 0.
Converted(b) ==
    IF b.kind \in {"jpeg", "broken"} THEN b
    ELSE [b EXCEPT !.kind = IF b.kind = "png" THEN "jpeg" ELSE "void"]

Loaded(b) == IF forceJpeg THEN Converted(b) ELSE b

\* Only an image request tells an exception from another: null, not found, for
\* a source that cannot be resolved; invalid parameters for an illegal argument.
\* Neither is stored.
Load(c) ==
    LET now == source[Id(c)]
    IN  /\ At(c, "load")
        /\ UNCHANGED <<source, caches, ask, met>>
        /\ \/ /\ now.kind = "absent" /\ ask[c].what = "image"
              /\ Answer(c, 404)
              /\ UNCHANGED <<bytes, tried>>
           \/ /\ now.kind = "alien" /\ forceJpeg /\ ask[c].what = "image"
              /\ Answer(c, 400)
              /\ UNCHANGED <<bytes, tried>>
           \/ /\ now.kind = "absent" \/ (now.kind = "alien" /\ forceJpeg)
              /\ ask[c].what = "info"
              /\ TryNext(c)
              /\ UNCHANGED bytes
           \/ /\ now.kind # "absent" /\ ~(now.kind = "alien" /\ forceJpeg)
              /\ Take(c, Loaded(now))
              /\ Goto(c, "store")
              /\ UNCHANGED tried

Store(c) ==
    /\ At(c, "store")
    /\ sourceImages' = [sourceImages EXCEPT ![Id(c)] = bytes[c]]
    /\ Goto(c, "decode")
    /\ UNCHANGED <<source, imageInfos, ask, tried, bytes, met>>

-----------------------------------------------------------------------------
(* getImage() and getImageInfo().                                          *)

\* What a repository's decoder makes of the bytes: an image, an IOException,
\* or anything else that is thrown.
Decoded(repo, kind) ==
    IF kind = "jpeg" \/ (repo = "ImageIO" /\ kind \in {"png", "deep"}) THEN "image"
    ELSE IF kind = "broken" THEN "IOException" ELSE "other"

\* (Fault: any exception of a decoder makes the image not found.)
MakeImageOrNull(c) ==
    LET outcome == Decoded(ask[c].repos[tried[c] + 1], bytes[c].kind)
    IN  /\ At(c, "decode") /\ ask[c].what = "image"
        /\ Answer(c, IF outcome = "image" THEN 200 ELSE 404)
        /\ UNCHANGED <<source, caches, ask, tried, bytes, met>>

MakeImage(c) ==
    LET outcome == Decoded(ask[c].repos[tried[c] + 1], bytes[c].kind)
    IN  /\ At(c, "decode") /\ ask[c].what = "image"
        /\ UNCHANGED <<source, caches, ask, bytes, met>>
        /\ \/ outcome = "image"       /\ Answer(c, 200) /\ UNCHANGED tried
           \/ outcome = "IOException" /\ Answer(c, 404) /\ UNCHANGED tried
           \/ outcome = "other"       /\ TryNext(c)

\* Both repositories inherit the same getImageInfo() over the same key.
LookUpInfo(c) ==
    /\ At(c, "info")
    /\ UNCHANGED <<source, caches, ask, tried, met>>
    /\ \/ /\ imageInfos[Id(c)] # Nowhere
          /\ Take(c, imageInfos[Id(c)])
          /\ Answer(c, 200)
       \/ /\ imageInfos[Id(c)] = Nowhere
          /\ Goto(c, "data")
          /\ UNCHANGED bytes

\* Every repository reads the width and the height by ImageIO.
MakeInfo(c) ==
    /\ At(c, "decode") /\ ask[c].what = "info"
    /\ UNCHANGED <<source, caches, ask, bytes, met>>
    /\ \/ Decoded("ImageIO", bytes[c].kind) = "image" /\ Goto(c, "publish") /\ UNCHANGED tried
       \/ Decoded("ImageIO", bytes[c].kind) # "image" /\ TryNext(c)

StoreInfo(c) ==
    /\ At(c, "publish")
    /\ imageInfos' = [imageInfos EXCEPT ![Id(c)] = bytes[c]]
    /\ Answer(c, 200)
    /\ UNCHANGED <<source, sourceImages, ask, tried, bytes, met>>

-----------------------------------------------------------------------------
(* The surroundings: whoever keeps the sources, and Ehcache.               *)

Change(id) ==
    /\ source[id].version < MaxVersion
    /\ \E kind \in Kinds[forceJpeg] :
        /\ source' = [source EXCEPT ![id] = [kind |-> kind, version |-> @.version + 1]]
        /\ met' = [c \in Clients |->
                      IF c \in Busy(id) THEN met[c] \union {source'[id]} ELSE met[c]]
    /\ UNCHANGED <<forceJpeg, caches, pc, ask, tried, bytes, status>>

Evict(id) ==
    /\ \/ /\ sourceImages[id] # Nowhere
          /\ sourceImages' = [sourceImages EXCEPT ![id] = Nowhere]
          /\ UNCHANGED imageInfos
       \/ /\ imageInfos[id] # Nowhere
          /\ imageInfos' = [imageInfos EXCEPT ![id] = Nowhere]
          /\ UNCHANGED sourceImages
    /\ UNCHANGED <<forceJpeg, source, pc, ask, tried, bytes, status, met>>

Work(c) ==
    \/ LookUpData(c) \/ Load(c) \/ Store(c)
    \/ MakeImage(c)
    \/ LookUpInfo(c) \/ MakeInfo(c) \/ StoreInfo(c)

Next ==
    \/ \E c \in Clients : Begin(c) \/ Work(c)
    \/ \E id \in Identifiers : Change(id) \/ Evict(id)

\* A thread that has taken a request works on it; nobody has to ask, no source
\* has to change and no cache has to evict.
Spec == Init /\ [][Next]_vars /\ \A c \in Clients : WF_vars(Work(c))

-----------------------------------------------------------------------------
(* Properties.                                                             *)

\* A request is served with a content that was in circulation when it began,
\* or that the source has held since; a slow request that stores what it read
\* long ago brings nothing back that was not about already.
ServedFromItsOwnTime ==
    \A c \in Clients :
        status[c] = 200 => bytes[c].version \in {b.version : b \in met[c]}

Serviceable(b) ==
    b.kind \in {"jpeg", "png"} \/ (b.kind = "deep" /\ ~forceJpeg)

\* A request is refused only when something it could have met cannot be served:
\* absence and the failures of others are not cached, and walking from one
\* repository to the next misses nothing that was there all the time.
RefusedForACause ==
    \A c \in Clients :
        status[c] \notin {0, 200} /\ ask[c].repos # <<>> =>
            \E b \in met[c] : ~Serviceable(b)

\* Not found is answered only when the source was absent at some time of the
\* request, or when what it was given was broken.
NotFoundWasTrue ==
    \A c \in Clients :
        status[c] = 404 =>
            \/ \E b \in met[c] : b.kind = "absent"
            \/ bytes[c].kind = "broken"

\* Once a superseded content has left both caches and the hands of every
\* request, it never comes back: emptying the caches while no request runs
\* is enough to publish a change.
ForgottenStaysForgotten ==
    [][\A id \in Identifiers :
          {b.version : b \in InCirculation(id)}'
              \subseteq {b.version : b \in InCirculation(id)} \union {source'[id].version}]_vars

\* Every request is answered, however often the others empty and fill the
\* caches in between.
EveryRequestEnds == \A c \in Clients : pc[c] # "idle" ~> pc[c] = "idle"

\* The controller documents for getInfo() "@throws ResolvingException if
\* identifier can not be resolved to an image", and that answers 404: a request
\* that met nothing but an absent source is not told that the format is at fault.
MissingInfoIsNotFound ==
    \A c \in Clients :
        status[c] # 0 /\ ask[c].what = "info" /\ met[c] # {}
            /\ (\A b \in met[c] : b.kind = "absent") => status[c] = 404
=============================================================================
