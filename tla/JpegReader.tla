----------------------------- MODULE JpegReader -----------------------------
(***************************************************************************)
(* How libjpeg reads a file for a TurboJPEG handle: the marker reader      *)
(* (jdmarker.c), the input controller (jdinput.c), the restart logic of    *)
(* the Huffman decoder (jdhuff.c) and the calls that drive them            *)
(* (jdapimin.c, jdtrans.c, turbojpeg.c).  The handle lives through several *)
(* calls, each on a file of its own; a file may be damaged.                *)
(*                                                                         *)
(* A file is a sequence of tokens: markers with what matters of their      *)
(* parameters, and between them the data of one MCU each.  A decoder that  *)
(* is not in step with its data yields Bogus, whatever the bits say.       *)
(***************************************************************************)
EXTENDS Integers, Sequences, FiniteSets

CONSTANTS
    Sounds,     \* the sound files: [name -> sequence of tokens]
    Strays,     \* the tokens that damage may put into a file
    Span,       \* the most tokens that damage removes or repeats
    MaxCalls    \* the most calls on the handle

VARIABLES
    dinfo,      \* the decompression object
    source,     \* the file of the current call and what has happened to it
    next,       \* the next token of the source
    warning,    \* jerr.warning
    call,       \* the current or last call: "header" or "transform"
    pc,         \* where the call is, "idle" when there is none
    result,     \* of the last call: "none", "ok", "warned" or "refused"
    written,    \* the file that the last good transformation made, or <<>>
    calls,      \* the number of calls so far
    inherited   \* history: whether the call began on an object left in a header

vars == <<dinfo, source, next, warning, call, pc, result, written, calls, inherited>>

None  == "none"
Blank == 0      \* a block of zeros: MCU i of a picture has the value i > 0
Bogus == -1     \* what decoding yields out of step with the data

(***************************************************************************)
(* Files.                                                                  *)
(***************************************************************************)

\* A token: its kind, a number, a name and components, the values of data and how
\* a frame is sampled.
Marker(kind) == [k |-> kind, n |-> 0, name |-> None, comps |-> {}, v |-> <<>>,
                 opens |-> FALSE, sampling |-> "named"]
Named(kind, name) == [Marker(kind) EXCEPT !.name = name]    \* DHT, DQT, APP
Adobe(transform) == [Named("APP", "Adobe") EXCEPT !.n = transform]
Counting(kind, n) == [Marker(kind) EXCEPT !.n = n]          \* DRI, RST
SOS(comps) == [Marker("SOS") EXCEPT !.comps = comps]
SOF(comps, n, fault) == [Named("SOF", fault) EXCEPT !.comps = comps, !.n = n]
Frame(comps, n, sampling) == [SOF(comps, n, None) EXCEPT !.sampling = sampling]
EOI == Marker("EOI")
NoMarker == Marker(None)

\* The data of MCU i: its values by component, the Huffman tables it is coded
\* with and whether it opens a segment, that is, is coded with predictions of 0.
Data(i, v, tables, opens) ==
    [Named("data", tables) EXCEPT !.n = i, !.comps = DOMAIN v, !.v = v, !.opens = opens]
Junk == Named("data", None)

\* The segments of a scan of n MCUs, with a restart marker after each interval.
Scan(comps, n, interval, tables) ==
    LET Opens(i) == i = 1 \/ (interval > 0 /\ (i - 1) % interval = 0)
        Mcu(i) == Data(i, [c \in comps |-> i], tables, Opens(i))
        Segments[i \in 0..n] ==
            IF i = 0 THEN <<>>
            ELSE Segments[i - 1]
                 \o (IF i > 1 /\ Opens(i)
                     THEN <<Counting("RST", ((i - 1) \div interval - 1) % 8)>> ELSE <<>>)
                 \o <<Mcu(i)>>
    IN  <<SOS(comps)>> \o Segments[n]

File(name, damage, from, to, stray) ==
    [name |-> name, damage |-> damage, from |-> from, to |-> to, stray |-> stray]
Sound(name) == File(name, None, 0, 0, EOI)

\* What may have happened to a file on its way: a stretch lost (at its end:
\* the file is truncated) or repeated, one token put in or in another's place.
Damaged(name) ==
    LET size == Len(Sounds[name])
        Stretches == {r \in (1..size) \X (1..size) : r[1] <= r[2] /\ r[2] < r[1] + Span}
    IN  {File(name, damage, r[1], r[2], EOI) : damage \in {"lost", "repeated"}, r \in Stretches}
        \cup {File(name, "lost", i, size, EOI) : i \in 2..size}
        \cup {File(name, damage, i, i, t) :
                 damage \in {"inserted", "replaced"}, i \in 1..size, t \in Strays}

\* A token that a writer may have made, or damage: read_markers() refuses an SOS
\* without components and a frame without pixels.
IsToken(t) ==
    /\ t.k # None /\ t.n \in Nat
    /\ t.k = "SOS" => t.comps # {}
    /\ t.k = "SOF" /\ t.name = None => t.n > 0
    /\ t.k \in {"DQT", "DHT"} => t.name \notin {None, "JFIF"}
IsFile(f) == /\ f \in Seq({f[i] : i \in DOMAIN f})
             /\ \A i \in DOMAIN f : IsToken(f[i])

IsMcu(t, n, comps, opens) ==
    t.k = "data" /\ t.n = n /\ t.comps = comps /\ t.opens = opens

\* What follows token i of a body: the first MCU of a scan, the next MCU, with a
\* restart marker in front of it after each interval, or what ends the scan.
Follows(f, i, many, interval) ==
    LET t == f[i]
        restarts == interval > 0 /\ t.n % interval = 0
    IN  /\ t.k = "SOS" => IsMcu(f[i + 1], 1, t.comps, TRUE)
        /\ t.k = "data" /\ t.n # many /\ restarts =>
               /\ f[i + 1] = Counting("RST", (t.n \div interval - 1) % 8)
               /\ IsMcu(f[i + 2], t.n + 1, t.comps, TRUE)
        /\ t.k = "data" /\ t.n # many /\ ~restarts => IsMcu(f[i + 1], t.n + 1, t.comps, FALSE)
        /\ (t.k = "data" /\ t.n = many) \/ t.k \in {"APP", "DHT"} =>
               f[i + 1].k \notin {"data", "RST"}

\* The layout of a baseline file: frame, tables and restart interval are in front
\* of the first scan, at s; the Huffman tables may be missing, if they are the
\* standard ones.
Layout(f, frame, s, interval, tables) ==
    /\ frame \in 2..(s - 1) /\ s < Len(f)
    /\ f[1].k = "SOI" /\ f[Len(f)].k = "EOI"
    /\ \A i \in 2..(s - 1) : /\ f[i].k \in {"APP", "DQT", "DHT", "DRI", "SOF"}
                             /\ f[i].k = "SOF" => i = frame
    /\ \A i \in s..(Len(f) - 1) : /\ f[i].k \in {"APP", "DHT", "SOS", "RST", "data"}
                                  /\ Follows(f, i, f[frame].n, interval)
    /\ f[frame].k = "SOF" /\ f[frame].name = None /\ f[s].k = "SOS"
    /\ \A i \in s..Len(f) : f[i].k = "SOS" =>
           /\ f[i].comps \subseteq f[frame].comps
           /\ i > s => f[s].comps # f[frame].comps
    /\ \E i \in 2..(s - 1) : f[i].k = "DQT"
    /\ \/ \E i \in 2..(s - 1) : f[i].k = "DRI"
       \/ interval = 0
    /\ \A i \in DOMAIN f : f[i].k = "DRI" => f[i].n = interval
    /\ \/ \E i \in 2..(s - 1) : f[i].k = "DHT"
       \/ tables = "standard" /\ \A i \in DOMAIN f : f[i].k # "DHT"
    /\ \A i \in DOMAIN f : f[i].k \in {"DHT", "data"} => f[i].name = tables

Intervals(f)  == {0} \cup {f[i].n : i \in DOMAIN f}
TableNames(f) == {"standard"} \cup {f[i].name : i \in DOMAIN f}

\* Each component is sent in one scan.
OneScan(f) ==
    \A i, j \in DOMAIN f : f[i].k = "SOS" /\ f[j].k = "SOS" /\ i # j =>
        f[i].comps \cap f[j].comps = {}

IsSoundFile(f) ==
    /\ IsFile(f) /\ OneScan(f)
    /\ \E frame, s \in 1..Len(f), interval \in Intervals(f), tables \in TableNames(f) :
           Layout(f, frame, s, interval, tables)

ASSUME FilesAssumption ==
    /\ \A name \in DOMAIN Sounds : IsSoundFile(Sounds[name])
    /\ {None, "written"} \cap DOMAIN Sounds = {}
    /\ \A t \in Strays : IsToken(t)
    /\ Span \in Nat

\* Damage is noise: it forges no frame header that is accepted, no tables and no
\* data that can be decoded, which nobody could tell from those of the file.
ASSUME StraysAssumption ==
    \A t \in Strays : /\ t.k = "data" => t = Junk
                      /\ t.k # "DHT"
                      /\ t.k = "SOF" => t.name # None

Tokens == CASE source.name \in DOMAIN Sounds -> Sounds[source.name]
            [] source.name = "written"         -> written
            [] OTHER                           -> <<>>
Width  == source.to - source.from + 1
Size   == CASE source.damage = "lost"     -> Len(Tokens) - Width
            [] source.damage = "repeated" -> Len(Tokens) + Width
            [] source.damage = "inserted" -> Len(Tokens) + 1
            [] OTHER                      -> Len(Tokens)

(***************************************************************************)
(* The source manager: at the end of the buffer it warns and inserts an    *)
(* EOI, as often as it is asked.                                           *)
(***************************************************************************)

Starved(i) == i > Size

\* The token at place i of the damaged file.
At(i) ==
    LET sound == Tokens
        place == CASE source.damage = "lost" /\ i >= source.from    -> i + Width
                   [] source.damage = "repeated" /\ i > source.to   -> i - Width
                   [] source.damage = "inserted" /\ i > source.from -> i - 1
                   [] OTHER                                         -> i
    IN  IF Starved(i) THEN EOI
        ELSE IF source.damage \in {"inserted", "replaced"} /\ i = source.from
             THEN source.stray ELSE sound[place]

\* Where to read on behind the marker at place i.
After(i) == IF Starved(i) THEN i ELSE i + 1

\* next_marker(): the place of the first marker from place i on.
NextMarker(i) ==
    CHOOSE j \in i..(Size + 1) :
        /\ At(j).k # "data"
        /\ \A l \in i..(j - 1) : At(l).k = "data"

(***************************************************************************)
(* What TurboJPEG and libjpeg make of a header.                            *)
(***************************************************************************)

\* getSubsamp(): whether it has no name for the sampling.  4:1:1 has a name,
\* 4:1:1 turned sideways has not.
Unnamed(frame) ==
    LET many == Cardinality(frame.comps)
    IN  many # 1 /\ (many \notin {3, 4} \/ frame.sampling = "unnamed")

\* default_decompress_parms(): the colours by the number and the identifiers of
\* the components, saw_JFIF_marker and the Adobe marker, if any.
Colours(comps, jfif, adobe) ==
    LET many == Cardinality(comps)
    IN  CASE many = 1 -> "GRAY"
          [] many = 3 /\ (jfif \/ adobe # NoMarker) ->
                IF ~jfif /\ adobe.n = 0 THEN "RGB" ELSE "YCC"
          [] many = 3 /\ ~jfif /\ adobe = NoMarker ->
                IF comps = {66, 71, 82} THEN "RGB" ELSE "YCC"
          [] many = 4 -> IF adobe = NoMarker \/ adobe.n = 0 THEN "CMYK" ELSE "YCCK"
          [] OTHER -> "unknown"

\* It warns of a transform that is not one of these components.
Puzzling(comps, jfif, adobe) ==
    LET many == Cardinality(comps)
    IN  /\ adobe # NoMarker
        /\ \/ many = 3 /\ ~jfif /\ adobe.n \notin {0, 1}
           \/ many = 4 /\ adobe.n \notin {0, 2}

(***************************************************************************)
(* The decompression object.                                               *)
(***************************************************************************)

\* A new object; the tables live in its permanent pool.
Created ==
    [ state |-> "START", sawSOI |-> FALSE, frame |-> NoMarker, unread |-> NoMarker,
      expected |-> 0, inheaders |-> TRUE, eoi |-> FALSE, multiple |-> FALSE,
      interval |-> 0, toGo |-> 0, insufficient |-> FALSE, consume |-> "markers",
      scan |-> {}, mcu |-> 0, last |-> 0, quant |-> None, tables |-> None,
      latched |-> <<>>, coefs |-> <<>>, keep |-> FALSE, saved |-> <<>>,
      jfif |-> FALSE, adobe |-> NoMarker, colours |-> "unknown" ]

\* (Fault: the end of the last file is not forgotten.)
ResetButEOI(d) ==
    [d EXCEPT !.consume = "markers", !.multiple = FALSE, !.inheaders = TRUE,
              !.unread = NoMarker, !.sawSOI = FALSE, !.frame = NoMarker]

\* reset_input_controller() and reset_marker_reader(), from DSTATE_START only.
Reset(d) ==
    [d EXCEPT !.consume = "markers", !.multiple = FALSE, !.eoi = FALSE,
              !.inheaders = TRUE, !.unread = NoMarker, !.sawSOI = FALSE,
              !.frame = NoMarker]

\* (Fault: the list of saved markers is kept.)
AbortButMarkers(d) ==
    [d EXCEPT !.state = "START", !.coefs = <<>>, !.latched = <<>>,
              !.scan = {}, !.mcu = 0, !.toGo = 0, !.last = 0, !.insufficient = FALSE]

\* jpeg_abort(): the memory of the image is freed, with the coefficients, the
\* entropy decoder and the saved markers; the tables stay.
Abort(d) ==
    [d EXCEPT !.state = "START", !.saved = <<>>, !.coefs = <<>>, !.latched = <<>>,
              !.scan = {}, !.mcu = 0, !.toGo = 0, !.last = 0, !.insufficient = FALSE]

\* An error in libjpeg: both calls return -1, only tjTransform() aborts.
Fail(d) ==
    /\ result' = "refused"
    /\ pc' = "idle"
    /\ dinfo' = IF call = "transform" THEN Abort(d) ELSE d
    /\ UNCHANGED <<source, call, written, calls, inherited>>

Go(d, label) ==
    /\ dinfo' = d
    /\ pc' = label
    /\ UNCHANGED <<source, call, result, written, calls, inherited>>

(***************************************************************************)
(* Calls.                                                                  *)
(***************************************************************************)

Files ==
    {Sound(name) : name \in DOMAIN Sounds \cup (IF written = <<>> THEN {} ELSE {"written"})}

\* tjDecompressHeader3() or tjTransform(): jpeg_mem_src_tj(), for a
\* transformation jcopy_markers_setup(), then jpeg_read_header().
BeginCall(kind, file) ==
    /\ pc = "idle" /\ calls < MaxCalls
    /\ source' = file /\ next' = 1 /\ warning' = FALSE
    /\ call' = kind /\ pc' = "reading" /\ result' = None /\ calls' = calls + 1
    /\ inherited' = (dinfo.state # "START")
    /\ LET d == [dinfo EXCEPT !.keep = @ \/ kind = "transform"]
       IN  dinfo' = IF d.state = "START" THEN [Reset(d) EXCEPT !.state = "INHEADER"] ELSE d
    /\ UNCHANGED written

\* Damage is met once, in any call.
Begin ==
    \E kind \in {"header", "transform"} :
        \/ \E file \in Files : BeginCall(kind, file)
        \/ /\ pc = "idle" /\ source.damage = None
           /\ \E name \in DOMAIN Sounds : \E file \in Damaged(name) : BeginCall(kind, file)

(***************************************************************************)
(* read_markers(): one marker per step.                                    *)
(***************************************************************************)

Reading == pc = "reading" /\ dinfo.consume = "markers"

\* consume_markers() reads no further after EOI: require_image complains.
ReadAfterEOI ==
    /\ Reading /\ dinfo.eoi
    /\ Fail(dinfo)
    /\ UNCHANGED <<next, warning>>

\* first_marker()
FirstMarker ==
    /\ Reading /\ ~dinfo.eoi /\ dinfo.unread = NoMarker /\ ~dinfo.sawSOI
    /\ next' = After(next)
    /\ warning' = (warning \/ Starved(next))
    /\ IF At(next).k = "SOI" THEN Go([dinfo EXCEPT !.unread = At(next)], pc)
                             ELSE Fail(dinfo)

\* next_marker(): it warns of what it skips.
NextMarkerOfHeaders ==
    LET found == NextMarker(next)
    IN  /\ Reading /\ ~dinfo.eoi /\ dinfo.sawSOI /\ dinfo.unread = NoMarker
        /\ next' = After(found)
        /\ warning' = (warning \/ found > next \/ Starved(found))
        /\ Go([dinfo EXCEPT !.unread = At(found)], pc)

\* A marker pending from an earlier call takes the start of the new file, its
\* SOI, for its parameters: they are out of bounds.
Pending(kinds) ==
    Reading /\ ~dinfo.eoi /\ dinfo.unread # NoMarker /\ dinfo.unread.k \in kinds
Parsing(kinds) == Pending(kinds) /\ UNCHANGED <<next, warning>>
Stale == next = 1

GetSOI ==
    /\ Parsing({"SOI"})
    /\ IF dinfo.sawSOI
       THEN Fail(dinfo)
       ELSE Go([dinfo EXCEPT !.sawSOI = TRUE, !.interval = 0, !.unread = NoMarker,
                             !.jfif = FALSE, !.adobe = NoMarker], pc)

GetSOF ==
    /\ Parsing({"SOF"})
    /\ IF Stale \/ dinfo.frame # NoMarker \/ dinfo.unread.name \in {"unsupported", "empty"}
       THEN Fail(dinfo)
       ELSE Go([dinfo EXCEPT !.frame = dinfo.unread, !.unread = NoMarker], pc)

\* get_dht(), get_dqt(), get_dri()
GetTables ==
    /\ Parsing({"DHT", "DQT", "DRI"})
    /\ LET m == dinfo.unread
           d == [dinfo EXCEPT !.unread = NoMarker]
       IN  IF Stale THEN Fail(dinfo)
           ELSE CASE m.k = "DHT" -> Go([d EXCEPT !.tables = m.name], pc)
                  [] m.k = "DQT" -> Go([d EXCEPT !.quant = m.name], pc)
                  [] m.k = "DRI" -> Go([d EXCEPT !.interval = m.n], pc)

\* save_marker() for a transformation, get_interesting_appn() or skip_variable()
\* for a header; JFIF and Adobe are looked into by all.
SaveMarker ==
    /\ Parsing({"APP"})
    /\ LET m == dinfo.unread
       IN  Go([dinfo EXCEPT !.unread = NoMarker,
                            !.saved = IF dinfo.keep THEN Append(@, m) ELSE @,
                            !.jfif = @ \/ m.name = "JFIF",
                            !.adobe = IF m.name = "Adobe" THEN m ELSE @], pc)

\* Markers without parameters are skipped wherever they are.
SkipMarker ==
    /\ Parsing({"RST", "TEM"})
    /\ Go([dinfo EXCEPT !.unread = NoMarker], pc)

UnknownMarker == Parsing({"RES"}) /\ Fail(dinfo)

\* start_input_pass(): per_scan_setup(), latch_quant_tables() and
\* start_pass_huff_decoder().
StartInputPass(d) ==
    IF d.quant = None
    THEN Fail(d)
    ELSE Go([d EXCEPT !.consume = "data", !.mcu = 0, !.insufficient = FALSE,
                      !.toGo = d.interval, !.last = 0,
                      !.latched = [c \in DOMAIN @ |->
                          IF c \in d.scan /\ @[c] = None THEN d.quant ELSE @[c]]],
            "coefficients")

\* transdecode_master_selection(): the Huffman decoder takes the standard
\* tables when none are set, the coefficients are zero.
Select(d) ==
    [d EXCEPT !.state = "RDCOEFS",
              !.tables = IF @ = None THEN "standard" ELSE @,
              !.latched = [c \in d.frame.comps |-> None],
              !.coefs = [c \in d.frame.comps |-> [i \in 1..d.frame.n |-> Blank]]]

\* What a transformation does once it has the header: the sampling has to have a
\* name before the coefficients are read.
ReadCoefficients(d) ==
    IF Unnamed(d.frame) THEN Fail(d) ELSE StartInputPass(Select(d))

\* get_sos() and what consume_markers() and jpeg_consume_input() do then.  The
\* first SOS ends the header, which initial_setup() checks.
GetSOS ==
    /\ Pending({"SOS"})
    /\ LET comps == dinfo.unread.comps
           frame == dinfo.frame
           first == dinfo.inheaders
           valid == ~Stale /\ comps \subseteq frame.comps
           d == [dinfo EXCEPT !.unread = NoMarker, !.scan = comps, !.expected = 0]
           headers == [d EXCEPT !.inheaders = FALSE, !.state = "READY",
                                !.multiple = (comps # frame.comps),
                                !.colours = Colours(frame.comps, d.jfif, d.adobe)]
           puzzling == Puzzling(frame.comps, d.jfif, d.adobe)
       IN  /\ warning' = (warning \/ (valid /\ first /\ frame.name = None /\ puzzling))
           /\ CASE ~valid -> Fail(dinfo)
                [] valid /\ ~first -> IF d.multiple THEN StartInputPass(d) ELSE Fail(d)
                [] valid /\ first -> IF frame.name # None THEN Fail(d)
                                     ELSE IF call = "header" THEN Go(headers, "finish")
                                     ELSE ReadCoefficients(headers)
    /\ UNCHANGED next

\* EOI: without an image it is an error, after one jpeg_read_coefficients() ends.
GetEOI ==
    /\ Parsing({"EOI"})
    /\ LET d == [dinfo EXCEPT !.unread = NoMarker, !.eoi = TRUE]
       IN  IF d.inheaders THEN Fail(d) ELSE Go([d EXCEPT !.state = "STOPPING"], "finish")

(***************************************************************************)
(* decode_mcu(): one MCU per step.                                         *)
(***************************************************************************)

Decoding == pc = "coefficients" /\ dinfo.consume = "data"

\* (Fault: the number of the next restart marker does not wrap.)
ResumeUnwrapped(d) ==
    Go([d EXCEPT !.expected = @ + 1, !.toGo = d.interval, !.last = 0,
                 !.insufficient = @ /\ d.unread # NoMarker],
       "coefficients")

\* A restart is over: process_restart().
Resume(d) ==
    Go([d EXCEPT !.expected = (@ + 1) % 8, !.toGo = d.interval, !.last = 0,
                 !.insufficient = @ /\ d.unread # NoMarker],
       "coefficients")

Accepts(marker, expected) == marker = Counting("RST", expected)

\* read_restart_marker(), of a marker that the decoder has met or the next one.
ReadRestartMarker ==
    LET met == dinfo.unread # NoMarker
        found == NextMarker(next)
        marker == IF met THEN dinfo.unread ELSE At(found)
    IN  /\ Decoding /\ dinfo.interval > 0 /\ dinfo.toGo = 0
        /\ next' = IF met THEN next ELSE After(found)
        /\ IF Accepts(marker, dinfo.expected)
           THEN /\ Resume([dinfo EXCEPT !.unread = NoMarker])
                /\ warning' = (warning \/ (~met /\ found > next))
           ELSE /\ Go([dinfo EXCEPT !.unread = marker], "resync")
                /\ warning' = TRUE

\* (Fault: a marker two counts ahead is not taken for a future one.)
ActionOneAhead(marker, desired) ==
    CASE marker.k = "TEM" -> "skip"
      [] marker.k \notin {"TEM", "RST"} -> "leave"
      [] OTHER ->
         CASE marker.n = (desired + 1) % 8 -> "leave"
           [] marker.n \in {(desired + 7) % 8, (desired + 6) % 8} -> "skip"
           [] OTHER -> "discard"

\* (Fault: markers that are not for restarts are skipped, EOI included.)
ActionToTheEnd(marker, desired) ==
    CASE marker.k # "RST" -> "skip"
      [] OTHER ->
         CASE marker.n \in {(desired + 1) % 8, (desired + 2) % 8} -> "leave"
           [] marker.n \in {(desired + 7) % 8, (desired + 6) % 8} -> "skip"
           [] OTHER -> "discard"

\* jpeg_resync_to_restart(): what to do about an unexpected marker.
Action(marker, desired) ==
    CASE marker.k = "TEM" -> "skip"
      [] marker.k \notin {"TEM", "RST"} -> "leave"
      [] OTHER ->
         CASE marker.n \in {(desired + 1) % 8, (desired + 2) % 8} -> "leave"
           [] marker.n \in {(desired + 7) % 8, (desired + 6) % 8} -> "skip"
           [] OTHER -> "discard"

Resync(action) == pc = "resync" /\ Action(dinfo.unread, dinfo.expected) = action

Discard ==
    /\ Resync("discard")
    /\ Resume([dinfo EXCEPT !.unread = NoMarker])
    /\ UNCHANGED <<next, warning>>

Skip ==
    /\ Resync("skip")
    /\ LET found == NextMarker(next)
       IN  /\ next' = After(found)
           /\ warning' = TRUE
           /\ Go([dinfo EXCEPT !.unread = At(found)], pc)

Leave ==
    /\ Resync("leave")
    /\ Resume(dinfo)
    /\ UNCHANGED <<next, warning>>

Min2(a, b) == IF a < b THEN a ELSE b

\* The tokens of data from place i on.
Run(i) == NextMarker(i) - i

\* A block that is decoded again is not cleared before.
Over(old, new) == IF old \in {Blank, new} THEN new ELSE Bogus

Store(d, value) ==
    [d EXCEPT !.coefs = [c \in DOMAIN d.coefs |->
        IF c \in d.scan THEN [d.coefs[c] EXCEPT ![d.mcu + 1] = Over(@, value[c])]
                        ELSE d.coefs[c]]]

\* consume_data() after an MCU; the last one of the scan ends the pass.  The bit
\* buffer may have taken a little data behind it, which is lost without a warning.
Counted(d, i) ==
    LET counted == [d EXCEPT !.toGo = @ - 1, !.mcu = @ + 1]
    IN  IF counted.mcu < d.frame.n
        THEN Go(counted, pc) /\ next' = i
        ELSE /\ Go([counted EXCEPT !.consume = "markers"], "reading")
             /\ next' \in IF d.unread = NoMarker THEN i..(i + Min2(1, Run(i))) ELSE {i}

McuDue == Decoding /\ (dinfo.interval = 0 \/ dinfo.toGo > 0)

\* The segment ended early: its other MCUs are left as they are.
LeaveMcu ==
    /\ McuDue /\ dinfo.insufficient
    /\ Counted(dinfo, next)
    /\ UNCHANGED warning

\* (Fault: nobody is told that data is missing.)
StuffZerosSilently ==
    /\ McuDue /\ ~dinfo.insufficient /\ dinfo.unread = NoMarker /\ At(next).k # "data"
    /\ Counted([dinfo EXCEPT !.insufficient = TRUE, !.unread = At(next)], After(next))
    /\ UNCHANGED warning

\* The marker is met within an MCU: zero bits are decoded instead of data.
StuffZeros ==
    /\ McuDue /\ ~dinfo.insufficient
    /\ dinfo.unread # NoMarker \/ At(next).k # "data"
    /\ warning' = TRUE
    /\ LET d == Store([dinfo EXCEPT !.insufficient = TRUE,
                                    !.unread = IF @ = NoMarker THEN At(next) ELSE @],
                      [c \in dinfo.scan |-> Bogus])
       IN  Counted(d, IF dinfo.unread = NoMarker THEN After(next) ELSE next)

InStep(data) ==
    /\ data.comps = dinfo.scan
    /\ data.name = dinfo.tables
    /\ IF data.opens THEN dinfo.last = 0 ELSE dinfo.last > 0 /\ data.n = dinfo.last + 1

HasData == McuDue /\ ~dinfo.insufficient /\ dinfo.unread = NoMarker /\ At(next).k = "data"

DecodeMcu ==
    /\ HasData /\ InStep(At(next))
    /\ Counted([Store(dinfo, At(next).v) EXCEPT !.last = At(next).n], next + 1)
    /\ UNCHANGED warning

\* Out of step the bits of an MCU end anywhere, and not all of them are codes.
DecodeOutOfStep ==
    /\ HasData /\ ~InStep(At(next))
    /\ \E i \in next..NextMarker(next) :
           Counted([Store(dinfo, [c \in dinfo.scan |-> Bogus]) EXCEPT !.last = -1], i)
    /\ warning' \in {warning, TRUE}

(***************************************************************************)
(* The end of a call.                                                      *)
(***************************************************************************)

\* (Fault: JFIF is written whatever the colours are.)
WritesJFIFAlways(d) == TRUE

\* jpeg_set_colorspace() chooses JFIF or Adobe; JFIF is not written in front of
\* an Exif marker, if that is the first one.
WritesJFIF(d) ==
    d.colours \in {"GRAY", "YCC"} /\ (d.saved = <<>> \/ d.saved[1].name # "Exif")
WritesAdobe(d) == d.colours \in {"RGB", "CMYK", "YCCK"}

Own(d) ==
    (IF WritesJFIF(d) THEN <<Named("APP", "JFIF")>> ELSE <<>>)
    \o (IF WritesAdobe(d) THEN <<Adobe(IF d.colours = "YCCK" THEN 2 ELSE 0)>> ELSE <<>>)

\* The names of the markers of the file that those of the writer replace.
Replaced(d) ==
    (IF WritesJFIF(d) THEN {"JFIF"} ELSE {}) \cup (IF WritesAdobe(d) THEN {"Adobe"} ELSE {})

\* The markers to be copied among the first n tokens.
Copyable(t, replaced) == t.k = "APP" /\ t.name \notin replaced
Copied(tokens, n, replaced) ==
    LET upTo[i \in 0..n] ==
            IF i = 0 THEN <<>>
            ELSE IF Copyable(tokens[i], replaced)
                 THEN Append(upTo[i - 1], tokens[i]) ELSE upTo[i - 1]
    IN  upTo[n]

\* The writer: SOI and its own marker from jpeg_write_coefficients(), the saved
\* markers from jcopy_markers_execute(), then the frame, one scan of all components
\* with the standard tables and EOI.
NewMarkers(d) == Own(d) \o Copied(d.saved, Len(d.saved), Replaced(d))
Compose(d) ==
    LET comps == d.frame.comps
        Mcu(i) == Data(i, [c \in comps |-> d.coefs[c][i]], "standard", i = 1)
    IN  <<Marker("SOI")>> \o NewMarkers(d)
        \o <<Named("DQT", d.quant), d.frame,
             Named("DHT", "standard"), SOS(comps)>>
        \o [i \in 1..d.frame.n |-> Mcu(i)]
        \o <<EOI>>

\* transpose_critical_parameters() of an operation that turns the image sideways,
\* which moves the blocks as well.
TurnedSideways(d) ==
    [d EXCEPT !.frame = IF @.sampling = "4:1:1" THEN Frame(@.comps, @.n, "unnamed") ELSE @]

\* jpeg_copy_critical_parameters(): the tables that were used have to be those
\* in the slots.
Mismatched == \E c \in DOMAIN dinfo.latched : dinfo.latched[c] \notin {None, dinfo.quant}

Finishing == pc = "finish" /\ UNCHANGED <<next, warning>>

Mismatch == Finishing /\ call = "transform" /\ Mismatched /\ Fail(dinfo)

\* Both calls end with jpeg_abort(), and a warning makes them return -1, as does,
\* in tjDecompressHeader3(), a sampling or, of two or more than four components,
\* colours without a name.
EndCall ==
    /\ Finishing
    /\ ~(call = "transform" /\ Mismatched)
    /\ dinfo' = Abort(dinfo)
    /\ pc' = "idle"
    /\ result' = IF call = "header" /\ Unnamed(dinfo.frame) THEN "refused"
                 ELSE IF warning THEN "warned" ELSE "ok"
    /\ written' \in IF call = "transform" /\ ~warning
                    THEN {Compose(dinfo), Compose(TurnedSideways(dinfo))} ELSE {written}
    /\ UNCHANGED <<source, call, calls, inherited>>

Init ==
    /\ dinfo = Created
    /\ source = Sound(None) /\ next = 1 /\ warning = FALSE
    /\ call = "header" /\ pc = "idle" /\ result = None
    /\ written = <<>> /\ calls = 0 /\ inherited = FALSE

ReadMarkers ==
    \/ ReadAfterEOI \/ FirstMarker \/ NextMarkerOfHeaders
    \/ GetSOI \/ GetSOF \/ GetTables \/ SaveMarker \/ SkipMarker \/ UnknownMarker
    \/ GetSOS \/ GetEOI

ConsumeData ==
    \/ ReadRestartMarker \/ Discard \/ Skip \/ Leave
    \/ LeaveMcu \/ StuffZeros \/ DecodeMcu \/ DecodeOutOfStep

Work == ReadMarkers \/ ConsumeData \/ Mismatch \/ EndCall
Next == Begin \/ Work
Spec == Init /\ [][Next]_vars /\ WF_vars(Work)

(***************************************************************************)
(* Properties.                                                             *)
(***************************************************************************)

\* The state of libjpeg's object agrees with where the call is: only a failed
\* tjDecompressHeader3() leaves it busy; the next restart number is one of eight;
\* a pass over data has MCUs left and arrays to put them in.
TypeOK ==
    /\ dinfo.state \in {"START", "INHEADER", "READY", "RDCOEFS", "STOPPING"}
    /\ (pc = "idle") = (dinfo.state = "START" \/ (call = "header" /\ result = "refused"))
    /\ dinfo.expected \in 0..7
    /\ pc \in {"coefficients", "resync"} => dinfo.state = "RDCOEFS"
    /\ dinfo.consume = "data" /\ pc # "idle" =>
           dinfo.mcu < dinfo.frame.n /\ dinfo.scan \subseteq DOMAIN dinfo.coefs
    /\ pc # "idle" => next \in 1..(Size + 1)

Done == pc = "idle" /\ calls > 0
Served == pc = "finish" /\ call = "transform" /\ ~warning
IsSound == source.damage = None

Has(kind) == \E i \in 1..Size : At(i).k = kind

\* The file has (or has kept) no Huffman tables, and those that an earlier file
\* left or, if none did, the standard ones are not those of its data.
Borrows ==
    ~Has("DHT") /\ \E q \in 1..Len(Tokens) :
        Tokens[q].k = "data" /\ dinfo.tables \notin {None, Tokens[q].name}

\* The data token at place i is where its file has it: behind the tables, if the
\* file has any left, and the header of its scan, with the marker of its own segment
\* and the MCUs between in front of it.
Intact(i) ==
    /\ At(i).k = "data"
    /\ Has("DHT") => \E l \in 1..(i - 1) : At(l).k = "DHT"
    /\ \E l \in 1..(i - 1) : /\ At(l).k = "SOS" /\ At(l).comps = At(i).comps
                             /\ \A m \in (l + 1)..(i - 1) : At(m).k # "SOS"
    /\ \E j \in 1..(i - 1) :
         /\ At(j).k = "SOS" \/ (At(j).k = "RST" /\ At(j + 1).opens)
         /\ \A l \in (j + 1)..i :
               At(l).k = "data" /\ At(l).n = At(i).n - (i - l) /\ (At(l).opens = (l = j + 1))
         /\ At(j).k = "SOS" => At(j + 1).n = 1
         /\ At(j).k = "RST" =>
               \E q \in 1..(Len(Tokens) - 1) : Tokens[q] = At(j) /\ Tokens[q + 1] = At(j + 1)

\* The file has no scan of component c in front of its (first) EOI.
Misses(c) ==
    \A i \in 1..Size : At(i).k = "SOS" /\ c \in At(i).comps => \E j \in 1..i : At(j).k = "EOI"

Lands(t) == \A c \in t.comps : dinfo.coefs[c][t.n] = t.v[c]

\* The sampling has no name, or the Adobe marker is not one of these colours.
Nameless == \E i \in 1..Len(Tokens) : Tokens[i].k = "SOF" /\ Unnamed(Tokens[i])
OddColours ==
    \E i, j \in 1..Len(Tokens) :
        /\ Tokens[i].k = "SOF"
        /\ Tokens[j].k = "APP" /\ Tokens[j].name = "Adobe"
        /\ Puzzling(Tokens[i].comps, FALSE, Tokens[j])

\* A sound file is served, one that tjTransform() made as well, after any call
\* before: unless tjDecompressHeader3() failed on the file before and left the
\* object in the middle of its header; TurboJPEG has no name for the sampling, as
\* of 4:1:1 that tjTransform() turned sideways; its Adobe marker has a transform of
\* other colours; or the file needs the standard tables and the object has others
\* from the file before.
SoundFilesAreServed ==
    Done /\ IsSound =>
        \/ result = "ok"
        \/ inherited \/ Nameless \/ OddColours
        \/ call = "transform" /\ Borrows

\* A file that is served without a warning is served with its own coefficients:
\* all of them when it is sound; when it is damaged, no MCU is in another's place,
\* and while the data that is left is intact, only scans that are missing
\* altogether leave their components blank.
SilenceIsJustified ==
    Served /\ ~Borrows =>
        \A q \in 1..Len(Tokens) : Tokens[q].k = "data" =>
            \A c \in Tokens[q].comps :
                LET value == dinfo.coefs[c][Tokens[q].n]
                IN  \/ value = Tokens[q].v[c]
                    \/ value = Blank /\ Misses(c)
                    \/ value = Bogus /\ \E i \in 1..Size : At(i).k = "data" /\ ~Intact(i)

\* jpeg_resync_to_restart(): restart markers "no more than two counts behind or
\* ahead" of the expected one.  With up to two segments lost, or repeated whole
\* with their markers, all segments that are intact are decoded where they belong.
IntactSegmentsLand ==
    LET stretch  == source.from..source.to
        restarts == {i \in stretch : Tokens[i].k = "RST"}
    IN  /\ pc = "finish" /\ call = "transform"
        /\ source.damage \in {"lost", "repeated"}
        /\ \A i \in stretch : Tokens[i].k \in {"RST", "data"}
        /\ Cardinality(restarts) <= 2
        /\ source.damage = "repeated" =>
               Tokens[source.from].k = "RST" /\ Tokens[source.to + 1].k # "data"
        => Borrows \/ \A i \in 1..Size : Intact(i) => Lands(At(i))

\* The place of the first EOI, which the source manager puts behind a file that
\* has none.
End == CHOOSE i \in 1..(Size + 1) :
    At(i).k = "EOI" /\ \A j \in 1..(i - 1) : At(j).k # "EOI"

\* What a transformation makes of a file without a warning has all the markers
\* that the file has in front of its end and those of no other file, in their
\* order; where the writer puts a JFIF or Adobe marker of its own, that one stands
\* for all those of the file, once.
KeepsTheMarkers ==
    Served =>
        LET made == Compose(dinfo)
            file == [i \in 1..Size |-> At(i)]
            replaced == Replaced(dinfo)
            IsOwn(i) == made[i].k = "APP" /\ made[i].name \in replaced
        IN  /\ Copied(made, Len(made), replaced) = Copied(file, End - 1, replaced)
            /\ \A i, j \in 1..Len(made) : IsOwn(i) /\ IsOwn(j) => i = j

\* The colours that a reader guesses from the header of a file.
ColoursOf(f) ==
    LET sos == CHOOSE i \in DOMAIN f : f[i].k = "SOS" /\ \A j \in 1..(i - 1) : f[j].k # "SOS"
        frame == CHOOSE i \in 1..sos : f[i].k = "SOF"
        Places(name) == {i \in 1..sos : f[i].k = "APP" /\ f[i].name = name}
        last == IF Places("Adobe") = {} THEN NoMarker
                ELSE f[CHOOSE i \in Places("Adobe") : \A j \in Places("Adobe") : j <= i]
    IN  Colours(f[frame].comps, Places("JFIF") # {}, last)

\* Whoever reads what was written takes it for the same colours as the file was
\* taken for, although they are guessed from markers of which some are copied, some
\* replaced and some suppressed: unless the file has a JFIF or Adobe marker behind
\* its header, which is copied in front of it.
KeepsTheColours ==
    Served =>
        \/ ColoursOf(Compose(dinfo)) = dinfo.colours
        \/ \E i, j \in 1..Size : /\ At(i).k = "SOS" /\ i < j
                                 /\ At(j).k = "APP" /\ At(j).name \in {"JFIF", "Adobe"}

\* Each call ends, whatever the file: the search for a restart marker too,
\* since EOI comes again and again.
EveryCallEnds == pc # "idle" ~> pc = "idle"
=============================================================================
