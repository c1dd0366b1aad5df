--------------------------- MODULE TurboJpegCalls ---------------------------
(***************************************************************************)
(* The fast backend's use of libjpeg-turbo by requests on several threads: *)
(* initialization of the binding classes, each of which loads the native   *)
(* library (LibraryLoader), handles that Java objects own and their        *)
(* finalizers free, arrays pinned during native calls, and the one buffer  *)
(* for error messages that all threads share (errStr).                     *)
(*                                                                         *)
(* A request creates a JpegImage, which has a TJDecompressor, transforms   *)
(* it with a TJTransformer and reads the header of the result.             *)
(***************************************************************************)
EXTENDS Naturals, Sequences, FiniteSets

CONSTANT Threads

\* A thread is none of the states that a class or the message buffer is marked with.
ASSUME ThreadsAssumption == Threads \cap {"none", "ready", "failed"} = {}

VARIABLES
    pc,         \* [Threads -> label]
    file,       \* [Threads -> what the request's file is like]
    classes,    \* [Classes -> "none", "ready", "failed" or the thread at it]
    initializing, \* [Threads -> the classes it is initializing, innermost first]
    handle,     \* [Objects -> the kind of handle in its field, or "0"]
    native,     \* the native handles allocated, <<object, kind>>
    garbage,    \* objects that no thread reaches any more
    pinned,     \* [Threads -> the arrays it has pinned]
    errStr,     \* the message buffer: the threads that wrote its two halves
    written,    \* [Threads -> who wrote to errStr since its native call began]
    blamed,     \* [Threads -> the writers of the message it threw]
    outcome     \* [Threads -> how its request ended]

vars == <<pc, file, classes, initializing, handle, native, garbage, pinned,
          errStr, written, blamed, outcome>>

classVars  == <<classes, initializing>>
objectVars == <<handle, native, garbage>>
errorVars  == <<errStr, written, blamed>>

Files   == {"sound", "badHeader", "badData"}
Classes == {"TJDecompressor", "TJTransformer", "TJ"}
Roles   == {"decompressor", "transformer", "result"}
Objects == Threads \X Roles

\* What the initialization of a class initializes first: its superclass.
Supers(c) == IF c = "TJTransformer" THEN {"TJDecompressor"} ELSE {}

\* A request step by step: what each label needs or does, and the next label.
\* "class": a class has to be ready.  "create": a handle for the object.
\* "call": a native call that reads the file.
Step(kind, role, next) == [kind |-> kind, role |-> role, next |-> next]
Program ==
    [ load      |-> Step("class",  "TJDecompressor", "open"),
      open      |-> Step("create", "decompressor",   "header"),
      header    |-> Step("call",   "decompressor",   "transform"),
      transform |-> Step("class",  "TJTransformer",  "super"),
      super     |-> Step("create", "transformer",    "init"),
      init      |-> Step("create", "transformer",    "again"),
      again     |-> Step("call",   "transformer",    "bufSize"),
      bufSize   |-> Step("class",  "TJ",             "execute"),
      execute   |-> Step("call",   "transformer",    "reopen"),
      reopen    |-> Step("create", "result",         "rehead"),
      rehead    |-> Step("call",   "result",         "served") ]

Labels == DOMAIN Program
AtKind(t, kind) == pc[t] \in Labels /\ Program[pc[t]].kind = kind
Proceed(t)   == pc' = [pc EXCEPT ![t] = Program[pc[t]].next]
Object(t)    == <<t, Program[pc[t]].role>>

Init ==
    /\ pc = [t \in Threads |-> "load"]
    /\ file \in [Threads -> Files]
    /\ classes = [c \in Classes |-> "none"]
    /\ initializing = [t \in Threads |-> <<>>]
    /\ handle = [o \in Objects |-> "0"]
    /\ native = {} /\ garbage = {}
    /\ pinned = [t \in Threads |-> {}]
    /\ errStr = <<"none", "none">>
    /\ written = [t \in Threads |-> {}]
    /\ blamed = [t \in Threads |-> {}]
    /\ outcome = [t \in Threads |-> "none"]

\* The request ends, and whatever it created becomes garbage.
End(t, result) ==
    /\ pc' = [pc EXCEPT ![t] = "over"]
    /\ outcome' = [outcome EXCEPT ![t] = result]
    /\ garbage' = garbage \cup ({t} \X Roles)

\* An Error while the repository loads the image makes the service try the next
\* one; afterwards it is the answer.
Loading(t) == pc[t] \in {"load", "open", "header"}
ThrowError(t)     == End(t, IF Loading(t) THEN "nextRepository" ELSE "Error")

-----------------------------------------------------------------------------
(* Class initialization (JLS 12.4.2).                                      *)

\* The class the thread has to have next: an outer one's superclass, or the
\* one its program names.
Needed(t) ==
    IF initializing[t] = <<>>
    THEN IF AtKind(t, "class") THEN {Program[pc[t]].role} ELSE {}
    ELSE {c \in Supers(Head(initializing[t])) :
             classes[c] # "ready" /\ classes[c] # t}

BeginInitialization(t) ==
    \E c \in Needed(t) :
        /\ classes[c] = "none"
        /\ classes' = [classes EXCEPT ![c] = t]
        /\ initializing' = [initializing EXCEPT ![t] = <<c>> \o @]
        /\ UNCHANGED <<pc, file, objectVars, pinned, errorVars, outcome>>

(* (Fault: the copy loop runs while in.available() >= 0.) *)
RunInitializerUnending(t) ==
    /\ initializing[t] # <<>> /\ Needed(t) = {}
    /\ UNCHANGED vars

\* The static initializer: loadLibrary() finds the library, or does not.
RunInitializer(t) ==
    /\ initializing[t] # <<>> /\ Needed(t) = {}
    /\ \E result \in {"ready", "failed"} :
          classes' = [classes EXCEPT ![Head(initializing[t])] = result]
    /\ initializing' = [initializing EXCEPT ![t] = Tail(@)]
    /\ UNCHANGED <<pc, file, objectVars, pinned, errorVars, outcome>>

ClassReady(t) ==
    /\ initializing[t] = <<>> /\ AtKind(t, "class")
    /\ classes[Program[pc[t]].role] = "ready"
    /\ Proceed(t)
    /\ UNCHANGED <<file, classVars, objectVars, pinned, errorVars, outcome>>

\* ExceptionInInitializerError the first time, NoClassDefFoundError ever after;
\* the classes that wait for this one fail with it.
ClassFailed(t) ==
    /\ \E c \in Needed(t) : classes[c] = "failed"
    /\ classes' = [c \in Classes |-> IF classes[c] = t THEN "failed" ELSE classes[c]]
    /\ initializing' = [initializing EXCEPT ![t] = <<>>]
    /\ ThrowError(t)
    /\ UNCHANGED <<file, handle, native, pinned, errorVars>>

-----------------------------------------------------------------------------
(* Native handles.                                                         *)

HandleKind(t) == IF pc[t] = "init" THEN "transform" ELSE "decompress"

\* init(): the field is set to the new handle, whatever it held before.
Create(t) ==
    /\ AtKind(t, "create") /\ Proceed(t)
    /\ native' = native \cup {<<Object(t), HandleKind(t)>>}
    /\ handle' = [handle EXCEPT ![Object(t)] = HandleKind(t)]
    /\ UNCHANGED <<file, classVars, garbage, pinned, errorVars, outcome>>

\* my_error_exit() and _throw() write the message, here in two halves.
WriteHalf(t, i) ==
    /\ errStr' = [errStr EXCEPT ![i] = t]
    /\ written' = [u \in Threads |-> written[u] \cup {t}]

\* No memory.  Behind the creation of libjpeg's memory manager the clean-up frees
\* the struct of the handle only: the manager and its pools are lost.
CreateFails(t) ==
    /\ AtKind(t, "create")
    /\ WriteHalf(t, 1)
    /\ UNCHANGED native \/ native' = native \cup {<<Object(t), "pools">>}
    /\ pc' = [pc EXCEPT ![t] = IF Loading(t) THEN "failLoading" ELSE "fail"]
    /\ UNCHANGED <<file, classVars, handle, garbage, pinned, blamed, outcome>>

(* (Fault: the field is cleared, nothing is destroyed.) *)
FinalizeFieldOnly(o) ==
    /\ o \in garbage /\ handle[o] # "0"
    /\ handle' = [handle EXCEPT ![o] = "0"]
    /\ UNCHANGED <<pc, file, classVars, native, garbage, pinned, errorVars, outcome>>

\* close() in the finalizer destroys the handle in the field, and no other.
Finalize(o) ==
    /\ o \in garbage /\ handle[o] # "0"
    /\ native' = native \ {<<o, handle[o]>>}
    /\ handle' = [handle EXCEPT ![o] = "0"]
    /\ UNCHANGED <<pc, file, classVars, garbage, pinned, errorVars, outcome>>

-----------------------------------------------------------------------------
(* Native calls.                                                           *)

ArraysOf(t) == IF pc[t] = "execute" THEN {"source", "destination"} ELSE {"source"}

BeginCall(t) ==
    /\ AtKind(t, "call") /\ pinned[t] = {}
    /\ pinned' = [pinned EXCEPT ![t] = ArraysOf(t)]
    /\ written' = [written EXCEPT ![t] = {}]
    /\ UNCHANGED <<pc, file, classVars, objectVars, errStr, blamed, outcome>>

(* (Fault: what libjpeg warns of in the data is let pass.) *)
RefusesHeaders(t) == file[t] = "badHeader" /\ pc[t] = "header"

\* The header is read three times, the result's data is sound.
Refuses(t) ==
    \/ file[t] = "badHeader" /\ pc[t] = "header"
    \/ file[t] = "badData"   /\ pc[t] = "execute"

CallSucceeds(t) ==
    /\ AtKind(t, "call") /\ pinned[t] # {} /\ ~Refuses(t)
    /\ pinned' = [pinned EXCEPT ![t] = {}]
    /\ IF Program[pc[t]].next = "served"
       THEN End(t, "served") ELSE Proceed(t) /\ UNCHANGED <<garbage, outcome>>
    /\ UNCHANGED <<file, classVars, handle, native, errorVars>>

(* (Fault: a warning sets the result, not the message.) *)
CallFailsSilently(t) ==
    /\ AtKind(t, "call") /\ pinned[t] # {}
    /\ pc' = [pc EXCEPT ![t] = IF Loading(t) THEN "throwLoading" ELSE "throw"]
    /\ UNCHANGED <<file, classVars, objectVars, pinned, errorVars, outcome>>

\* An error or a warning of libjpeg; any call may also run out of memory.
CallFails(t) ==
    /\ AtKind(t, "call") /\ pinned[t] # {}
    /\ WriteHalf(t, 1)
    /\ pc' = [pc EXCEPT ![t] = IF Loading(t) THEN "failLoading" ELSE "fail"]
    /\ UNCHANGED <<file, classVars, objectVars, pinned, blamed, outcome>>

WriteRest(t) ==
    /\ pc[t] \in {"fail", "failLoading"}
    /\ WriteHalf(t, 2)
    /\ pc' = [pc EXCEPT ![t] = IF pc[t] = "fail" THEN "throw" ELSE "throwLoading"]
    /\ UNCHANGED <<file, classVars, objectVars, pinned, blamed, outcome>>

(* (Fault: the bailout label releases the destination only.) *)
ThrowHalfReleased(t) ==
    /\ pc[t] \in {"throw", "throwLoading"}
    /\ blamed' = [blamed EXCEPT ![t] = {errStr[1], errStr[2]}]
    /\ pinned' = [pinned EXCEPT ![t] = @ \ {"destination"}]
    /\ End(t, IF pc[t] = "throw" THEN "TJException" ELSE "notFound")
    /\ UNCHANGED <<file, classVars, handle, native, errStr, written>>

\* _throwtj() reads the buffer, bailout releases what is still pinned.  Thrown while
\* loading, a TJException is the IOException for which getImage() returns no image.
Throw(t) ==
    /\ pc[t] \in {"throw", "throwLoading"}
    /\ blamed' = [blamed EXCEPT ![t] = {errStr[1], errStr[2]}]
    /\ pinned' = [pinned EXCEPT ![t] = {}]
    /\ End(t, IF pc[t] = "throw" THEN "TJException" ELSE "notFound")
    /\ UNCHANGED <<file, classVars, handle, native, errStr, written>>

-----------------------------------------------------------------------------
Work(t) ==
    \/ BeginInitialization(t) \/ RunInitializer(t) \/ ClassReady(t) \/ ClassFailed(t)
    \/ Create(t) \/ CreateFails(t)
    \/ BeginCall(t) \/ CallSucceeds(t) \/ CallFails(t) \/ WriteRest(t) \/ Throw(t)

Next ==
    \/ \E t \in Threads : Work(t)
    \/ \E o \in Objects : Finalize(o)
    \/ UNCHANGED vars                 \* the server waits for requests

\* Threads run; when finalizers run is up to the virtual machine.
Spec == Init /\ [][Next]_vars /\ \A t \in Threads : WF_vars(Work(t))

-----------------------------------------------------------------------------
\* Type correctness; a class that a thread is initializing is marked with it.
TypeOK ==
    /\ pc \in [Threads -> Labels \cup {"fail", "failLoading", "throw",
                                      "throwLoading", "over"}]
    /\ file \in [Threads -> Files]
    /\ classes \in [Classes -> {"none", "ready", "failed"} \cup Threads]
    /\ \A t \in Threads : \A i \in DOMAIN initializing[t] :
            classes[initializing[t][i]] = t
    /\ handle \in [Objects -> {"0", "decompress", "transform"}]
    /\ native \subseteq Objects \X {"decompress", "transform", "pools"}
    /\ garbage \subseteq Objects
    /\ pinned \in [Threads -> SUBSET {"source", "destination"}]
    /\ outcome \in [Threads -> {"none", "served", "nextRepository",
                                "notFound", "TJException", "Error"}]

\* The collector is held up only while a native call is under way: no way out
\* of one, through errors and exceptions included, leaves an array pinned.
NothingPinnedInJava ==
    \A t \in Threads : pinned[t] # {} =>
        AtKind(t, "call") \/ pc[t] \in {"fail", "failLoading", "throw", "throwLoading"}

\* What is left allocated of an object that was finalized is one thing at most: the
\* handle that the constructor of TJTransformer overwrote, or the memory manager of
\* a handle that could not be created, for which the request has failed.
OnlyOverwrittenHandlesLeak ==
    \A o \in garbage : handle[o] = "0" =>
        LET left == {kind \in {"decompress", "transform", "pools"} : <<o, kind>> \in native}
        IN  \/ left = {}
            \/ left = {"decompress"} /\ o[2] = "transformer"
            \/ left = {"pools"} /\ outcome[o[1]] \in {"notFound", "TJException"}

\* A message may be that of another thread, or half of each, but it is never
\* older than the native call it is reported for.
MessageIsNotOlderThanTheCall ==
    \A t \in Threads : blamed[t] \subseteq written[t]

\* A picture is served only when every class was loaded and libjpeg had nothing to
\* object to.  The next repository is asked only because of a class that failed,
\* and an Error has one too; what libjpeg objects to ends the search.
AnswersHaveACause ==
    \A t \in Threads :
        /\ outcome[t] = "served" =>
               file[t] = "sound" /\ \A c \in Classes : classes[c] = "ready"
        /\ outcome[t] \in {"nextRepository", "Error"} =>
               \E c \in Classes : classes[c] = "failed"
        /\ outcome[t] \in {"notFound", "TJException"} => blamed[t] # {}

\* Threads that initialize the classes of the bindings at the same time do not
\* wait for each other for ever, and every request ends.
EveryRequestEnds == \A t \in Threads : <>(outcome[t] # "none")

\* TJDecompressor.java on close(): "Free the native structures associated with
\* this decompressor instance."
CloseFreesTheHandles ==
    \A o \in garbage : handle[o] = "0" =>
        <<o, "decompress">> \notin native /\ <<o, "transform">> \notin native
=============================================================================
