------------------------ MODULE TurboJpegCallsProofs ------------------------
(***************************************************************************)
(* What holds of TurboJpegCalls for any number of threads.                 *)
(***************************************************************************)
EXTENDS TurboJpegCalls, TLAPS

ClassLabels  == {"load", "transform", "bufSize"}
CreateLabels == {"open", "super", "init", "reopen"}
CallLabels   == {"header", "again", "execute", "rehead"}
FailLabels   == {"fail", "failLoading", "throw", "throwLoading"}

LEMMA LabelSet ==
    Labels = {"load", "open", "header", "transform", "super", "init", "again",
              "bufSize", "execute", "reopen", "rehead"}
BY DEF Labels, Program

\* The kinds of labels, and what follows them.
LEMMA KindOfLabel ==
    ASSUME NEW t \in Threads
    PROVE  /\ AtKind(t, "class")  <=> pc[t] \in ClassLabels
           /\ AtKind(t, "create") <=> pc[t] \in CreateLabels
           /\ AtKind(t, "call")   <=> pc[t] \in CallLabels
<1>1. ASSUME NEW l \in Labels
      PROVE  /\ Program[l].kind = "class"  <=> l \in ClassLabels
             /\ Program[l].kind = "create" <=> l \in CreateLabels
             /\ Program[l].kind = "call"   <=> l \in CallLabels
  BY LabelSet DEF Program, Step, ClassLabels, CreateLabels, CallLabels
<1>2. ClassLabels \cup CreateLabels \cup CallLabels = Labels
  BY LabelSet DEF ClassLabels, CreateLabels, CallLabels
<1>3. QED
  BY <1>1, <1>2 DEF AtKind

LEMMA LabelOrder ==
    /\ Program["load"].next = "open" /\ Program["open"].next = "header"
    /\ Program["header"].next = "transform" /\ Program["transform"].next = "super"
    /\ Program["super"].next = "init" /\ Program["init"].next = "again"
    /\ Program["again"].next = "bufSize" /\ Program["bufSize"].next = "execute"
    /\ Program["execute"].next = "reopen" /\ Program["reopen"].next = "rehead"
    /\ Program["rehead"].next = "served"
BY DEF Program, Step

LEMMA LabelRoles ==
    /\ Program["load"].role = "TJDecompressor" /\ Program["transform"].role = "TJTransformer"
    /\ Program["bufSize"].role = "TJ"
    /\ Program["open"].role = "decompressor" /\ Program["super"].role = "transformer"
    /\ Program["init"].role = "transformer" /\ Program["reopen"].role = "result"
BY DEF Program, Step

\* Where Proceed() leads.
LEMMA Proceeding ==
    ASSUME NEW l \in Labels, l # "rehead"
    PROVE  Program[l].next \in Labels
BY LabelOrder, LabelSet

-----------------------------------------------------------------------------
(* Types.  A thread initializes a class at most once at a time, and only while *)
(* its program asks for a class: so no other thread changes what it marked.    *)

Writers == Threads \cup {"none"}

TypeInv ==
    /\ TypeOK
    /\ initializing \in [Threads -> Seq(Classes)]
    /\ \A t \in Threads : \A i, j \in DOMAIN initializing[t] :
           initializing[t][i] = initializing[t][j] => i = j
    /\ \A t \in Threads : initializing[t] # <<>> => pc[t] \in ClassLabels
    /\ errStr \in Writers \X Writers
    /\ written \in [Threads -> SUBSET Threads]
    /\ blamed \in [Threads -> SUBSET Writers]

Places == Labels \cup FailLabels \cup {"over"}

\* The end of a request, whichever way, is well typed.
LEMMA EndType ==
    ASSUME TypeInv, NEW t \in Threads, NEW r, End(t, r),
           r \in {"served", "nextRepository", "notFound", "TJException", "Error"}
    PROVE  /\ pc' \in [Threads -> Places] /\ garbage' \subseteq Objects
           /\ outcome' \in [Threads -> {"none", "served", "nextRepository",
                                        "notFound", "TJException", "Error"}]
           /\ \A u \in Threads : u # t => pc'[u] = pc[u]
BY DEF TypeInv, TypeOK, End, Places, FailLabels, Objects

\* What initialization does to the stacks of the threads.
LEMMA StacksKept ==
    ASSUME TypeInv, NEW t \in Threads,
           BeginInitialization(t) \/ RunInitializer(t) \/ ClassFailed(t)
    PROVE  /\ classes' \in [Classes -> {"none", "ready", "failed"} \cup Threads]
           /\ initializing' \in [Threads -> Seq(Classes)]
           /\ \A u \in Threads : \A i, j \in DOMAIN initializing'[u] :
                  initializing'[u][i] = initializing'[u][j] => i = j
           /\ \A u \in Threads : \A i \in DOMAIN initializing'[u] :
                  classes'[initializing'[u][i]] = u
           /\ \A u \in Threads : initializing'[u] # <<>> =>
                  u # t \/ pc[t] \in ClassLabels
           /\ \A u \in Threads : u # t => initializing'[u] = initializing[u]
<1>0. /\ classes \in [Classes -> {"none", "ready", "failed"} \cup Threads]
      /\ initializing \in [Threads -> Seq(Classes)]
      /\ \A u \in Threads : \A i, j \in DOMAIN initializing[u] :
             initializing[u][i] = initializing[u][j] => i = j
      /\ \A u \in Threads : \A i \in DOMAIN initializing[u] :
             classes[initializing[u][i]] = u
      /\ \A u \in Threads : initializing[u] # <<>> => pc[u] \in ClassLabels
      /\ \A u \in Threads : u \notin {"none", "ready", "failed"}
  BY ThreadsAssumption DEF TypeInv, TypeOK
<1>1. CASE BeginInitialization(t)
  <2>1. PICK c \in Needed(t) : /\ classes[c] = "none"
                              /\ classes' = [classes EXCEPT ![c] = t]
                              /\ initializing' = [initializing EXCEPT ![t] = <<c>> \o @]
    BY <1>1 DEF BeginInitialization
  <2>2. c \in Classes /\ pc[t] \in ClassLabels
    BY <1>0, LabelSet, LabelRoles, KindOfLabel DEF Needed, Supers, Classes, ClassLabels
  <2>3. \A i \in DOMAIN initializing[t] : initializing[t][i] # c
    BY <1>0, <2>1
  <2>4. /\ initializing'[t] = <<c>> \o initializing[t]
        /\ initializing'[t] \in Seq(Classes)
        /\ \A i \in DOMAIN initializing'[t] :
               \/ i = 1 /\ initializing'[t][i] = c
               \/ /\ i - 1 \in DOMAIN initializing[t]
                  /\ initializing'[t][i] = initializing[t][i - 1]
    BY <1>0, <2>1, <2>2
  <2>5. QED
    BY <1>0, <2>1, <2>2, <2>3, <2>4
<1>2. CASE RunInitializer(t)
  <2> DEFINE c == Head(initializing[t])
  <2>1. /\ initializing[t] # <<>>
        /\ initializing' = [initializing EXCEPT ![t] = Tail(@)]
        /\ \E result \in {"ready", "failed"} : classes' = [classes EXCEPT ![c] = result]
    BY <1>2 DEF RunInitializer
  <2>2. /\ c \in Classes /\ classes[c] = t /\ c = initializing[t][1]
        /\ 1 \in DOMAIN initializing[t]
    BY <1>0, <2>1
  <2>3. /\ initializing'[t] = Tail(initializing[t])
        /\ initializing'[t] \in Seq(Classes)
        /\ \A i \in DOMAIN initializing'[t] :
               /\ i + 1 \in DOMAIN initializing[t] /\ i \in Nat /\ i + 1 # 1
               /\ initializing'[t][i] = initializing[t][i + 1]
    BY <1>0, <2>1
  <2>4. QED
    BY <1>0, <2>1, <2>2, <2>3
<1>3. CASE ClassFailed(t)
  <2>1. /\ classes' = [c \in Classes |-> IF classes[c] = t THEN "failed" ELSE classes[c]]
        /\ initializing' = [initializing EXCEPT ![t] = <<>>]
    BY <1>3 DEF ClassFailed
  <2>2. /\ initializing'[t] = <<>> /\ DOMAIN initializing'[t] = {}
        /\ \A u \in Threads : u # t => initializing'[u] = initializing[u]
    BY <1>0, <2>1
  <2>3. QED
    BY <1>0, <2>1, <2>2
<1>4. QED
  BY <1>1, <1>2, <1>3

\* One step of a thread keeps the types.
LEMMA WorkType ==
    ASSUME TypeInv, NEW t \in Threads, Work(t)
    PROVE  TypeInv'
<1> USE DEF TypeInv, TypeOK, objectVars, classVars, errorVars
<1>0. /\ pc[t] \in Places
      /\ ClassLabels \cap CreateLabels = {} /\ ClassLabels \cap CallLabels = {}
      /\ ClassLabels \cap FailLabels = {} /\ ClassLabels \subseteq Labels
      /\ CreateLabels \subseteq Labels /\ CallLabels \subseteq Labels
  BY LabelSet DEF Places, ClassLabels, CreateLabels, CallLabels, FailLabels
<1>1. ASSUME pc[t] \in Labels \ {"rehead"}
      PROVE  Program[pc[t]].next \in Labels
  BY <1>1, Proceeding
<1>2. CASE BeginInitialization(t) \/ RunInitializer(t)
  <2>1. UNCHANGED <<pc, file, objectVars, pinned, errorVars, outcome>>
    BY <1>2 DEF BeginInitialization, RunInitializer
  <2>2. /\ pc' = pc
        /\ \A u \in Threads : initializing'[u] # <<>> =>
               (pc[t] \in ClassLabels /\ u = t) \/ initializing[u] # <<>>
    BY <1>2, <2>1, StacksKept
  <2>3. QED
    BY <1>2, <2>1, <2>2, StacksKept
<1>3. CASE ClassReady(t)
  <2>1. pc[t] \in ClassLabels /\ pc[t] # "rehead"
    BY <1>3, KindOfLabel DEF ClassReady, ClassLabels
  <2>2. QED
    BY <1>0, <1>1, <1>3, <2>1 DEF ClassReady, Proceed, Places
<1>4. CASE ClassFailed(t)
  <2>1. \E r \in {"nextRepository", "Error"} : End(t, r)
    BY <1>4 DEF ClassFailed, ThrowError
  <2>2. UNCHANGED <<file, handle, native, pinned, errorVars>> /\ initializing'[t] = <<>>
    BY <1>4 DEF ClassFailed
  <2>3. /\ pc' \in [Threads -> Places] /\ garbage' \subseteq Objects
        /\ outcome' \in [Threads -> {"none", "served", "nextRepository",
                                     "notFound", "TJException", "Error"}]
        /\ \A u \in Threads : u # t => pc'[u] = pc[u]
    BY <2>1, EndType
  <2>4. \A u \in Threads : initializing'[u] # <<>> => pc'[u] \in ClassLabels
    BY <1>4, <2>2, <2>3, StacksKept
  <2>5. QED
    BY <1>4, <2>2, <2>3, <2>4, StacksKept DEF Places, FailLabels
<1>5. CASE Create(t)
  <2>1. pc[t] \in CreateLabels /\ pc[t] # "rehead"
    BY <1>5, KindOfLabel DEF Create, CreateLabels
  <2>2. Object(t) \in Objects
    BY <2>1, LabelRoles DEF Object, Objects, Roles, CreateLabels
  <2>3. HandleKind(t) \in {"decompress", "transform"}
    BY DEF HandleKind
  <2>4. QED
    BY <1>0, <1>1, <1>5, <2>1, <2>2, <2>3 DEF Create, Proceed, Places
<1>6. CASE CreateFails(t)
  <2>1. pc[t] \in CreateLabels
    BY <1>6, KindOfLabel DEF CreateFails
  <2>2. Object(t) \in Objects
    BY <2>1, LabelRoles DEF Object, Objects, Roles, CreateLabels
  <2>3. native' \subseteq Objects \X {"decompress", "transform", "pools"}
    BY <1>6, <2>2 DEF CreateFails
  <2>4. QED
    BY <1>0, <1>6, <2>1, <2>3 DEF CreateFails, WriteHalf, Places, FailLabels, Writers
<1>7. CASE BeginCall(t)
  BY <1>7 DEF BeginCall, ArraysOf
<1>8. CASE CallSucceeds(t)
  <2>1. pc[t] \in CallLabels
    BY <1>8, KindOfLabel DEF CallSucceeds
  <2>2. UNCHANGED <<file, classVars, handle, native, errorVars>>
        /\ pinned' = [pinned EXCEPT ![t] = {}]
    BY <1>8 DEF CallSucceeds
  <2>3. /\ pc' \in [Threads -> Places] /\ garbage' \subseteq Objects
        /\ outcome' \in [Threads -> {"none", "served", "nextRepository",
                                     "notFound", "TJException", "Error"}]
        /\ \A u \in Threads : u # t => pc'[u] = pc[u]
    <3>1. CASE Program[pc[t]].next = "served"
      BY <1>8, <3>1, EndType DEF CallSucceeds
    <3>2. CASE Program[pc[t]].next # "served"
      BY <1>0, <1>1, <1>8, <2>1, <3>2, LabelOrder DEF CallSucceeds, Proceed, Places, FailLabels
    <3>3. QED
      BY <3>1, <3>2
  <2>4. \A u \in Threads : initializing'[u] # <<>> => pc'[u] \in ClassLabels
    BY <1>0, <2>1, <2>2, <2>3
  <2>5. QED
    BY <2>2, <2>3, <2>4 DEF Places, FailLabels
<1>9. CASE CallFails(t)
  <2>1. pc[t] \in CallLabels
    BY <1>9, KindOfLabel DEF CallFails
  <2>2. QED
    BY <1>0, <1>9, <2>1, SMTT(30) DEF CallFails, WriteHalf, Places, FailLabels, Writers
<1>10. CASE WriteRest(t)
  BY <1>0, <1>10 DEF WriteRest, WriteHalf, Places, FailLabels, Writers
<1>11. CASE Throw(t)
  <2>1. \E r \in {"TJException", "notFound"} : End(t, r)
    BY <1>11 DEF Throw
  <2>2. initializing[t] = <<>>
    BY <1>0, <1>11 DEF Throw, FailLabels
  <2>3. /\ pc' \in [Threads -> Places] /\ garbage' \subseteq Objects
        /\ outcome' \in [Threads -> {"none", "served", "nextRepository",
                                     "notFound", "TJException", "Error"}]
        /\ \A u \in Threads : u # t => pc'[u] = pc[u]
    BY <2>1, EndType
  <2>4. /\ UNCHANGED <<file, classVars, handle, native, errStr, written>>
        /\ pinned' = [pinned EXCEPT ![t] = {}]
        /\ blamed' \in [Threads -> SUBSET Writers]
    BY <1>11 DEF Throw, Writers
  <2>5. \A u \in Threads : initializing'[u] # <<>> => pc'[u] \in ClassLabels
    BY <2>2, <2>3, <2>4
  <2>6. QED
    BY <2>3, <2>4, <2>5 DEF Places, FailLabels
<1>12. QED
  BY <1>2, <1>3, <1>4, <1>5, <1>6, <1>7, <1>8, <1>9, <1>10, <1>11 DEF Work

\* Every step keeps the types.
LEMMA StepType == TypeInv /\ [Next]_vars => TypeInv'
<1> SUFFICES ASSUME TypeInv, [Next]_vars
             PROVE  TypeInv'
  OBVIOUS
<1>1. ASSUME NEW o \in Objects, Finalize(o)
      PROVE  TypeInv'
  BY <1>1 DEF Finalize, TypeInv, TypeOK, objectVars, classVars, errorVars
<1>2. CASE UNCHANGED vars
  BY <1>2 DEF vars, TypeInv, TypeOK
<1>3. QED
  BY <1>1, <1>2, WorkType DEF Next

\* The types hold in every reachable state, for any number of threads.
THEOREM TypesHold == Spec => []TypeInv
<1>1. Init => TypeInv
  BY LabelSet DEF Init, TypeInv, TypeOK, Objects, Writers
<1>2. QED
  BY <1>1, StepType, PTL DEF Spec

\* In particular what the run checks of them.
THEOREM TypeCorrect == Spec => []TypeOK
<1>1. TypeInv => TypeOK
  BY DEF TypeInv
<1>2. QED
  BY <1>1, TypesHold, PTL

-----------------------------------------------------------------------------
(* Pinned arrays.                                                          *)

\* An array is pinned at the label of a native call, or on the way from there to
\* bailout; nothing else has to be known to keep it so.
PinInv == \A t \in Threads : pinned[t] # {} => pc[t] \in CallLabels \cup FailLabels

LEMMA WorkPins ==
    ASSUME TypeInv, PinInv, NEW t \in Threads, Work(t)
    PROVE  PinInv'
<1>0. /\ pc \in [Threads -> Places] /\ pinned \in [Threads -> SUBSET {"source", "destination"}]
      /\ ClassLabels \cap (CallLabels \cup FailLabels) = {}
      /\ CreateLabels \cap (CallLabels \cup FailLabels) = {}
      /\ AtKind(t, "class")  <=> pc[t] \in ClassLabels
      /\ AtKind(t, "create") <=> pc[t] \in CreateLabels
      /\ AtKind(t, "call")   <=> pc[t] \in CallLabels
  BY KindOfLabel
     DEF TypeInv, TypeOK, Places, ClassLabels, CreateLabels, CallLabels, FailLabels
<1>1. CASE BeginInitialization(t) \/ RunInitializer(t)
  BY <1>1 DEF BeginInitialization, RunInitializer, PinInv
<1>2. CASE ClassReady(t)
  BY <1>0, <1>2 DEF ClassReady, Proceed, PinInv
<1>3. CASE ClassFailed(t)
  <2>1. pc[t] \in ClassLabels
    BY <1>0, <1>3 DEF ClassFailed, Needed, TypeInv
  <2>2. \E l : pc' = [pc EXCEPT ![t] = l]
    BY <1>3 DEF ClassFailed, ThrowError, End
  <2>3. QED
    BY <1>0, <1>3, <2>1, <2>2 DEF ClassFailed, PinInv
<1>4. CASE Create(t)
  BY <1>0, <1>4 DEF Create, Proceed, PinInv
<1>5. CASE CreateFails(t)
  BY <1>0, <1>5 DEF CreateFails, PinInv, FailLabels
<1>6. CASE BeginCall(t)
  BY <1>0, <1>6 DEF BeginCall, PinInv
<1>7. CASE CallSucceeds(t)
  BY <1>0, <1>7 DEF CallSucceeds, End, Proceed, PinInv
<1>8. CASE CallFails(t)
  BY <1>0, <1>8 DEF CallFails, PinInv, FailLabels
<1>9. CASE WriteRest(t)
  BY <1>0, <1>9 DEF WriteRest, PinInv, FailLabels
<1>10. CASE Throw(t)
  BY <1>0, <1>10 DEF Throw, End, PinInv
<1>11. QED
  BY <1>1, <1>2, <1>3, <1>4, <1>5, <1>6, <1>7, <1>8, <1>9, <1>10 DEF Work

\* Whatever becomes of a native call, Java code runs with no array pinned.
THEOREM NothingStaysPinned == Spec => []NothingPinnedInJava
<1>1. Init => PinInv
  BY DEF Init, PinInv
<1>2. TypeInv /\ PinInv /\ [Next]_vars => PinInv'
  BY WorkPins DEF Next, Finalize, PinInv, vars
<1>3. PinInv => NothingPinnedInJava
  BY KindOfLabel DEF PinInv, NothingPinnedInJava, FailLabels
<1>4. QED
  BY <1>1, <1>2, <1>3, TypesHold, PTL DEF Spec

-----------------------------------------------------------------------------
(* The message buffer.                                                     *)

\* Whoever is about to throw has written the buffer since its call began, or
\* another has since: each write is entered for every thread.  What a thread has
\* thrown is final, since it makes no further call.
MessageInv ==
    \A t \in Threads :
        /\ pc[t] \in FailLabels => errStr[1] \in written[t]
        /\ pc[t] \in {"throw", "throwLoading"} => errStr[2] \in written[t]
        /\ blamed[t] # {} => pc[t] = "over"
        /\ blamed[t] \subseteq written[t]

\* A write of one half.
LEMMA HalfWritten ==
    ASSUME TypeInv, NEW t \in Threads, NEW i \in {1, 2}, WriteHalf(t, i)
    PROVE  /\ errStr'[i] = t
           /\ \A j \in {1, 2} : j # i => errStr'[j] = errStr[j]
           /\ \A u \in Threads : written'[u] = written[u] \cup {t}
BY DEF TypeInv, WriteHalf, Writers

LEMMA WorkMessages ==
    ASSUME TypeInv, MessageInv, NEW t \in Threads, Work(t)
    PROVE  MessageInv'
<1>0. /\ pc \in [Threads -> Places]
      /\ written \in [Threads -> SUBSET Threads] /\ blamed \in [Threads -> SUBSET Writers]
      /\ \A l \in Labels : l \notin FailLabels /\ l # "over"
      /\ \A l \in FailLabels : l # "over"
      /\ AtKind(t, "class")  <=> pc[t] \in ClassLabels
      /\ AtKind(t, "create") <=> pc[t] \in CreateLabels
      /\ AtKind(t, "call")   <=> pc[t] \in CallLabels
      /\ ClassLabels \cup CreateLabels \cup CallLabels \subseteq Labels
  BY KindOfLabel, LabelSet
     DEF TypeInv, TypeOK, Places, ClassLabels, CreateLabels, CallLabels, FailLabels
<1>1. ASSUME UNCHANGED errorVars, pc[t] \in Labels,
             \E l \in Labels \cup {"over"} : pc' = [pc EXCEPT ![t] = l]
      PROVE  MessageInv'
  BY <1>0, <1>1 DEF errorVars, MessageInv, FailLabels
<1>2. ASSUME pc[t] \in Labels, Proceed(t), pc[t] # "rehead"
      PROVE  \E l \in Labels : pc' = [pc EXCEPT ![t] = l]
  BY <1>2, Proceeding DEF Proceed
<1>3. CASE BeginInitialization(t) \/ RunInitializer(t)
  BY <1>3 DEF BeginInitialization, RunInitializer, errorVars, MessageInv
<1>4. CASE ClassReady(t)
  BY <1>0, <1>1, <1>2, <1>4 DEF ClassReady, ClassLabels
<1>5. CASE ClassFailed(t)
  <2>1. pc[t] \in Labels
    BY <1>0, <1>5 DEF ClassFailed, Needed, TypeInv
  <2>2. QED
    BY <1>1, <1>5, <2>1 DEF ClassFailed, ThrowError, End
<1>6. CASE Create(t)
  BY <1>0, <1>1, <1>2, <1>6 DEF Create, CreateLabels
<1>7. CASE CreateFails(t) \/ CallFails(t)
  <2>1. /\ WriteHalf(t, 1) /\ UNCHANGED blamed /\ pc[t] \in Labels
        /\ \E l \in {"fail", "failLoading"} : pc' = [pc EXCEPT ![t] = l]
    BY <1>0, <1>7 DEF CreateFails, CallFails
  <2>2. QED
    BY <1>0, <2>1, HalfWritten DEF MessageInv, FailLabels
<1>8. CASE BeginCall(t)
  <2>1. /\ written' = [written EXCEPT ![t] = {}] /\ UNCHANGED <<pc, errStr, blamed>>
        /\ pc[t] \in Labels
    BY <1>0, <1>8 DEF BeginCall
  <2>2. QED
    BY <1>0, <2>1 DEF MessageInv, FailLabels
<1>9. CASE CallSucceeds(t)
  <2>1. UNCHANGED errorVars /\ pc[t] \in Labels
    BY <1>0, <1>9 DEF CallSucceeds
  <2>2. \E l \in Labels \cup {"over"} : pc' = [pc EXCEPT ![t] = l]
    BY <1>2, <1>9, <2>1, LabelOrder DEF CallSucceeds, End
  <2>3. QED
    BY <1>1, <2>1, <2>2
<1>10. CASE WriteRest(t)
  <2>1. /\ WriteHalf(t, 2) /\ UNCHANGED blamed /\ pc[t] \in FailLabels
        /\ \E l \in {"throw", "throwLoading"} : pc' = [pc EXCEPT ![t] = l]
    BY <1>10 DEF WriteRest, FailLabels
  <2>2. QED
    BY <1>0, <2>1, HalfWritten DEF MessageInv, FailLabels
<1>11. CASE Throw(t)
  <2>1. /\ pc[t] \in {"throw", "throwLoading"} /\ pc' = [pc EXCEPT ![t] = "over"]
        /\ blamed' = [blamed EXCEPT ![t] = {errStr[1], errStr[2]}]
        /\ UNCHANGED <<errStr, written>>
    BY <1>11 DEF Throw, End
  <2>2. QED
    BY <1>0, <2>1 DEF MessageInv, FailLabels
<1>12. QED
  BY <1>3, <1>4, <1>5, <1>6, <1>7, <1>8, <1>9, <1>10, <1>11 DEF Work

\* However many threads fail at the same time, none throws a message that was
\* there before its native call began.
THEOREM MessagesAreFresh == Spec => []MessageIsNotOlderThanTheCall
<1>1. Init => MessageInv
  BY DEF Init, MessageInv, FailLabels
<1>2. TypeInv /\ MessageInv /\ [Next]_vars => MessageInv'
  BY WorkMessages DEF Next, Finalize, MessageInv, vars, errorVars
<1>3. MessageInv => MessageIsNotOlderThanTheCall
  BY DEF MessageInv, MessageIsNotOlderThanTheCall
<1>4. QED
  BY <1>1, <1>2, <1>3, TypesHold, PTL DEF Spec

-----------------------------------------------------------------------------
(* Native handles.                                                         *)

\* A decompressor has no native handle but the one in its field.  A transformer's
\* transform handle is in its field as well, since init() stores it last; the
\* decompress handle that the superclass stored may be anywhere, but as long as
\* there is no transform handle it is in the field.  Where a memory manager is
\* lost, the request fails before it creates anything more.
Has(o, kind) == <<o, kind>> \in native
InField(o)   == /\ Has(o, "decompress") => handle[o] = "decompress"
                /\ ~Has(o, "transform") /\ handle[o] # "transform"
Failed(t)    == \/ pc[t] \in FailLabels
                \/ pc[t] = "over" /\ outcome[t] \in {"notFound", "TJException"}
Early        == {"load", "open", "header", "transform", "super", "init"}

HandlesOf(t) ==
    /\ InField(<<t, "decompressor">>) /\ InField(<<t, "result">>)
    /\ pc[t] \in Early => InField(<<t, "transformer">>)
    /\ Has(<<t, "transformer">>, "transform") => handle[<<t, "transformer">>] = "transform"
    /\ Has(<<t, "transformer">>, "pools") => InField(<<t, "transformer">>)
    /\ \A role \in Roles : Has(<<t, role>>, "pools") => Failed(t)
    /\ \A role \in Roles : <<t, role>> \in garbage => pc[t] = "over"
HandleInv == \A t \in Threads : HandlesOf(t)

\* Every action concerns the place, the answer and the message of one thread.
LEMMA OwnAnswers ==
    ASSUME TypeInv, NEW t \in Threads, Work(t), NEW u \in Threads, u # t
    PROVE  pc'[u] = pc[u] /\ outcome'[u] = outcome[u] /\ blamed'[u] = blamed[u]
<1>0. /\ pc \in [Threads -> Places] /\ blamed \in [Threads -> SUBSET Writers]
      /\ outcome \in [Threads -> {"none", "served", "nextRepository",
                                  "notFound", "TJException", "Error"}]
  BY DEF TypeInv, TypeOK, Places, FailLabels
<1>1. CASE BeginInitialization(t) \/ RunInitializer(t) \/ BeginCall(t)
  BY <1>1 DEF BeginInitialization, RunInitializer, BeginCall, errorVars
<1>2. CASE ClassReady(t) \/ Create(t)
  BY <1>0, <1>2 DEF ClassReady, Create, Proceed, errorVars
<1>3. CASE ClassFailed(t) \/ Throw(t)
  BY <1>0, <1>3 DEF ClassFailed, ThrowError, Throw, End, errorVars
<1>4. CASE CallSucceeds(t)
  BY <1>0, <1>4 DEF CallSucceeds, Proceed, End, errorVars
<1>5. CASE CreateFails(t) \/ CallFails(t) \/ WriteRest(t)
  BY <1>0, <1>5 DEF CreateFails, CallFails, WriteRest
<1>6. QED
  BY <1>1, <1>2, <1>3, <1>4, <1>5 DEF Work

\* A thread's handles are nobody else's business.
LEMMA OthersHandles ==
    ASSUME TypeInv, HandleInv, NEW t \in Threads, Work(t), NEW u \in Threads, u # t
    PROVE  HandlesOf(u)'
<1>1. pc'[u] = pc[u] /\ outcome'[u] = outcome[u]
  BY OwnAnswers
<1>2. ASSUME NEW role \in Roles
      PROVE  /\ handle'[<<u, role>>] = handle[<<u, role>>]
             /\ \A k : Has(<<u, role>>, k)' <=> Has(<<u, role>>, k)
             /\ <<u, role>> \in garbage' <=> <<u, role>> \in garbage
  <2>1. /\ handle \in [Objects -> {"0", "decompress", "transform"}] /\ <<u, role>> \in Objects
        /\ Object(t) # <<u, role>>
    BY <1>2 DEF TypeInv, TypeOK, Objects, Object
  <2>2. QED
    BY <2>1 DEF Has, Work, BeginInitialization, RunInitializer, ClassReady, ClassFailed,
       ThrowError, Create, CreateFails, BeginCall, CallSucceeds, CallFails, WriteRest,
       Throw, End, objectVars
<1>3. HandlesOf(u)
  BY DEF HandleInv
<1>4. QED
  BY <1>1, <1>2, <1>3 DEF HandlesOf, InField, Failed, Roles

LEMMA WorkHandles ==
    ASSUME TypeInv, HandleInv, NEW t \in Threads, Work(t)
    PROVE  HandleInv'
<1> DEFINE Same(o) == /\ handle'[o] = handle[o]
                      /\ \A k : <<o, k>> \in native' <=> <<o, k>> \in native
<1>0. /\ pc \in [Threads -> Places]
      /\ handle \in [Objects -> {"0", "decompress", "transform"}]
      /\ outcome \in [Threads -> {"none", "served", "nextRepository",
                                  "notFound", "TJException", "Error"}]
      /\ \A role \in Roles : <<t, role>> \in Objects
      /\ AtKind(t, "class")  <=> pc[t] \in ClassLabels
      /\ AtKind(t, "create") <=> pc[t] \in CreateLabels
      /\ AtKind(t, "call")   <=> pc[t] \in CallLabels
  BY KindOfLabel DEF TypeInv, TypeOK, Places, FailLabels, Objects
<1>1. SUFFICES HandlesOf(t)'
  BY OthersHandles DEF HandleInv
<1>2. /\ HandlesOf(t)
      /\ pc[t] \notin FailLabels \cup {"over"} =>
             /\ \A role \in Roles : ~Has(<<t, role>>, "pools") /\ <<t, role>> \notin garbage
  BY DEF HandleInv, HandlesOf, Failed
<1>3. ASSUME pc[t] \in Labels, Program[pc[t]].next \in Early
      PROVE  pc[t] \in Early
  BY <1>3, LabelOrder, LabelSet DEF Early
<1>4. Labels \cap (FailLabels \cup {"over"}) = {} /\ Early \subseteq Labels
  BY LabelSet DEF FailLabels, Early
<1>5. ASSUME UNCHANGED <<handle, native, garbage>>, pc[t] \in Labels,
             pc'[t] \notin Early \/ pc[t] \in Early, pc'[t] # "over"
      PROVE  HandlesOf(t)'
  BY <1>2, <1>4, <1>5 DEF HandlesOf, InField, Failed, Has
<1>6. CASE BeginInitialization(t) \/ RunInitializer(t) \/ BeginCall(t)
  BY <1>2, <1>6 DEF BeginInitialization, RunInitializer, BeginCall, objectVars, HandlesOf,
     InField, Failed, Has
<1>7. CASE ClassReady(t)
  <2>1. pc[t] \in Labels /\ pc'[t] = Program[pc[t]].next /\ UNCHANGED <<handle, native, garbage>>
    BY <1>0, <1>7 DEF ClassReady, Proceed, objectVars, AtKind
  <2>2. pc'[t] # "over"
    BY <2>1, LabelSet, LabelOrder
  <2>3. QED
    BY <1>3, <1>5, <2>1, <2>2
<1>8. ASSUME UNCHANGED <<handle, native>>, NEW r, End(t, r),
             pc[t] \in FailLabels => r \in {"notFound", "TJException"}, pc[t] # "over"
      PROVE  HandlesOf(t)'
  <2>1. pc'[t] = "over" /\ outcome'[t] = r
    BY <1>0, <1>8 DEF End
  <2>2. \A role \in Roles : Has(<<t, role>>, "pools") => r \in {"notFound", "TJException"}
    BY <1>2, <1>8 DEF HandlesOf, Failed
  <2>3. QED
    BY <1>2, <1>8, <2>1, <2>2 DEF HandlesOf, InField, Failed, Has, Early
<1>9. CASE ClassFailed(t)
  <2>1. pc[t] \in ClassLabels
    <3>1. initializing[t] # <<>> \/ AtKind(t, "class")
      BY <1>9 DEF ClassFailed, Needed
    <3>2. QED
      BY <1>0, <3>1 DEF TypeInv
  <2>2. QED
    BY <1>8, <1>9, <2>1 DEF ClassFailed, ThrowError, ClassLabels, FailLabels
<1>10. CASE Throw(t)
  BY <1>8, <1>10 DEF Throw, FailLabels
<1>11. CASE Create(t)
  <2>1. /\ pc[t] \in CreateLabels /\ pc'[t] = Program[pc[t]].next /\ pc[t] \in Labels
        /\ native' = native \cup {<<Object(t), HandleKind(t)>>}
        /\ handle' = [handle EXCEPT ![Object(t)] = HandleKind(t)]
        /\ UNCHANGED garbage
    BY <1>0, <1>11 DEF Create, Proceed, AtKind
  <2>2. \A role \in Roles : ~Has(<<t, role>>, "pools")' /\ <<t, role>> \notin garbage'
    BY <1>2, <1>4, <2>1 DEF Has, HandleKind
  <2>3. CASE pc[t] = "init"
    <3>1. /\ Object(t) = <<t, "transformer">> /\ HandleKind(t) = "transform"
          /\ pc'[t] = "again"
      BY <2>1, <2>3, LabelRoles, LabelOrder DEF Object, HandleKind
    <3>2. Same(<<t, "decompressor">>) /\ Same(<<t, "result">>)
      BY <1>0, <2>1, <3>1 DEF Roles
    <3>3. handle'[<<t, "transformer">>] = "transform"
      BY <1>0, <2>1, <3>1 DEF Roles
    <3>4. QED
      BY <1>2, <2>2, <3>1, <3>2, <3>3 DEF HandlesOf, InField, Has, Early, Roles
  <2>4. CASE pc[t] = "super"
    <3>1. /\ Object(t) = <<t, "transformer">> /\ HandleKind(t) = "decompress"
          /\ pc'[t] = "init"
      BY <2>1, <2>4, LabelRoles, LabelOrder DEF Object, HandleKind
    <3>2. Same(<<t, "decompressor">>) /\ Same(<<t, "result">>)
      BY <1>0, <2>1, <3>1 DEF Roles
    <3>3. /\ handle'[<<t, "transformer">>] = "decompress"
          /\ Has(<<t, "transformer">>, "transform")' <=> Has(<<t, "transformer">>, "transform")
      BY <1>0, <2>1, <3>1 DEF Roles, Has
    <3>4. QED
      BY <1>2, <2>2, <2>4, <3>1, <3>2, <3>3 DEF HandlesOf, InField, Has, Early, Roles
  <2>5. CASE pc[t] \in {"open", "reopen"}
    <3>1. PICK role \in {"decompressor", "result"} : Object(t) = <<t, role>>
      BY <2>5, LabelRoles DEF Object
    <3>2. HandleKind(t) = "decompress" /\ (pc'[t] \in Early => pc[t] \in Early)
      BY <1>3, <2>1, <2>5 DEF HandleKind
    <3>3. /\ handle'[<<t, role>>] = "decompress"
          /\ Has(<<t, role>>, "transform")' <=> Has(<<t, role>>, "transform")
          /\ \A other \in Roles : other # role => Same(<<t, other>>)
      BY <1>0, <2>1, <3>1, <3>2 DEF Roles, Has
    <3>4. QED
      BY <1>2, <2>2, <3>1, <3>2, <3>3 DEF HandlesOf, InField, Has, Roles
  <2>6. QED
    BY <2>1, <2>3, <2>4, <2>5 DEF CreateLabels
<1>12. CASE CreateFails(t)
  <2>1. /\ pc[t] \in CreateLabels /\ pc[t] \in Labels /\ pc'[t] \in {"fail", "failLoading"}
        /\ native' = native \/ native' = native \cup {<<Object(t), "pools">>}
        /\ UNCHANGED <<handle, garbage>>
    BY <1>0, <1>12 DEF CreateFails, AtKind
  <2>2. CASE native' = native
    BY <1>5, <2>1, <2>2 DEF Early
  <2>3. CASE native' = native \cup {<<Object(t), "pools">>}
    <3>1. \A role \in Roles : \A k \in {"decompress", "transform"} :
              Has(<<t, role>>, k)' <=> Has(<<t, role>>, k)
      BY <2>3 DEF Has
    <3>2. Has(<<t, "transformer">>, "pools")' => pc[t] \in Early
      <4>1. CASE pc[t] = "reopen"
        BY <1>2, <1>4, <2>1, <2>3, <4>1, LabelRoles DEF Has, Object, Roles
      <4>2. CASE pc[t] # "reopen"
        BY <2>1, <4>2 DEF CreateLabels, Early
      <4>3. QED
        BY <4>1, <4>2
    <3>3. Failed(t)'
      <4>1. pc'[t] \in FailLabels
        BY <2>1 DEF FailLabels
      <4>2. QED
        BY <4>1 DEF Failed
    <3>4. pc'[t] \notin Early /\ \A role \in Roles : <<t, role>> \notin garbage'
      BY <1>2, <1>4, <2>1 DEF Early
    <3>5. QED
      BY <1>2, <2>1, <3>1, <3>2, <3>3, <3>4 DEF HandlesOf, InField, Roles
  <2>4. QED
    BY <2>1, <2>2, <2>3
<1>13. CASE CallSucceeds(t)
  <2>1. UNCHANGED <<handle, native>> /\ pc[t] \in Labels
    BY <1>13 DEF CallSucceeds, AtKind
  <2>2. CASE Program[pc[t]].next = "served"
    BY <1>4, <1>8, <1>13, <2>1, <2>2 DEF CallSucceeds
  <2>3. CASE Program[pc[t]].next # "served"
    <3>1. pc'[t] = Program[pc[t]].next /\ UNCHANGED garbage
      BY <1>0, <1>13, <2>3 DEF CallSucceeds, Proceed
    <3>2. pc'[t] # "over"
      BY <2>1, <3>1, LabelSet, LabelOrder
    <3>3. QED
      BY <1>3, <1>5, <2>1, <3>1, <3>2
  <2>4. QED
    BY <2>2, <2>3
<1>14. CASE CallFails(t)
  <2>1. pc'[t] \in {"fail", "failLoading"} /\ UNCHANGED <<handle, native, garbage>> /\ pc[t] \in Labels
    BY <1>0, <1>14 DEF CallFails, AtKind, objectVars
  <2>2. QED
    BY <1>5, <2>1 DEF Early
<1>15. CASE WriteRest(t)
  <2>1. /\ pc'[t] \in {"throw", "throwLoading"} /\ UNCHANGED <<handle, native, garbage>>
        /\ pc[t] \in FailLabels /\ pc[t] # "over"
    BY <1>0, <1>15 DEF WriteRest, objectVars, FailLabels
  <2>2. Failed(t)' /\ pc'[t] \notin Early
    BY <2>1 DEF Failed, FailLabels, Early
  <2>3. \A role \in Roles : <<t, role>> \notin garbage'
    BY <1>2, <2>1 DEF HandlesOf
  <2>4. QED
    BY <1>2, <2>1, <2>2, <2>3 DEF HandlesOf, InField, Has
<1>16. QED
  BY <1>6, <1>7, <1>9, <1>10, <1>11, <1>12, <1>13, <1>14, <1>15 DEF Work

\* What the finalizers leave behind of an object is the handle a transformer's
\* constructor overwrote, or the memory manager of a handle that was never made,
\* and then the request has failed: never both, and never anything else.
THEOREM OnlyOverwrittenLeak == Spec => []OnlyOverwrittenHandlesLeak
<1>1. Init => HandleInv
  BY DEF Init, HandleInv, HandlesOf, InField, Has, Objects, Roles
<1>2. ASSUME TypeInv, HandleInv, NEW o \in Objects, Finalize(o)
      PROVE  HandleInv'
  <2> SUFFICES ASSUME NEW t \in Threads PROVE HandlesOf(t)'
    BY DEF HandleInv
  <2>1. /\ handle \in [Objects -> {"0", "decompress", "transform"}]
        /\ native' = native \ {<<o, handle[o]>>} /\ pc' = pc
        /\ handle' = [handle EXCEPT ![o] = "0"]
        /\ garbage' = garbage /\ outcome' = outcome
        /\ HandlesOf(t) /\ o \in garbage
    BY <1>2 DEF TypeInv, TypeOK, Finalize, HandleInv
  <2>2. ASSUME NEW role \in Roles
        PROVE  /\ \A k : Has(<<t, role>>, k)' => Has(<<t, role>>, k)
               /\ InField(<<t, role>>) => InField(<<t, role>>)'
               /\ (Has(<<t, role>>, "transform") => handle[<<t, role>>] = "transform")
                   => (Has(<<t, role>>, "transform")' => handle'[<<t, role>>] = "transform")
    <3>1. <<t, role>> \in Objects
      BY DEF Objects
    <3>2. CASE <<t, role>> = o
      BY <2>1, <3>1, <3>2 DEF Has, InField
    <3>3. CASE <<t, role>> # o
      BY <2>1, <3>1, <3>3 DEF Has, InField
    <3>4. QED
      BY <3>2, <3>3
  <2>3. {"decompressor", "result", "transformer"} \subseteq Roles
    BY DEF Roles
  <2>4. /\ InField(<<t, "decompressor">>)' /\ InField(<<t, "result">>)'
        /\ (pc[t] \in Early)' => InField(<<t, "transformer">>)'
        /\ Has(<<t, "transformer">>, "transform")' => handle'[<<t, "transformer">>] = "transform"
        /\ Has(<<t, "transformer">>, "pools")' => InField(<<t, "transformer">>)'
    BY <2>1, <2>2, <2>3 DEF HandlesOf
  <2>5. /\ \A role \in Roles : Has(<<t, role>>, "pools")' => Failed(t)'
        /\ \A role \in Roles : <<t, role>> \in garbage' => pc'[t] = "over"
    BY <2>1, <2>2 DEF HandlesOf, Failed
  <2>6. QED
    BY <2>4, <2>5 DEF HandlesOf
<1>3. TypeInv /\ HandleInv /\ [Next]_vars => HandleInv'
  <2>1. CASE UNCHANGED vars
    BY <2>1 DEF HandleInv, HandlesOf, InField, Has, Failed, vars
  <2>2. QED
    BY <1>2, <2>1, WorkHandles DEF Next
<1>4. TypeInv /\ HandleInv => OnlyOverwrittenHandlesLeak
  <2> SUFFICES ASSUME TypeInv, HandleInv, NEW o \in garbage, handle[o] = "0"
               PROVE  LET left == {kind \in {"decompress", "transform", "pools"} : Has(o, kind)}
                      IN  \/ left = {}
                          \/ left = {"decompress"} /\ o[2] = "transformer"
                          \/ left = {"pools"} /\ outcome[o[1]] \in {"notFound", "TJException"}
    BY DEF OnlyOverwrittenHandlesLeak, Has
  <2>1. PICK t \in Threads, role \in Roles : o = <<t, role>>
    BY DEF TypeInv, TypeOK, Objects
  <2>2. HandlesOf(t) /\ pc[t] = "over" /\ o[1] = t /\ o[2] = role
    BY <2>1 DEF HandleInv, HandlesOf
  <2>3. ~Has(o, "transform")
    BY <2>1, <2>2 DEF HandlesOf, InField, Roles
  <2>4. Has(o, "pools") => /\ ~Has(o, "decompress")
                           /\ outcome[t] \in {"notFound", "TJException"}
    BY <2>1, <2>2 DEF HandlesOf, InField, Failed, FailLabels, Roles
  <2>5. Has(o, "decompress") => role = "transformer"
    BY <2>1, <2>2 DEF HandlesOf, InField, Roles
  <2>6. QED
    BY <2>2, <2>3, <2>4, <2>5
<1>5. QED
  BY <1>1, <1>3, <1>4, TypesHold, PTL DEF Spec

-----------------------------------------------------------------------------
(* Causes of answers.                                                      *)

\* Once a class is ready it stays so, and once it has failed too.
LEMMA ClassesSettle ==
    ASSUME TypeInv, NEW t \in Threads, Work(t), NEW c \in Classes,
           classes[c] \in {"ready", "failed"}
    PROVE  classes'[c] = classes[c]
<1>0. /\ classes \in [Classes -> {"none", "ready", "failed"} \cup Threads]
      /\ initializing[t] \in Seq(Classes)
      /\ \A i \in DOMAIN initializing[t] : classes[initializing[t][i]] = t
      /\ t \notin {"none", "ready", "failed"}
  BY ThreadsAssumption DEF TypeInv, TypeOK
<1>1. CASE BeginInitialization(t)
  BY <1>0, <1>1 DEF BeginInitialization
<1>2. CASE RunInitializer(t)
  <2>1. classes[Head(initializing[t])] = t
    BY <1>0, <1>2 DEF RunInitializer
  <2>2. QED
    BY <1>0, <1>2, <2>1 DEF RunInitializer
<1>3. CASE ClassFailed(t)
  BY <1>0, <1>3 DEF ClassFailed
<1>4. CASE UNCHANGED classes
  BY <1>4
<1>5. QED
  BY <1>1, <1>2, <1>3, <1>4 DEF Work, ClassReady, Create, CreateFails, BeginCall,
     CallSucceeds, CallFails, WriteRest, Throw, classVars

PastExecute     == {"reopen", "rehead"}
PastBufSize     == {"execute"} \cup PastExecute
PastTransform   == {"super", "init", "again", "bufSize"} \cup PastBufSize
PastHeader      == {"transform"} \cup PastTransform
PastLoad        == {"open", "header"} \cup PastHeader

\* How far a request can have come with its file and with the classes as they are.
ProgressIsEarned(t) ==
    /\ pc[t] \in PastHeader    => file[t] # "badHeader"
    /\ pc[t] \in PastExecute   => file[t] = "sound"
    /\ pc[t] \in PastLoad      => classes["TJDecompressor"] = "ready"
    /\ pc[t] \in PastTransform => classes["TJTransformer"] = "ready"
    /\ pc[t] \in PastBufSize   => classes["TJ"] = "ready"

\* AnswersHaveACause for one thread.
Caused(t) ==
    /\ outcome[t] = "served" =>
           file[t] = "sound" /\ \A c \in Classes : classes[c] = "ready"
    /\ outcome[t] \in {"nextRepository", "Error"} =>
           \E c \in Classes : classes[c] = "failed"
    /\ outcome[t] \in {"notFound", "TJException"} => blamed[t] # {}

CauseInv == \A t \in Threads : ProgressIsEarned(t) /\ Caused(t)

\* A thread keeps its part of CauseInv while another one works.
LEMMA OthersKeepCauses ==
    ASSUME TypeInv, CauseInv, NEW t \in Threads, Work(t), NEW u \in Threads,
           pc'[u] = pc[u], outcome'[u] = outcome[u], blamed'[u] = blamed[u]
    PROVE  ProgressIsEarned(u)' /\ Caused(u)'
<1>1. file' = file
  BY DEF Work, BeginInitialization, RunInitializer, ClassReady, ClassFailed, Create,
     CreateFails, BeginCall, CallSucceeds, CallFails, WriteRest, Throw
<1>2. /\ \A c \in Classes : classes[c] = "ready" => classes'[c] = "ready"
      /\ \A c \in Classes : classes[c] = "failed" => classes'[c] = "failed"
  BY ClassesSettle
<1>3. {"TJDecompressor", "TJTransformer", "TJ"} \subseteq Classes
  BY DEF Classes
<1>4. ProgressIsEarned(u)'
  BY <1>1, <1>2, <1>3 DEF CauseInv, ProgressIsEarned
<1>5. Caused(u)'
  BY <1>1, <1>2 DEF CauseInv, Caused
<1>6. QED
  BY <1>4, <1>5

LEMMA WorkCauses ==
    ASSUME TypeInv, CauseInv, NEW t \in Threads, Work(t)
    PROVE  CauseInv'
<1>0. /\ pc \in [Threads -> Places] /\ blamed \in [Threads -> SUBSET Writers]
      /\ outcome \in [Threads -> {"none", "served", "nextRepository",
                                  "notFound", "TJException", "Error"}]
      /\ AtKind(t, "class")  <=> pc[t] \in ClassLabels
      /\ AtKind(t, "create") <=> pc[t] \in CreateLabels
      /\ AtKind(t, "call")   <=> pc[t] \in CallLabels
      /\ file[t] \in Files
  BY KindOfLabel DEF TypeInv, TypeOK, Places, FailLabels
<1>1. SUFFICES ProgressIsEarned(t)' /\ Caused(t)'
  BY OthersKeepCauses, OwnAnswers DEF CauseInv
<1>2. ProgressIsEarned(t) /\ Caused(t)
  BY DEF CauseInv
<1>3. CASE BeginInitialization(t) \/ RunInitializer(t) \/ BeginCall(t)
  BY <1>3, OthersKeepCauses DEF BeginInitialization, RunInitializer, BeginCall, errorVars
<1>4. CASE ClassReady(t)
  <2>1. /\ pc[t] \in ClassLabels /\ pc'[t] = Program[pc[t]].next
        /\ classes[Program[pc[t]].role] = "ready"
        /\ UNCHANGED <<file, classes, outcome, blamed>>
    BY <1>0, <1>4 DEF ClassReady, Proceed, classVars, errorVars
  <2>2. QED
    BY <1>2, <2>1, LabelOrder, LabelRoles DEF ProgressIsEarned, Caused, ClassLabels,
       PastLoad, PastHeader, PastTransform, PastBufSize, PastExecute
<1>5. CASE ClassFailed(t)
  <2>1. /\ \E c \in Classes : classes[c] = "failed"
        /\ pc'[t] = "over" /\ outcome'[t] \in {"nextRepository", "Error"}
    BY <1>0, <1>5, LabelRoles DEF ClassFailed, ThrowError, End, Needed, Supers,
       Classes, ClassLabels
  <2>2. \E c \in Classes : classes'[c] = "failed"
    BY <2>1, ClassesSettle
  <2>3. QED
    BY <2>1, <2>2 DEF ProgressIsEarned, Caused,
       PastLoad, PastHeader, PastTransform, PastBufSize, PastExecute
<1>6. CASE Create(t)
  <2>1. /\ pc[t] \in CreateLabels /\ pc'[t] = Program[pc[t]].next
        /\ UNCHANGED <<file, classes, outcome, blamed>>
    BY <1>0, <1>6 DEF Create, Proceed, classVars, errorVars
  <2>2. QED
    BY <1>2, <2>1, LabelOrder DEF ProgressIsEarned, Caused, CreateLabels,
       PastLoad, PastHeader, PastTransform, PastBufSize, PastExecute
<1>7. CASE CallSucceeds(t)
  <2>1. /\ pc[t] \in CallLabels /\ ~Refuses(t)
        /\ UNCHANGED <<file, classes, blamed>>
    BY <1>0, <1>7 DEF CallSucceeds, classVars, errorVars
  <2>2. CASE pc[t] = "rehead"
    <3>1. pc'[t] = "over" /\ outcome'[t] = "served"
      BY <1>0, <1>7, <2>2, LabelOrder DEF CallSucceeds, End
    <3>2. QED
      BY <1>2, <2>1, <2>2, <3>1 DEF ProgressIsEarned, Caused, Classes,
         PastLoad, PastHeader, PastTransform, PastBufSize, PastExecute
  <2>3. CASE pc[t] # "rehead"
    <3>1. pc'[t] = Program[pc[t]].next /\ outcome' = outcome
      BY <1>0, <1>7, <2>1, <2>3, LabelOrder DEF CallSucceeds, Proceed, CallLabels
    <3>2. QED
      BY <1>0, <1>2, <2>1, <2>3, <3>1, LabelOrder DEF ProgressIsEarned, Caused,
         Refuses, Files, CallLabels,
         PastLoad, PastHeader, PastTransform, PastBufSize, PastExecute
  <2>4. QED
    BY <2>2, <2>3
<1>8. CASE CreateFails(t) \/ CallFails(t) \/ WriteRest(t)
  <2>1. pc'[t] \in FailLabels
    BY <1>0, <1>8 DEF CreateFails, CallFails, WriteRest, FailLabels
  <2>2. UNCHANGED <<file, classes, outcome, blamed>>
    BY <1>8 DEF CreateFails, CallFails, WriteRest, classVars
  <2>3. QED
    BY <1>2, <2>1, <2>2 DEF ProgressIsEarned, Caused, FailLabels,
       PastLoad, PastHeader, PastTransform, PastBufSize, PastExecute
<1>9. CASE Throw(t)
  <2>1. /\ pc'[t] = "over" /\ outcome'[t] \in {"TJException", "notFound"}
        /\ blamed'[t] # {}
    BY <1>0, <1>9 DEF Throw, End
  <2>2. QED
    BY <2>1 DEF ProgressIsEarned, Caused,
       PastLoad, PastHeader, PastTransform, PastBufSize, PastExecute
<1>10. QED
  BY <1>3, <1>4, <1>5, <1>6, <1>7, <1>8, <1>9 DEF Work

\* A picture is served only when every class was loaded and libjpeg had nothing to
\* object to.  The next repository is asked only because of a class that failed,
\* and an Error has one too; what libjpeg objects to ends the search.
THEOREM AnswersAreCaused == Spec => []AnswersHaveACause
<1>1. Init => CauseInv
  BY DEF Init, CauseInv, ProgressIsEarned, Caused,
     PastLoad, PastHeader, PastTransform, PastBufSize, PastExecute
<1>2. TypeInv /\ CauseInv /\ [Next]_vars => CauseInv'
  BY WorkCauses DEF Next, Finalize, CauseInv, ProgressIsEarned, Caused, vars,
     classVars, errorVars
<1>3. CauseInv => AnswersHaveACause
  BY DEF CauseInv, Caused, AnswersHaveACause
<1>4. QED
  BY <1>1, <1>2, <1>3, TypesHold, PTL DEF Spec
=============================================================================
