------------------------- MODULE SourceCacheProofs -------------------------
(***************************************************************************)
(* What holds of SourceCache for any number of clients, identifiers and    *)
(* changes of the sources.                                                 *)
(***************************************************************************)
EXTENDS SourceCache, TLAPS

Holdings == [kind : AllKinds \cup {"void", "none"}, version : 0..MaxVersion]

Steps    == {"idle", "info", "data", "load", "store", "decode", "publish"}
Statuses == {0, 200, 400, 404, 415}

\* A request that runs has something left to try, and something in hand wherever
\* it decodes or stores.
Fits(c) ==
    /\ pc[c] # "idle" =>
           status[c] = 0 /\ tried[c] \in Nat /\ tried[c] < Len(ask[c].repos)
    /\ pc[c] \in {"store", "decode", "publish"} => bytes[c] # Nowhere
    /\ pc[c] \in {"info", "publish"} => ask[c].what = "info"

TypeInv ==
    /\ forceJpeg \in BOOLEAN
    /\ source \in [Identifiers -> Contents]
    /\ sourceImages \in [Identifiers -> Holdings]
    /\ imageInfos \in [Identifiers -> Holdings]
    /\ pc \in [Clients -> Steps]
    /\ ask \in [Clients -> Asks]
    /\ tried \in [Clients -> Nat]
    /\ bytes \in [Clients -> Holdings]
    /\ status \in [Clients -> Statuses]
    /\ met \in [Clients -> SUBSET Holdings]
    /\ \A c \in Clients : Fits(c)

LEMMA ContentsHold ==
    ASSUME forceJpeg \in BOOLEAN, NEW b \in Contents
    PROVE  /\ b \in Holdings /\ b # Nowhere
           /\ b.kind \in AllKinds /\ b.kind # "void"
BY KindsAssumption DEF Contents, Holdings, AllKinds, Nowhere

LEMMA NowhereHolds == Nowhere \in Holdings
BY MaxVersionAssumption DEF Nowhere, Holdings

\* What is loaded is of the version of the source; a conversion that yields
\* nothing a decoder could use had something in hand that cannot be served.
LEMMA Loading ==
    ASSUME forceJpeg \in BOOLEAN, NEW b \in Contents
    PROVE  /\ Loaded(b) \in Holdings /\ Loaded(b) # Nowhere
           /\ Loaded(b).version = b.version
           /\ Serviceable(b) => Serviceable(Loaded(b))
<1>1. b \in Holdings /\ b.kind \in AllKinds
  BY ContentsHold
<1>2. CASE ~forceJpeg
  BY <1>1, <1>2, ContentsHold DEF Loaded
<1>3. CASE forceJpeg
  BY <1>1, <1>3 DEF Loaded, Converted, Serviceable, Holdings, AllKinds, Nowhere
<1>4. QED
  BY <1>2, <1>3

LEMMA AskTypes ==
    ASSUME NEW a \in Asks
    PROVE  /\ a.what \in {"image", "info"} /\ a.id \in Identifiers
           /\ a.repos \in Eligible
           /\ Len(a.repos) \in Nat /\ (a.repos # <<>> => Len(a.repos) > 0)
           /\ a.repos # <<>> => a.repos[Len(a.repos)] = "ImageIO"
BY DEF Asks, Eligible

-----------------------------------------------------------------------------
(* Types.                                                                  *)

\* The actions of one request leave the others as they were.
LEMMA OthersFit ==
    ASSUME TypeInv, NEW c \in Clients, NEW d \in Clients,
           pc'[d] = pc[d], status'[d] = status[d], tried'[d] = tried[d],
           bytes'[d] = bytes[d], ask'[d] = ask[d]
    PROVE  Fits(d)'
BY DEF TypeInv, Fits

\* A request goes on with the next repository, or ends after the last.
LEMMA TryingNext ==
    ASSUME TypeInv, NEW c \in Clients, pc[c] # "idle", TryNext(c)
    PROVE  /\ tried' = [tried EXCEPT ![c] = tried[c] + 1] /\ UNCHANGED forceJpeg
           /\ \/ /\ tried[c] + 1 = Len(ask[c].repos)
                 /\ pc' = [pc EXCEPT ![c] = "idle"]
                 /\ status' = [status EXCEPT ![c] = 415]
              \/ /\ tried[c] + 1 < Len(ask[c].repos)
                 /\ \/ ask[c].what = "info" /\ pc' = [pc EXCEPT ![c] = "info"]
                    \/ pc' = [pc EXCEPT ![c] = "data"]
                 /\ UNCHANGED status
<1>1. tried[c] \in Nat /\ tried[c] < Len(ask[c].repos) /\ tried \in [Clients -> Nat]
  BY DEF TypeInv, Fits
<1>2. Len(ask[c].repos) \in Nat
  BY AskTypes DEF TypeInv
<1>3. tried' = [tried EXCEPT ![c] = tried[c] + 1] /\ tried'[c] = tried[c] + 1
  BY <1>1 DEF TryNext
<1>4. CASE tried[c] + 1 = Len(ask[c].repos)
  BY <1>3, <1>4 DEF TryNext, Answer
<1>5. CASE tried[c] + 1 # Len(ask[c].repos)
  <2>1. tried[c] + 1 < Len(ask[c].repos)
    BY <1>1, <1>2, <1>5
  <2>2. QED
    BY <1>3, <1>5, <2>1 DEF TryNext, Goto
<1>6. QED
  BY <1>4, <1>5

\* The fields of the requests, without what is shared.
RequestsTyped ==
    /\ pc \in [Clients -> Steps] /\ status \in [Clients -> Statuses]
    /\ tried \in [Clients -> Nat] /\ bytes \in [Clients -> Holdings]
    /\ ask \in [Clients -> Asks] /\ met \in [Clients -> SUBSET Holdings]

LEMMA BeginType ==
    ASSUME TypeInv, NEW c \in Clients, Begin(c)
    PROVE  TypeInv'
<1>1. PICK a \in Asks :
        /\ ask' = [ask EXCEPT ![c] = a]
        /\ met' = [met EXCEPT ![c] = InCirculation(a.id)]
        /\ \/ a.repos = <<>> /\ Answer(c, 415)
           \/ /\ a.repos # <<>>
              /\ pc' = [pc EXCEPT ![c] = IF a.what = "info" THEN "info" ELSE "data"]
              /\ status' = [status EXCEPT ![c] = 0]
  BY DEF Begin
<1>2. /\ tried' = [tried EXCEPT ![c] = 0] /\ bytes' = [bytes EXCEPT ![c] = Nowhere]
      /\ UNCHANGED <<source, sourceImages, imageInfos>>
  BY DEF Begin, Take, caches
<1>3. InCirculation(a.id) \subseteq Holdings
  BY AskTypes, ContentsHold DEF InCirculation, Busy, TypeInv
<1>4. \/ pc' = [pc EXCEPT ![c] = "idle"] /\ status' = [status EXCEPT ![c] = 415]
      \/ /\ a.repos # <<>> /\ status' = [status EXCEPT ![c] = 0]
         /\ \/ a.what = "info" /\ pc' = [pc EXCEPT ![c] = "info"]
            \/ pc' = [pc EXCEPT ![c] = "data"]
  BY <1>1 DEF Answer
<1>5. UNCHANGED forceJpeg
  BY DEF Begin, Answer
<1>6. RequestsTyped'
  <2>1. /\ \E step \in Steps : pc' = [pc EXCEPT ![c] = step]
        /\ \E code \in Statuses : status' = [status EXCEPT ![c] = code]
    BY <1>4 DEF Steps, Statuses
  <2>2. ask' \in [Clients -> Asks] /\ met' \in [Clients -> SUBSET Holdings]
    BY <1>1, <1>3 DEF TypeInv
  <2>3. tried' \in [Clients -> Nat] /\ bytes' \in [Clients -> Holdings]
    BY <1>2, NowhereHolds DEF TypeInv
  <2>4. pc' \in [Clients -> Steps] /\ status' \in [Clients -> Statuses]
    BY <2>1 DEF TypeInv
  <2>5. QED
    BY <2>2, <2>3, <2>4 DEF RequestsTyped
<1>7. Fits(c)'
  <2>1. a.repos # <<>> => 0 < Len(a.repos)
    BY AskTypes
  <2>2. ask'[c] = a /\ tried'[c] = 0
    BY <1>1, <1>2 DEF TypeInv
  <2>3. QED
    BY <1>4, <2>1, <2>2 DEF TypeInv, Fits, Steps, Statuses
<1>8. ASSUME NEW d \in Clients, d # c
      PROVE  Fits(d)'
  <2>1. /\ pc'[d] = pc[d] /\ status'[d] = status[d] /\ tried'[d] = tried[d]
        /\ bytes'[d] = bytes[d] /\ ask'[d] = ask[d]
    BY <1>1, <1>2, <1>4, <1>8 DEF TypeInv
  <2>2. QED
    BY <2>1, OthersFit
<1>9. QED
  BY <1>2, <1>5, <1>6, <1>7, <1>8 DEF TypeInv, RequestsTyped, Contents

\* What a step does, in the terms of all that follows: the request has b in hand
\* afterwards, and is answered, tries the next repository, or goes on.
Answers(c, code) ==
    /\ pc' = [pc EXCEPT ![c] = "idle"] /\ status' = [status EXCEPT ![c] = code]
    /\ UNCHANGED tried
GoesOn(c, step) ==
    pc' = [pc EXCEPT ![c] = step] /\ UNCHANGED <<status, tried>>

Origin(c, b) ==
    b \in {bytes[c], sourceImages[Id(c)], imageInfos[Id(c)], Loaded(source[Id(c)])}
Keeping(c) ==
    \/ UNCHANGED caches
    \/ pc[c] = "store" /\ sourceImages' = [sourceImages EXCEPT ![Id(c)] = bytes[c]]
       /\ UNCHANGED imageInfos
    \/ pc[c] = "publish" /\ imageInfos' = [imageInfos EXCEPT ![Id(c)] = bytes[c]]
       /\ UNCHANGED sourceImages
Unusable(id) == source[id].kind = "absent" \/ (source[id].kind = "alien" /\ forceJpeg)
Moving(c, b) ==
    \/ Answers(c, 200) /\ b # Nowhere
    \/ Answers(c, 404) /\ (source[Id(c)].kind = "absent" \/ b.kind = "broken")
    \/ Answers(c, 400) /\ Unusable(Id(c))
    \/ GoesOn(c, "data") \/ GoesOn(c, "load")
    \/ b # Nowhere /\ (GoesOn(c, "store") \/ GoesOn(c, "decode"))
    \/ b # Nowhere /\ ask[c].what = "info" /\ GoesOn(c, "publish")
    \/ TryNext(c) /\ \/ Unusable(Id(c))
                     \/ b # Nowhere /\ ~Serviceable(b)
                     \/ tried[c] + 1 # Len(ask[c].repos)

LEMMA WorkFrame ==
    ASSUME TypeInv, NEW c \in Clients, Work(c)
    PROVE  /\ UNCHANGED <<source, ask, met, forceJpeg>>
           /\ ask[c] \in Asks /\ Id(c) = ask[c].id /\ Id(c) \in Identifiers
           /\ pc[c] # "idle"
BY AskTypes DEF TypeInv, Id, Work, LookUpData, Load, Store, MakeImage, LookUpInfo,
   MakeInfo, StoreInfo, Goto, Answer, TryNext, At

LEMMA WorkMoves ==
    ASSUME TypeInv, NEW c \in Clients, Work(c)
    PROVE  \E b \in Holdings :
               /\ bytes' = [bytes EXCEPT ![c] = b]
               /\ Origin(c, b) /\ Keeping(c) /\ Moving(c, b)
<1>0. /\ bytes[c] \in Holdings /\ bytes \in [Clients -> Holdings] /\ Fits(c)
      /\ sourceImages[Id(c)] \in Holdings /\ imageInfos[Id(c)] \in Holdings
      /\ source[Id(c)] \in Contents /\ ask[c] \in Asks /\ forceJpeg \in BOOLEAN
  BY WorkFrame DEF TypeInv
<1>1. UNCHANGED bytes => bytes' = [bytes EXCEPT ![c] = bytes[c]]
  BY <1>0
<1>2. CASE LookUpData(c)
  BY <1>0, <1>1, <1>2 DEF LookUpData, Take, Goto, GoesOn, Origin, Keeping, Moving
<1>3. CASE Load(c)
  <2>1. UNCHANGED caches
    BY <1>3 DEF Load
  <2>2. CASE Take(c, Loaded(source[Id(c)])) /\ Goto(c, "store") /\ UNCHANGED tried
    BY <1>0, <2>1, <2>2, Loading DEF Take, Goto, GoesOn, Origin, Keeping, Moving
  <2>3. CASE /\ UNCHANGED bytes
             /\ \/ source[Id(c)].kind = "absent" /\ Answer(c, 404) /\ UNCHANGED tried
                \/ Unusable(Id(c)) /\ Answer(c, 400) /\ UNCHANGED tried
                \/ Unusable(Id(c)) /\ TryNext(c)
    <3>1. Moving(c, bytes[c])
      <4>1. CASE source[Id(c)].kind = "absent" /\ Answer(c, 404) /\ UNCHANGED tried
        BY <4>1 DEF Answer, Answers, Moving
      <4>2. CASE Unusable(Id(c)) /\ Answer(c, 400) /\ UNCHANGED tried
        <5>1. Answers(c, 400)
          BY <4>2 DEF Answer, Answers
        <5>2. QED
          BY <4>2, <5>1 DEF Moving
      <4>3. CASE Unusable(Id(c)) /\ TryNext(c)
        BY <4>3 DEF Moving
      <4>4. QED
        BY <2>3, <4>1, <4>2, <4>3
    <3>2. Origin(c, bytes[c]) /\ Keeping(c) /\ bytes' = [bytes EXCEPT ![c] = bytes[c]]
      BY <1>1, <2>1, <2>3 DEF Origin, Keeping
    <3>3. bytes[c] \in Holdings
      BY <1>0
    <3>4. QED
      BY <3>1, <3>2, <3>3
  <2>4. QED
    BY <1>3, <2>2, <2>3 DEF Load, Unusable
<1>4. CASE Store(c)
  BY <1>0, <1>1, <1>4 DEF Store, At, Fits, Goto, GoesOn, Origin, Keeping, Moving
<1>5. CASE MakeImage(c)
  <2>1. /\ bytes[c] # Nowhere /\ UNCHANGED <<caches, bytes>>
    BY <1>0, <1>5 DEF MakeImage, At, Fits
  <2>2. tried[c] \in Nat /\ tried[c] < Len(ask[c].repos)
    BY <1>0, <1>5 DEF Fits, MakeImage, At
  <2>3. tried[c] + 1 = Len(ask[c].repos) => ask[c].repos[tried[c] + 1] = "ImageIO"
    BY <1>0, <2>2, AskTypes
  <2> DEFINE outcome == Decoded(ask[c].repos[tried[c] + 1], bytes[c].kind)
  <2>4. outcome = "IOException" => bytes[c].kind = "broken"
    BY DEF Decoded
  <2>5. outcome = "other" /\ tried[c] + 1 = Len(ask[c].repos) => ~Serviceable(bytes[c])
    BY <2>3 DEF Decoded, Serviceable
  <2>6. \/ outcome = "image" /\ Answers(c, 200)
        \/ outcome = "IOException" /\ Answers(c, 404)
        \/ outcome = "other" /\ TryNext(c)
    BY <1>5 DEF MakeImage, Answer, Answers
  <2>7. Moving(c, bytes[c])
    BY <2>1, <2>4, <2>5, <2>6 DEF Moving
  <2>8. Origin(c, bytes[c]) /\ Keeping(c) /\ bytes' = [bytes EXCEPT ![c] = bytes[c]]
    BY <1>1, <2>1 DEF Origin, Keeping
  <2>9. bytes[c] \in Holdings
    BY <1>0
  <2>10. QED
    BY <2>7, <2>8, <2>9
<1>6. CASE LookUpInfo(c)
  BY <1>0, <1>1, <1>6 DEF LookUpInfo, Take, Goto, GoesOn, Answer, Answers, Origin,
     Keeping, Moving
<1>7. CASE MakeInfo(c)
  <2>1. /\ bytes[c] # Nowhere /\ ask[c].what = "info" /\ UNCHANGED <<caches, bytes>>
    BY <1>0, <1>7 DEF MakeInfo, At, Fits
  <2>2. Decoded("ImageIO", bytes[c].kind) # "image" => ~Serviceable(bytes[c])
    BY DEF Decoded, Serviceable
  <2>3. QED
    BY <1>0, <1>1, <1>7, <2>1, <2>2 DEF MakeInfo, Goto, GoesOn, Origin, Keeping, Moving
<1>8. CASE StoreInfo(c)
  BY <1>0, <1>1, <1>8 DEF StoreInfo, At, Fits, Answer, Answers, Origin, Keeping, Moving
<1>9. QED
  BY <1>2, <1>3, <1>4, <1>5, <1>6, <1>7, <1>8 DEF Work

LEMMA WorkType ==
    ASSUME TypeInv, NEW c \in Clients, Work(c)
    PROVE  TypeInv'
<1>0. /\ UNCHANGED <<source, ask, met, forceJpeg>> /\ pc[c] # "idle"
      /\ Id(c) \in Identifiers
  BY WorkFrame
<1>1. PICK b \in Holdings : /\ bytes' = [bytes EXCEPT ![c] = b]
                            /\ Keeping(c) /\ Moving(c, b)
  BY WorkMoves
<1>2. /\ tried[c] \in Nat /\ tried[c] < Len(ask[c].repos) /\ status[c] = 0
      /\ bytes'[c] = b
  BY <1>0, <1>1 DEF TypeInv, Fits
<1>3. RequestsTyped' /\ Fits(c)'
  <2>1. CASE TryNext(c)
    <3>1. pc'[c] \in {"info", "data"} => pc'[c] = "data" \/ ask[c].what = "info"
      BY <1>0, <2>1, TryingNext DEF TypeInv
    <3>2. /\ tried' = [tried EXCEPT ![c] = tried[c] + 1]
          /\ \/ pc' = [pc EXCEPT ![c] = "idle"] /\ status' = [status EXCEPT ![c] = 415]
             \/ /\ tried[c] + 1 < Len(ask[c].repos) /\ UNCHANGED status
                /\ \E step \in {"info", "data"} : pc' = [pc EXCEPT ![c] = step]
      BY <1>0, <2>1, TryingNext
    <3>3. RequestsTyped'
      <4>1. /\ \E step \in Steps : pc' = [pc EXCEPT ![c] = step]
            /\ \E code \in Statuses : status' = [status EXCEPT ![c] = code]
        BY <1>2, <3>2 DEF TypeInv, Steps, Statuses
      <4>2. pc' \in [Clients -> Steps] /\ status' \in [Clients -> Statuses]
        BY <4>1 DEF TypeInv
      <4>3. tried' \in [Clients -> Nat] /\ bytes' \in [Clients -> Holdings]
        BY <1>1, <1>2, <3>2 DEF TypeInv
      <4>4. QED
        BY <1>0, <4>2, <4>3 DEF TypeInv, RequestsTyped
    <3>4. Fits(c)'
      BY <1>0, <1>2, <3>1, <3>2 DEF TypeInv, Fits, Steps, Statuses
    <3>5. QED
      BY <3>3, <3>4
  <2>2. CASE \E code \in {200, 400, 404} : Answers(c, code)
    BY <1>0, <1>1, <1>2, <2>2 DEF TypeInv, RequestsTyped, Fits, Answers, Steps, Statuses
  <2>3. CASE GoesOn(c, "data") \/ GoesOn(c, "load")
    BY <1>0, <1>1, <1>2, <2>3 DEF TypeInv, RequestsTyped, Fits, GoesOn, Steps, Statuses
  <2>4. CASE b # Nowhere /\ (GoesOn(c, "store") \/ GoesOn(c, "decode"))
    BY <1>0, <1>1, <1>2, <2>4 DEF TypeInv, RequestsTyped, Fits, GoesOn, Steps, Statuses
  <2>5. CASE b # Nowhere /\ ask[c].what = "info" /\ GoesOn(c, "publish")
    BY <1>0, <1>1, <1>2, <2>5 DEF TypeInv, RequestsTyped, Fits, GoesOn, Steps, Statuses
  <2>6. QED
    BY <1>1, <2>1, <2>2, <2>3, <2>4, <2>5 DEF Moving
<1>4. ASSUME NEW d \in Clients, d # c
      PROVE  Fits(d)'
  <2>1. pc'[d] = pc[d] /\ status'[d] = status[d] /\ tried'[d] = tried[d]
    BY <1>0, <1>1, <1>4, TryingNext DEF TypeInv, Moving, Answers, GoesOn
  <2>2. bytes'[d] = bytes[d] /\ ask'[d] = ask[d]
    BY <1>0, <1>1, <1>4 DEF TypeInv
  <2>3. QED
    BY <2>1, <2>2, OthersFit
<1>5. /\ sourceImages' \in [Identifiers -> Holdings]
      /\ imageInfos' \in [Identifiers -> Holdings]
  BY <1>0, <1>1 DEF TypeInv, Keeping, caches
<1>6. QED
  BY <1>0, <1>3, <1>4, <1>5 DEF TypeInv, RequestsTyped, Contents

LEMMA SurroundingsType ==
    ASSUME TypeInv, NEW id \in Identifiers, Change(id) \/ Evict(id)
    PROVE  TypeInv'
<1>1. CASE Change(id)
  <2>1. PICK kind \in Kinds[forceJpeg] :
          /\ source' = [source EXCEPT ![id] = [kind |-> kind, version |-> @.version + 1]]
          /\ met' = [c \in Clients |->
                        IF c \in Busy(id) THEN met[c] \cup {source'[id]} ELSE met[c]]
    BY <1>1 DEF Change
  <2>2. source[id] \in Contents /\ source[id].version + 1 \in 0..MaxVersion
    BY <1>1, MaxVersionAssumption DEF TypeInv, Change, Contents
  <2>3. [kind |-> kind, version |-> source[id].version + 1] \in Contents
    BY <2>1, <2>2 DEF Contents
  <2>4. source' \in [Identifiers -> Contents] /\ source'[id] \in Holdings
    BY <2>1, <2>3, ContentsHold DEF TypeInv
  <2>5. QED
    BY <1>1, <2>1, <2>4 DEF TypeInv, Fits, Change, caches, Contents
<1>2. CASE Evict(id)
  BY <1>2, NowhereHolds DEF TypeInv, Fits, Evict, Contents
<1>3. QED
  BY <1>1, <1>2

LEMMA TypesHold == Spec => []TypeInv
<1>1. Init => TypeInv
  BY NowhereHolds DEF Init, TypeInv, Fits, Contents, Steps, Statuses
<1>2. TypeInv /\ [Next]_vars => TypeInv'
  <2>1. TypeInv /\ UNCHANGED vars => TypeInv'
    BY DEF TypeInv, Fits, vars, caches, Contents
  <2>2. QED
    BY <2>1, BeginType, WorkType, SurroundingsType DEF Next
<1>3. QED
  BY <1>1, <1>2, PTL DEF Spec
-----------------------------------------------------------------------------
(* What is in circulation.                                                 *)

LEMMA WorkCirculates ==
    ASSUME TypeInv, NEW c \in Clients, Work(c), NEW id \in Identifiers,
           NEW b \in InCirculation(id)'
    PROVE  b \in InCirculation(id) \/ b = Loaded(source[id])
<1>0. /\ UNCHANGED <<source, ask, met, forceJpeg>> /\ pc[c] # "idle"
      /\ Id(c) = ask[c].id /\ bytes \in [Clients -> Holdings]
      /\ sourceImages \in [Identifiers -> Holdings]
      /\ imageInfos \in [Identifiers -> Holdings]
  BY WorkFrame DEF TypeInv
<1>1. PICK x \in Holdings : /\ bytes' = [bytes EXCEPT ![c] = x]
                            /\ Origin(c, x) /\ Keeping(c) /\ Moving(c, x)
  BY WorkMoves
<1>2. b # Nowhere /\ \/ b = source[id] \/ b = sourceImages'[id] \/ b = imageInfos'[id]
                     \/ \E d \in Busy(id)' : b = bytes'[d]
  BY <1>0 DEF InCirculation
<1>3. ASSUME NEW d \in Clients, d # c
      PROVE  pc'[d] = pc[d]
  BY <1>0, <1>1, <1>3, TryingNext DEF TypeInv, Moving, Answers, GoesOn
<1>4. Id(c) = id => c \in Busy(id)
  BY <1>0 DEF Busy
<1>5. CASE b = source[id]
  BY <1>2, <1>5 DEF InCirculation
<1>6. CASE b = sourceImages'[id]
  <2>1. b = sourceImages[id] \/ (Id(c) = id /\ b = bytes[c])
    BY <1>0, <1>1, <1>6 DEF Keeping, caches
  <2>2. QED
    BY <1>2, <1>4, <2>1 DEF InCirculation
<1>7. CASE b = imageInfos'[id]
  <2>1. b = imageInfos[id] \/ (Id(c) = id /\ b = bytes[c])
    BY <1>0, <1>1, <1>7 DEF Keeping, caches
  <2>2. QED
    BY <1>2, <1>4, <2>1 DEF InCirculation
<1>8. ASSUME NEW d \in Busy(id)', b = bytes'[d]
      PROVE  b \in InCirculation(id) \/ b = Loaded(source[id])
  <2>1. d \in Clients /\ pc'[d] # "idle" /\ Id(d) = id
    BY <1>0, <1>8 DEF Busy, Id
  <2>2. CASE d = c
    <3>1. b = x
      BY <1>0, <1>1, <1>8, <2>2
    <3>2. QED
      BY <1>1, <1>2, <1>4, <2>1, <2>2, <3>1 DEF Origin, InCirculation
  <2>3. CASE d # c
    <3>1. b = bytes[d] /\ d \in Busy(id)
      BY <1>0, <1>1, <1>3, <1>8, <2>1, <2>3 DEF Busy
    <3>2. QED
      BY <1>2, <3>1 DEF InCirculation
  <2>4. QED
    BY <2>2, <2>3
<1>9. QED
  BY <1>2, <1>5, <1>6, <1>7, <1>8

\* What is in circulation later was before, or has just come from the source.
LEMMA CirculationGrows ==
    ASSUME TypeInv, [Next]_vars, NEW id \in Identifiers, NEW b \in InCirculation(id)'
    PROVE  \/ b \in InCirculation(id)
           \/ b = source'[id]
           \/ b = Loaded(source[id]) /\ source' = source
<1>1. CASE UNCHANGED vars
  BY <1>1 DEF vars, caches, InCirculation, Busy, Id
<1>2. ASSUME NEW c \in Clients, Begin(c)
      PROVE  b \in InCirculation(id)
  <2>1. /\ bytes' = [bytes EXCEPT ![c] = Nowhere]
        /\ UNCHANGED <<source, sourceImages, imageInfos>>
        /\ \E a \in Asks : ask' = [ask EXCEPT ![c] = a]
        /\ \E step : pc' = [pc EXCEPT ![c] = step]
    BY <1>2 DEF Begin, Take, Answer, caches
  <2>2. ASSUME NEW d \in Busy(id)', bytes'[d] # Nowhere
        PROVE  d \in Busy(id) /\ bytes'[d] = bytes[d]
    BY <2>1, <2>2 DEF TypeInv, Busy, Id
  <2>3. QED
    BY <2>1, <2>2 DEF InCirculation
<1>3. ASSUME NEW c \in Clients, Work(c)
      PROVE  b \in InCirculation(id) \/ (b = Loaded(source[id]) /\ source' = source)
  BY <1>3, WorkCirculates, WorkFrame
<1>4. ASSUME NEW i \in Identifiers, Change(i)
      PROVE  b \in InCirculation(id) \/ b = source'[id]
  BY <1>4 DEF Change, InCirculation, Busy, Id, caches
<1>5. ASSUME NEW i \in Identifiers, Evict(i)
      PROVE  b \in InCirculation(id)
  BY <1>5 DEF TypeInv, Evict, InCirculation, Busy, Id
<1>6. QED
  BY <1>1, <1>2, <1>3, <1>4, <1>5 DEF Next

\* Once a superseded content is forgotten it never comes back, however many
\* requests, identifiers and changes there are.
THEOREM ForgottenForGood == Spec => ForgottenStaysForgotten
<1>1. ASSUME TypeInv, [Next]_vars, NEW id \in Identifiers, NEW b \in InCirculation(id)'
      PROVE  b.version \in {x.version : x \in InCirculation(id)} \cup {source'[id].version}
  BY <1>1, CirculationGrows, Loading DEF TypeInv
<1>2. TypeInv /\ [Next]_vars =>
          [\A id \in Identifiers :
              {b.version : b \in InCirculation(id)}'
                  \subseteq {b.version : b \in InCirculation(id)} \cup {source'[id].version}]_vars
  BY <1>1
<1>3. QED
  BY <1>2, TypesHold, PTL DEF Spec, ForgottenStaysForgotten
-----------------------------------------------------------------------------
(* Causes of answers.                                                      *)

\* m accounts for b: of the same version, and no better if b cannot be served.
\* (Bytes that a conversion spoilt are accounted for by what was converted.)
Accounts(m, b) == m.version = b.version /\ (Serviceable(b) \/ ~Serviceable(m))
AllMet(c, contents) == \A b \in contents : \E m \in met[c] : Accounts(m, b)

\* While a request runs it has met all that is in circulation for its identifier,
\* in whoever's hands: this is what the others may put before it.
HasMet(c) ==
    pc[c] # "idle" => source[Id(c)] \in met[c] /\ AllMet(c, InCirculation(Id(c)))
Justified(c) ==
    /\ status[c] = 200 => bytes[c].version \in {b.version : b \in met[c]}
    /\ status[c] \notin {0, 200} /\ ask[c].repos # <<>> =>
           \E b \in met[c] : ~Serviceable(b)
    /\ status[c] = 404 =>
           (\E b \in met[c] : b.kind = "absent") \/ bytes[c].kind = "broken"
CauseInv == \A c \in Clients : HasMet(c) /\ Justified(c)

\* What was met stays met, whoever makes a step.
LEMMA MetStaysMet ==
    ASSUME TypeInv, [Next]_vars, NEW c \in Clients, HasMet(c),
           pc[c] # "idle", pc'[c] # "idle", ask'[c] = ask[c],
           forceJpeg' = forceJpeg, met[c] \subseteq met'[c],
           source'[Id(c)] \in met'[c]
    PROVE  HasMet(c)'
<1>1. Id(c)' = Id(c) /\ Id(c) \in Identifiers /\ source[Id(c)] \in Contents
  BY AskTypes DEF TypeInv, Id
<1>2. \A b : Serviceable(b)' <=> Serviceable(b)
  BY DEF Serviceable
<1>3. ASSUME NEW b \in InCirculation(Id(c))'
      PROVE  \E m \in met'[c] : Accounts(m, b)
  <2>1. CASE b \in InCirculation(Id(c))
    BY <2>1 DEF HasMet, AllMet
  <2>2. CASE b = source'[Id(c)]
    BY <2>2 DEF Accounts
  <2>3. CASE b = Loaded(source[Id(c)]) /\ source' = source
    BY <1>1, <2>3, Loading DEF TypeInv, Accounts
  <2>4. QED
    BY <1>1, <1>3, <2>1, <2>2, <2>3, CirculationGrows
<1>4. QED
  BY <1>1, <1>2, <1>3 DEF HasMet, AllMet, Accounts

LEMMA WorkCauses ==
    ASSUME TypeInv, CauseInv, NEW c \in Clients, Work(c)
    PROVE  CauseInv'
<1>0. /\ UNCHANGED <<source, ask, met, forceJpeg>> /\ pc[c] # "idle"
      /\ Id(c) \in Identifiers /\ ask[c] \in Asks
      /\ source[Id(c)] \in met[c] /\ source[Id(c)] \in Contents
      /\ HasMet(c) /\ Justified(c) /\ Next
  BY WorkFrame DEF CauseInv, HasMet, TypeInv, Next
<1>1. PICK x \in Holdings : /\ bytes' = [bytes EXCEPT ![c] = x]
                            /\ Origin(c, x) /\ Moving(c, x)
  BY WorkMoves
<1>2. /\ tried[c] \in Nat /\ tried[c] < Len(ask[c].repos) /\ status[c] = 0
      /\ bytes'[c] = x /\ \A b : Serviceable(b)' <=> Serviceable(b)
  BY <1>0, <1>1 DEF TypeInv, Fits, Serviceable
<1>3. ASSUME NEW d \in Clients, d # c
      PROVE  HasMet(d)' /\ Justified(d)'
  <2>1. pc'[d] = pc[d] /\ status'[d] = status[d] /\ bytes'[d] = bytes[d]
    BY <1>0, <1>1, <1>3, TryingNext DEF TypeInv, Moving, Answers, GoesOn
  <2>2. HasMet(d)'
    <3>1. CASE pc[d] = "idle"
      BY <2>1, <3>1 DEF HasMet
    <3>2. CASE pc[d] # "idle"
      BY <1>0, <2>1, <3>2, MetStaysMet DEF CauseInv, HasMet, Id
    <3>3. QED
      BY <3>1, <3>2
  <2>3. Justified(d)'
    BY <1>0, <1>2, <2>1 DEF CauseInv, Justified
  <2>4. QED
    BY <2>2, <2>3
<1>4. HasMet(c)'
  <2>1. CASE pc'[c] = "idle"
    BY <2>1 DEF HasMet
  <2>2. CASE pc'[c] # "idle"
    BY <1>0, <2>2, MetStaysMet DEF CauseInv, HasMet, Id
  <2>3. QED
    BY <2>1, <2>2
<1>5. x # Nowhere => \E m \in met[c] : Accounts(m, x)
  <2>1. c \in Busy(Id(c))
    BY <1>0 DEF Busy
  <2>2. x # Nowhere => x \in InCirculation(Id(c)) \/ x = Loaded(source[Id(c)])
    BY <1>1, <2>1 DEF Origin, InCirculation
  <2>3. Accounts(source[Id(c)], Loaded(source[Id(c)]))
    BY <1>0, Loading DEF TypeInv, Accounts
  <2>4. QED
    BY <1>0, <2>2, <2>3 DEF HasMet, AllMet
<1>6. Unusable(Id(c)) => \E m \in met[c] : ~Serviceable(m)
  BY <1>0 DEF Unusable, Serviceable
<1>7. x # Nowhere /\ ~Serviceable(x) => \E m \in met[c] : ~Serviceable(m)
  BY <1>5 DEF Accounts
<1>8. Justified(c)'
  <2>1. CASE Answers(c, 200) /\ x # Nowhere
    <3>1. status'[c] = 200
      BY <2>1 DEF TypeInv, Answers
    <3>2. QED
      BY <1>0, <1>2, <1>5, <2>1, <3>1 DEF Justified, Accounts
  <2>2. CASE Answers(c, 404) /\ (source[Id(c)].kind = "absent" \/ x.kind = "broken")
    <3>1. status'[c] = 404
      BY <2>2 DEF TypeInv, Answers
    <3>2. source[Id(c)].kind = "absent" => Unusable(Id(c))
      BY DEF Unusable
    <3>3. x.kind = "broken" => x # Nowhere /\ ~Serviceable(x)
      BY DEF Nowhere, Serviceable
    <3>4. QED
      BY <1>0, <1>2, <1>6, <1>7, <2>2, <3>1, <3>2, <3>3 DEF Justified
  <2>3. CASE Answers(c, 400) /\ Unusable(Id(c))
    <3>1. status'[c] = 400
      BY <2>3 DEF TypeInv, Answers
    <3>2. QED
      BY <1>0, <1>2, <1>6, <2>3, <3>1 DEF Justified
  <2>4. CASE \E step \in Steps : GoesOn(c, step)
    BY <1>2, <2>4 DEF Justified, GoesOn
  <2>5. CASE TryNext(c) /\ \/ Unusable(Id(c))
                           \/ x # Nowhere /\ ~Serviceable(x)
                           \/ tried[c] + 1 # Len(ask[c].repos)
    <3>1. \/ status'[c] = 0
          \/ status'[c] = 415 /\ tried[c] + 1 = Len(ask[c].repos)
      BY <1>0, <1>2, <2>5, TryingNext DEF TypeInv
    <3>2. QED
      BY <1>0, <1>2, <1>6, <1>7, <2>5, <3>1 DEF Justified
  <2>6. QED
    BY <1>1, <2>1, <2>2, <2>3, <2>4, <2>5 DEF Moving, Steps
<1>9. QED
  BY <1>3, <1>4, <1>8 DEF CauseInv

LEMMA BeginCauses ==
    ASSUME TypeInv, CauseInv, NEW c \in Clients, Begin(c)
    PROVE  CauseInv'
<1>1. PICK a \in Asks :
        /\ ask' = [ask EXCEPT ![c] = a]
        /\ met' = [met EXCEPT ![c] = InCirculation(a.id)]
        /\ \/ a.repos = <<>> /\ Answer(c, 415)
           \/ /\ a.repos # <<>>
              /\ pc' = [pc EXCEPT ![c] = IF a.what = "info" THEN "info" ELSE "data"]
              /\ status' = [status EXCEPT ![c] = 0]
  BY DEF Begin
<1>2. /\ bytes' = [bytes EXCEPT ![c] = Nowhere]
      /\ UNCHANGED <<forceJpeg, source, sourceImages, imageInfos>> /\ Next
  BY DEF Begin, Take, caches, Answer, Next
<1>3. \A b : Serviceable(b)' <=> Serviceable(b)
  BY <1>2 DEF Serviceable
<1>4. ASSUME NEW d \in Clients, d # c
      PROVE  HasMet(d)' /\ Justified(d)'
  <2>1. /\ pc'[d] = pc[d] /\ status'[d] = status[d] /\ bytes'[d] = bytes[d]
        /\ ask'[d] = ask[d] /\ met'[d] = met[d]
    BY <1>1, <1>2, <1>4 DEF TypeInv, Answer
  <2>2. CASE pc[d] = "idle"
    BY <1>3, <2>1, <2>2 DEF CauseInv, HasMet, Justified
  <2>3. CASE pc[d] # "idle"
    <3>1. HasMet(d)'
      BY <1>2, <2>1, <2>3, MetStaysMet DEF CauseInv, HasMet, Id
    <3>2. QED
      BY <1>3, <2>1, <3>1 DEF CauseInv, Justified
  <2>4. QED
    BY <2>2, <2>3
<1>5. ask'[c] = a /\ met'[c] = InCirculation(a.id) /\ a.id \in Identifiers
  BY <1>1, AskTypes DEF TypeInv
<1>6. HasMet(c)'
  <2>1. source[a.id] \in met'[c]
    BY <1>5, ContentsHold DEF TypeInv, InCirculation
  <2>2. InCirculation(a.id)' \subseteq InCirculation(a.id)
    <3>1. ASSUME NEW d \in Busy(a.id)', bytes'[d] # Nowhere
          PROVE  d \in Busy(a.id) /\ bytes'[d] = bytes[d]
      BY <1>1, <1>2, <3>1 DEF TypeInv, Busy, Id, Answer
    <3>2. QED
      BY <1>2, <3>1 DEF InCirculation
  <2>3. \A b : Accounts(b, b)'
    BY DEF Accounts
  <2>4. QED
    BY <1>2, <1>5, <2>1, <2>2, <2>3 DEF HasMet, AllMet, Id
<1>7. Justified(c)'
  <2>1. status'[c] = 0 \/ (status'[c] = 415 /\ ask'[c].repos = <<>>)
    BY <1>1, <1>5 DEF TypeInv, Answer
  <2>2. QED
    BY <2>1 DEF Justified
<1>8. QED
  BY <1>4, <1>6, <1>7 DEF CauseInv

LEMMA SurroundingsCauses ==
    ASSUME TypeInv, CauseInv, NEW id \in Identifiers, Change(id) \/ Evict(id),
           NEW c \in Clients
    PROVE  HasMet(c)' /\ Justified(c)'
<1>1. /\ UNCHANGED <<forceJpeg, pc, ask, bytes, status>> /\ Next
      /\ HasMet(c) /\ Justified(c)
      /\ \A b : Serviceable(b)' <=> Serviceable(b)
  BY DEF CauseInv, Next, Change, Evict, Serviceable
<1>2. /\ met[c] \subseteq met'[c]
      /\ pc[c] # "idle" => source'[Id(c)] \in met'[c]
  <2>1. CASE Change(id)
    <3>1. /\ met'[c] = IF c \in Busy(id) THEN met[c] \cup {source'[id]} ELSE met[c]
          /\ \A i \in Identifiers : i # id => source'[i] = source[i]
      BY <2>1 DEF TypeInv, Change
    <3>2. Id(c) \in Identifiers
      BY AskTypes DEF TypeInv, Id
    <3>3. QED
      BY <1>1, <3>1, <3>2 DEF HasMet, Busy
  <2>2. CASE Evict(id)
    BY <1>1, <2>2 DEF Evict, HasMet
  <2>3. QED
    BY <2>1, <2>2
<1>3. HasMet(c)'
  <2>1. CASE pc[c] = "idle"
    BY <1>1, <2>1 DEF HasMet
  <2>2. CASE pc[c] # "idle"
    BY <1>1, <1>2, <2>2, MetStaysMet
  <2>3. QED
    BY <2>1, <2>2
<1>4. Justified(c)'
  BY <1>1, <1>2 DEF Justified
<1>5. QED
  BY <1>3, <1>4

LEMMA CausesHold == Spec => []CauseInv
<1>1. Init => CauseInv
  <2> SUFFICES ASSUME Init, NEW c \in Clients
               PROVE  HasMet(c) /\ Justified(c)
    BY DEF CauseInv
  <2>1. pc[c] = "idle" /\ status[c] = 0
    BY DEF Init
  <2>2. QED
    BY <2>1 DEF HasMet, Justified
<1>2. TypeInv /\ CauseInv /\ UNCHANGED vars => CauseInv'
  BY DEF CauseInv, HasMet, Justified, AllMet, Accounts, Serviceable, InCirculation,
     Busy, Id, vars, caches
<1>3. TypeInv /\ CauseInv /\ [Next]_vars => CauseInv'
  BY <1>2, BeginCauses, WorkCauses, SurroundingsCauses DEF Next, CauseInv
<1>4. QED
  BY <1>1, <1>3, TypesHold, PTL DEF Spec

\* However many requests work on however many identifiers: what is served was
\* about when the request began, or in the source since.
THEOREM ServedInTime == Spec => []ServedFromItsOwnTime
<1>1. CauseInv => ServedFromItsOwnTime
  BY DEF CauseInv, Justified, ServedFromItsOwnTime
<1>2. QED
  BY <1>1, CausesHold, PTL

\* A request is refused only for something it met itself.
THEOREM RefusalsAreCaused == Spec => []RefusedForACause
<1>1. CauseInv => RefusedForACause
  BY DEF CauseInv, Justified, RefusedForACause
<1>2. QED
  BY <1>1, CausesHold, PTL

\* Not found is never said of a source that was there and sound all the time.
THEOREM NotFoundIsTrue == Spec => []NotFoundWasTrue
<1>1. CauseInv => NotFoundWasTrue
  BY DEF CauseInv, Justified, NotFoundWasTrue
<1>2. QED
  BY <1>1, CausesHold, PTL
=============================================================================
