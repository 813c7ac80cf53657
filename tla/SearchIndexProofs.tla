-------------------------- MODULE SearchIndexProofs --------------------------
(***************************************************************************)
(* Safety of the search index for every set of items, texts, services,     *)
(* models, requests and workers, and every bound.                          *)
(***************************************************************************)
EXTENDS SearchIndex, TLAPS

(***************************************************************************)
(* Types                                                                   *)
(***************************************************************************)
LEMMA AnEndpoint == (CHOOSE e \in Endpoint : TRUE) \in Endpoint
  BY ServiceAssumption

LEMMA AModel == (CHOOSE m \in Model : TRUE) \in Model
  BY ServiceAssumption

LEMMA ZeroVersion == 0 \in Version
  BY BoundAssumption DEF Version

LEMMA NoEntryType == NoEntry \in Entry
  BY ZeroVersion DEF NoEntry, NoVector, Entry, Vector

LEMMA IdleType == Idle \in Run
  BY AnEndpoint, ZeroVersion DEF Idle, Run, Config

LEMMA IdleFields == /\ Idle.pc = "idle" /\ Idle.item = NoItem /\ Idle.left = {}
                    /\ Idle.saved = NoModel
  BY DEF Idle

LEMMA NoRequestType == NoRequest \in RequestState
  BY DEF NoRequest, RequestState

LEMMA NoRequestFields == /\ NoRequest.todo = {} /\ NoRequest.reindex = FALSE
                         /\ NoRequest.typed = <<>>
  BY DEF NoRequest

\* What the types of the variables say of one request and one worker.
LEMMA RequestFields ==
    ASSUME NEW r \in RequestState
    PROVE  /\ r.todo \subseteq Item
           /\ r.reindex \in BOOLEAN
           /\ r.typed # <<>> => r.typed[1] \in Config /\ r.typed[2] \in Config
  BY DEF RequestState

LEMMA RunFields ==
    ASSUME NEW r \in Run
    PROVE  /\ r.item \in Item \cup {NoItem}
           /\ r.config \in Config
           /\ r.seen \in [Slot -> Version]
           /\ r.live \in BOOLEAN
           /\ r.embedded \subseteq Slot
           /\ r.model \in Model \cup {NoModel}
           /\ r.saved \in Model \cup {NoModel}
           /\ r.left \subseteq Item
  BY DEF Run

\* Sending a job keeps the types of the queues.
QueueTypeOK ==
    /\ guard \subseteq Item
    /\ fullGuard \in BOOLEAN
    /\ queue \in [Item -> Nat]
    /\ fullQueue \in Nat

LEMMA DispatchType ==
    ASSUME TypeOK, NEW i \in Item, Dispatch(i) \/ DispatchFails(i)
    PROVE  QueueTypeOK'
  BY DEF TypeOK, QueueTypeOK, Dispatch, DispatchFails

LEMMA ReindexType ==
    ASSUME TypeOK, RequestReindex \/ RequestReindexFails
    PROVE  QueueTypeOK'
  <1>1. fullQueue' \in Nat
    BY DEF TypeOK, RequestReindex, RequestReindexFails
  <1>2. fullGuard' \in BOOLEAN /\ guard' = guard /\ queue' = queue
    BY DEF RequestReindex, RequestReindexFails
  <1>. QED BY <1>1, <1>2 DEF TypeOK, QueueTypeOK

LEMMA FaultType ==
    ASSUME TypeOK, NEW D \in SUBSET Item, Fault(D)
    PROVE  dropped' \subseteq Item /\ faults' \in 0..MaxEvent
  <1>1. saves \in Nat /\ faults \in Nat /\ saves + faults < MaxEvent /\ faults' = faults + 1
    BY BoundAssumption DEF TypeOK, Fault
  <1>2. faults' \in 0..MaxEvent
    BY <1>1, BoundAssumption
  <1>3. dropped' \subseteq Item
    BY DEF TypeOK, Fault
  <1>. QED BY <1>2, <1>3

\* The state of one worker written.
LEMMA RunWritten ==
    ASSUME TypeOK, NEW w \in Worker, NEW r \in Run, run' = [run EXCEPT ![w] = r]
    PROVE  run' \in [Worker -> Run]
  BY DEF TypeOK

LEMMA RequestWritten ==
    ASSUME TypeOK, NEW q \in Request, NEW r \in RequestState,
           request' = [request EXCEPT ![q] = r]
    PROVE  request' \in [Request -> RequestState]
  BY DEF TypeOK

LEMMA ProbeType ==
    ASSUME TypeOK, NEW e \in Endpoint
    PROVE  [endpoint |-> e, model |-> serves[e]] \in Config
  BY DEF TypeOK, Config

LEMMA TypeRequests ==
    ASSUME TypeOK, NEW q \in Request, RequestStep(q)
    PROVE  TypeOK'
  <1>0. request[q] \in RequestState /\ request[q].todo \subseteq Item
    BY RequestFields DEF TypeOK
  <1>1. ASSUME NEW I \in SUBSET Item, NEW s \in Slot, Edit(q, I, s) PROVE TypeOK'
    <2>1. edits' \in 0..MaxEdit /\ edits + 1 \in Version
      BY <1>1, BoundAssumption DEF Edit, TypeOK, Version
    <2>2. text' \in [Item -> [Slot -> Version]]
      BY <1>1, <2>1 DEF Edit, TypeOK
    <2>3. request' \in [Request -> RequestState]
      <3>1. [request[q] EXCEPT !.todo = I] \in RequestState
        BY <1>0 DEF RequestState
      <3>. QED BY <1>1, <3>1, RequestWritten DEF Edit
    <2>. QED BY <1>1, <2>1, <2>2, <2>3 DEF Edit, TypeOK, serviceVars, queueVars, faultVars
  <1>2. ASSUME NEW i \in Item, SetDeleted(q, i) PROVE TypeOK'
    <2>1. edits' \in 0..MaxEdit
      BY <1>2, BoundAssumption DEF SetDeleted, TypeOK
    <2>2. request' \in [Request -> RequestState]
      <3>1. [request[q] EXCEPT !.todo = {i}] \in RequestState
        BY <1>0 DEF RequestState
      <3>. QED BY <1>2, <3>1, RequestWritten DEF SetDeleted
    <2>3. trashed' \subseteq Item
      BY <1>2 DEF SetDeleted, TypeOK
    <2>. QED BY <1>2, <2>1, <2>2, <2>3 DEF SetDeleted, TypeOK, serviceVars, queueVars, faultVars
  <1>3. ASSUME NEW i \in Item, SendAfterCommit(q, i) PROVE TypeOK'
    <2>1. QueueTypeOK'
      BY <1>3, DispatchType DEF SendAfterCommit
    <2>2. request' \in [Request -> RequestState]
      <3>1. [request[q] EXCEPT !.todo = @ \ {i}] \in RequestState
        BY <1>0 DEF RequestState
      <3>. QED BY <1>3, <3>1, RequestWritten DEF SendAfterCommit
    <2>. QED BY <1>3, <2>1, <2>2
         DEF SendAfterCommit, TypeOK, QueueTypeOK, itemVars, serviceVars, faultVars
  <1>4. ASSUME NEW i \in Item, SendFails(q, i) PROVE TypeOK'
    <2>1. QueueTypeOK'
      BY <1>4, DispatchType DEF SendFails
    <2>2. request' \in [Request -> RequestState]
      <3>1. [request[q] EXCEPT !.todo = {}] \in RequestState
        BY <1>0 DEF RequestState
      <3>. QED BY <1>4, <3>1, RequestWritten DEF SendFails
    <2>3. dropped' \subseteq Item /\ faults' \in 0..MaxEvent
      BY <1>0, <1>4, FaultType DEF SendFails
    <2>. QED BY <1>4, <2>1, <2>2, <2>3 DEF SendFails, TypeOK, QueueTypeOK, itemVars, serviceVars
  <1>5. ASSUME NEW e \in Endpoint, ProbeSettings(q, e) PROVE TypeOK'
    <2>1. saves' \in 0..MaxEvent
      BY <1>5, BoundAssumption DEF ProbeSettings, TypeOK
    <2>2. request' \in [Request -> RequestState]
      <3>. DEFINE p == [endpoint |-> e, model |-> serves[e]]
      <3>1. p \in Config /\ config \in Config
        BY ProbeType DEF TypeOK
      <3>2. request' = [request EXCEPT ![q] = [request[q] EXCEPT !.typed = <<p, config>>]]
        BY <1>5 DEF ProbeSettings
      <3>. HIDE DEF p
      <3>3. [request[q] EXCEPT !.typed = <<p, config>>] \in RequestState
        BY <1>0, <3>1 DEF RequestState
      <3>. QED BY <3>2, <3>3, RequestWritten
    <2>. QED BY <1>5, <2>1, <2>2 DEF ProbeSettings, TypeOK, itemVars, serviceVars, queueVars, faultVars
  <1>6. ASSUME SaveSettings(q) PROVE TypeOK'
    <2>1. config' \in Config
      BY <1>0, <1>6, RequestFields DEF SaveSettings
    <2>2. request' \in [Request -> RequestState]
      <3>. DEFINE new == request[q].typed[1] # request[q].typed[2]
      <3>1. request' = [request EXCEPT ![q] = [NoRequest EXCEPT !.reindex = new]]
        BY <1>6 DEF SaveSettings
      <3>2. new \in BOOLEAN
        OBVIOUS
      <3>. HIDE DEF new
      <3>3. [NoRequest EXCEPT !.reindex = new] \in RequestState
        BY <3>2, NoRequestType DEF RequestState
      <3>. QED BY <3>1, <3>3, RequestWritten
    <2>. QED BY <1>6, <2>1, <2>2 DEF SaveSettings, TypeOK, itemVars, serviceVars, queueVars, faultVars
  <1>7. ASSUME AskReindex(q) PROVE TypeOK'
    <2>1. QueueTypeOK'
      BY <1>7, ReindexType DEF AskReindex
    <2>2. request' \in [Request -> RequestState]
      <3>1. [request[q] EXCEPT !.reindex = FALSE] \in RequestState
        BY <1>0 DEF RequestState
      <3>. QED BY <1>7, <3>1, RequestWritten DEF AskReindex
    <2>. QED BY <1>7, <2>1, <2>2
         DEF AskReindex, TypeOK, QueueTypeOK, itemVars, serviceVars, faultVars
  <1>8. ASSUME RequestDies(q) PROVE TypeOK'
    <2>1. request' \in [Request -> RequestState]
      BY <1>8, NoRequestType, RequestWritten DEF RequestDies
    <2>2. dropped' \subseteq Item /\ faults' \in 0..MaxEvent
      BY <1>0, <1>8, FaultType DEF RequestDies
    <2>. QED BY <1>8, <2>1, <2>2 DEF RequestDies, TypeOK, itemVars, serviceVars, queueVars
  <1>. QED BY <1>1, <1>2, <1>3, <1>4, <1>5, <1>6, <1>7, <1>8 DEF RequestStep

\* A worker is at an item exactly during an index_item job, and lists items to
\* send exactly while it sends them.
AtItem == {"started", "loaded", "again", "ready"}
PlacesOK ==
    \A w \in Worker :
        /\ run[w].pc \in AtItem <=> run[w].item \in Item
        /\ run[w].left # {} => run[w].pc = "sending"

LEMMA TypeJobs ==
    ASSUME TypeOK, PlacesOK, NEW w \in Worker, JobStep(w)
    PROVE  TypeOK'
  <1>. DEFINE r == run[w]
  <1>0. r \in Run
    BY DEF TypeOK
  <1>. HIDE DEF r
  <1>1. ASSUME NEW i \in Item, Start(w, i) PROVE TypeOK'
    <2>1. [Idle EXCEPT !.pc = "started", !.item = i] \in Run
      BY IdleType DEF Run
    <2>2. run' \in [Worker -> Run]
      BY <1>1, <2>1, RunWritten DEF Start
    <2>3. queue' \in [Item -> Nat]
      BY <1>1 DEF Start, TypeOK
    <2>. QED BY <1>1, <2>2, <2>3 DEF Start, TypeOK, itemVars, serviceVars
  <1>2. ASSUME Load(w) PROVE TypeOK'
    <2>1. PICK pc \in {"ready", "loaded"}, seen \in [Slot -> Version], live \in BOOLEAN :
            run' = [run EXCEPT ![w] = [r EXCEPT !.pc = pc, !.config = config, !.seen = seen,
                                                !.live = live]]
      <3>1. r.item \in Item
        BY <1>2 DEF Load, PlacesOK, AtItem, r
      <3>2. text[r.item] \in [Slot -> Version]
        BY <3>1 DEF TypeOK
      <3>3. run' = [run EXCEPT ![w] =
              [r EXCEPT !.pc = IF r.item \in trashed THEN "ready" ELSE "loaded",
                        !.config = config, !.seen = text[r.item],
                        !.live = r.item \notin trashed]]
        BY <1>2 DEF Load, r
      <3>4. /\ (IF r.item \in trashed THEN "ready" ELSE "loaded") \in {"ready", "loaded"}
            /\ (r.item \notin trashed) \in BOOLEAN
        OBVIOUS
      <3>. QED BY <3>2, <3>3, <3>4, Zenon
    <2>2. [r EXCEPT !.pc = pc, !.config = config, !.seen = seen, !.live = live] \in Run
      BY <1>0 DEF Run, TypeOK
    <2>3. run' \in [Worker -> Run]
      BY <2>1, <2>2, RunWritten
    <2>. QED BY <1>2, <2>3 DEF Load, TypeOK, itemVars, serviceVars, queueVars, faultVars
  <1>3. ASSUME Answer(w) PROVE TypeOK'
    <2>1. QueueTypeOK'
      BY <1>3, ReindexType DEF Answer, queueVars, QueueTypeOK, TypeOK
    <2>2. PICK pc \in {"again", "ready"}, embedded \in SUBSET Slot,
               m \in Model \cup {NoModel}, saved \in Model \cup {NoModel} :
            run' = [run EXCEPT ![w] = [r EXCEPT !.pc = pc, !.embedded = embedded, !.model = m,
                                                !.saved = saved]]
      <3>1. r.config.model \in Model \cup {NoModel} /\ serves[r.config.endpoint] \in Model
        BY <1>0, RunFields DEF TypeOK, Config
      <3>. QED BY <1>3, <3>1 DEF Answer, r
    <2>3. [r EXCEPT !.pc = pc, !.embedded = embedded, !.model = m, !.saved = saved] \in Run
      BY <1>0 DEF Run
    <2>4. run' \in [Worker -> Run]
      BY <2>2, <2>3, RunWritten
    <2>. QED BY <1>3, <2>1, <2>4 DEF Answer, TypeOK, QueueTypeOK, itemVars, serviceVars, faultVars
  <1>4. ASSUME AnswerFails(w) PROVE TypeOK'
    <2>1. QueueTypeOK'
      BY <1>4, ReindexType DEF AnswerFails
    <2>2. run' \in [Worker -> Run]
      BY <1>4, IdleType, RunWritten DEF AnswerFails
    <2>3. dropped' \subseteq Item /\ faults' \in 0..MaxEvent
      <3>1. run[w].item \in Item
        BY <1>4 DEF AnswerFails, PlacesOK, AtItem
      <3>. QED BY <1>4, <3>1, FaultType DEF AnswerFails
    <2>. QED BY <1>4, <2>1, <2>2, <2>3
         DEF AnswerFails, TypeOK, QueueTypeOK, itemVars, serviceVars
  <1>5. ASSUME AnswerAgain(w) PROVE TypeOK'
    <2>1. serves[r.config.endpoint] \in Model
      BY <1>0, RunFields DEF TypeOK, Config
    <2>2. [r EXCEPT !.pc = "ready", !.embedded = Slot, !.model = serves[r.config.endpoint]] \in Run
      BY <1>0, <2>1 DEF Run
    <2>3. run' = [run EXCEPT ![w] = [r EXCEPT !.pc = "ready", !.embedded = Slot,
                                              !.model = serves[r.config.endpoint]]]
      BY <1>5 DEF AnswerAgain, r, TypeOK
    <2>4. run' \in [Worker -> Run]
      BY <2>2, <2>3, RunWritten
    <2>. QED BY <1>5, <2>4 DEF AnswerAgain, TypeOK, itemVars, serviceVars, queueVars, faultVars
  <1>6. ASSUME Store(w) PROVE TypeOK'
    <2>1. config' \in Config
      <3>1. config \in Config /\ r.saved \in Model \cup {NoModel}
        BY <1>0, RunFields DEF TypeOK
      <3>2. [config EXCEPT !.model = r.saved] \in Config
        BY <3>1 DEF Config
      <3>. QED BY <1>6, <3>2 DEF Store, r, TypeOK
    <2>2. index' \in [Item -> Entry]
      <3>. DEFINE old == index[r.item]
                  vector == [s \in Slot |-> IF s \in r.embedded
                                            THEN [version |-> r.seen[s], model |-> r.model]
                                            ELSE old.vector[s]]
                  new == IF ~r.live THEN NoEntry ELSE [vector |-> vector, model |-> r.model]
      <3>1. index' = [index EXCEPT ![r.item] = new]
        BY <1>6 DEF Store, r
      <3>2. ASSUME r.item \in Item PROVE new \in Entry
        <4>1. r.seen \in [Slot -> Version] /\ r.model \in Model \cup {NoModel}
          BY <1>0, RunFields
        <4>2. old.vector \in [Slot -> Vector]
          BY <3>2 DEF TypeOK, Entry
        <4>. HIDE DEF old
        <4>3. vector \in [Slot -> Vector]
          BY <4>1, <4>2 DEF Vector
        <4>. HIDE DEF vector
        <4>. QED BY <4>1, <4>3, NoEntryType DEF Entry
      <3>. HIDE DEF new
      <3>. QED BY <3>1, <3>2 DEF TypeOK
    <2>3. run' \in [Worker -> Run]
      BY <1>6, IdleType, RunWritten DEF Store
    <2>. QED BY <1>6, <2>1, <2>2, <2>3 DEF Store, TypeOK, itemVars, serviceVars, queueVars, faultVars
  <1>. QED BY <1>1, <1>2, <1>3, <1>4, <1>5, <1>6 DEF JobStep

LEMMA TypeFull ==
    ASSUME TypeOK, NEW w \in Worker, FullStep(w)
    PROVE  TypeOK'
  <1>0. run[w] \in Run /\ run[w].left \subseteq Item
    BY RunFields DEF TypeOK
  <1>1. ASSUME StartFull(w) PROVE TypeOK'
    <2>1. [Idle EXCEPT !.pc = "full"] \in Run
      BY IdleType DEF Run
    <2>2. run' \in [Worker -> Run]
      BY <1>1, <2>1, RunWritten DEF StartFull
    <2>3. fullQueue' \in Nat
      BY <1>1 DEF StartFull, TypeOK
    <2>. QED BY <1>1, <2>2, <2>3 DEF StartFull, TypeOK, itemVars, serviceVars, faultVars
  <1>2. ASSUME Probe(w) PROVE TypeOK'
    <2>1. config \in Config /\ serves[config.endpoint] \in Model
      BY DEF TypeOK, Config
    <2>2. [run[w] EXCEPT !.pc = "probed", !.model = serves[config.endpoint]] \in Run
      BY <1>0, <2>1 DEF Run
    <2>3. run' \in [Worker -> Run]
      BY <1>2, <2>2, RunWritten DEF Probe
    <2>. QED BY <1>2, <2>3 DEF Probe, TypeOK, itemVars, serviceVars, queueVars, faultVars
  <1>3. ASSUME Record(w) PROVE TypeOK'
    <2>1. config' \in Config
      BY <1>0, <1>3, RunFields DEF Record, Config, TypeOK
    <2>2. index' \in [Item -> Entry]
      BY <1>3, NoEntryType DEF Record, TypeOK
    <2>3. [Idle EXCEPT !.pc = "sending", !.left = Item \ trashed] \in Run
      BY IdleType DEF Run
    <2>4. run' \in [Worker -> Run]
      BY <1>3, <2>3, RunWritten DEF Record
    <2>. QED BY <1>3, <2>1, <2>2, <2>4
         DEF Record, TypeOK, itemVars, serviceVars, queueVars, faultVars
  <1>4. ASSUME NEW i \in Item, SendNext(w, i) PROVE TypeOK'
    <2>1. QueueTypeOK'
      BY <1>4, DispatchType DEF SendNext
    <2>2. [run[w] EXCEPT !.left = @ \ {i}] \in Run
      BY <1>0 DEF Run
    <2>3. run' \in [Worker -> Run]
      <3>1. \/ run' = [run EXCEPT ![w] = Idle]
            \/ run' = [run EXCEPT ![w] = [run[w] EXCEPT !.left = @ \ {i}]]
        <4>1. CASE run[w].left = {i}
          BY <1>4, <4>1 DEF SendNext
        <4>2. CASE run[w].left # {i}
          BY <1>4, <4>2 DEF SendNext
        <4>. QED BY <4>1, <4>2
      <3>. QED BY <2>2, <3>1, IdleType, RunWritten
    <2>. QED BY <1>4, <2>1, <2>3 DEF SendNext, TypeOK, QueueTypeOK, itemVars, serviceVars, faultVars
  <1>5. ASSUME NEW i \in Item, SendNextFails(w, i) PROVE TypeOK'
    <2>1. QueueTypeOK'
      BY <1>5, DispatchType DEF SendNextFails
    <2>2. run' \in [Worker -> Run]
      BY <1>5, IdleType, RunWritten DEF SendNextFails
    <2>3. dropped' \subseteq Item /\ faults' \in 0..MaxEvent
      BY <1>0, <1>5, FaultType DEF SendNextFails
    <2>. QED BY <1>5, <2>1, <2>2, <2>3
         DEF SendNextFails, TypeOK, QueueTypeOK, itemVars, serviceVars
  <1>6. ASSUME SendNone(w) PROVE TypeOK'
    <2>1. run' \in [Worker -> Run]
      BY <1>6, IdleType, RunWritten DEF SendNone
    <2>. QED BY <1>6, <2>1 DEF SendNone, TypeOK, itemVars, serviceVars, queueVars, faultVars
  <1>. QED BY <1>1, <1>2, <1>3, <1>4, <1>5, <1>6 DEF FullStep

LEMMA TypeFaults ==
    ASSUME TypeOK, NEW w \in Worker, Requeue(w) \/ GiveUp(w)
    PROVE  TypeOK'
  <1>0. run[w].item \in Item \cup {NoItem}
    BY RunFields DEF TypeOK
  <1>1. ASSUME Requeue(w) PROVE TypeOK'
    <2>1. dropped' \subseteq Item /\ faults' \in 0..MaxEvent
      BY <1>1, FaultType DEF Requeue
    <2>2. run' \in [Worker -> Run]
      BY <1>1, IdleType, RunWritten DEF Requeue
    <2>3. queue' \in [Item -> Nat] /\ fullQueue' \in Nat
      BY <1>0, <1>1 DEF Requeue, TypeOK
    <2>. QED BY <1>1, <2>1, <2>2, <2>3 DEF Requeue, TypeOK, itemVars, serviceVars
  <1>2. ASSUME GiveUp(w) PROVE TypeOK'
    <2>1. dropped' \subseteq Item /\ faults' \in 0..MaxEvent
      BY <1>0, <1>2, FaultType DEF GiveUp
    <2>2. run' \in [Worker -> Run]
      BY <1>2, IdleType, RunWritten DEF GiveUp
    <2>. QED BY <1>2, <2>1, <2>2 DEF GiveUp, TypeOK, itemVars, serviceVars, queueVars
  <1>. QED BY <1>1, <1>2

LEMMA TypeStep == TypeOK /\ PlacesOK /\ [Next]_vars => TypeOK'
  <1>. SUFFICES ASSUME TypeOK, PlacesOK, [Next]_vars PROVE TypeOK'
    OBVIOUS
  <1>1. ASSUME NEW i \in Item, GuardExpires(i) PROVE TypeOK'
    BY <1>1 DEF GuardExpires, TypeOK, itemVars, serviceVars, faultVars
  <1>2. ASSUME FullGuardExpires PROVE TypeOK'
    BY <1>2 DEF FullGuardExpires, TypeOK, itemVars, serviceVars, faultVars
  <1>3. ASSUME Search PROVE TypeOK'
    <2>1. QueueTypeOK'
      BY <1>3, ReindexType DEF Search
    <2>. QED BY <1>3, <2>1 DEF Search, TypeOK, QueueTypeOK, itemVars, serviceVars, faultVars
  <1>4. ASSUME SearchFails PROVE TypeOK'
    <2>1. QueueTypeOK'
      BY <1>4, ReindexType DEF SearchFails
    <2>2. dropped' \subseteq Item /\ faults' \in 0..MaxEvent
      BY <1>4, FaultType DEF SearchFails
    <2>. QED BY <1>4, <2>1, <2>2 DEF SearchFails, TypeOK, QueueTypeOK, itemVars, serviceVars
  <1>5. ASSUME NEW e \in Endpoint, NEW m \in Model, SwapModel(e, m) PROVE TypeOK'
    <2>1. swaps' \in 0..MaxSwap
      BY <1>5, BoundAssumption DEF SwapModel, TypeOK
    <2>. QED BY <1>5, <2>1 DEF SwapModel, TypeOK, itemVars, queueVars, faultVars
  <1>6. CASE UNCHANGED vars
    BY <1>6 DEF vars, TypeOK, itemVars, serviceVars, queueVars, faultVars
  <1>. QED BY <1>1, <1>2, <1>3, <1>4, <1>5, <1>6, TypeRequests, TypeJobs, TypeFull, TypeFaults
       DEF Next

LEMMA TypeInit == Init => TypeOK
  <1>. SUFFICES ASSUME Init PROVE TypeOK
    OBVIOUS
  <1>1. text \in [Item -> [Slot -> Version]] /\ index \in [Item -> Entry]
    BY ZeroVersion, NoEntryType DEF Init
  <1>2. config \in Config /\ serves \in [Endpoint -> Model]
    BY AnEndpoint, AModel DEF Init, Config
  <1>3. request \in [Request -> RequestState] /\ run \in [Worker -> Run]
    BY NoRequestType, IdleType DEF Init
  <1>. QED BY <1>1, <1>2, <1>3, BoundAssumption DEF Init, TypeOK

(***************************************************************************)
(* Workers                                                                 *)
(***************************************************************************)
\* Where the step of a worker takes it.
Goes(w) ==
    LET r == run[w]
        n == run'[w] IN
    \/ n = Idle
    \/ /\ r.pc = "idle" /\ n.pc = "started" /\ n.item \in Item /\ n.left = {}
    \/ /\ r.pc = "started" /\ n.pc \in {"loaded", "ready"} /\ ~Locked(r.item)
       /\ n.item = r.item /\ n.left = r.left
    \/ /\ r.pc \in {"loaded", "again"} /\ n.pc \in {"again", "ready"}
       /\ n.item = r.item /\ n.left = r.left
    \/ /\ r.pc \in {"idle", "full"} /\ n.pc \in {"full", "probed"}
       /\ n.item = (IF r.pc = "idle" THEN NoItem ELSE r.item)
       /\ n.left = (IF r.pc = "idle" THEN {} ELSE r.left)
    \/ /\ r.pc = "probed" /\ n.pc = "sending" /\ n.item = NoItem
    \/ /\ r.pc = "sending" /\ n.pc = "sending" /\ n.item = r.item

WorkerStep(w) == JobStep(w) \/ FullStep(w) \/ Requeue(w) \/ GiveUp(w)

LEMMA RunNow ==
    ASSUME TypeOK, NEW w \in Worker, NEW r, run' = [run EXCEPT ![w] = r]
    PROVE  /\ run'[w] = r
           /\ \A v \in Worker \ {w} : run'[v] = run[v]
  BY DEF TypeOK

\* Only one worker moves, and it goes one of these ways.
LEMMA WorkerGoes ==
    ASSUME TypeOK, NEW w \in Worker, WorkerStep(w)
    PROVE  /\ \A v \in Worker \ {w} : run'[v] = run[v]
           /\ Goes(w)
           /\ UNCHANGED <<text, trashed, request>>
  <1>. DEFINE Moves == Goes(w) /\ \A v \in Worker \ {w} : run'[v] = run[v]
  <1>0. run[w] \in Run
    BY DEF TypeOK
  <1>1. ASSUME NEW i \in Item, Start(w, i) PROVE Moves
    <2>1. run' = [run EXCEPT ![w] = [Idle EXCEPT !.pc = "started", !.item = i]]
      BY <1>1 DEF Start
    <2>2. /\ [Idle EXCEPT !.pc = "started", !.item = i].pc = "started"
          /\ [Idle EXCEPT !.pc = "started", !.item = i].item = i
          /\ [Idle EXCEPT !.pc = "started", !.item = i].left = {}
      BY DEF Idle
    <2>. QED BY <1>1, <2>1, <2>2, RunNow DEF Start, Goes
  <1>2. ASSUME Load(w) PROVE Moves
    <2>0. PICK pc \in {"loaded", "ready"} : \E c, seen, live :
            run' = [run EXCEPT ![w] = [run[w] EXCEPT !.pc = pc, !.config = c, !.seen = seen,
                                                     !.live = live]]
      BY <1>2 DEF Load
    <2>1. PICK c, seen, live :
            run' = [run EXCEPT ![w] = [run[w] EXCEPT !.pc = pc, !.config = c, !.seen = seen,
                                                     !.live = live]]
      BY <2>0
    <2>2. /\ [run[w] EXCEPT !.pc = pc, !.config = c, !.seen = seen, !.live = live].pc = pc
          /\ [run[w] EXCEPT !.pc = pc, !.config = c, !.seen = seen, !.live = live].item = run[w].item
          /\ [run[w] EXCEPT !.pc = pc, !.config = c, !.seen = seen, !.live = live].left = run[w].left
      BY <1>0 DEF Run
    <2>. QED BY <1>2, <2>1, <2>2, RunNow DEF Load, Goes
  <1>3. ASSUME Answer(w) PROVE Moves
    <2>0. PICK pc \in {"again", "ready"} : \E e, m, saved :
            run' = [run EXCEPT ![w] = [run[w] EXCEPT !.pc = pc, !.embedded = e, !.model = m,
                                                     !.saved = saved]]
      BY <1>3 DEF Answer
    <2>1. PICK e, m, saved :
            run' = [run EXCEPT ![w] = [run[w] EXCEPT !.pc = pc, !.embedded = e, !.model = m,
                                                     !.saved = saved]]
      BY <2>0
    <2>2. /\ [run[w] EXCEPT !.pc = pc, !.embedded = e, !.model = m, !.saved = saved].pc = pc
          /\ [run[w] EXCEPT !.pc = pc, !.embedded = e, !.model = m, !.saved = saved].item = run[w].item
          /\ [run[w] EXCEPT !.pc = pc, !.embedded = e, !.model = m, !.saved = saved].left = run[w].left
      BY <1>0 DEF Run
    <2>. QED BY <1>3, <2>1, <2>2, RunNow DEF Answer, Goes
  <1>4. ASSUME AnswerAgain(w) PROVE Moves
    <2>1. PICK m : run' = [run EXCEPT ![w] = [run[w] EXCEPT !.pc = "ready", !.embedded = Slot,
                                                            !.model = m]]
      BY <1>0, <1>4 DEF AnswerAgain, TypeOK
    <2>2. /\ [run[w] EXCEPT !.pc = "ready", !.embedded = Slot, !.model = m].pc = "ready"
          /\ [run[w] EXCEPT !.pc = "ready", !.embedded = Slot, !.model = m].item = run[w].item
          /\ [run[w] EXCEPT !.pc = "ready", !.embedded = Slot, !.model = m].left = run[w].left
      BY <1>0 DEF Run
    <2>. QED BY <1>4, <2>1, <2>2, RunNow DEF AnswerAgain, Goes
  <1>5. ASSUME StartFull(w) PROVE Moves
    <2>1. /\ [Idle EXCEPT !.pc = "full"].pc = "full"
          /\ [Idle EXCEPT !.pc = "full"].item = NoItem
          /\ [Idle EXCEPT !.pc = "full"].left = {}
      BY DEF Idle
    <2>2. run[w].pc = "idle" /\ run' = [run EXCEPT ![w] = [Idle EXCEPT !.pc = "full"]]
      BY <1>5 DEF StartFull
    <2>3. /\ run'[w] = [Idle EXCEPT !.pc = "full"]
          /\ \A v \in Worker \ {w} : run'[v] = run[v]
      BY <2>2, RunNow
    <2>4. run'[w].pc = "full" /\ run'[w].item = NoItem /\ run'[w].left = {}
      BY <2>1, <2>3
    <2>5. Goes(w)
      BY <2>2, <2>4 DEF Goes
    <2>. QED BY <2>3, <2>5
  <1>6. ASSUME Probe(w) PROVE Moves
    <2>1. PICK m : run' = [run EXCEPT ![w] = [run[w] EXCEPT !.pc = "probed", !.model = m]]
      BY <1>6 DEF Probe
    <2>2. /\ [run[w] EXCEPT !.pc = "probed", !.model = m].pc = "probed"
          /\ [run[w] EXCEPT !.pc = "probed", !.model = m].item = run[w].item
          /\ [run[w] EXCEPT !.pc = "probed", !.model = m].left = run[w].left
      BY <1>0 DEF Run
    <2>. QED BY <1>6, <2>1, <2>2, RunNow DEF Probe, Goes
  <1>7. ASSUME Record(w) PROVE Moves
    <2>1. /\ [Idle EXCEPT !.pc = "sending", !.left = Item \ trashed].pc = "sending"
          /\ [Idle EXCEPT !.pc = "sending", !.left = Item \ trashed].item = NoItem
      BY DEF Idle
    <2>. QED BY <1>7, <2>1, RunNow DEF Record, Goes
  <1>8. ASSUME NEW i \in Item, SendNext(w, i) PROVE Moves
    <2>1. CASE run[w].left = {i}
      <3>1. run' = [run EXCEPT ![w] = Idle]
        BY <1>8, <2>1 DEF SendNext
      <3>. QED BY <3>1, RunNow DEF Goes
    <2>2. CASE run[w].left # {i}
      <3>1. run' = [run EXCEPT ![w] = [run[w] EXCEPT !.left = run[w].left \ {i}]]
        BY <1>8, <2>2 DEF SendNext
      <3>2. /\ [run[w] EXCEPT !.left = run[w].left \ {i}].pc = run[w].pc
            /\ [run[w] EXCEPT !.left = run[w].left \ {i}].item = run[w].item
        BY <1>0 DEF Run
      <3>. QED BY <1>8, <3>1, <3>2, RunNow DEF SendNext, Goes
    <2>. QED BY <2>1, <2>2
  <1>9. ASSUME \/ AnswerFails(w) \/ Store(w) \/ SendNone(w) \/ Requeue(w) \/ GiveUp(w)
               \/ \E i \in Item : SendNextFails(w, i)
        PROVE  Moves
    <2>1. run' = [run EXCEPT ![w] = Idle]
      BY <1>9 DEF AnswerFails, Store, SendNextFails, SendNone, Requeue, GiveUp
    <2>. QED BY <2>1, RunNow DEF Goes
  <1>10. Moves
    <2>. HIDE DEF Moves
    <2>. QED BY <1>1, <1>2, <1>3, <1>4, <1>5, <1>6, <1>7, <1>8, <1>9
             DEF WorkerStep, JobStep, FullStep
  <1>11. UNCHANGED <<text, trashed, request>>
    BY DEF WorkerStep, JobStep, FullStep, Start, Load, Answer, AnswerFails, AnswerAgain, Store,
           StartFull, Probe, Record, SendNext, SendNextFails, SendNone, Requeue, GiveUp, itemVars
  <1>. QED BY <1>10, <1>11

\* The other steps leave the workers alone.
OtherStep ==
    \/ \E q \in Request : RequestStep(q)
    \/ \E i \in Item : GuardExpires(i)
    \/ FullGuardExpires
    \/ Search \/ SearchFails
    \/ \E e \in Endpoint, m \in Model : SwapModel(e, m)
    \/ UNCHANGED vars

LEMMA StepKinds ==
    ASSUME [Next]_vars
    PROVE  OtherStep \/ \E w \in Worker : WorkerStep(w)
  BY DEF Next, OtherStep, WorkerStep

LEMMA OtherStepsKeep == OtherStep => UNCHANGED <<run, index>>
  <1>1. ASSUME NEW q \in Request, RequestStep(q) PROVE UNCHANGED <<run, index>>
    BY <1>1 DEF RequestStep, Edit, SetDeleted, SendAfterCommit, SendFails, ProbeSettings,
                SaveSettings, AskReindex, RequestDies
  <1>. QED BY <1>1 DEF OtherStep, GuardExpires, FullGuardExpires, Search, SearchFails, SwapModel, vars

LEMMA PlacesStep ==
    ASSUME TypeOK, PlacesOK, [Next]_vars
    PROVE  PlacesOK'
  <1>1. CASE OtherStep
    BY <1>1, OtherStepsKeep DEF PlacesOK
  <1>2. ASSUME NEW w \in Worker, WorkerStep(w) PROVE PlacesOK'
    <2>1. (\A v \in Worker \ {w} : run'[v] = run[v]) /\ Goes(w)
      BY <1>2, WorkerGoes
    <2>2. /\ run'[w].pc \in AtItem <=> run'[w].item \in Item
          /\ run'[w].left # {} => run'[w].pc = "sending"
      BY <2>1, NullAssumption, IdleFields DEF PlacesOK, AtItem, Goes
    <2>. QED BY <2>1, <2>2 DEF PlacesOK
  <1>. QED BY <1>1, <1>2, StepKinds

\* The advisory lock: one job at a time is past it.
Holding == {"loaded", "again", "ready"}
OneHolder ==
    \A v, w \in Worker :
        run[v].pc \in Holding /\ run[w].pc \in Holding /\ run[v].item = run[w].item => v = w

LEMMA HolderStep ==
    ASSUME TypeOK, OneHolder, [Next]_vars
    PROVE  OneHolder'
  <1>1. CASE OtherStep
    BY <1>1, OtherStepsKeep DEF OneHolder
  <1>2. ASSUME NEW w \in Worker, WorkerStep(w) PROVE OneHolder'
    <2>1. (\A v \in Worker \ {w} : run'[v] = run[v]) /\ Goes(w)
      BY <1>2, WorkerGoes
    <2>2. ASSUME run'[w].pc \in Holding
          PROVE  /\ run'[w].item = run[w].item
                 /\ run[w].pc \in Holding \/ ~Locked(run[w].item)
      BY <2>1, <2>2, IdleFields DEF Goes, Holding
    <2>3. ASSUME NEW v \in Worker \ {w}, run[v].pc \in Holding, run'[w].pc \in Holding,
                 run[v].item = run'[w].item
          PROVE  FALSE
      BY <2>2, <2>3 DEF OneHolder, Locked, Holding
    <2>. QED BY <2>1, <2>3 DEF OneHolder
  <1>. QED BY <1>1, <1>2, StepKinds

(***************************************************************************)
(* One model per item                                                      *)
(***************************************************************************)
OneModel(i) == \A s \in Slot : index[i].vector[s].model \in {NoModel, index[i].model}

\* The vectors a job keeps come from the model of those it brings.
Fits(w) ==
    run[w].pc = "ready" /\ run[w].live =>
        \A s \in Slot :
            /\ run[w].model # NoModel
            /\ s \notin run[w].embedded =>
                  index[run[w].item].vector[s].model \in {NoModel, run[w].model}

ModelsOK == (\A i \in Item : OneModel(i)) /\ \A w \in Worker : Fits(w)

LEMMA NoEntryFields ==
    /\ NoEntry.model = NoModel
    /\ \A s \in Slot : NoEntry.vector[s].model = NoModel /\ NoEntry.vector[s].version = 0
  BY DEF NoEntry, NoVector

\* Only a commit of index_item and the record of reindex_all write the index.
LEMMA IndexSteps ==
    ASSUME NEW w \in Worker, WorkerStep(w)
    PROVE  Store(w) \/ Record(w) \/ index' = index
  BY DEF WorkerStep, JobStep, FullStep, Start, Load, Answer, AnswerFails, AnswerAgain,
         StartFull, Probe, SendNext, SendNextFails, SendNone, Requeue, GiveUp

\* What a commit leaves of the item, and of the others.
LEMMA Stored ==
    ASSUME TypeOK, PlacesOK, NEW w \in Worker, Store(w)
    PROVE  LET r == run[w] IN
           /\ r.pc = "ready" /\ r.item \in Item /\ run'[w] = Idle
           /\ \A i \in Item \ {r.item} : index'[i] = index[i]
           /\ ~r.live => index'[r.item] = NoEntry
           /\ r.live =>
                 /\ index'[r.item].model = r.model
                 /\ \A s \in Slot : index'[r.item].vector[s] =
                       IF s \in r.embedded THEN [version |-> r.seen[s], model |-> r.model]
                       ELSE index[r.item].vector[s]
  <1>. DEFINE r == run[w]
              new == IF ~r.live THEN NoEntry
                     ELSE [vector |-> [s \in Slot |->
                                          IF s \in r.embedded
                                          THEN [version |-> r.seen[s], model |-> r.model]
                                          ELSE index[r.item].vector[s]],
                           model |-> r.model]
  <1>1. /\ r.pc = "ready" /\ run' = [run EXCEPT ![w] = Idle]
        /\ index' = [index EXCEPT ![r.item] = new]
    BY DEF Store
  <1>2. r.item \in Item
    BY <1>1 DEF PlacesOK, AtItem
  <1>3. /\ ~r.live => new = NoEntry
        /\ r.live =>
              /\ new.model = r.model
              /\ \A s \in Slot : new.vector[s] =
                    IF s \in r.embedded THEN [version |-> r.seen[s], model |-> r.model]
                    ELSE index[r.item].vector[s]
    OBVIOUS
  <1>. HIDE DEF new
  <1>4. index'[r.item] = new /\ \A i \in Item \ {r.item} : index'[i] = index[i]
    BY <1>1, <1>2 DEF TypeOK
  <1>. QED BY <1>1, <1>2, <1>3, <1>4, RunNow

\* What an answer leaves of the vectors it does not replace.
LEMMA Answered ==
    ASSUME TypeOK, NEW w \in Worker, Answer(w)
    PROVE  LET r == run[w]
               n == run'[w] IN
           /\ r.pc = "loaded"
           /\ n.item = r.item /\ n.seen = r.seen /\ n.live = r.live
           /\ n.pc \in {"again", "ready"}
           /\ n.pc = "ready" => \A s \in Slot :
                 /\ n.model # NoModel
                 /\ s \notin n.embedded =>
                       index[r.item].vector[s] = [version |-> r.seen[s], model |-> n.model]
  <1>. DEFINE r == run[w]
              new == {s \in Slot : ~Reusable(w, s)}
              m == IF new = {} THEN r.config.model ELSE serves[r.config.endpoint]
              other == m # r.config.model
              pc == IF other /\ new # Slot THEN "again" ELSE "ready"
              n == [r EXCEPT !.pc = pc, !.embedded = new, !.model = m,
                             !.saved = IF other THEN m ELSE NoModel]
  <1>1. r.pc = "loaded" /\ run' = [run EXCEPT ![w] = n]
    BY DEF Answer
  <1>2. r \in Run /\ serves[r.config.endpoint] \in Model
    BY RunFields DEF TypeOK, Config
  <1>3. \A s \in Slot \ new :
          /\ r.config.model # NoModel
          /\ index[r.item].vector[s] = [version |-> r.seen[s], model |-> r.config.model]
    BY DEF Reusable
  <1>4. ASSUME pc = "ready", NEW s \in Slot
        PROVE  /\ m # NoModel
               /\ s \notin new => m = r.config.model
    <2>1. CASE s \notin new
      BY <1>3, <1>4, <2>1
    <2>2. CASE s \in new
      BY <1>2, <2>2, NullAssumption
    <2>. QED BY <2>1, <2>2
  <1>5. pc \in {"again", "ready"} /\ n.pc = pc /\ n.item = r.item /\ n.seen = r.seen /\ n.live = r.live
        /\ n.embedded = new /\ n.model = m
    BY <1>2 DEF Run
  <1>. HIDE DEF n, m, new, pc
  <1>6. run'[w] = n
    BY <1>1, RunNow
  <1>. QED BY <1>1, <1>3, <1>4, <1>5, <1>6

LEMMA ModelsStep ==
    ASSUME TypeOK, PlacesOK, OneHolder, ModelsOK, [Next]_vars
    PROVE  ModelsOK'
  <1>1. CASE OtherStep
    BY <1>1, OtherStepsKeep DEF ModelsOK, OneModel, Fits
  <1>2. ASSUME NEW w \in Worker, WorkerStep(w) PROVE ModelsOK'
    <2>0. (\A v \in Worker \ {w} : run'[v] = run[v]) /\ Goes(w)
      BY <1>2, WorkerGoes
    <2>1. ASSUME NEW i \in Item PROVE OneModel(i)'
      <3>1. CASE index'[i] = index[i]
        BY <3>1 DEF ModelsOK, OneModel
      <3>2. CASE index'[i] = NoEntry
        BY <3>2, NoEntryFields DEF OneModel
      <3>3. CASE Store(w) /\ i = run[w].item /\ run[w].live
        <4>1. ASSUME NEW s \in Slot
              PROVE  index'[i].vector[s].model \in {NoModel, index'[i].model}
          <5>1. /\ index'[i].model = run[w].model
                /\ index'[i].vector[s] = IF s \in run[w].embedded
                                         THEN [version |-> run[w].seen[s], model |-> run[w].model]
                                         ELSE index[i].vector[s]
            BY <3>3, Stored
          <5>2. s \notin run[w].embedded =>
                   index[i].vector[s].model \in {NoModel, run[w].model}
            BY <3>3, Stored DEF ModelsOK, Fits
          <5>. QED BY <5>1, <5>2
        <4>. QED BY <4>1 DEF OneModel
      <3>4. \/ index'[i] = index[i]
            \/ index'[i] = NoEntry
            \/ Store(w) /\ i = run[w].item /\ run[w].live
        BY <1>2, IndexSteps, Stored DEF Record
      <3>. QED BY <3>1, <3>2, <3>3, <3>4
    <2>2. ASSUME NEW v \in Worker \ {w} PROVE Fits(v)'
      <3>1. SUFFICES ASSUME run[v].pc = "ready", run[v].live, NEW s \in Slot,
                            s \notin run[v].embedded
                     PROVE  index'[run[v].item].vector[s].model \in {NoModel, run[v].model}
        BY <2>0 DEF Fits, ModelsOK
      <3>2. run[v].item \in Item
        BY <3>1 DEF PlacesOK, AtItem
      <3>3. \/ index'[run[v].item] = index[run[v].item]
            \/ index'[run[v].item] = NoEntry
            \/ Store(w) /\ run[v].item = run[w].item
        BY <1>2, <3>2, IndexSteps, Stored DEF Record
      <3>4. ~(Store(w) /\ run[v].item = run[w].item)
        BY <3>1, Stored DEF OneHolder, Holding
      <3>. QED BY <3>1, <3>3, <3>4, NoEntryFields DEF ModelsOK, Fits
    <2>3. Fits(w)'
      <3>1. SUFFICES ASSUME run'[w].pc = "ready", run'[w].live PROVE Fits(w)'
        BY DEF Fits
      <3>2. Load(w) \/ Answer(w) \/ AnswerAgain(w)
        <4>1. ~(run'[w] = Idle)
          BY <3>1, IdleFields
        <4>2. run[w].pc \in {"started", "loaded", "again"}
          BY <2>0, <3>1, <4>1 DEF Goes
        <4>3. run' # [run EXCEPT ![w] = Idle]
          BY <4>1, RunNow
        <4>. QED BY <1>2, <4>2, <4>3
             DEF WorkerStep, JobStep, FullStep, Start, AnswerFails, Store, StartFull, Probe, Record,
                 SendNext, SendNextFails, SendNone, Requeue, GiveUp
      <3>3. CASE Load(w)
        <4>. DEFINE i == run[w].item
                    pc == IF i \in trashed THEN "ready" ELSE "loaded"
                    live == i \notin trashed
                    n == [run[w] EXCEPT !.pc = pc, !.config = config, !.seen = text[i], !.live = live]
        <4>1. run' = [run EXCEPT ![w] = n]
          BY <3>3 DEF Load
        <4>2. n.pc = pc /\ n.live = live
          BY DEF TypeOK, Run
        <4>3. run'[w] = n
          BY <4>1, RunNow
        <4>. HIDE DEF n
        <4>. QED BY <3>1, <4>2, <4>3
      <3>4. CASE Answer(w)
        <4>1. /\ run'[w].item = run[w].item
              /\ \A s \in Slot :
                    /\ run'[w].model # NoModel
                    /\ s \notin run'[w].embedded =>
                          index[run[w].item].vector[s] =
                              [version |-> run[w].seen[s], model |-> run'[w].model]
          BY <3>1, <3>4, Answered
        <4>2. index' = index
          BY <3>4 DEF Answer
        <4>3. ASSUME NEW s \in Slot, s \notin run'[w].embedded
              PROVE  index'[run'[w].item].vector[s].model = run'[w].model
          <5>1. index[run[w].item].vector[s] =
                   [version |-> run[w].seen[s], model |-> run'[w].model]
            BY <4>1, <4>3
          <5>2. index[run[w].item].vector[s].model = run'[w].model
            BY <5>1
          <5>. QED BY <4>1, <4>2, <5>2
        <4>. QED BY <4>1, <4>3 DEF Fits
      <3>5. CASE AnswerAgain(w)
        <4>1. run[w] \in Run /\ serves[run[w].config.endpoint] \in Model
          BY RunFields DEF TypeOK, Config
        <4>2. run'[w].embedded = Slot /\ run'[w].model = serves[run[w].config.endpoint]
          BY <3>5, <4>1 DEF AnswerAgain, TypeOK, Run
        <4>. QED BY <4>1, <4>2, NullAssumption DEF Fits
      <3>. QED BY <3>2, <3>3, <3>4, <3>5
    <2>. QED BY <2>1, <2>2, <2>3 DEF ModelsOK
  <1>. QED BY <1>1, <1>2, StepKinds

(***************************************************************************)
(* Jobs on their way                                                       *)
(***************************************************************************)
\* A set guard stands for a job that waits, or for one that a fault took.
GuardHasJob == \A i \in guard : queue[i] > 0 \/ i \in dropped

\* Settings are saved by requests that change no item.
TypedAlone == \A q \in Request : request[q].typed # <<>> => request[q].todo = {}

\* What a step does to the guard, the queue and the losses of item j.
QueueStep(j) ==
    \/ /\ queue'[j] >= queue[j]
       /\ j \in dropped => j \in dropped'
       /\ j \in guard' => j \in guard \/ queue'[j] > 0 \/ j \in dropped'
    \/ /\ j \notin guard'
       /\ \E w \in Worker : Start(w, j)

LEMMA DispatchQueues ==
    ASSUME TypeOK, NEW i \in Item, NEW j \in Item
    PROVE  /\ Dispatch(i) => /\ queue'[j] >= queue[j]
                             /\ j \in guard' => j \in guard \/ queue'[j] > 0
                             /\ i \in guard'
           /\ DispatchFails(i) => /\ queue' = queue
                                  /\ guard' = guard \cup {i}
  BY DEF TypeOK, Dispatch, DispatchFails

LEMMA FaultDrops ==
    ASSUME NEW D, Fault(D)
    PROVE  dropped' = dropped \cup D
  BY DEF Fault

LEMMA RequestQueues ==
    ASSUME TypeOK, NEW q \in Request, RequestStep(q), NEW j \in Item
    PROVE  QueueStep(j)
  <1>1. ASSUME NEW i \in Item, SendAfterCommit(q, i) PROVE QueueStep(j)
    BY <1>1, DispatchQueues DEF SendAfterCommit, QueueStep, faultVars
  <1>2. ASSUME NEW i \in Item, SendFails(q, i) PROVE QueueStep(j)
    <2>1. queue' = queue /\ guard' = guard \cup {i} /\ i \in dropped' /\ dropped \subseteq dropped'
      BY <1>2, DispatchQueues, FaultDrops DEF SendFails
    <2>. QED BY <2>1 DEF QueueStep, TypeOK
  <1>3. ASSUME AskReindex(q) PROVE QueueStep(j)
    BY <1>3 DEF AskReindex, RequestReindex, QueueStep, faultVars, TypeOK
  <1>4. ASSUME RequestDies(q) PROVE QueueStep(j)
    BY <1>4, FaultDrops DEF RequestDies, QueueStep, queueVars, TypeOK
  <1>5. ASSUME UNCHANGED <<guard, queue, dropped>> PROVE QueueStep(j)
    BY <1>5 DEF QueueStep, TypeOK
  <1>6. ASSUME \/ SaveSettings(q) \/ \E e \in Endpoint : ProbeSettings(q, e)
               \/ \E I \in SUBSET Item, s \in Slot : Edit(q, I, s)
               \/ \E i \in Item : SetDeleted(q, i)
        PROVE  QueueStep(j)
    BY <1>5, <1>6 DEF SaveSettings, ProbeSettings, Edit, SetDeleted, queueVars, faultVars
  <1>. QED BY <1>1, <1>2, <1>3, <1>4, <1>6 DEF RequestStep

LEMMA WorkerQueues ==
    ASSUME TypeOK, PlacesOK, NEW w \in Worker, WorkerStep(w), NEW j \in Item
    PROVE  QueueStep(j)
  <1>1. ASSUME NEW i \in Item, Start(w, i) PROVE QueueStep(j)
    <2>1. CASE j = i
      BY <1>1, <2>1 DEF Start, QueueStep
    <2>2. CASE j # i
      BY <1>1, <2>2 DEF Start, QueueStep, TypeOK
    <2>. QED BY <2>1, <2>2
  <1>2. ASSUME UNCHANGED <<guard, queue, dropped>> PROVE QueueStep(j)
    BY <1>2 DEF QueueStep, TypeOK
  <1>3. ASSUME Answer(w) PROVE QueueStep(j)
    BY <1>2, <1>3 DEF Answer, RequestReindex, queueVars, faultVars
  <1>4. ASSUME AnswerFails(w) PROVE QueueStep(j)
    BY <1>4, FaultDrops DEF AnswerFails, RequestReindexFails, QueueStep, TypeOK
  <1>5. ASSUME NEW i \in Item, SendNext(w, i) PROVE QueueStep(j)
    BY <1>5, DispatchQueues DEF SendNext, QueueStep, faultVars
  <1>6. ASSUME NEW i \in Item, SendNextFails(w, i) PROVE QueueStep(j)
    <2>1. queue' = queue /\ guard' = guard \cup {i} /\ i \in dropped' /\ dropped \subseteq dropped'
      BY <1>6, DispatchQueues, FaultDrops DEF SendNextFails
    <2>. QED BY <2>1 DEF QueueStep, TypeOK
  <1>7. ASSUME Requeue(w) PROVE QueueStep(j)
    <2>1. run[w].item \in Item \cup {NoItem}
      BY RunFields DEF TypeOK
    <2>2. queue'[j] >= queue[j]
      BY <1>7, <2>1 DEF Requeue, TypeOK
    <2>. QED BY <1>7, <2>2, FaultDrops DEF Requeue, QueueStep
  <1>8. ASSUME GiveUp(w) PROVE QueueStep(j)
    BY <1>8, FaultDrops DEF GiveUp, QueueStep, queueVars, TypeOK
  <1>9. ASSUME \/ Load(w) \/ AnswerAgain(w) \/ Store(w)
               \/ StartFull(w) \/ Probe(w) \/ Record(w) \/ SendNone(w)
        PROVE  QueueStep(j)
    BY <1>2, <1>9 DEF Load, AnswerAgain, Store, StartFull, Probe, Record, SendNone, queueVars, faultVars
  <1>. QED BY <1>1, <1>3, <1>4, <1>5, <1>6, <1>7, <1>8, <1>9 DEF WorkerStep, JobStep, FullStep

LEMMA Queues ==
    ASSUME TypeOK, PlacesOK, [Next]_vars, NEW j \in Item
    PROVE  QueueStep(j)
  <1>1. CASE OtherStep
    <2>1. ASSUME UNCHANGED <<guard, queue, dropped>> PROVE QueueStep(j)
      BY <2>1 DEF QueueStep, TypeOK
    <2>2. ASSUME NEW i \in Item, GuardExpires(i) PROVE QueueStep(j)
      BY <2>2 DEF GuardExpires, QueueStep, TypeOK, faultVars
    <2>3. ASSUME SearchFails PROVE QueueStep(j)
      BY <2>3, FaultDrops DEF SearchFails, RequestReindexFails, QueueStep, TypeOK
    <2>4. ASSUME \/ FullGuardExpires \/ Search \/ UNCHANGED vars
                 \/ \E e \in Endpoint, m \in Model : SwapModel(e, m)
          PROVE  QueueStep(j)
      BY <2>1, <2>4 DEF FullGuardExpires, Search, RequestReindex, SwapModel, vars, queueVars, faultVars
    <2>. QED BY <1>1, <2>2, <2>3, <2>4, RequestQueues DEF OtherStep
  <1>. QED BY <1>1, StepKinds, WorkerQueues

LEMMA GuardStep ==
    ASSUME TypeOK, PlacesOK, GuardHasJob, [Next]_vars
    PROVE  GuardHasJob'
  <1>1. TypeOK'
    BY TypeStep
  <1>2. SUFFICES ASSUME NEW j \in guard' PROVE queue'[j] > 0 \/ j \in dropped'
    BY DEF GuardHasJob
  <1>3. j \in Item /\ queue[j] \in Nat /\ queue'[j] \in Nat
    BY <1>1, <1>2 DEF TypeOK
  <1>. QED BY <1>2, <1>3, Queues DEF QueueStep, GuardHasJob

\* A request lets go of an item by sending its job or by losing it.
LEMMA TodoKept ==
    ASSUME TypeOK, TypedAlone, [Next]_vars, NEW q \in Request, NEW j \in request[q].todo
    PROVE  j \in request'[q].todo \/ j \in guard' \/ j \in dropped'
  <1>0. request[q] # NoRequest /\ request[q].typed = <<>> /\ request[q] \in RequestState
    BY NoRequestFields DEF TypedAlone, TypeOK
  <1>1. CASE request'[q] = request[q]
    BY <1>1
  <1>2. CASE \E p \in Request : RequestStep(p)
    <2>1. PICK p \in Request : RequestStep(p)
      BY <1>2
    <2>2. ASSUME NEW r, request' = [request EXCEPT ![p] = r], r.todo = request[p].todo \/ p # q
          PROVE  j \in request'[q].todo
      BY <2>2 DEF TypeOK
    <2>3. ASSUME NEW I \in SUBSET Item, NEW s \in Slot, Edit(p, I, s) PROVE j \in request'[q].todo
      BY <1>0, <2>2, <2>3 DEF Edit, Ready
    <2>4. ASSUME NEW i \in Item, SetDeleted(p, i) PROVE j \in request'[q].todo
      BY <1>0, <2>2, <2>4 DEF SetDeleted, Ready
    <2>5. ASSUME NEW i \in Item, SendAfterCommit(p, i)
          PROVE  j \in request'[q].todo \/ j \in guard'
      BY <1>0, <2>5 DEF SendAfterCommit, Dispatch, TypeOK, RequestState
    <2>6. ASSUME NEW i \in Item, SendFails(p, i)
          PROVE  j \in request'[q].todo \/ j \in dropped'
      BY <2>2, <2>6, FaultDrops DEF SendFails
    <2>7. ASSUME NEW e \in Endpoint, ProbeSettings(p, e) PROVE j \in request'[q].todo
      BY <1>0, <2>2, <2>7 DEF ProbeSettings, Ready
    <2>8. ASSUME SaveSettings(p) PROVE j \in request'[q].todo
      BY <1>0, <2>2, <2>8 DEF SaveSettings
    <2>9. ASSUME AskReindex(p) PROVE j \in request'[q].todo
      BY <1>0, <2>9 DEF AskReindex, TypeOK, RequestState
    <2>10. ASSUME RequestDies(p) PROVE j \in request'[q].todo \/ j \in dropped'
      <3>1. request[q].todo \subseteq Item
        BY <1>0, RequestFields
      <3>. QED BY <2>2, <2>10, <3>1, FaultDrops DEF RequestDies
    <2>. QED BY <2>1, <2>3, <2>4, <2>5, <2>6, <2>7, <2>8, <2>9, <2>10 DEF RequestStep
  <1>3. request' = request \/ \E p \in Request : RequestStep(p)
    <2>1. ASSUME NEW w \in Worker, WorkerStep(w) PROVE request' = request
      BY <2>1, WorkerGoes
    <2>. QED BY <2>1, StepKinds DEF OtherStep, GuardExpires, FullGuardExpires, Search, SearchFails,
                                    SwapModel, vars
  <1>. QED BY <1>1, <1>2, <1>3

LEMMA TypedStep ==
    ASSUME TypeOK, TypedAlone, [Next]_vars
    PROVE  TypedAlone'
  <1>1. ASSUME NEW p \in Request, RequestStep(p) PROVE TypedAlone'
    <2>0. request[p] \in RequestState
      BY DEF TypeOK
    <2>1. ASSUME NEW r, request' = [request EXCEPT ![p] = r], r.typed # <<>> => r.todo = {}
          PROVE  TypedAlone'
      BY <2>1 DEF TypeOK, TypedAlone
    <2>2. ASSUME NEW I, request' = [request EXCEPT ![p].todo = I],
                 request[p].typed = <<>> \/ I \subseteq request[p].todo
          PROVE  TypedAlone'
      BY <2>0, <2>2 DEF TypeOK, TypedAlone, RequestState
    <2>3. ASSUME NEW I \in SUBSET Item, NEW s \in Slot, Edit(p, I, s) PROVE TypedAlone'
      BY <2>2, <2>3, NoRequestFields DEF Edit, Ready
    <2>4. ASSUME NEW i \in Item, SetDeleted(p, i) PROVE TypedAlone'
      BY <2>2, <2>4, NoRequestFields DEF SetDeleted, Ready
    <2>5. ASSUME NEW i \in Item, SendAfterCommit(p, i) PROVE TypedAlone'
      <3>1. request' = [request EXCEPT ![p].todo = request[p].todo \ {i}]
        BY <2>5 DEF SendAfterCommit
      <3>. QED BY <2>2, <3>1
    <2>6. ASSUME NEW i \in Item, SendFails(p, i) PROVE TypedAlone'
      BY <2>2, <2>6 DEF SendFails
    <2>7. ASSUME NEW e \in Endpoint, ProbeSettings(p, e) PROVE TypedAlone'
      <3>1. PICK t : request' = [request EXCEPT ![p] = [request[p] EXCEPT !.typed = t]]
        BY <2>7 DEF ProbeSettings
      <3>2. request[p].todo = {}
        BY <2>7, NoRequestFields DEF ProbeSettings, Ready
      <3>3. [request[p] EXCEPT !.typed = t].todo = {}
        BY <2>0, <3>2 DEF RequestState
      <3>. QED BY <2>1, <3>1, <3>3
    <2>8. ASSUME SaveSettings(p) PROVE TypedAlone'
      <3>1. PICK b : request' = [request EXCEPT ![p] = [NoRequest EXCEPT !.reindex = b]]
        BY <2>8 DEF SaveSettings
      <3>2. [NoRequest EXCEPT !.reindex = b].todo = {}
        BY DEF NoRequest
      <3>. QED BY <2>1, <3>1, <3>2
    <2>9. ASSUME AskReindex(p) PROVE TypedAlone'
      BY <2>0, <2>9 DEF AskReindex, TypeOK, TypedAlone, RequestState
    <2>10. ASSUME RequestDies(p) PROVE TypedAlone'
      BY <2>1, <2>10, NoRequestFields DEF RequestDies
    <2>. QED BY <1>1, <2>3, <2>4, <2>5, <2>6, <2>7, <2>8, <2>9, <2>10 DEF RequestStep
  <1>2. ASSUME request' = request PROVE TypedAlone'
    BY <1>2 DEF TypedAlone
  <1>3. request' = request \/ \E p \in Request : RequestStep(p)
    <2>1. ASSUME NEW w \in Worker, WorkerStep(w) PROVE request' = request
      BY <2>1, WorkerGoes
    <2>. QED BY <2>1, StepKinds DEF OtherStep, GuardExpires, FullGuardExpires, Search, SearchFails,
                                    SwapModel, vars
  <1>. QED BY <1>1, <1>2, <1>3

\* A job of item i waits, or has not read the item yet.
Coming(i) ==
    \/ queue[i] > 0
    \/ \E q \in Request : i \in request[q].todo
    \/ \E w \in Worker : run[w].item = i /\ run[w].pc = "started"

Sent(i) == Coming(i) \/ i \in dropped

LEMMA GuardSent ==
    ASSUME GuardHasJob, NEW i \in guard
    PROVE  Sent(i)
  BY DEF GuardHasJob, Sent, Coming

\* A job that waits is lost only to a fault, and until it reads the item.
LEMMA SentStep ==
    ASSUME TypeOK, PlacesOK, GuardHasJob, TypedAlone, [Next]_vars, NEW i \in Item, Sent(i)
    PROVE  Sent(i)' \/ \E w \in Worker : Load(w) /\ run[w].item = i
  <1>0. TypeOK' /\ GuardHasJob' /\ QueueStep(i)
    BY TypeStep, GuardStep, Queues
  <1>1. CASE \E w \in Worker : Start(w, i)
    <2>1. PICK w \in Worker : Start(w, i)
      BY <1>1
    <2>2. run'[w].pc = "started" /\ run'[w].item = i
      <3>1. run'[w] = [Idle EXCEPT !.pc = "started", !.item = i]
        BY <2>1, RunNow DEF Start
      <3>. QED BY <3>1 DEF Idle
    <2>. QED BY <2>2 DEF Sent, Coming
  <1>2. CASE queue'[i] >= queue[i] /\ (i \in dropped => i \in dropped')
    <2>1. CASE queue[i] > 0
      <3>1. queue[i] \in Nat /\ queue'[i] \in Nat
        BY <1>0 DEF TypeOK
      <3>2. queue'[i] > 0
        BY <1>2, <2>1, <3>1
      <3>. QED BY <3>2 DEF Sent, Coming
    <2>2. CASE i \in dropped
      BY <1>2, <2>2 DEF Sent
    <2>3. ASSUME NEW q \in Request, i \in request[q].todo
          PROVE  Sent(i)'
      <3>1. i \in request'[q].todo \/ i \in guard' \/ i \in dropped'
        BY <2>3, TodoKept
      <3>. QED BY <1>0, <3>1 DEF Sent, Coming, GuardHasJob
    <2>4. ASSUME NEW w \in Worker, run[w].item = i, run[w].pc = "started"
          PROVE  Sent(i)' \/ Load(w)
      <3>1. CASE run'[w] = run[w]
        BY <2>4, <3>1 DEF Sent, Coming
      <3>2. CASE WorkerStep(w)
        <4>1. Load(w) \/ Requeue(w) \/ GiveUp(w)
          BY <2>4, <3>2 DEF WorkerStep, JobStep, FullStep, Start, Answer, AnswerFails, AnswerAgain,
                            Store, StartFull, Probe, Record, SendNext, SendNextFails, SendNone
        <4>2. CASE Requeue(w)
          <5>1. queue'[i] > 0
            BY <2>4, <4>2, NullAssumption DEF Requeue, TypeOK
          <5>. QED BY <5>1 DEF Sent, Coming
        <4>3. CASE GiveUp(w)
          BY <2>4, <4>3, NullAssumption, FaultDrops DEF GiveUp, Sent
        <4>. QED BY <4>1, <4>2, <4>3
      <3>3. run'[w] = run[w] \/ WorkerStep(w)
        BY StepKinds, OtherStepsKeep, WorkerGoes
      <3>. QED BY <3>1, <3>2, <3>3
    <2>. QED BY <2>1, <2>2, <2>3, <2>4 DEF Sent, Coming
  <1>. QED BY <1>0, <1>1, <1>2 DEF QueueStep

(***************************************************************************)
(* Jobs past the lock                                                      *)
(***************************************************************************)
\* What the job of worker w read is what is committed now.
Current(w) ==
    /\ run[w].live = (run[w].item \notin trashed)
    /\ run[w].live => run[w].seen = text[run[w].item]

\* The vectors it keeps are of the texts it read.
KeptFresh(w) ==
    run[w].pc = "ready" /\ run[w].live =>
        \A s \in Slot \ run[w].embedded :
            index[run[w].item].vector[s].version = run[w].seen[s]

\* A job past the lock read the newest texts, or another one will.
HoldersKnow ==
    \A w \in Worker : run[w].pc \in Holding => Sent(run[w].item) \/ (Current(w) /\ KeptFresh(w))

\* A step that changes an item sends a job for it.
LEMMA ItemStep ==
    ASSUME TypeOK, [Next]_vars, NEW i \in Item
    PROVE  Sent(i)' \/ (text'[i] = text[i] /\ (i \in trashed' <=> i \in trashed))
  <1>1. ASSUME NEW q \in Request, NEW I \in SUBSET Item, NEW s \in Slot, Edit(q, I, s)
        PROVE  Sent(i)' \/ (text'[i] = text[i] /\ (i \in trashed' <=> i \in trashed))
    <2>1. CASE i \in I
      <3>1. request'[q].todo = I
        BY <1>1 DEF Edit, TypeOK, RequestState
      <3>. QED BY <2>1, <3>1 DEF Sent, Coming
    <2>2. CASE i \notin I
      BY <1>1, <2>2 DEF Edit
    <2>. QED BY <2>1, <2>2
  <1>2. ASSUME NEW q \in Request, NEW j \in Item, SetDeleted(q, j)
        PROVE  Sent(i)' \/ (text'[i] = text[i] /\ (i \in trashed' <=> i \in trashed))
    <2>1. CASE i = j
      <3>1. request'[q].todo = {j}
        BY <1>2 DEF SetDeleted, TypeOK, RequestState
      <3>. QED BY <2>1, <3>1 DEF Sent, Coming
    <2>2. CASE i # j
      BY <1>2, <2>2 DEF SetDeleted
    <2>. QED BY <2>1, <2>2
  <1>3. ASSUME OtherStep
        PROVE  \/ UNCHANGED <<text, trashed>>
               \/ \E q \in Request, I \in SUBSET Item, s \in Slot : Edit(q, I, s)
               \/ \E q \in Request, j \in Item : SetDeleted(q, j)
    BY <1>3 DEF OtherStep, RequestStep, SendAfterCommit, SendFails, ProbeSettings, SaveSettings,
                AskReindex, RequestDies, GuardExpires, FullGuardExpires, Search, SearchFails,
                SwapModel, itemVars, vars
  <1>4. ASSUME NEW w \in Worker, WorkerStep(w) PROVE UNCHANGED <<text, trashed>>
    BY <1>4, WorkerGoes
  <1>. QED BY <1>1, <1>2, <1>3, <1>4, StepKinds

\* A job that holds the lock loses it or goes on with what it read.
LEMMA HolderGoes ==
    ASSUME TypeOK, NEW w \in Worker, WorkerStep(w), run[w].pc \in Holding
    PROVE  \/ Answer(w) \/ AnswerAgain(w)
           \/ Store(w)
           \/ AnswerFails(w) \/ Requeue(w) \/ GiveUp(w)
  BY DEF WorkerStep, JobStep, FullStep, Start, Load, StartFull, Probe, Record, SendNext,
         SendNextFails, SendNone, Holding

LEMMA AskedAgain ==
    ASSUME TypeOK, NEW w \in Worker, AnswerAgain(w)
    PROVE  LET r == run[w]
               n == run'[w] IN
           /\ r.pc = "again" /\ n.pc = "ready" /\ n.embedded = Slot
           /\ n.item = r.item /\ n.seen = r.seen /\ n.live = r.live
  BY DEF AnswerAgain, TypeOK, Run

\* What a job has read once it is past the lock.
LEMMA Loaded ==
    ASSUME TypeOK, NEW w \in Worker, Load(w)
    PROVE  LET n == run'[w] IN
           /\ n.item = run[w].item /\ n.pc \in Holding
           /\ n.seen = text[run[w].item] /\ n.live = (run[w].item \notin trashed)
           /\ n.pc = "ready" => ~n.live
  <1>. DEFINE i == run[w].item
              pc == IF i \in trashed THEN "ready" ELSE "loaded"
              live == i \notin trashed
              n == [run[w] EXCEPT !.pc = pc, !.config = config, !.seen = text[i], !.live = live]
  <1>1. run' = [run EXCEPT ![w] = n]
    BY DEF Load
  <1>2. n.pc = pc /\ n.live = live /\ n.item = i /\ n.seen = text[i]
    BY DEF TypeOK, Run
  <1>3. run'[w] = n
    BY <1>1, RunNow
  <1>. HIDE DEF n
  <1>. QED BY <1>2, <1>3 DEF Holding

\* While a job holds the lock nobody else reads the item.
LEMMA HeldSent ==
    ASSUME TypeOK, PlacesOK, GuardHasJob, TypedAlone, [Next]_vars,
           NEW v \in Worker, NEW i \in Item, run[v].pc \in Holding, run[v].item = i, Sent(i)
    PROVE  Sent(i)'
  <1>1. ASSUME NEW w \in Worker, Load(w), run[w].item = i PROVE FALSE
    BY <1>1 DEF Load, Locked, Holding
  <1>. QED BY <1>1, SentStep

LEMMA HoldersStep ==
    ASSUME TypeOK, PlacesOK, OneHolder, GuardHasJob, TypedAlone, HoldersKnow, [Next]_vars
    PROVE  HoldersKnow'
  <1>1. ASSUME NEW v \in Worker, run'[v] = run[v], run[v].pc \in Holding,
               NEW i \in Item, run[v].item = i
        PROVE  Sent(i)' \/ (Current(v) /\ KeptFresh(v))'
    <2>1. SUFFICES ASSUME ~Sent(i)' PROVE Current(v)' /\ KeptFresh(v)'
      OBVIOUS
    <2>2. Current(v) /\ KeptFresh(v)
      BY <1>1, <2>1, HeldSent DEF HoldersKnow
    <2>3. text'[i] = text[i] /\ (i \in trashed' <=> i \in trashed)
      BY <2>1, ItemStep
    <2>4. Current(v)'
      BY <1>1, <2>2, <2>3 DEF Current
    <2>5. CASE run[v].pc # "ready" \/ ~run[v].live
      BY <1>1, <2>5, <2>4 DEF KeptFresh
    <2>6. CASE run[v].pc = "ready" /\ run[v].live
      <3>1. index'[i] = index[i]
        <4>1. CASE OtherStep
          BY <4>1, OtherStepsKeep
        <4>2. ASSUME NEW w \in Worker, WorkerStep(w) PROVE index'[i] = index[i]
          <5>1. CASE Record(w)
            BY <1>1, <2>2, <2>6, <5>1 DEF Record, Current, TypeOK
          <5>2. CASE Store(w)
            <6>1. run[w].pc = "ready" /\ run'[w] = Idle
              BY <5>2, Stored
            <6>2. v # w
              BY <1>1, <2>6, <6>1, IdleFields
            <6>3. run[w].item # i
              BY <1>1, <6>1, <6>2 DEF OneHolder, Holding
            <6>. QED BY <5>2, <6>3, Stored
          <5>. QED BY <4>2, <5>1, <5>2, IndexSteps
        <4>. QED BY <4>1, <4>2, StepKinds
      <3>. QED BY <1>1, <2>2, <2>4, <3>1 DEF KeptFresh
    <2>. QED BY <2>4, <2>5, <2>6
  <1>2. ASSUME NEW w \in Worker, WorkerStep(w), run'[w].pc \in Holding,
               NEW i \in Item, run[w].item = i
        PROVE  /\ run'[w].item = i
               /\ Sent(i)' \/ (Current(w) /\ KeptFresh(w))'
    <2>0. UNCHANGED <<text, trashed, request>>
      BY <1>2, WorkerGoes
    <2>1. CASE Load(w)
      BY <1>2, <2>0, <2>1, Loaded DEF Current, KeptFresh
    <2>2. CASE Answer(w)
      <3>1. /\ run[w].pc \in Holding /\ run'[w].item = i
            /\ run'[w].seen = run[w].seen /\ run'[w].live = run[w].live
        BY <1>2, <2>2, Answered DEF Holding
      <3>2. CASE Sent(i)
        BY <1>2, <3>1, <3>2, HeldSent
      <3>3. CASE Current(w)
        <4>1. Current(w)'
          BY <1>2, <2>0, <3>1, <3>3 DEF Current
        <4>2. ASSUME run'[w].pc = "ready", NEW s \in Slot \ run'[w].embedded
              PROVE  index'[i].vector[s].version = run'[w].seen[s]
          <5>1. index[i].vector[s] = [version |-> run[w].seen[s], model |-> run'[w].model]
            BY <1>2, <2>2, <4>2, Answered
          <5>2. index' = index
            BY <2>2 DEF Answer
          <5>. QED BY <3>1, <5>1, <5>2
        <4>. QED BY <3>1, <4>1, <4>2 DEF KeptFresh
      <3>. QED BY <1>2, <3>1, <3>2, <3>3 DEF HoldersKnow
    <2>3. CASE AnswerAgain(w)
      <3>1. /\ run[w].pc \in Holding /\ run'[w].item = i /\ run'[w].embedded = Slot
            /\ run'[w].seen = run[w].seen /\ run'[w].live = run[w].live
        BY <1>2, <2>3, AskedAgain DEF Holding
      <3>2. CASE Sent(i)
        BY <1>2, <3>1, <3>2, HeldSent
      <3>3. CASE Current(w)
        BY <1>2, <2>0, <3>1, <3>3 DEF Current, KeptFresh
      <3>. QED BY <1>2, <3>1, <3>2, <3>3 DEF HoldersKnow
    <2>4. Load(w) \/ Answer(w) \/ AnswerAgain(w)
      <3>1. Goes(w)
        BY <1>2, WorkerGoes
      <3>2. run[w].pc = "started" \/ run[w].pc \in Holding
        BY <1>2, <3>1, IdleFields DEF Goes, Holding
      <3>3. run' # [run EXCEPT ![w] = Idle]
        BY <1>2, RunNow, IdleFields DEF Holding
      <3>. QED BY <1>2, <3>2, <3>3
           DEF WorkerStep, JobStep, FullStep, Start, AnswerFails, Store, StartFull, Probe, Record,
               SendNext, SendNextFails, SendNone, Requeue, GiveUp, Holding
    <2>. QED BY <2>1, <2>2, <2>3, <2>4
  <1>3. SUFFICES ASSUME NEW v \in Worker, run'[v].pc \in Holding
                 PROVE  (Sent(run[v].item) \/ (Current(v) /\ KeptFresh(v)))'
    BY DEF HoldersKnow
  <1>4. PlacesOK' /\ run'[v].item \in Item
    BY <1>3, PlacesStep DEF PlacesOK, Holding, AtItem
  <1>5. CASE run'[v] = run[v]
    BY <1>1, <1>3, <1>4, <1>5 DEF Sent, Coming
  <1>6. CASE WorkerStep(v)
    <2>1. run[v].item = run'[v].item
      BY <1>3, <1>6, WorkerGoes, IdleFields DEF Goes, Holding
    <2>. QED BY <1>2, <1>3, <1>4, <1>6, <2>1 DEF Sent, Coming
  <1>. QED BY <1>5, <1>6, StepKinds, OtherStepsKeep, WorkerGoes

(***************************************************************************)
(* No edit forgotten                                                       *)
(***************************************************************************)
\* A job past the lock of item i will commit what is current.
Underway(i) == \E w \in Worker : run[w].item = i /\ run[w].pc \in Holding /\ Current(w)

Cared(i) == TextIndexed(i) \/ Sent(i) \/ Underway(i) \/ FullScheduled(i)

LEMMA CaredIsScheduled == PlacesOK => (NoEditForgotten <=> \A i \in Item : Cared(i))
  <1>. SUFFICES ASSUME PlacesOK PROVE NoEditForgotten <=> \A i \in Item : Cared(i)
    OBVIOUS
  <1>1. ASSUME NEW i \in Item
        PROVE  Scheduled(i) <=> Coming(i) \/ Underway(i)
    <2>1. \A w \in Worker : run[w].item = i => run[w].pc = "started" \/ run[w].pc \in Holding
      BY DEF PlacesOK, AtItem, Holding
    <2>2. \A w \in Worker : run[w].pc \in Holding => run[w].pc # "idle"
      BY DEF Holding
    <2>3. ASSUME Scheduled(i) PROVE Coming(i) \/ Underway(i)
      BY <2>1, <2>3 DEF Scheduled, Coming, Underway, Current
    <2>4. ASSUME Coming(i) PROVE Scheduled(i)
      BY <2>4 DEF Scheduled, Coming
    <2>5. ASSUME Underway(i) PROVE Scheduled(i)
      BY <2>2, <2>5 DEF Scheduled, Underway, Current
    <2>. QED BY <2>3, <2>4, <2>5
  <1>. QED BY <1>1, Zenon DEF NoEditForgotten, Cared, Sent

\* A job that read the newest texts leaves the index with them.
LEMMA StoreIndexes ==
    ASSUME TypeOK, PlacesOK, ModelsOK, NEW w \in Worker, Store(w), Current(w), KeptFresh(w),
           NEW i \in Item, run[w].item = i
    PROVE  TextIndexed(i)'
  <1>0. text' = text /\ trashed' = trashed
    BY DEF Store, itemVars
  <1>1. CASE i \in trashed
    BY <1>0, <1>1, Stored DEF Current, TextIndexed
  <1>2. CASE i \notin trashed
    <2>1. run[w].live /\ run[w].pc = "ready" /\ run[w].seen = text[i]
      BY <1>2, Stored DEF Current
    <2>2. ASSUME NEW s \in Slot
          PROVE  index'[i].vector[s].version = text[i][s] /\ index'[i].model # NoModel
      <3>1. /\ index'[i].model = run[w].model
            /\ index'[i].vector[s] = IF s \in run[w].embedded
                                     THEN [version |-> run[w].seen[s], model |-> run[w].model]
                                     ELSE index[i].vector[s]
        BY <2>1, Stored
      <3>2. run[w].model # NoModel
        BY <2>1 DEF ModelsOK, Fits
      <3>3. CASE s \in run[w].embedded
        BY <2>1, <3>1, <3>2, <3>3
      <3>4. CASE s \notin run[w].embedded
        BY <2>1, <3>1, <3>2, <3>4 DEF KeptFresh
      <3>. QED BY <3>3, <3>4
    <2>. QED BY <1>0, <1>2, <2>2 DEF TextIndexed
  <1>. QED BY <1>1, <1>2

LEMMA StepCares ==
    ASSUME TypeOK, PlacesOK, OneHolder, GuardHasJob, TypedAlone, ModelsOK, HoldersKnow,
           [Next]_vars, NEW i \in Item, Sent(i) \/ TextIndexed(i) \/ Underway(i)
    PROVE  Cared(i)'
  <1>1. CASE Sent(i)
    <2>1. ASSUME NEW w \in Worker, Load(w), run[w].item = i PROVE Underway(i)'
      <3>1. text' = text /\ trashed' = trashed
        BY <2>1 DEF Load, itemVars
      <3>. QED BY <2>1, <3>1, Loaded DEF Underway, Current
    <2>. QED BY <1>1, <2>1, SentStep DEF Cared
  <1>2. ASSUME ~Sent(i), NEW w \in Worker, Store(w), run[w].item = i PROVE Cared(i)'
    <2>1. Current(w) /\ KeptFresh(w)
      BY <1>2, Stored DEF HoldersKnow, Holding
    <2>. QED BY <1>2, <2>1, StoreIndexes DEF Cared
  <1>3. SUFFICES ASSUME ~Sent(i), ~Sent(i)', ~ \E w \in Worker : Store(w) /\ run[w].item = i
                 PROVE  Cared(i)'
    BY <1>1, <1>2 DEF Cared
  <1>4. text'[i] = text[i] /\ (i \in trashed' <=> i \in trashed)
    BY <1>3, ItemStep
  <1>5. CASE TextIndexed(i)
    <2>1. index'[i] = index[i] \/ (i \in trashed /\ index'[i] = NoEntry)
      <3>1. ASSUME NEW w \in Worker, WorkerStep(w)
            PROVE  index'[i] = index[i] \/ (i \in trashed /\ index'[i] = NoEntry)
        <4>1. CASE Record(w)
          BY <4>1 DEF Record
        <4>2. CASE Store(w)
          BY <1>3, <4>2, Stored
        <4>. QED BY <3>1, <4>1, <4>2, IndexSteps
      <3>. QED BY <3>1, StepKinds, OtherStepsKeep
    <2>. QED BY <1>4, <1>5, <2>1 DEF TextIndexed, Cared
  <1>6. ASSUME NEW w \in Worker, run[w].item = i, run[w].pc \in Holding, Current(w)
        PROVE  Cared(i)'
    <2>1. ASSUME run'[w].item = i, run'[w].pc \in Holding,
                 run'[w].seen = run[w].seen, run'[w].live = run[w].live
          PROVE  Underway(i)'
      BY <1>4, <1>6, <2>1 DEF Underway, Current
    <2>2. CASE run'[w] = run[w]
      BY <1>6, <2>1, <2>2 DEF Cared
    <2>3. CASE Answer(w)
      <3>1. run'[w].pc \in Holding
        BY <2>3, Answered DEF Holding
      <3>. QED BY <1>6, <2>1, <2>3, <3>1, Answered DEF Cared
    <2>4. CASE AnswerAgain(w)
      BY <1>6, <2>1, <2>4, AskedAgain DEF Cared, Holding
    <2>5. CASE AnswerFails(w)
      BY <1>3, <1>6, <2>5, FaultDrops DEF AnswerFails, Sent
    <2>6. CASE GiveUp(w)
      BY <1>3, <1>6, <2>6, FaultDrops, NullAssumption DEF GiveUp, Sent
    <2>7. CASE Requeue(w)
      <3>1. queue'[i] > 0
        BY <1>6, <2>7, NullAssumption DEF Requeue, TypeOK
      <3>. QED BY <1>3, <3>1 DEF Sent, Coming
    <2>8. run'[w] = run[w] \/ WorkerStep(w)
      BY StepKinds, OtherStepsKeep, WorkerGoes
    <2>. QED BY <1>3, <1>6, <2>2, <2>3, <2>4, <2>5, <2>6, <2>7, <2>8, HolderGoes
  <1>. QED BY <1>3, <1>5, <1>6 DEF Underway

\* A full reindex reaches every item outside the trash, or is asked for again.
LEMMA StepReindexes ==
    ASSUME TypeOK, PlacesOK, GuardHasJob, [Next]_vars, NEW i \in Item, FullScheduled(i)
    PROVE  Cared(i)'
  <1>0. TypeOK' /\ GuardHasJob'
    BY TypeStep, GuardStep
  <1>1. CASE fullQueue > 0
    <2>1. ASSUME fullQueue' >= fullQueue PROVE Cared(i)'
      BY <1>0, <1>1, <2>1 DEF TypeOK, Cared, FullScheduled
    <2>2. ASSUME NEW w \in Worker, StartFull(w) PROVE Cared(i)'
      <3>1. run'[w] = [Idle EXCEPT !.pc = "full"]
        BY <2>2, RunNow DEF StartFull
      <3>2. run'[w].pc = "full"
        BY <3>1 DEF Idle
      <3>. QED BY <3>2 DEF Cared, FullScheduled
    <2>3. ASSUME OtherStep PROVE fullQueue' >= fullQueue
      <3>1. ASSUME NEW q \in Request, RequestStep(q) PROVE fullQueue' >= fullQueue
        BY <3>1 DEF RequestStep, Edit, SetDeleted, SendAfterCommit, SendFails, ProbeSettings,
                    SaveSettings, AskReindex, RequestDies, Dispatch, DispatchFails, RequestReindex,
                    queueVars, TypeOK
      <3>. QED BY <2>3, <3>1 DEF OtherStep, GuardExpires, FullGuardExpires, Search, SearchFails,
                 RequestReindex, RequestReindexFails, SwapModel, vars, queueVars, TypeOK
    <2>4. ASSUME NEW w \in Worker, WorkerStep(w), ~StartFull(w) PROVE fullQueue' >= fullQueue
      <3>1. CASE JobStep(w)
        <4>1. RequestReindex \/ fullQueue' = fullQueue
          <5>1. CASE Answer(w)
            BY <5>1 DEF Answer, queueVars
          <5>. QED BY <3>1, <5>1 DEF JobStep, Start, Load, AnswerFails, AnswerAgain, Store,
                                   RequestReindexFails, queueVars
        <4>. QED BY <4>1 DEF RequestReindex, TypeOK
      <3>2. CASE FullStep(w)
        BY <2>4, <3>2 DEF FullStep, Probe, Record, SendNext, SendNextFails, SendNone,
                          Dispatch, DispatchFails, queueVars, TypeOK
      <3>3. CASE Requeue(w)
        BY <3>3 DEF Requeue, TypeOK
      <3>4. CASE GiveUp(w)
        BY <3>4 DEF GiveUp, queueVars, TypeOK
      <3>. QED BY <2>4, <3>1, <3>2, <3>3, <3>4 DEF WorkerStep
    <2>. QED BY <2>1, <2>2, <2>3, <2>4, StepKinds
  <1>2. ASSUME NEW w \in Worker, Requeue(w), run[w].item \notin Item PROVE Cared(i)'
    <2>1. run[w].item = NoItem
      BY <1>2, RunFields DEF TypeOK
    <2>2. fullQueue' > 0
      BY <1>2, <2>1 DEF Requeue, TypeOK
    <2>. QED BY <2>2 DEF Cared, FullScheduled
  <1>3. ASSUME NEW w \in Worker, GiveUp(w), run[w].item \notin Item PROVE Cared(i)'
    <2>1. run[w].item = NoItem
      BY <1>3, RunFields DEF TypeOK
    <2>. QED BY <1>3, <2>1, FaultDrops DEF GiveUp, Cared, Sent
  <1>4. ASSUME NEW w \in Worker, run[w].pc \in {"full", "probed"} PROVE Cared(i)'
    <2>1. run[w].item \notin Item
      BY <1>4 DEF PlacesOK, AtItem
    <2>2. CASE run'[w] = run[w]
      BY <1>4, <2>2 DEF Cared, FullScheduled
    <2>3. CASE Probe(w)
      <3>1. run'[w].pc = "probed"
        BY <2>3 DEF Probe, TypeOK, Run
      <3>. QED BY <3>1 DEF Cared, FullScheduled
    <2>4. CASE Record(w)
      <3>1. run'[w] = [Idle EXCEPT !.pc = "sending", !.left = Item \ trashed]
        BY <2>4, RunNow DEF Record
      <3>2. run'[w].left = Item \ trashed
        BY <3>1 DEF Idle
      <3>3. CASE i \in trashed
        BY <2>4, <3>3 DEF Record, itemVars, Cared, TextIndexed
      <3>. QED BY <3>2, <3>3 DEF Cared, FullScheduled
    <2>5. CASE WorkerStep(w)
      <3>1. Probe(w) \/ Record(w) \/ Requeue(w) \/ GiveUp(w)
        BY <1>4, <2>5 DEF WorkerStep, JobStep, FullStep, Start, Load, Answer, AnswerFails,
                          AnswerAgain, Store, StartFull, SendNext, SendNextFails, SendNone
      <3>. QED BY <1>2, <1>3, <2>1, <2>3, <2>4, <3>1
    <2>. QED BY <2>2, <2>5, StepKinds, OtherStepsKeep, WorkerGoes
  <1>5. ASSUME NEW w \in Worker, i \in run[w].left PROVE Cared(i)'
    <2>1. run[w].pc = "sending" /\ run[w].item \notin Item
      BY <1>5 DEF PlacesOK, AtItem
    <2>2. CASE run'[w] = run[w]
      BY <1>5, <2>2 DEF Cared, FullScheduled
    <2>3. ASSUME NEW j \in Item, SendNext(w, j) PROVE Cared(i)'
      <3>1. CASE j = i
        <4>1. i \in guard'
          BY <2>3, <3>1, DispatchQueues DEF SendNext
        <4>. QED BY <1>0, <4>1 DEF GuardHasJob, Cared, Sent, Coming
      <3>2. CASE j # i
        <4>1. run' = [run EXCEPT ![w] = [run[w] EXCEPT !.left = run[w].left \ {j}]]
          BY <1>5, <2>3, <3>2 DEF SendNext
        <4>2. [run[w] EXCEPT !.left = run[w].left \ {j}].left = run[w].left \ {j}
          BY DEF TypeOK, Run
        <4>3. i \in run'[w].left
          BY <1>5, <3>2, <4>1, <4>2, RunNow
        <4>. QED BY <4>3 DEF Cared, FullScheduled
      <3>. QED BY <3>1, <3>2
    <2>4. ASSUME NEW j \in Item, SendNextFails(w, j) PROVE Cared(i)'
      BY <1>5, <2>4, FaultDrops DEF SendNextFails, Cared, Sent
    <2>5. CASE WorkerStep(w)
      <3>1. \/ \E j \in Item : SendNext(w, j) \/ SendNextFails(w, j)
            \/ Requeue(w) \/ GiveUp(w)
        BY <1>5, <2>1, <2>5 DEF WorkerStep, JobStep, FullStep, Start, Load, Answer, AnswerFails,
                          AnswerAgain, Store, StartFull, Probe, Record, SendNone
      <3>. QED BY <1>2, <1>3, <2>1, <2>3, <2>4, <3>1
    <2>. QED BY <2>2, <2>5, StepKinds, OtherStepsKeep, WorkerGoes
  <1>. QED BY <1>1, <1>4, <1>5 DEF FullScheduled

LEMMA ForgottenStep ==
    ASSUME TypeOK, PlacesOK, OneHolder, GuardHasJob, TypedAlone, ModelsOK, HoldersKnow,
           NoEditForgotten, [Next]_vars
    PROVE  NoEditForgotten'
  <1>1. \A i \in Item : Cared(i)
    BY CaredIsScheduled
  <1>2. ASSUME NEW i \in Item PROVE Cared(i)'
    BY <1>1, StepCares, StepReindexes DEF Cared
  <1>3. PlacesOK'
    BY PlacesStep
  <1>4. (PlacesOK => (NoEditForgotten <=> \A i \in Item : Cared(i)))'
    BY CaredIsScheduled, PTL
  <1>. QED BY <1>2, <1>3, <1>4

(***************************************************************************)
(* The inductive invariant and the theorems                                *)
(***************************************************************************)
IInv ==
    /\ TypeOK
    /\ PlacesOK
    /\ OneHolder
    /\ ModelsOK
    /\ GuardHasJob
    /\ TypedAlone
    /\ HoldersKnow
    /\ NoEditForgotten

LEMMA IInit == Init => IInv
  <1>. SUFFICES ASSUME Init PROVE IInv
    OBVIOUS
  <1>1. \A w \in Worker : run[w] = Idle
    BY DEF Init
  <1>2. PlacesOK /\ OneHolder /\ HoldersKnow
    BY <1>1, IdleFields, NullAssumption DEF PlacesOK, OneHolder, HoldersKnow, AtItem, Holding
  <1>3. ModelsOK
    <2>1. \A i \in Item : index[i] = NoEntry
      BY DEF Init
    <2>. QED BY <1>1, <2>1, IdleFields, NoEntryFields DEF ModelsOK, OneModel, Fits
  <1>4. GuardHasJob /\ NoEditForgotten
    BY DEF Init, GuardHasJob, NoEditForgotten, FullScheduled
  <1>5. TypedAlone
    BY NoRequestFields DEF Init, TypedAlone
  <1>. QED BY <1>2, <1>3, <1>4, <1>5, TypeInit DEF IInv

LEMMA IStep == IInv /\ [Next]_vars => IInv'
  <1>. SUFFICES ASSUME IInv, [Next]_vars PROVE IInv'
    OBVIOUS
  <1>. USE DEF IInv
  <1>1. TypeOK' /\ PlacesOK' /\ OneHolder' /\ ModelsOK'
    BY TypeStep, PlacesStep, HolderStep, ModelsStep
  <1>2. GuardHasJob' /\ TypedAlone' /\ HoldersKnow' /\ NoEditForgotten'
    BY GuardStep, TypedStep, HoldersStep, ForgottenStep
  <1>. QED BY <1>1, <1>2

LEMMA Inductive == Spec => []IInv
  BY IInit, IStep, PTL DEF Spec

\* Whatever jobs, requests and faults do, the queues, the index, the settings and
\* the workers hold values of their types (index_item_in, reindex_all_in, dispatch).
THEOREM SearchTypeCorrect == Spec => []TypeOK
  <1>1. IInv => TypeOK
    BY DEF IInv
  <1>. QED BY <1>1, Inductive, PTL

\* The vectors of an item never mix models: index_item_in asks again for the ones
\* it kept when the service answers with another model than the settings name.
THEOREM OneModelEach == Spec => []OneModelPerItem
  <1>1. IInv => OneModelPerItem
    BY DEF IInv, ModelsOK, OneModel, OneModelPerItem
  <1>. QED BY <1>1, Inductive, PTL

\* A stale item always has a job that will see its newest text, or lost it to a
\* fault: dispatch may drop a send only while a job that has not read yet waits.
THEOREM EditsNotForgotten == Spec => []NoEditForgotten
  <1>1. IInv => NoEditForgotten
    BY DEF IInv
  <1>. QED BY <1>1, Inductive, PTL
=============================================================================
