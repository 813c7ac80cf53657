---------------------------- MODULE SearchIndex ----------------------------
(***************************************************************************)
(* The search index, a derived copy of the items: writers, the per-item    *)
(* index_item jobs, the reindex_all job and the Settings that name the     *)
(* embedding service.                                                      *)
(*                                                                         *)
(* A text is its version number, a vector the version and the model it was *)
(* made from.  A writer sends jobs after its commit, unless the debounce   *)
(* guard of the item is set.  A job clears the guard, takes the item's     *)
(* advisory lock, reads the item and the settings, asks the service for    *)
(* the vectors that do not match, and commits.                             *)
(***************************************************************************)
EXTENDS Naturals, FiniteSets

CONSTANTS
    Item,
    Slot,       \* what is embedded of an item: its title, a comment
    Endpoint,   \* embedding services
    Model,      \* embedding models
    NoModel,
    Request,    \* concurrent requests
    Worker,     \* processes of the search queue
    NoItem,
    MaxEdit,    \* bound on committed changes of items
    MaxSwap,    \* bound on models swapped behind an endpoint
    MaxEvent,   \* bound on settings saved and faults, together
    MaxQueue    \* bound on jobs queued behind a guard when it expires

ASSUME NullAssumption == NoModel \notin Model /\ NoItem \notin Item
ASSUME ServiceAssumption == Endpoint # {} /\ Model # {}
ASSUME BoundAssumption ==
    /\ MaxEdit \in Nat
    /\ MaxSwap \in Nat
    /\ MaxEvent \in Nat
    /\ MaxQueue \in Nat

Version == 0..MaxEdit
Config == [endpoint : Endpoint, model : Model \cup {NoModel}]

Vector == [version : Version, model : Model \cup {NoModel}]
NoVector == [version |-> 0, model |-> NoModel]

\* The rows of one item in search_items and search_vectors.
Entry == [vector : [Slot -> Vector], model : Model \cup {NoModel}]
NoEntry == [vector |-> [s \in Slot |-> NoVector], model |-> NoModel]

VARIABLES
    text,      \* the version of each text of each item, as committed
    trashed,   \* items with deleted_at set
    index,     \* the search rows of each item
    config,    \* the settings: the endpoint, and the model the index holds
    serves,    \* the model each endpoint serves
    guard,     \* items whose rw:search:pending key is set
    fullGuard, \* whether rw:search:reindex:pending is set
    queue,     \* index_item jobs queued per item
    fullQueue, \* reindex_all jobs queued
    request,   \* per request: items to dispatch, and a reindex to ask for
    run,       \* what each worker is doing
    dropped,   \* history: items whose job was lost to a fault since it was sent
    edits, swaps, saves, faults

Run == [pc : {"idle", "started", "loaded", "again", "ready", "full", "probed", "sending"},
        item : Item \cup {NoItem}, config : Config, seen : [Slot -> Version], live : BOOLEAN,
        embedded : SUBSET Slot, model : Model \cup {NoModel}, saved : Model \cup {NoModel},
        left : SUBSET Item]

Idle == [pc |-> "idle", item |-> NoItem,
         config |-> [endpoint |-> CHOOSE e \in Endpoint : TRUE, model |-> NoModel],
         seen |-> [s \in Slot |-> 0], live |-> FALSE, embedded |-> {}, model |-> NoModel,
         saved |-> NoModel, left |-> {}]

\* typed: the settings being saved, and those read before they were probed.
RequestState == [todo : SUBSET Item, reindex : BOOLEAN, typed : {<<>>} \cup (Config \X Config)]
NoRequest == [todo |-> {}, reindex |-> FALSE, typed |-> <<>>]

queueVars == <<guard, fullGuard, queue, fullQueue>>
itemVars == <<text, trashed, edits>>
serviceVars == <<serves, swaps>>
faultVars == <<dropped, faults>>
vars == <<itemVars, index, config, saves, serviceVars, queueVars, request, run, faultVars>>

-----------------------------------------------------------------------------
(***************************************************************************)
(* Sending jobs                                                            *)
(***************************************************************************)
\* dispatch: one job per item waits at a time.
Dispatch(i) ==
    /\ guard' = guard \cup {i}
    /\ queue' = IF i \in guard THEN queue ELSE [queue EXCEPT ![i] = @ + 1]
    /\ UNCHANGED <<fullGuard, fullQueue>>

\* The guard is set before the send, so a send that fails leaves it behind.
DispatchFails(i) ==
    /\ i \notin guard
    /\ guard' = guard \cup {i}
    /\ UNCHANGED <<fullGuard, queue, fullQueue>>

\* request_reindex_all.
RequestReindex ==
    /\ fullGuard' = TRUE
    /\ fullQueue' = IF fullGuard THEN fullQueue ELSE fullQueue + 1
    /\ UNCHANGED <<guard, queue>>

\* It sets its guard before the send, too.
RequestReindexFails ==
    /\ ~fullGuard
    /\ fullGuard' = TRUE
    /\ UNCHANGED <<guard, queue, fullQueue>>

\* A key outlives its job only until its time to live is up.
GuardExpires(i) ==
    /\ i \in guard /\ queue[i] < MaxQueue
    /\ guard' = guard \ {i}
    /\ UNCHANGED <<itemVars, index, config, saves, serviceVars, fullGuard, queue, fullQueue,
                   request, run, faultVars>>

FullGuardExpires ==
    /\ fullGuard /\ fullQueue < MaxQueue
    /\ fullGuard' = FALSE
    /\ UNCHANGED <<itemVars, index, config, saves, serviceVars, guard, queue, fullQueue,
                   request, run, faultVars>>

\* A fault that loses the jobs of the items D.
Fault(D) ==
    /\ saves + faults < MaxEvent
    /\ faults' = faults + 1
    /\ dropped' = dropped \cup D

-----------------------------------------------------------------------------
(***************************************************************************)
(* Requests                                                                *)
(***************************************************************************)
Ready(q) == request[q] = NoRequest

\* An edit of one text of the items I commits; their jobs are sent after it.
Edit(q, I, s) ==
    /\ Ready(q)
    /\ I # {} /\ I \cap trashed = {}
    /\ edits < MaxEdit
    /\ edits' = edits + 1
    /\ text' = [i \in Item |-> IF i \in I THEN [text[i] EXCEPT ![s] = edits + 1] ELSE text[i]]
    /\ request' = [request EXCEPT ![q].todo = I]
    /\ UNCHANGED <<trashed, index, config, saves, serviceVars, queueVars, run, faultVars>>

\* set_deleted, both ways.
SetDeleted(q, i) ==
    /\ Ready(q)
    /\ edits < MaxEdit
    /\ edits' = edits + 1
    /\ trashed' = IF i \in trashed THEN trashed \ {i} ELSE trashed \cup {i}
    /\ request' = [request EXCEPT ![q].todo = {i}]
    /\ UNCHANGED <<text, index, config, saves, serviceVars, queueVars, run, faultVars>>

\* _send_after_commit.
SendAfterCommit(q, i) ==
    /\ i \in request[q].todo
    /\ Dispatch(i)
    /\ request' = [request EXCEPT ![q].todo = @ \ {i}]
    /\ UNCHANGED <<itemVars, index, config, saves, serviceVars, run, faultVars>>

\* The broker refuses the send: the exception leaves the others unsent.
SendFails(q, i) ==
    /\ i \in request[q].todo
    /\ DispatchFails(i)
    /\ Fault(request[q].todo)
    /\ request' = [request EXCEPT ![q].todo = {}]
    /\ UNCHANGED <<itemVars, index, config, saves, serviceVars, run>>

\* PUT settings: the endpoint an admin typed is asked for its model.
ProbeSettings(q, e) ==
    /\ Ready(q)
    /\ saves + faults < MaxEvent
    /\ saves' = saves + 1
    /\ request' = [request EXCEPT ![q].typed = <<[endpoint |-> e, model |-> serves[e]], config>>]
    /\ UNCHANGED <<itemVars, index, config, serviceVars, queueVars, run, faultVars>>

\* A run that was told of another model has written it to the settings' row:
\* others wait with theirs until it commits.
Writing(w) == run[w].pc \in {"again", "ready"} /\ run[w].saved # NoModel

\* Both are saved, and a reindex asked for after the commit when either is new.
SaveSettings(q) ==
    /\ request[q].typed # <<>>
    /\ \A w \in Worker : ~Writing(w)
    /\ config' = request[q].typed[1]
    /\ request' = [request EXCEPT ![q] = [NoRequest EXCEPT
                       !.reindex = request[q].typed[1] # request[q].typed[2]]]
    /\ UNCHANGED <<itemVars, index, saves, serviceVars, queueVars, run, faultVars>>

AskReindex(q) ==
    /\ request[q].reindex
    /\ RequestReindex
    /\ request' = [request EXCEPT ![q].reindex = FALSE]
    /\ UNCHANGED <<itemVars, index, config, saves, serviceVars, run, faultVars>>

\* The process dies between its commit and the sends.
RequestDies(q) ==
    /\ ~Ready(q)
    /\ Fault(IF request[q].reindex THEN Item ELSE request[q].todo)
    /\ request' = [request EXCEPT ![q] = NoRequest]
    /\ UNCHANGED <<itemVars, index, config, saves, serviceVars, queueVars, run>>

\* Mutation: a search only falls back to keywords.
SearchSilent == serves[config.endpoint] # config.model /\ ~fullGuard /\ UNCHANGED vars

\* A search whose query comes back from another model than the index holds.
Search ==
    /\ serves[config.endpoint] # config.model
    /\ ~fullGuard
    /\ RequestReindex
    /\ UNCHANGED <<itemVars, index, config, saves, serviceVars, request, run, faultVars>>

\* The broker refuses it: until the guard expires, no search asks again.
SearchFails ==
    /\ serves[config.endpoint] # config.model
    /\ RequestReindexFails
    /\ Fault({})
    /\ UNCHANGED <<itemVars, index, config, saves, serviceVars, request, run>>

\* The operator swaps the model behind an endpoint.
SwapModel(e, m) ==
    /\ swaps < MaxSwap
    /\ swaps' = swaps + 1
    /\ m # serves[e]
    /\ serves' = [serves EXCEPT ![e] = m]
    /\ UNCHANGED <<itemVars, index, config, saves, queueVars, request, run, faultVars>>

-----------------------------------------------------------------------------
(***************************************************************************)
(* index_item                                                              *)
(***************************************************************************)
\* Mutation: the guard is left to run out on its own.
StartGuarded(w, i) ==
    /\ run[w].pc = "idle" /\ queue[i] > 0
    /\ queue' = [queue EXCEPT ![i] = @ - 1]
    /\ run' = [run EXCEPT ![w] = [Idle EXCEPT !.pc = "started", !.item = i]]
    /\ dropped' = dropped \ {i}
    /\ UNCHANGED <<itemVars, index, config, saves, serviceVars, guard, fullGuard, fullQueue,
                   request, faults>>

\* The guard goes first: an edit from here on sends a job of its own.
Start(w, i) ==
    /\ run[w].pc = "idle" /\ queue[i] > 0
    /\ queue' = [queue EXCEPT ![i] = @ - 1]
    /\ guard' = guard \ {i}
    /\ run' = [run EXCEPT ![w] = [Idle EXCEPT !.pc = "started", !.item = i]]
    /\ dropped' = dropped \ {i}
    /\ UNCHANGED <<itemVars, index, config, saves, serviceVars, fullGuard, fullQueue, request,
                   faults>>

Locked(i) == \E w \in Worker : run[w].item = i /\ run[w].pc \in {"loaded", "again", "ready"}

\* Under the advisory lock: read the item, then the settings.
Load(w) ==
    /\ run[w].pc = "started"
    /\ ~Locked(run[w].item)
    /\ run' = [run EXCEPT ![w] = [@ EXCEPT !.pc = IF run[w].item \in trashed THEN "ready" ELSE "loaded",
                                           !.config = config, !.seen = text[run[w].item],
                                           !.live = run[w].item \notin trashed]]
    /\ UNCHANGED <<itemVars, index, config, saves, serviceVars, queueVars, request, faultVars>>

\* A stored vector is kept when its text and its model are the current ones.
Reusable(w, s) ==
    LET v == index[run[w].item].vector[s] IN
    /\ run[w].config.model # NoModel
    /\ v = [version |-> run[w].seen[s], model |-> run[w].config.model]

\* Mutation: the kept vectors of the item stay when the model has changed.
AnswerPartly(w) ==
    LET r == run[w]
        new == {s \in Slot : ~Reusable(w, s)}
        m == IF new = {} THEN r.config.model ELSE serves[r.config.endpoint]
        other == m # r.config.model IN
    /\ r.pc = "loaded"
    /\ IF other /\ r.config.model # NoModel THEN RequestReindex ELSE UNCHANGED queueVars
    /\ run' = [run EXCEPT ![w] = [r EXCEPT !.pc = "ready", !.embedded = new, !.model = m,
                                           !.saved = IF other THEN m ELSE NoModel]]
    /\ UNCHANGED <<itemVars, index, config, saves, serviceVars, request, faultVars>>

\* The service answers for the others.  If it serves another model than the
\* settings say, that model is recorded, everything else is reindexed, and the
\* kept vectors of this item are asked for again.
Answer(w) ==
    LET r == run[w]
        new == {s \in Slot : ~Reusable(w, s)}
        m == IF new = {} THEN r.config.model ELSE serves[r.config.endpoint]
        other == m # r.config.model IN
    /\ r.pc = "loaded"
    /\ IF other /\ r.config.model # NoModel THEN RequestReindex ELSE UNCHANGED queueVars
    /\ run' = [run EXCEPT ![w] = [r EXCEPT !.pc = IF other /\ new # Slot THEN "again" ELSE "ready",
                                           !.embedded = new, !.model = m,
                                           !.saved = IF other THEN m ELSE NoModel]]
    /\ UNCHANGED <<itemVars, index, config, saves, serviceVars, request, faultVars>>

\* The broker refuses the full reindex: the job fails.
AnswerFails(w) ==
    LET r == run[w] IN
    /\ r.pc = "loaded"
    /\ \E s \in Slot : ~Reusable(w, s)
    /\ r.config.model \notin {NoModel, serves[r.config.endpoint]}
    /\ RequestReindexFails
    /\ Fault({r.item})
    /\ run' = [run EXCEPT ![w] = Idle]
    /\ UNCHANGED <<itemVars, index, config, saves, serviceVars, request>>

AnswerAgain(w) ==
    /\ run[w].pc = "again"
    /\ run' = [run EXCEPT ![w].pc = "ready", ![w].embedded = Slot,
                          ![w].model = serves[run[w].config.endpoint]]
    /\ UNCHANGED <<itemVars, index, config, saves, serviceVars, queueVars, request, faultVars>>

\* The commit: the vectors, the item's row, and the model in the settings.
Store(w) ==
    LET r == run[w] IN
    /\ r.pc = "ready"
    /\ index' = [index EXCEPT ![r.item] =
          IF ~r.live THEN NoEntry
          ELSE [vector |-> [s \in Slot |-> IF s \in r.embedded
                                           THEN [version |-> r.seen[s], model |-> r.model]
                                           ELSE @.vector[s]],
                model |-> r.model]]
    /\ config' = IF r.saved = NoModel THEN config ELSE [config EXCEPT !.model = r.saved]
    /\ run' = [run EXCEPT ![w] = Idle]
    /\ UNCHANGED <<itemVars, saves, serviceVars, queueVars, request, faultVars>>

-----------------------------------------------------------------------------
(***************************************************************************)
(* reindex_all                                                             *)
(***************************************************************************)
\* Mutation: a worker starts a job that another one took.
StartFullTwice(w) ==
    /\ run[w].pc = "idle"
    /\ fullQueue' = fullQueue - 1
    /\ fullGuard' = FALSE
    /\ run' = [run EXCEPT ![w] = [Idle EXCEPT !.pc = "full"]]
    /\ UNCHANGED <<itemVars, index, config, saves, serviceVars, guard, queue, request, faultVars>>

StartFull(w) ==
    /\ run[w].pc = "idle" /\ fullQueue > 0
    /\ fullQueue' = fullQueue - 1
    /\ fullGuard' = FALSE
    /\ run' = [run EXCEPT ![w] = [Idle EXCEPT !.pc = "full"]]
    /\ UNCHANGED <<itemVars, index, config, saves, serviceVars, guard, queue, request, faultVars>>

Probe(w) ==
    /\ run[w].pc = "full"
    /\ run' = [run EXCEPT ![w] = [@ EXCEPT !.pc = "probed", !.model = serves[config.endpoint]]]
    /\ UNCHANGED <<itemVars, index, config, saves, serviceVars, queueVars, request, faultVars>>

\* Record the model, drop what belongs to items in the trash, list the others.
Record(w) ==
    /\ run[w].pc = "probed"
    /\ \A v \in Worker : ~Writing(v)
    /\ config' = [config EXCEPT !.model = run[w].model]
    /\ index' = [i \in Item |-> IF i \in trashed THEN NoEntry ELSE index[i]]
    /\ run' = [run EXCEPT ![w] = [Idle EXCEPT !.pc = "sending", !.left = Item \ trashed]]
    /\ UNCHANGED <<itemVars, saves, serviceVars, queueVars, request, faultVars>>

SendNext(w, i) ==
    /\ run[w].pc = "sending" /\ i \in run[w].left
    /\ Dispatch(i)
    /\ run' = [run EXCEPT ![w] = IF @.left = {i} THEN Idle ELSE [@ EXCEPT !.left = run[w].left \ {i}]]
    /\ UNCHANGED <<itemVars, index, config, saves, serviceVars, request, faultVars>>

SendNextFails(w, i) ==
    /\ run[w].pc = "sending" /\ i \in run[w].left
    /\ DispatchFails(i)
    /\ Fault(run[w].left)
    /\ run' = [run EXCEPT ![w] = Idle]
    /\ UNCHANGED <<itemVars, index, config, saves, serviceVars, request>>

\* Nothing to send: every item is in the trash.
SendNone(w) ==
    /\ run[w].pc = "sending" /\ run[w].left = {}
    /\ run' = [run EXCEPT ![w] = Idle]
    /\ UNCHANGED <<itemVars, index, config, saves, serviceVars, queueVars, request, faultVars>>

-----------------------------------------------------------------------------
(***************************************************************************)
(* Faults of a job.  A worker that dies, or a service that fails, puts the *)
(* job back; the last retry, or any other error, loses it.                 *)
(***************************************************************************)
Requeue(w) ==
    /\ run[w].pc # "idle"
    /\ Fault({})
    /\ run' = [run EXCEPT ![w] = Idle]
    /\ IF run[w].item = NoItem
       THEN fullQueue' = fullQueue + 1 /\ UNCHANGED queue
       ELSE queue' = [queue EXCEPT ![run[w].item] = @ + 1] /\ UNCHANGED fullQueue
    /\ UNCHANGED <<itemVars, index, config, saves, serviceVars, guard, fullGuard, request>>

GiveUp(w) ==
    /\ run[w].pc # "idle"
    /\ Fault(IF run[w].item = NoItem THEN Item ELSE {run[w].item})
    /\ run' = [run EXCEPT ![w] = Idle]
    /\ UNCHANGED <<itemVars, index, config, saves, serviceVars, queueVars, request>>

-----------------------------------------------------------------------------
\* The index is empty; worker_ready asks for a reindex (bootstrap_if_empty).
Init ==
    /\ text = [i \in Item |-> [s \in Slot |-> 0]]
    /\ trashed = {}
    /\ index = [i \in Item |-> NoEntry]
    /\ serves = [e \in Endpoint |-> CHOOSE m \in Model : TRUE]
    /\ config = [endpoint |-> CHOOSE e \in Endpoint : TRUE, model |-> NoModel]
    /\ guard = {} /\ fullGuard = TRUE
    /\ queue = [i \in Item |-> 0] /\ fullQueue = 1
    /\ request = [q \in Request |-> NoRequest]
    /\ run = [w \in Worker |-> Idle]
    /\ dropped = {}
    /\ edits = 0 /\ swaps = 0 /\ saves = 0 /\ faults = 0

RequestStep(q) ==
    \/ \E I \in SUBSET Item, s \in Slot : Edit(q, I, s)
    \/ \E i \in Item : SetDeleted(q, i) \/ SendAfterCommit(q, i) \/ SendFails(q, i)
    \/ \E e \in Endpoint : ProbeSettings(q, e)
    \/ SaveSettings(q)
    \/ AskReindex(q)
    \/ RequestDies(q)

JobStep(w) ==
    \/ \E i \in Item : Start(w, i)
    \/ Load(w) \/ Answer(w) \/ AnswerFails(w) \/ AnswerAgain(w) \/ Store(w)

FullStep(w) ==
    \/ StartFull(w) \/ Probe(w) \/ Record(w)
    \/ \E i \in Item : SendNext(w, i) \/ SendNextFails(w, i)
    \/ SendNone(w)

Next ==
    \/ \E q \in Request : RequestStep(q)
    \/ \E w \in Worker : JobStep(w) \/ FullStep(w) \/ Requeue(w) \/ GiveUp(w)
    \/ \E i \in Item : GuardExpires(i)
    \/ FullGuardExpires
    \/ Search \/ SearchFails
    \/ \E e \in Endpoint, m \in Model : SwapModel(e, m)

\* Requests send what they committed, the workers of the queue take and finish
\* their jobs, keys with a time to live expire, and people go on searching: only a
\* search notices settings that name a model the service no longer serves.
Fairness ==
    /\ \A q \in Request : WF_vars(SaveSettings(q) \/ AskReindex(q) \/ \E i \in Item : SendAfterCommit(q, i))
    /\ \A w \in Worker : WF_vars(\/ Load(w) \/ Answer(w) \/ AnswerAgain(w) \/ Store(w)
                                 \/ Probe(w) \/ Record(w) \/ SendNone(w)
                                 \/ \E i \in Item : SendNext(w, i))
    /\ \A i \in Item : SF_vars(\E w \in Worker : Start(w, i))
    /\ SF_vars(\E w \in Worker : StartFull(w))
    /\ WF_vars(Search)
    /\ WF_vars(FullGuardExpires)

Spec == Init /\ [][Next]_vars /\ Fairness

-----------------------------------------------------------------------------
TypeOK ==
    /\ text \in [Item -> [Slot -> Version]]
    /\ trashed \subseteq Item
    /\ index \in [Item -> Entry]
    /\ config \in Config
    /\ serves \in [Endpoint -> Model]
    /\ guard \subseteq Item
    /\ fullGuard \in BOOLEAN
    /\ queue \in [Item -> Nat]
    /\ fullQueue \in Nat
    /\ request \in [Request -> RequestState]
    /\ run \in [Worker -> Run]
    /\ dropped \subseteq Item
    /\ edits \in 0..MaxEdit /\ swaps \in 0..MaxSwap /\ saves \in 0..MaxEvent /\ faults \in 0..MaxEvent

\* The vectors of an item come from one model, the one its row names, whatever
\* service answers in the middle of a job (BR-S16, index_item_in).
OneModelPerItem ==
    \A i \in Item \ trashed : \A s \in Slot : index[i].vector[s].model \in {NoModel, index[i].model}

\* The rows of item i are what its texts and the settings ask for.
TextIndexed(i) ==
    IF i \in trashed THEN index[i] = NoEntry
    ELSE \A s \in Slot : index[i].vector[s].version = text[i][s] /\ index[i].model # NoModel
ModelIndexed(i) ==
    /\ config.model = serves[config.endpoint]
    /\ i \in trashed \/ index[i].model = config.model

\* Somebody will still index item i from what is committed now: its job waits
\* or has not read it yet, or read what is still current.
Scheduled(i) ==
    \/ queue[i] > 0
    \/ \E q \in Request : i \in request[q].todo
    \/ \E w \in Worker : /\ run[w].item = i
                         /\ \/ run[w].pc = "started"
                            \/ /\ run[w].pc # "idle"
                               /\ run[w].live = (i \notin trashed)
                               /\ run[w].live => run[w].seen = text[i]
FullScheduled(i) ==
    \/ fullQueue > 0
    \/ \E w \in Worker : run[w].pc \in {"full", "probed"} \/ i \in run[w].left

\* No edit slips between the debounce guard and the job that clears it: a
\* stale item always has a job that will see the newest text, unless a fault
\* took it.
NoEditForgotten ==
    \A i \in Item : TextIndexed(i) \/ Scheduled(i) \/ FullScheduled(i) \/ i \in dropped

\* Once edits stop, the index catches up with every text, and, unless an admin
\* saved settings of their own, with the model that is served: a model swapped
\* behind the same endpoint is noticed and reindexed (BR-S16).
CatchesUp ==
    <>[](\A i \in Item : \/ TextIndexed(i) /\ (saves = 0 => ModelIndexed(i))
                         \/ i \in dropped)
=============================================================================
