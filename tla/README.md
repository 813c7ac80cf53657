# Releasewatch: TLA+ models, checks and proofs

Releasewatch is a release-scoped QA tracker: bugs and tasks are filed, triaged,
placed in a release, worked on, reviewed, sent back and shipped; people and their
agents work on them through the browser and MCP. This directory models its backend
(`src/backend/app`), where its rules live, and the part of the browser that shares a
session between tabs (`src/frontend/src/lib/api.js`). The modules follow the source:
an operator carries the name of the function it stands for, an action is one
request, or one step of a request where requests interleave, and `PROJECT.json` maps
every definition to its lines.

## 1. The system

| Part | State it keeps | Operations | Talks to |
|---|---|---|---|
| Items (`issue_service`, `triage_service`, `merge_service`) | `issues` rows: status, project, `release_id`, blocker flag, parent, trash mark | file, transition, reject/return/reopen, edit, triage outcomes, merge, move project, trash, restore, purge | containers, cycles, queues, backlog, timeline, inbox, search |
| Containers (`container_service`) | the `release_id` column read as Stream, Release or backlog | resolve, ensure_movable, ensure_blocker_allowed | releases |
| Cycles (`cycle_service`) | `issue_cycles` rows and `issues.current_cycle_id` | hooks on placement, container change, assignee and status; start_return | called by items and releases, in the same transaction |
| Releases (`release_service`, `release_lifecycle`) | status, dates, go/no-go, soft delete | create, edit, change status, cancel, ship, delete, overdue notices | moves open items to the backlog when it closes |
| Backlog (`backlog_service`, `backlog_category_service`) | rank per item, categories per project | place, reorder, bulk move, categories | locks the project row |
| Personal queues (`queue_service`, `queue_order`) | one entry per queued item: owner, position, pin, dormant mark; append-only history | sync after every item change, move, pin, unpin | per-owner advisory lock |
| Inbox and Telegram (`inbox_service`, `reaction_service`, `tasks/notifications`, `telegram`) | notices with a delivery state, retry time and send token; the poller's lock | fan out, delayed send, sweep, long poll | Celery, Redis, Telegram |
| Search and Jev (`search`, `tasks/search_index`) | embedding rows, duplicate hints, the service's settings; debounce keys in Redis | enqueue, dispatch after commit, index, reindex, probe | Celery, Redis, model APIs |
| Attachments (`attachment_service`, `core/s3`, `tasks/attachments`) | attachment rows, pending uploads of agents in Redis, objects in S3 | presign, complete, attach, validate, delete, bucket rules | Celery, Redis, S3 |
| MCP server and ownership (`mcp_server`, `agent_ownership`) | tokens with expiry, the edit record per piece, note stamps | tools over the same services | every service |
| Sessions (`core/auth`, `api/v1/auth`, `lib/api.js`) | tokens in localStorage, Keycloak refresh tokens in Redis | sign in, refresh with grace, sign out | Keycloak, all tabs of a browser |
| Policy, support intake, reports, settings, What's new, WebSocket | small or none | decision tables, forms, read-only reports | items |
| Views of the frontend, migrations, scripts, deployment | none of the rules | | API |

A request handler runs in one asyncio task with one `AsyncSession` and commits once
at its end, so a refusal leaves nothing behind in the database; what it did in Redis,
S3 or the broker stays. PostgreSQL runs at READ COMMITTED: a request sees what others
committed between two of its statements, the ORM keeps the attribute values it loaded
first (`expire_on_commit=False`, no refresh on `SELECT ... FOR UPDATE`), and an UPDATE
writes only the columns the request changed. Five kinds of lock exist: the row lock
in `IssueService.update` and bulk move, the refreshed row lock of a merge
(`lock_original`), the project row lock of backlog reorders and category changes, the
per-owner advisory lock of queues and the per-item advisory lock of index jobs. Celery
tasks run at least once and in any order; Redis keys with a lifetime guard and
debounce them. In the browser, tabs share localStorage and, where there are Web
Locks, one lock around a refresh.

### What is hard here

`PROJECT.json` lists every hazard at its line. In short: long sequences of legal
requests that leave two columns disagreeing (project and container, container
and cycle, blocker flag and container); requests that interleave between the
read a decision rests on and the write; midpoint positions that run out of
room; tasks sent before a commit, lost, repeated or late; steps outside the
transaction (S3, Redis, the broker) that a rollback does not undo; an external
service that changes under a running job; tabs that spend one refresh token at once.

### What makes each part correct

- Items and containers: an item is always inside its own project, Done work is
  immobile except for a production return, closed releases take nothing, and a
  closing release keeps no open work.
- Cycles: a current cycle exists exactly while the item has a container, and
  numbers count returns; history is not rewritten.
- Queues: an item is in at most one queue, its assignee's, exactly while it is
  open on the board; a placement changes the order of nothing else; pins are bounded
  and locked ones stay.
- Backlog: a reorder lands its item where it was dropped and moves nothing else.
- Notices: one marked sent was received, a rolled-back one is never sent, and one
  that waits is not dropped.
- Search: no edit slips past the debounce guard, an item has vectors of one model,
  and the index catches up.
- Attachments: an upload is consumed once, a refusal puts it back, an agent's row has its
  file.
- Agents: records name the writer of the newest text, and an agent does not replace
  a text of somebody else that it could have seen.
- Sessions: a refresh signs nobody out whose session is alive, and no API call waits
  forever in a tab.

## 2. The modules

| Module | Models | Composes with |
|---|---|---|
| `Workflow` | `workflow.py` and the status sets of `db/models/issue.py`: `CanTransition`, `AllowedTargets` | used by `WorkItems` |
| `ReleaseLifecycle` | `release_lifecycle.py`: `CanChange`, `CanShip` | used by `WorkItems` |
| `WorkItems` | every request that changes an item's status, project, container, blocker flag, parent or cycle, and every release request with its effect on the items inside | extends the two above |
| `IssueTransactions` | requests that interleave on one item: load, check, lock, write, commit | the same services as `WorkItems`, cut at their database statements |
| `PersonalQueue` | `queue_service.py` and `queue_order.py`: rows with positions, midpoints, renumbering, pins, dormant entries | instantiates `QueueOrder` |
| `QueueOrder` | what a queue promises: two groups, each in one total order, and one item moved per request | abstract specification of `PersonalQueue` |
| `Backlog` | `backlog_service.py`: ranks, reorders under the project lock, placements without it, renumbering | |
| `TelegramOutbox` | notices, reactions, delayed tasks, the sweep, linking | `inbox_service`, `reaction_service` and `tasks/notifications` composed |
| `SearchIndex` | writers, the debounce guard, index and reindex jobs, settings, searches | `tasks/search_index` with the embedding service |
| `Uploads` | presigned uploads, pending uploads, calls that attach, validation, deletion, bucket rules | `attachment_service`, `write_tools`, `s3` composed |
| `AgentContent` | people and agents who edit one bug: `update`, `rw_fill_field`, `rw_update_own`, notes | `agent_ownership`, `issue_service`, `timeline_service` composed |
| `Sessions` | tabs, API calls, `refreshTokens`, `POST /auth/refresh`, sign-out, Keycloak | browser and server composed |
| `*Proofs` (eight) | theorems | each extends the module it is about; `QueueProofs` covers `QueueOrder` too, `ContentProofs` both `AgentContent` and `Uploads` |
| `MC*` | instances for TLC, one `.cfg` per run | each extends the module it checks |

### `WorkItems`

A row is a record. `cycle` is the number of the row that `current_cycle_id`
points at (0 for null) and `cycleContainer` the `release_id` of that cycle row.
The services are operators from row to row with the names of the code
(`Transitioned` for `IssueService.transition`, `OnPlaced`, `OnContainerChanged`,
`AfterContainerChange` and `StartReturn` for `CycleService`, `RejectedWith`,
`Placed`, `Relocated`), and a request is their composition in call order.
A refusal rolls the transaction back, so it is a guard. A request is one step;
`IssueTransactions` drops that assumption.

Identity and permission are left out: `policy.py` decides who may send a request,
and the models let anybody send any. That only adds behaviour. Text, priorities,
assignees, timeline events and notices are left out because no rule modelled here
reads them. `moved` is a history mark, not a column: it tells which rows went
through `move_project`, the one path that skips the cycle hooks.

### `IssueTransactions`

One item, any number of requests. Each request loads the row (`Load`), may read
what it needs besides (`PlaceCheck`, `MoveCheck`, `RejectCheck`, `MergeCheck`), and
writes and commits (`...Finish`, `Transition`, `Assign`). From its first write to its
commit a request holds the row lock, so everything from there on is one step. Four
facts of the stack shape the module, and each is a definition:

- the ORM keeps the attribute values it loaded first, also when the same row is
  selected again `FOR UPDATE`. Only `lock_original` asks for `populate_existing`.
  So `PlaceCheck` takes the lock and goes on deciding on `seen`, `MergeCheck` replaces
  `seen` by `row`;
- an UPDATE writes the columns whose value differs from the loaded one (`Written`);
- the cycle hooks work on the cycle that the loaded pointer names: `Stamped` closes it
  when a status move enters Cancelled and opens it again when one leaves it, `ReturnFinish`
  closes it before it starts the next;
- `SELECT ... FOR UPDATE` waits for the key-share lock of another transaction's
  inserted comment, an ordinary UPDATE does not (`Shared`, `ForUpdate`).

`Abort` stands for a refusal, a deadlock victim or a lost connection.

### `PersonalQueue` and `QueueOrder`

An item here is what `QueueService.sync` sees of it: an assignee, whether its status
is queued, Done or neither, and the sort key of the default rule. `Update` is an item
request with the one or two calls of `sync` it makes; `Drift` is an edit that
changes the key without one. Positions are floats in the code and integers here,
with `MIN_GAP` as the unit: a gap below two units is `Cramped`, exactly where
`position_at` returns `None` and the group is renumbered. `arranged` is history: the
queues in which something other than the default rule decided an order.

`QueueOrder` has no positions. Its `above` is a relation, `Landing` moves one item in
it, and nothing in the module can change the order of two other items. The refinement
mapping reads that relation off the positions (with the id as tie-break, as
`queue_order.ordered` does), dormant entries included.

### `Backlog`

`rank` is what is committed; a transaction carries the ranks it wrote so far in
`write` and reads its own over the committed ones (`Seen`). `Lock`, `Read`, `Renumber`
and `CommitReorder` are the statements of `reorder` under the project row lock;
`Load`, `Place`, `File` and `CommitPlace` those of a request that brings an item to
the bottom without that lock; `Leave`, `Return`, `Arrive` and `Depart` the committed
effect of status moves and project moves on membership. Row locks are `RowFree`.

Three simplifications: the members are read in one step with their ranks, and a
renumbering writes all of them in one step once their row locks are free;
`created_at` orders items as their ids do; an item that another request has loaded is
not moved to another project in between. Ranks are integers between 0 and
`RankBound` with `MIN_GAP` as the unit, midpoints rounded down. A reorder that finds
no room after its renumbering is `stuck`: the code raises, and the request fails.
`fresh` is history: which items arrived since the reorder took its lock.

### `TelegramOutbox`

A notice is a row with a delivery status; `draft` holds rows a request wrote and has not
committed, `holder` who locks a row it rewrites. A request fans out (`Notify`),
reacts (`React`, `Rewrite` for an emoji picked before the last one was told,
`Announce`), queues the tasks and only then commits or rolls back: tasks exist before
their rows do. A task is `Validate`, `Send` and `Record`, each in a session of its own;
`Redeliver` and `Lose` are Celery's at-least-once delivery and its losses. A sweep loads
due rows (`SweepStart`), sends them one by one and writes all outcomes in one commit,
or none (`SweepAbort`). Time is one bit per row: whether `telegram_next_retry_at` has
passed. `heard` is what Telegram delivered, with the emoji. `MarkRead` stands for the
single and the bulk form.

### `SearchIndex`

A text is its version, a vector the version and the model it was made from. A writer
sends jobs after its commit (`SendAfterCommit`) unless the debounce guard is set. A job
clears the guard (`Start`), takes the item's lock and reads item and settings (`Load`),
asks the service (`Answer`, `AnswerAgain` when the service answers with another model
than the one stored vectors were reused for), and commits (`Store`). `StartFull`,
`Probe`, `Record` and `SendNext` are `reindex_all`; `Search` is what notices a swapped
model. Faults are explicit: a request dies before it sends, a send fails after the guard
was set, a job is requeued or given up, a probe fails. `dropped` remembers which items a
fault left behind. `save_config` reads the settings' row again and changes only what it
was given, so `Store` and `Record` write the model alone, and others wait while a run
holds that row (`Writing`). Paths on which Redis itself fails are not modelled: a sender
then skips the guard and sends anyway, while a job whose delete of the guard fails runs
and leaves it set until it expires.

### `Uploads`

`file` is the object in S3, `pending` the session keys in Redis, `attached` the
committed rows, `calls` the requests in flight, `fate` how an upload left otherwise. A
call checks what it names (`Check`), consumes each upload with its own `DEL` (`Take`),
puts back what it took when one is missing (`Refuse`), writes rows and sends validation
jobs only after the commit (`Write`, `Commit`, `Fail`). That is the agents' route, the
only one that looks for the file. Filing (`FileForm`) and the confirm of an item's page
(`Confirm`) add the row for the key they are given, whatever S3 has under it;
`CompleteForItem` has S3 assemble the parts first. Deleting removes the object first
(`Delete`, `CommitDelete`, `FailDelete`). `Sweep` is a bucket rule: by tag for large
files, by prefix for keys without an item. Several reads or put-backs of one call are one
step; a broker that refuses a job is a call that fails. `UploadInit`, `UploadSpec` and
the like carry a prefix because `ContentProofs` extends this module and `AgentContent`.

### `AgentContent`

A piece is what the rule of `agent_ownership.py` speaks of, and an environment has
several columns. A text is its writer and the number of the edit. A request loads the
item without a lock (`Open`, `OpenNote`); `rw_update_own` reads the timeline in a later
statement (`Verdict`); `update` takes the row lock, compares with the columns it loaded
first, records what differs and writes (`Update`). `EditNote` and `DeleteNote` follow
`timeline_service`. The description and the reproduction steps follow the same path as
`curl`; tasks are ruled by the backlog in place of the statuses New and closed; adding
notes and the ownership of attachments are left out.

### `Sessions`

A pair of tokens is the number of the Keycloak refresh token it was minted with, a
session the number of its first pair. `call` and `refresh` are a tab's interceptors
(`isRefreshing`, `failedQueue`), `exchange` the requests at the server, `kept` and
`grace` the keys in Redis. `Unauthorized`, `Reuse`, `NothingStored`, `Ask`, `Deliver`
and `HangUp` are the browser's side of a refresh, `Read`, `Renew`, `Reject`,
`Unavailable` and `Keep` the server's, cut at its awaits; `Keep` joins
`store_kc_refresh` and `retire_kc_refresh`, because nobody has the new token yet.
Between two awaits a tab acts in one step. `waived` is history: sessions the user left,
or of which a refresh lost its answer.

Expiry is `Quiet`: an access token or a grace expires only while no refresh is under way.
The HTTP calls inside a refresh time out after 10 s, the grace lasts 60 s. The 30-day
limit of stored tokens, deactivated users, local and LDAP sign-in and the redirect's
state and nonce are not modelled. Whether the browser has Web Locks (`locks`) and whether
the realm accepts a refresh token only once (`rotates`) is chosen at the start, in any
combination.

## 3. The runs

Two specifications state fairness and have a liveness property each, `TelegramOutbox`
and `SearchIndex`; the others are safety specifications, since a request handler has
nothing it must do once its client is gone. `CHECK_DEADLOCK FALSE` is set where a bound
may stop every action (events, edits, tokens, positions, ranks, an upload's only use):
`queue`, `ranks`, `delivery`, `index`, `uploads`, `swept_attachment`, `agents`,
`sessions`. The others check for deadlock.

| Run | Instance | Shows |
|---|---|---|
| `one` | one bug, two projects, two Streams, one Release, three cycles | project, container, blocker flag and cycle agree after any sequence of requests; nothing enters a closed Release; cycle numbers count returns and are never rewound |
| `two` | a bug and a task, one project with its Stream and a Release, two cycles for the task | Done work stays where it is through ships, cancels, bulk moves and merges; a closing release keeps no open item |
| `queue` | two people, three items, one pin, `POSITION_STEP` of two units | positions implement the abstract order, renumbering included; no ties; a drop lands beside its anchor; an entry exists exactly for the assignee's work; an unarranged queue is sorted |
| `stale_edits` | two requests out of status moves, assignments, project moves and rejects | an edit that assigns nobody never undoes an assignment |
| `returns` | two requests out of status moves (Cancelled included), rejects, merges, placements, bulk moves and a ship | a merge brings work back once per delivery; only a late reject or restore opens a second cycle |
| `ranks` | three items, one of which leaves and returns, two requests, `RANK_STEP` of two units | a reorder lands on the asked side of its anchors, beside a single one, whatever is placed meanwhile, moves nothing else, and a renumbering leaves room |
| `delivery` | one author, one reactor, one request at a time, one sweeper, two emoji, one rewrite, one abort | a notice marked sent was heard, a rolled-back one is not sent, a waiting one reaches its recipient even if every task is lost |
| `index` | one item with a title and a comment, one endpoint, two models, two workers, one edit, one model swap, one fault or settings save | one model per item, no edit slips past the guard, and the index catches up |
| `uploads` | three uploads, one of them large, two calls | an upload is consumed once, refusals put back, agents' rows have files, jobs have rows |
| `agents` | two users with an agent each, one an administrator, two requests, two edits, a title and two columns of an environment | records name writers; an agent replaces only what it could not have seen |
| `sessions` | two tabs with two data calls and a check each, two requests at the server, two tokens, one upset | no call is stranded, and a refresh token is refused only when its session is over, unless the realm rotates tokens and the browser has no lock |
| `swept_attachment` (violation) | one small upload, one call | the rule for abandoned uploads takes the file of an attached one |

The bounds, and why they are enough:

- `MaxCycle` bounds the only counter, per item in `WorkItems`. Three cycles cover first
  delivery, a return, a return of a return; nothing in the code looks further back than
  the current one. In `two` the task may come back once and the bug never: the task is
  the original that a merge returns, and `one` covers the bug's returns.
- `one` needs a second project for `move_project` and a Release for every placement
  path; `two` needs two items of different types because a bulk move, a ship and a
  merge touch several rows, and the type decides the allowed statuses. The rules are
  per row and per release, and `WorkItemsProofs` covers all sizes.
- With `Step = 2` there is one free midpoint between two neighbours at the default
  distance, so the second landing between them renumbers, instead of about the thirtieth.
  `PositionBound = 4` leaves room for three items on either side of zero; `RankBound = 7`
  for three renumbered ranks and one arrival below them; `BacklogProofs` covers all sizes.
- Two requests in flight show every race between two decisions. The proofs of
  `IssueTransactionsProofs` and `ContentProofs` hold for any number.
- `delivery`: one notice passes through every state (drafted, due, told, rewritten,
  withdrawn, deleted), against one task per send and one sweep. The second emoji and the
  rewrite make an old task meet a new row. `CheckFails = FALSE`: with it the code accepts
  a stray message, and `OnlyCommittedHeard` excludes it by its own premise.
- `index`: one edit after the initial text is what a guard can hide, the second worker is
  what can run the same item twice, the second model is what a swap brings, and `MaxEvent`
  places one fault or one settings save anywhere. `MaxQueue = 1` bounds the jobs that an
  expiring guard lets join those waiting.
- `uploads`: two agent uploads make a call lose halfway, the large one is tagged and
  multipart, the second call takes what the first one names. Each upload lives once.
- `agents`: two edits are one overwritten text and one overwriting one; the environment has two
  columns because its piece is coarser than its columns.
- `sessions`: two tokens allow one renewal, or one new session, so a stale tab can
  present the old token once. Longer chains of renewals, more tabs and more upsets are
  covered by the proofs only. `MaxUpset` bounds page loads, failed calls, unreachable
  servers and ended sessions together.
- Symmetry is declared on requests, calls, tabs, and on people that no definition tells
  apart, and on no run with a liveness property.

Fairness. `TelegramOutbox`: a request ends in a commit or a rollback (WF); clocks advance
(WF); Celery beat starts a sweep every 60 s and a sweep goes on with its rows (WF);
Telegram answers again and again, and a sweep's commit that waits for row locks of
requests gets them in turn (SF, since both are disabled again and again). Nothing is
assumed of queued tasks. `SearchIndex`: a request that committed sends what it committed
(WF, unless it dies, a fault); a worker carries on with its job (WF); the queue hands out
every job, although workers are busy again and again and prefetch others (SF); Redis
expires the reindex guard (WF, a TTL); people keep searching (WF), which is what detects
a swapped model. `CatchesUp` excuses items in `dropped`, those that a fault took.

### Where the code and its documentation disagree

`swept_attachment` checks one: `schemas/attachment.py:59` says `is_large_file`
means "True if subject to auto-deletion", and `AttachmentsSection.jsx:231` "Pre-upload
files (no issueId) only exist on S3 and will expire via lifecycle rule". The bucket rule
`cleanup-pre-uploads` (`core/s3.py:139`) removes everything under `attachments/issues/`
after two days, and a file uploaded by the filing form or an agent keeps that key when it
is attached: its row stays, its file goes.

The following were met while modelling. The modules contain the behaviour, the properties
are stated for what does hold, and no run is spent on them.

Items and requests:

- `cycle_service.py` says `current_cycle_id` is null exactly when `release_id` is;
  `move_project` writes `release_id` without the cycle hooks (`triage_service.py:419`).
- `triage_service.py:427` clears the rank of an item that moves to another project's
  backlog and ranks it nowhere: it stays unranked until the first reorder there.
- Slice 06 says duplicate chains never form. A is merged into B, then B into C: only C's
  own parent is checked. Two merges in opposite directions lock the two rows in opposite
  orders, and PostgreSQL ends one.
- `docs/phase-2/cycle-model.md:82` says a Released release never holds an open item.
  An ordinary status move on Done work of a Released release (`issue_service.py:272`)
  makes it open in place; only Reject takes it out.
- `docs/adr/0004-rejected-is-a-status.md:26` calls a Rejected status without a cycle
  a lie. Review work may sit in the backlog, and `start_return` returns early there
  (`cycle_service.py:167`), so rejecting it gives exactly that.
- A status move that loaded the item before a reassignment syncs the old assignee's queue.
- A placement that loaded the item before a project move committed writes a container of
  the old project into a row of the new one; one that resolved a Release before its ship
  committed leaves open work inside; one that loaded an item before it was Done moves it.
- `db/models/issue_cycle.py:100` says of `closed_at` "The next cycle started, or the item
  was cancelled.", and `cycle_service.py:162` that a return will "Close the current cycle
  and open cycle N+1". Both hooks go by the pointer they loaded. Two rejects of one
  delivery both pass the check of the loaded status (`issue_service.py:453`); the second
  closes the first cycle once more and leaves the one in between open. The other way needs
  no reject: a restore from Cancelled loads, another one overtakes it, the item is
  delivered and a merge returns it; the late restore then opens cycle 1 again beside cycle
  2 (`cycle_service.py:144`). `SecondCycleOpensOnlyLate` says that there is no third.

Backlog:

- `backlog_service.py:179` takes the project lock because two midpoints over the same
  neighbours "would otherwise produce equal ranks". One request is enough when it names
  two anchors that are not adjacent: `reorder` takes their midpoint without looking at the
  members in between (`backlog_service.py:205`), and one of them may have just that rank.
  The page names the rows it shows on both sides (`BacklogPage.jsx:241`), and it hides
  technical debt by default. Nothing breaks: the id decides between equal ranks, and the
  next drop between the two renumbers. `ReorderLandsBeside` therefore states the absence
  of ties for a single anchor.

Notices and search:

- An emoji picked while the notice of the one before is being sent is not told again.
- A broker that refuses one recipient of a fan-out is logged and swallowed
  (`inbox_service.py:487`): the recipients after that one get neither a task nor a delivery
  state, and their notices stay in the app only.
- A reindex job that read the settings before an administrator saved new ones writes the
  model it found over the saved one.

Attachments:

- Only the agents' route looks for the file before it adds a row; a confirm or a filing that
  names a key whose upload failed, or was swept while the form was open, leaves a row
  without a file, and the validation job leaves it so.
- The browser completes a multipart upload with `part_number` and `etag` (`upload.js`, as
  `schemas/attachment.py:108` asks); `core/s3.py` passes the parts on as they are and
  expects `PartNumber` and `ETag` (its docstring), which boto3 insists on, so the call is
  answered 400. `CompleteForForm` and `CompleteForItem` stand for a client that sends the
  keys S3 expects.

Agents:

- `write_tools.py:833` says a piece is theirs once a person changes it. An agent's later
  edit of one column of an environment makes the whole environment the agent's, the
  column a person wrote included.
- Any edit of a note by a person allowed to make it restamps it (`timeline_service.py:238`),
  also one that changes nothing.

Sessions:

- `api.js:80` says "Only a definitive answer ends the session. A 503 [...] leaves the
  tokens in place", and `auth.py:223` that an unreachable Keycloak keeps the session. A
  page load that fails for any reason, a 503 of the refresh included, removes both tokens
  (`AppContext.jsx:86`).
- A 401 that arrives late, for an old token, removes the tokens of a newer sign-in; a
  refresh under way while the user signs out stores tokens again.
- A refresh whose answer is lost, retried after the grace of a minute, ends a live
  session.
- `core/auth.py:122` keeps a retired token "so a second tab refreshing with the same RW
  token at the same moment still succeeds instead of being logged out". Where there are no
  Web Locks `refreshTokens` runs without one (`api.js:77`). Both tabs' requests read the
  same Keycloak token, a realm that rotates refuses the second, and the handler deletes
  the entry (`api/v1/auth.py:264`): the tab that was refused forgets the tokens of both.
  The grace only helps a request that arrives after the first was answered, and a realm
  that does not rotate takes the token twice. `SecondTabSucceeds` fails there in a few
  steps, and `RefusedIsOver` is the same promise under the condition it needs.

## 4. What is proved

The eight proof modules are checked by TLAPS from the named assumptions of the modules
only: the Stream of a project is a container of that project (`PlacesAssumption`,
`PlaceAssumption`), null values are not ids, agents' owners are users, bounds are
natural numbers. The sets of items, projects, containers, users, requests, calls, tabs,
workers and tokens are arbitrary.

`WorkItems`. The invariant `IInv` is a property of single rows: `GoodRow(i, x)`
gathers the type of the row, a status its type may hold, a container of its own
project, the blocker rule and, for rows that never changed project, agreement of cycle and
container. The conjuncts need each other: the blocker rule after a return uses that
the Stream is not a Release of the row's project, which uses that project and container
agree. `Created` adds that an occupied Release exists, which `Ship` and `Cancel`
rely on. Each service gets a lemma that it maps good rows to good rows, each request a
lemma that it is a `GoodStep` of every row it touches, and `GoodStep` also carries what
the action properties say of one step. From these follow

- `TypeCorrect`, `ProjectAndContainerAgree`, `BlockerFlagConfined`,
  `CycleTracksContainer` (invariants),
- `DoneWorkStays`, `ClosedReleaseStaysClosed`, `HistoryKept` (action properties),
- `CyclesCountReturns`: a good step is `Steady` (it keeps the count of an item with a
  container, and rejects nothing that was delivered) or `Returned` (it does both), so a
  count goes up exactly with a return, and
- `ReleaseEmptied`: only a ship or a cancel closes a release (`OnlyClosingCloses`), and
  what stays in it then was no open item (`OpenItemsMoved`, `ClosingLeavesNoOpenItem`).

`IssueTransactions`. Typing is not inductive by itself: that only Releases are
shipped needs `ShipsRelease`, a fact about requests in flight.
`SecondCycleOpensOnlyLate` needs to know who is between check and commit: at most one
request holds the lock (`LockHeldOnce`), and while a merge holds it, the row it decides
on is the committed one (`MergeSeesRow`). `WrittenColumns` says what a column-wise UPDATE
keeps, `PlaceEffect` and `ReturnEffect` what the two cycle writers do to the open cycles.
From these follow

- `TransactionsTypeCorrect`;
- `AssignmentsNotLost`: only a request that assigns changes the assignee, however
  many stale requests commit;
- `OneReturnPerDelivery`: for every kind of request, only a reject or a restore from
  Cancelled whose loaded pointer is no longer the current one leaves another cycle open.

`PersonalQueue`. Which queue an item shows in does not depend on positions, so the first
invariant of `QueueProofs`, `IInv`, types an entry but for its position. `PositionedKeeps`
says that a placement, with or without a renumbering, keeps every owner and mark,
`SyncedMatches` that after `sync` the entry matches the item whatever it was before, and
`OneItemStep` that a request about one item leaves the entries of the others. From these
follows `EntriesFollowItems`.

The order needs more. `OrderInv` adds to `IInv` that positions are integers of finitely
many rows (`Placed`), that no two rows of one group tie (`TieFree`), that hidden rows
exist only in arranged queues (`HiddenArranged`: finishing an item hides its row and
counts its queue as arranged), and that unarranged queues are sorted. They need
each other: a default placement looks for the first row that ranks lower, and lands in
sorted order only if the rows are sorted and none of them is hidden between; a midpoint
ties with nothing only if the two neighbours are neighbours among the hidden rows too; a
renumbering keeps an order only if it was strict. Two facts about finite sets carry it,
a strict total order has a first element (`FirstExists`) and a set of integers a maximum
(`MaxExists`). Both are shown by a minimal counterexample instead of an induction, from
the library's theorem that strict inclusion of finite sets is well-founded. From the
invariant follow

- `QueueTypeCorrect`, `PositionsNeverTie`, `UnarrangedQueuesSorted`,
- `DropsLandBeside` (an action property), and
- `QueueImplementsOrder`, the refinement: each request is shown to be the one landing,
  pin, unpin, hiding, return or removal of `QueueOrder` that its name says, or a stutter;
  a renumbering disappears because it keeps the relation that positions stand for.

`QueueOrder`. `LandingOrdered` shows that landing one item in a group keeps a strict
total order, by cases on where the landed item stands in a chain of three; from it follows
`EveryGroupOrdered`. It needs no assumption on what `Top` answers: an answer outside the
group lands the item on top.

`TelegramOutbox`. `DeliveryInv` adds to the two safety properties what they rest on: a
task past its delivery was heard (`TasksHeard`), and so was every notice a sweep counts as
sent (`SweepsHeard`); unless the look at the row fails, a task past it has a committed row
(`TasksCommitted`), and the rows a sweep loaded are committed (`SweepsCommitted`); a draft
that is being held is neither absent nor sent (`LiveDrafts`). `CommittedCorrect` needs that
a row, once committed, never becomes absent again: a retraction deletes it and keeps it
deleted.

`Uploads`. `UploadsInv` relates, per upload, its file, its Redis key, its row and the
call that holds it. `RowsHaveFiles`, about agents' uploads, needs that their calls only hold
files they have seen (`FileSeen`), since nothing but a rule or a deletion takes a file
afterwards; `JobsHaveRows` that a job is sent by the step that commits.

`AgentContent`. Edits are numbered, and everything known is numbered in the past
(`Past`), so the stamp of the next one is new; two columns of one edit have one writer
(`OneWriterPerEdit`). Each of the three calls that write columns is shown to be an
`Updated` step: a piece keeps its columns and its record, or gets a column and the record
of this very edit. `RecordNamesWriter` follows, and for the note `NoteStamped`.
`AllowedSpares` and `NoteSpares` carry what a verdict was based on until its call commits.

`Sessions`. That a token is refused only when its session is over needs a story for every
place a token can be. `StoreLive`: the browser's refresh token of a live session is kept
and leads to the token Keycloak accepts, or the answer under way brings a newer one.
`ExchangesLive`: the same for every request at the server. Under rotation both rest on
`OneExchange`, one refresh of a live session at a time under the Web Lock; across the
grace they rest on `StoreLive`'s last conjunct, that a retired token is in the store only
until the answer arrives; and new tokens disturb nothing because nobody has them before
they are delivered (`FreshTokens`). `Withdrawn` describes in one formula all steps that
only take away (page loads, failures, sign-out, time), so they share one proof. From the
invariant follow `SessionsTypeCorrect`, `CallsAnswered` and `SessionsOutliveRaces`. The
first two hold for every browser and realm. The third is about realms that do not rotate
and browsers with Web Locks, and so are `StoreLive` and `ExchangesLive` (`Live`): without
the lock a realm that rotates refuses the second tab.

`SearchIndex`. `NoEditForgotten` is part of its own inductive invariant, with what the
workers know: at most one worker holds an item (`OneHolder`), one that holds it and has
read it read what is committed, or its outcome is already excused (`HoldersKnow`); a set
guard has a job in the queue, unless a fault took it (`GuardHasJob`), which is why
skipping a send is right. `OneModelPerItem` rests on `ModelsOK`: vectors kept from
the row are of the model the row names, and a worker stores them only if the answers it
got name it too. `TypedAlone` says that a request with settings to save does nothing else.
From the invariant follow `SearchTypeCorrect`, `OneModelEach` and `EditsNotForgotten`,
without the fairness that `Spec` also states. `ServiceAssumption`, that there is some
endpoint and some model, is used only to type the settings of an idle worker.

`Backlog`. First come facts about ranks alone. `Above` orders the items strictly and
totally (`AboveOrders`); ranking the unranked members keeps the order of everything ranked
and of the members (`AllRankedKeepsOrder`), and so does a renumbering, which also leaves
`Step` between any two (`RenumberedSpreads`): both count the items above one, and a strict
subset of a finite set has fewer. A reorder finds the neighbours it means
(`NeighboursFound`), and the rank it takes is on the asked side of each anchor and beside a
single one (`ChosenBetween`).

`IInv` then follows a reorder from its lock to its commit. At most one runs, and nothing is
filed meanwhile (`Alone`). What it sees keeps the committed order of all it has to keep
(`OrderKept`), members and dormant ranks alike; after its first read every member it knows
is ranked (`MembersRanked`); after a renumbering they are spread (`Spaced`); and the rank it
chose still lands where it should (`Lands`). Requests without the project lock go on
meanwhile. `Undisturbed` says all that they may do to a reorder that waits: the item they
bring, or take to another project, counts as fresh, and members leave; and
`UndisturbedStaysHeld` that this invalidates none of the four. From these follow

- `BacklogTypeCorrect`, `RenumberSuffices`,
- `ReordersLandBeside` and `ReordersMoveOne` (action properties).

Every safety property of a passing run is a theorem. Only model-checked, because out of the
provers' reach: liveness
(`WaitingReachesRecipient`, `CatchesUp`) and `ENABLED`.

## 5. What is not modelled, and what comes next

In order of importance; each is part of a component of `PROJECT.json`.

1. `CycleLedger`: the cycle rows themselves (`submitted_at`, `delivered_by_id`,
   `verified_at`, `blocked_from_status`), which the reports read.
2. Two-item locking: merges in opposite directions, ship against bulk move, and
   `WorkItems` as the specification that `IssueTransactions` implements for the kinds
   of request that lock before they decide.
3. The poller's lock in Redis, which has no owner and can expire under its holder; the
   bot's commands. Handlers are idempotent per update, so the effect is a repeated answer.
4. MCP token expiry notices and the kill switch; the backlog's categories.

Not planned: pure decision tables without state (`policy.py`); read-only reports,
retrieval and ranking, which aggregate or score data; row-at-a-time administration
(projects, labels, settings other than the embedding service's); external systems (LDAP,
S3, model APIs, Keycloak beyond its tokens); the views of the frontend; migrations, seed
data and deployment. They are the larger part of the code by lines and keep little state
that interacts, so the models cover the smaller part that does.
