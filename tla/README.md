# Verification of IPDK_plus (task_worker_requester)

IPDK_plus registers folders of images, scans them, publishes one request per
image and recipe to RabbitMQ, and follows the results that external image
workers send back. All state of a run is kept in SQLite, so that a run of
hundreds of thousands of requests survives the end of the process. The modules
in this directory model that core: the tables and their transactions, the
controller of the GUI thread, the worker threads around it and their broker
connections; the same controller over its older store in memory; the search index
of the favourite folders, which a thread of its own keeps up to date; and the
treatment of the settings files at the start of the program.

## 1. The system

| Part | State | Operations | Talks to |
|---|---|---|---|
| `state/task_repository.py` `TaskRepository` | tables `sessions`, `folders` (scan state, hold mark, position, one counter per `TaskStatus`), `tasks` | registration, scan state, batches of tasks, claim, transition, timeout, hold, move, delete, pause, resume, complete, clear, reopen | called under one lock from the GUI thread, the scan threads and the discovery thread |
| `state/sqlite_task_store.py` `SqliteTaskStore` | none of its own | names the transactions and allowed transitions | repository, Qt view models |
| `app/controller.py` `TaskController` (lazy mode) | `_active`, `_publish_finished`, `_inventory_preparing`, `_preflight_confirmed`, `_opened_folder_paths`, `_active_folder_paths`, thread references, last broker metrics | user requests, slots for the workers' signals, timers | store by call, workers by signals queued to the GUI thread |
| `services/workers/*` | a to-do list and a stop flag per thread | connect, publish, consume, tick, scan, finish | broker by call, controller by signals, scan worker also the store by call |
| `services/broker/*` | request queue, result queue, consumer | publish, consume, acknowledge, metrics | external image workers |
| `app/controller.py` (eager mode), `state/task_store.py` | tasks and folder groups in memory; list of batches with the index of the next, opened and active folders | registration, batch scheduler, the same slots for signals | the same workers |
| `state/folder_index_repository.py`, `folder_index_worker.py`, job queue of `ui/main_window.py` | per favourite: status, scope, generation, counters, indexed folders, scan queue, errors; one job that runs and one that waits | full, incremental and resumed scans; pause, resume, scope, removal | the disk; independent of the run |
| `app/runtime_paths.py`, `app/bootstrap.py`, `app/single_instance.py`, `app/updater.py` | files in the profile directory | seeding, start, instance lock, version test | - |
| `config/*`, `ui/*`, `utils/*`, `models/*` | settings, widgets | loading, editing, showing | controller |

`app/bootstrap.py:35-101` builds the controller on `SqliteTaskStore`; the eager
mode is what the controller does without it, as in the repository's tests. Deleting
queues during a lazy run calls its scheduler too (section 7, number 4).

What is hard here:

* **Order of signals.** Publisher, poller, scanners and metrics run in threads of
  their own. Their signals reach the GUI thread in the order in which they were
  posted, but the order of posting between two threads is free, and clicks and
  timers come in between.
* **Stale references.** A thread that has ended is noticed by its signal, by
  `isRunning()` or by a timer, whichever comes first, and the slots for
  `finished` do not always look at the sender.
* **Stop and restart.** `_stop_workers` blocks the GUI thread while it waits for
  each thread for at most 1500 ms, then forgets it; queued signals of the old run
  are handled afterwards. The process can be killed at any point.
* **Redundant data.** Deletion, opening and completion are decided by the
  aggregate counters of a queue, not by its rows.
* **Faults.** Connections and publishes fail, break without being noticed, answers
  come late, twice or never.
* **Two threads on one database.** An index scan takes the lock for each batch and
  reads folders without it; pause, scope changes, removals and new scans come in
  between, the disk changes meanwhile, and a root may go offline.
* **Half a start.** Marker, fingerprint, backups and copies of settings files are
  separate writes; the process may end between any two.

What makes each part correct: *repository* - counters match rows, rows belong to
registered queues, one request per image and queue, positions list every queue
once, a settled request never changes, nothing handed out is deleted;
*controller* - one publisher at a time, claims are always returned, a stopped or
held queue sends nothing, the limit is kept, an active run is stored as resumable,
a completed session has no work left, a run goes on and ends;
*workers* - nothing is published twice, nothing acknowledged is lost, a worker that
is told to stop ends; *eager mode* - the cap on open folders, no batch forgotten or
taken twice, an outcome once reached is kept, the poller knows every request;
*folder index* - READY means that nothing is left to do and that everything that
was there is known, claimed work is in somebody's hands, counters match rows, each
root settles; *start* - no edit of the user is lost, a fingerprint vouches for whole
files, new settings arrive.

## 2. Modules

| Module | What it is |
|---|---|
| `FolderOrder` | the permutation computed by `reorder_folders` |
| `FolderReorder` | the move buttons as a small system; properties that say what they must do without swaps |
| `TaskTables` | the tables as one record, each transaction an operator from record to record; extends `FolderOrder` |
| `TaskPromise` | abstract: requests wait, are out, or are settled |
| `TaskRepository` | any legal calls of transactions in any order, the database reopened between any two; implements `TaskPromise` |
| `Lists` | the lists that a WHERE clause and an ORDER BY give, in closed form |
| `TaskTablesProofs` | lemmas: numbers, finite sets and lists, what the move buttons do to an order, what each transaction does to rows, tallies and order |
| `TaskRepositoryProofs` | type correctness, counters, ownership of rows, display order, the refinement of `TaskPromise`, and the moves of `FolderReorder`, for every value of the constants |
| `LazyController` | each slot and routine of the controller as an operator on a *situation* (tables, controller attributes, threads, queued calls); extends `TaskTables` |
| `LazySession` | the whole: GUI thread, worker threads, broker, user, faults; its actions apply the operators of `LazyController` |
| `LazySessionProofs` | one publisher, quiet pauses, resumable runs, counters, for every value of the constants and every action and fault; what the scans have found |
| `PublishProofs` | what publishers are still to send and to report: limit, held queues, nothing sent twice, claims owned; extends `LazySessionProofs` |
| `EagerController` | `TaskStore` and the eager routines of the controller, as operators on a situation |
| `EagerSession` | a run in eager mode: GUI thread, worker threads, broker, user, faults; implements `TaskPromise` |
| `EagerProofs` | that refinement, the cap on open folders, nothing sent twice or forgotten, pollers that track every task, for every value of the constants |
| `BrokerClient` | `RabbitMQClient` below a publish worker and a polling worker, over connections that break |
| `BrokerClientProofs` | types, answers kept, what is doubled or misreported is due to a break |
| `FolderIndexTables` | the rows of one favourite, each transaction of `FolderIndexRepository` an operator on them |
| `FolderIndex` | favourites, the worker in its thread, the job queue of the GUI thread, the disk, kills; extends `FolderIndexTables` |
| `FolderIndexProofs` | READY is clean, claimed folders are held, counters agree, a root shown as indexing has a worker |
| `Startup` | settings files, backups, marker and fingerprint across starts that may be cut |
| `StartupProofs` | types, edits kept, honest fingerprint |
| `MCTaskRepository`, `MCLazySession`, `MCEagerSession`, `MCBrokerClient`, `MCFolderIndex`, `MCStartup` | constants for the model checker |

`LazySession` composes tables, controller, threads and broker; `EagerSession` does
the same for the store in memory. `FolderIndex` and `Startup` share no state with
them. `BrokerClient` refines what the sessions take as one step, the publish with
its attempts and the delivery with its acknowledgement, and stands beside them: its
connections multiplied with the session's threads are out of reach.

### Tables

`d.scan[q] = "NONE"` is a queue without a row; `d.order` is column `position`;
`d.count[q][s]` are the counter columns; `d.tasks` maps a request to its status. A
request is (queue, image, generation): the generation stands for the fresh `uuid4`
an image gets when its queue is deleted and registered again or a new session is
opened. The rowid order of tasks is the order of image numbers. The history of
completed and reset sessions is not kept: `NewSession` forgets the old rows. Column `inaccessible_count`,
message payloads and times are left out; *which* requests are older than the
timeout is a parameter of `MarkTimeouts`.

`MCTaskRepository` gives the transactions any arguments a caller may pass. One of the
calls makes the counters wrong: `PopulateFromSibling` of a queue that has rows of its own,
left by a scan that was cut, sets total and pending to the rows it inserted
(section 7, number 6). `CountersAreHonest` says what holds all the same: the counters of CLAIMED and
later statuses are always right, total and pending never claim a row that is not there, and that call, on
a queue with rows, is the only one that makes right counters wrong.

### Controller and threads

`ctl` holds the controller's attributes by name (see the comments of
`FreshController`). A Qt thread goes through the values of `run`: `connecting`,
working, `done` (its worker has emitted `finished`), `exited` (its event loop has
left, `isRunning()` is false). A publisher at work is `sending` (before the next message),
`trying` (it has found no stop flag and makes its attempts, whatever it is told
meanwhile) or `sent` (the signal is still to be posted). `events` is the queue of slot calls posted to the
GUI thread, taken in order. `halt` says how far `_stop_workers` has got; no
slot runs before it is through. `mq` is the bag of requests that the
broker or an external worker has and that no consumer has seen an answer for.

Facts about Qt that the model uses: calls between threads are queued and taken
in posting order; `finished` of the worker first runs the controller's slot and
then `thread.quit`; `thread.finished` is posted when `isRunning()` has become
false; user events and timers may be taken before queued calls; a modal dialog
(preflight) runs an event loop of its own, in which signals and timers are
handled but no user action other than its answer; `sender()` is `None` when the worker has been deleted,
modelled as a free choice in `HandlePubFinished`.

Steps merged because nothing can tell them apart: the two rounds of the inventory
loop (the second finds only sources that are being scanned); restart and the
`singleShot(0)` that resumes or offers to resume; the attempts of one publish;
`_on_scan_batch_inserted`, which does nothing while the inventory is being
prepared, and scans run at no other time. The thread-finished signal of a scan is connected to a lambda; it
is treated as queued to the GUI thread like the others.

### Eager mode

A request is (folder, item, life): an item is an image with its recipe, the life is
the number of resets and deletions before it was registered. `ctl.batches` is
`_folder_message_batches` and `ctl.next` the index of the first batch that has not been taken.
One folder is added at a time. Some actions are split by what they need: `"extend"`
adds a folder that is registered already, with further images, `"late"` adds while
the poller is being told to stop, `"early"` stops while `queueReady` is still queued;
the last two and, in a run that shall end, the first lead to section 7.
`_stop_workers` is taken to wait long enough.

### Broker client

Two workers with a connection each: `none`, `open`, `broken` (and believed open) or
`closed`. A write on a broken link may reach the broker, vanish or raise; the publish
worker tries again up to `max_publish_retries` times and reports `published` or
`failed`. The broker hands the consumer at most `Prefetch` messages that are not
acknowledged, and gives them back to the queue when the connection is gone.
Acknowledging after the signal has been emitted can itself fail on a broken link.
Requeue decisions are left out: no callback of the program returns them. A channel
that is closed on an open connection (a queue declared with other arguments) is left
out too; `_ensure_connected` looks at the connection only.

### Folder index

The record of a favourite holds `status`, `scope`, `limit` (its depth), `kind` of the scan
in progress, `index` (folders with the modification time and whether their
row is of the present generation), `queue` (state, tries, work) and `errs`, and the three
counters as columns of their own. `now` abstracts the number of the generation. The
worker's step ends where the repository releases its lock or where a folder has been
read; what it decides by later is kept in `worker.seen` (the favourite row it read at
`OpenScan`) and in `batch`, `good` and `bad` (claimed, read, failed). `stat` and
`scandir` of one folder are one step. A modification time is the clock of the last
edit in the folder. The GUI part is `_start_folder_index_job`: one job runs, one waits, jobs
that wait are merged, a cancellation is a second step of the same slot. The buttons
are taken to be enabled for what is in the tables at the click. `"rescope"` is a
choice of scope while no thread works, `"rescopeBusy"` while one does. `"remakeBusy"` lets
the disk change as number 19 of section 7 needs it: a folder that is missing when its parent is read is
made again before it is read itself, later in the same batch (`MadeInBatch`).

### Start of the program

A file holds the template of a version or an edit upon it, is missing or torn: a
copy truncates its target before it fills it. Starts run through migration of the
former directory, the decision (marker, fingerprint), every file, the fingerprint and the
loading; a crash may come after each step. An `OSError` of a copy ends the start like a crash. One of
the marker, the fingerprint or a template becomes a `RuntimePathError`, which
`resolve_default_config_path` catches: the program runs on the settings beside it or in its bundle
(`PathError`, phase `elsewhere`), until it is closed and started again. Between starts
the user edits or removes files, an installer sets the marker or brings a new
version. The templates of all versions are taken to differ.

## 3. Runs

| Run | Instance | States | Question |
|---|---|---|---|
| `task_repository` | 2 recipes of one folder, 1 image, at most 2 rows, one new generation | 225 000 | Do the tables stay consistent, and keep `TaskPromise`, under any calls? |
| `folder_reorder` | 4 queues | 8 160 | Do the move buttons do what they say, around pinned queues? |
| `session_user` | 2 queues of one image; add, hold, move, stop, decline | 1.4 million | What may the user do in the middle of anything? |
| `session_restart` | 1 queue of 2 images; crash, exit, declined resumption, redelivery | 2.8 million | Is a killed or closed run found again as it must be? |
| `session_faults` | 1 queue of 1 image; connect, publish, poll and scan failures, cut waits, timeouts, reset, deletion, lost finish signals | 607 000 | Is no session completed early and no open work stranded? |
| `session_liveness` | 2 queues of one image, both opened at once, limit 1; publish failures, timeouts, lost finish signals | 155 000 | Is the limit kept, and does every run end? |
| `broker_client` | 2 requests, 2 tries, prefetch 1, 2 breaks of each connection | 133 000 | Is what is lost, doubled or misreported due to a break, and do workers end? |
| `folder_index` | 2 favourites of 2 folders; add, remove, scope, pause, open, move (3 of them), a failing read, a change of link | 1.9 million | What may the user do in the middle of a scan? |
| `folder_index_cover` | 1 favourite, a chain of 3 folders, batches of 3; 2 of add, scope, reindex, refresh, pause, close, kill; 5 edits of the disk, not as `MadeInBatch` says | 458 000 | Does a READY index know what was there, is each root completed? |
| `eager` | 1 folder of 2 images, cap 2; every action but early stops, failing connections, publishes and polls | 1.5 million | Is nothing published twice, and `TaskPromise` kept? |
| `eager_cover` | 2 folders of one image, cap 1; folders added and deleted during the run | 150 000 | Does the cap hold, is nothing forgotten, does the run end? |
| `startup` | 2 files, 2 versions, 2 deeds of the user, 2 crashes or errors | 375 000 | Are edits kept, do cut starts repair themselves? |

Constant `Allowed` switches user actions and faults on; each run allows the ones
its question is about, since all at once are out of reach. The chunk is always 1
and two requests make two chunks, so that the end of one publisher, the poller it
left behind and the start of the next one overlap. With two images a scan can be
cut between its batches. `Fallback` is 2, or 1 where the limit itself is in
question: with two queues open, a second claim is then one too many.

Bounds, all named in the modules:

* `PubSlots` (2), `PollSlots` (3), `ScanSlots` (2): threads alive or with unhandled
  signals at once. Without a wait that times out a publisher is only started when the last has
  ended, so two suffice. `RoomToStart` starts a run only when two slots for publishers are free, the
  scanners of the last are gone and at most one old poller is left. With two slots it
  leaves out a start beside a publisher that a stop has not waited for, which only
  `session_faults` could meet; that start is number 21 of section 7, and with a third slot the run is out of reach.
* `MaxGen`, `MaxRows`: deletions and new sessions; rows of `tasks`.
* `ReachedOnce`: stop, exit and crash happen only while no request is with the broker
  twice; a request that is published again after a crash is the code's
  at-least-once delivery and is allowed, but not crashed upon again.
* `Patient`: between runs nobody clicks before the queued calls of the last
  run have been taken. The flag `hurry` lifts it; the instances with it are too
  large and are left to the plan.
* One unhandled poll tick at a time; one queued answer at a time may be a
  redelivered one; the hand-corrected queue length is cut at `Fallback`, beyond
  which it makes no difference.
* `MaxLife`: resets and deletions of an eager run. `Patient` holds there as well
  (`UserTurn`), and one poll tick at most is unhandled.
* `MaxBreaks`, `MaxTries`: breaks of one connection and publish attempts. With two
  of each a retry, a second copy and a failure after retries all happen; with prefetch
  1 a second answer waits for the first acknowledgement.
* `Budget` of `FolderIndex`: how often the user acts, the disk changes, a read fails, the
  link changes; a kill (`"kill"`) counts as a gesture. Three gestures make an addition, a change in the
  middle of its scan and one in answer to that; two make an addition and a change, the
  close or the kill. Five edits remove and make again a folder and the one below it, as often as
  number 19 of section 7 needs: with `"remakeBusy"` the run `folder_index_cover` fails, without it
  it passes. `BatchSize`: the code claims up to 500 folders, more than any tree here has, so 3 is
  enough for `folder_index_cover` to read its whole tree in one batch; `folder_index`, whose properties are proved
  for any size, has 1. `PeriodicLimit`: folders a periodic job may read.
* `MaxVersion`, `MaxDeeds`, `MaxCrash` of `Startup`: an upgrade, an edit before and one
  after it, a start that is cut and cut again, or fails at a file.
* `MCTaskRepository` claims one task per call and sets scan states SCANNING and
  SCANNED only (WAITING, EMPTY and ERROR are set by other transactions or differ
  for none of the properties).

`CHECK_DEADLOCK FALSE` where the program may rest: a closed database, a completed
session with no generations left, workers that have ended, an index at rest, a program
that has been started for the last time.
Symmetry is used in `session_user`, `task_repository` and `folder_index`, all of them
without liveness: queues and favourites are interchangeable before they are registered,
and their order is part of the state.

## 4. Properties

`TaskRepository`: `CountersAreHonest`, `RowsAreOwned`, `OrderIsComplete`,
`KeepsPromise` (refinement). `FolderReorder`: `PinnedStay`, `RelativeOrderKept`,
`MovesAsAsked`. `LazySession`: `OnePublisher`, `PausedIsQuiet`, `HeldIsQuiet`,
`PublishedOnce` (user), `ActiveIsResumable`, `ClaimsHaveOwner`,
`ScannedMeansInventoried`, `CountersMatchRows` (restart), `CompletedMeansDone`,
`NothingStalls` (faults), `WithinLimit`, `RunEnds` (liveness). `EagerSession`:
`NothingTwice`, `KeepsPromise` (refinement), `WithinCap`, `NothingForgotten`, `TrackedCoversKnown`,
`RunEnds`. `BrokerClient`: `AnswerKept`, `OnceOverGoodLinks`, `StopEnds`, `AnswersArrive`.
`FolderIndex`: `ReadyIsClean`, `ClaimedIsHeld`, `CountsAgree`, `IndexingHasWorker`,
`ReadyIsCovered`, `IndexSettles`. `Startup`: `EditsSurvive`, `StampMeansWhole`,
`SettingsArrive`. Each is explained
where it is defined, and each has a mutant in `PROJECT.json`: a change of the
model as a plausible bug would make, which violates it. The mutated operators
stand next to the ones they replace, marked "Mutant".

A property that holds in one run can fail in another that allows more:
`ClaimsHaveOwner`, `CompletedMeansDone`, `NothingStalls`, `CountersMatchRows`,
`ScannedMeansInventoried`, `NothingForgotten`, `TrackedCoversKnown`, `RunEnds`,
`IndexingHasWorker`, `ReadyIsCovered`, `OnePublisher`, `PausedIsQuiet`, `PublishedOnce` and `StampMeansWhole` are checked where the code keeps them and refuted in section 7
where it does not. `ResultReflected` and `OutIsSettled` are stated for section 7 only.

## 5. Fairness

`FairSpec` assumes what the scheduling of the program gives:

* `EventLoop`: the GUI thread goes on taking queued calls and due timers, the metrics
  thread goes on reading (`QueueMetricsWorker.run` loops until shutdown), the
  user answers the preflight dialog, eventually with yes.
* `Threads`: each worker thread goes on with its loop. No fairness on whether a publish
  succeeds or fails, and none on answers: `PollDeliver` may never happen.
* `RequestsAge`: when poll cycles go on coming while requests are out, one of them finds
  everything that is out too old. This is `timeout_seconds`: a poll cycle marks
  what is older.

Weak fairness of an action that runs the dispatcher is written out
(`<>[]P => []<><<A>>_vars` with `P` equal to its ENABLED), which TLC evaluates
faster. Nothing fair is assumed of clicks, crashes or faults.

`RunEnds` is checked without connection failures: a publisher that can never
connect retries for ever, as it should; a poller that does not connect is
number 5 of section 7.

The `FairSpec` of `EagerSession` is built the same way. In `BrokerClient` both
worker loops go on and the broker delivers to a consumer that has room; nothing is
assumed of reconnections, answers or stops, so `StopEnds` holds on connections that
never come back. In `FolderIndex` the event loop, the timer of five minutes and
the worker thread go on, and a program that was closed is started again;
edits, gestures, errors and kills are bounded by `Budget` and so cease. In `Startup` a start that
has begun goes on, and the bounded crashes and deeds cease.

## 6. Proofs

`TaskRepositoryProofs`, for any finite set of queues and images, any assignment
of source folders, any disk contents, any bounds:

* `GoodAlways`: `Spec => []Good(db)`. `Good` is the inductive invariant: the types,
  counters that overstate nothing, the ownership of rows, the display order. None of the parts is inductive
  alone: a status change subtracts from a counter what it takes from a tally, so
  counters need the types and finite sets of rows; an inserted batch
  raises the counters by the number of rows that are new, so it needs that rows
  have registered queues; a reordering is a permutation of slots, so that its
  result lists every queue only if the order before did.
* `TypeCorrect`, `RowsOwned`, `OrderCorrect`: its parts, properties of run `task_repository`.
* `CountersCorrect`: `Spec => CountersAreHonest`. Each transaction keeps the counters of a queue that
  were right (`CountsKept`), `PopulateFromSibling` those of every queue but one with rows of its own. No
  assumption excludes the call on such a queue.
* `RepositoryKeepsPromise`: `Spec => KeepsPromise`. Each transaction is a step of
  `TaskPromise` or a stutter. The step that needs the invariant is the deletion:
  it is decided by counters, and only because those of the statuses beyond PENDING are the
  tallies does it withdraw waiting requests alone.

Assumptions: `TablesAssumption` (finite sets, folder contents are images) and
`RepositoryAssumption`. `TaskTablesProofs` begins with general lemmas: that `Only` and
`ByRank` list what they should, each once; the least of a set of numbers, by
well-founded induction on finite sets, and from it that a family of facts indexed by
numbers that is passed on upward (`Upward`) holds, and that a function of numbers
may be given by recursion (`RecursionExists`).
(`EagerProofs` has its own copies of those it needs: store and tables share names, so that
neither module of proofs can extend the other.) It then says what each transaction does to rows, tallies, registration
and order; then one lemma per transaction, then one step per action.

The same module proves `FolderReorder`, for any finite set of queues of which any part
may be moved and any selection: `PinnedAlwaysStay`, `RelativeOrderAlwaysKept`,
`AlwaysMovesAsAsked`. The invariant `MovesInv` says that the list holds every queue
once and is what the last request made of the list before it. A step up or down is a
pass of swaps, given by recursion over positions; each swap trades a selected queue with an
unselected neighbour, so the two kinds keep their orders, and the pass is followed
to the place where each queue ends.

`LazySessionProofs`, for any queues, images, limits, slots of threads, verdicts and
*any* set `Allowed` of user actions and faults, all of them included:
`ActiveIsResumableAlways`, `CountersFollowRows`; and, if the waits for threads are long enough
(`Waits`: `"waitTimeout" \notin Allowed`), `OnePublisherAlways`, `PausedIsQuietAlways`. A publisher
reads its stop flag once per message and then makes all its attempts: one that a stop has not waited for
still sends, in the pause and beside the publisher of the next run (section 7, number 21). The inductive
invariant `SessionFits` says that

* the situation has its types, every finished signal in the queue of the GUI
  thread and every reference of the controller names a slot;
* a publisher that would still send is the one the controller refers to
  (`Sends(s, p) => ctl.pub = p`; this is what makes it one, and it holds although a
  new dispatch drops the reference of a finished thread while its signal is still
  posted). Where the stops wait, one that is told to stop counts as sending until it has ended;
  where they may not, one that is told to stop is left out, and nothing is claimed of it;
* an active run has a session to be resumed, and a session paused by the user
  has no claim and nobody who sends;
* where waits may time out, after `StopMessaging` nobody who has not been told to stop sends until the
  stop is complete; where they do not, the wait for the publisher ends with its thread;
* if no two queues share a folder (`OwnSources`), the counters are the tallies. Without that
  they are not: section 7.

The GUI thread runs about thirty slots over one situation, and they call each other.
The proof therefore goes by a preorder, `Calm(s, t)`: a routine that leads from s to t
makes no publisher send that did not, claims nothing and leaves the run and the row of its session as they were.
Routines are proved calm one by one, calm routines compose, and a calm step keeps
the invariant. Only starting, dispatching and stopping, which are not calm, have proofs of their own.

`ScannedIsInventoried`, in the same module, is about the inventory: a queue shown as SCANNED has
a request for every image of its folder. A thread scans outside the tables, reports by a
call that names a queue by its path alone, and may be cut, restarted or forgotten
between any two batches. The invariant `SurveyFits` adds to `SessionFits`

* `Listing`: rows are of images of their folder, and a queue that is SCANNED has them all (this is
  the property; populating a queue from its sibling needs the first half);
* `OwnScans`: whatever thread scans, is still to be reported or is referred to has a registered queue that no other
  such thread has, and what it has not written yet is in its list (`Covers`);
* `ScanCalls`: a thread that reports no longer scans, a call of its completion is true, and the call of
  its end is the last that is heard of it, so that a slot is used again only when it is silent;
  `ScanRefs`: what the controller refers to is the scan of that queue;
* `Unasked`: in an active run no scan has been told to stop, and no queue with a scan is WAITING; without this
  a second scan would start beside the first. A process that is down has no thread left.

It assumes `SlotEach`, as many slots as queues (with fewer the model would withhold scans that the code
starts), and `OneSession`, no deletion and no new session (`MaxGen = 0`), which is a restriction of the
theorem and not of the model: without it the code fails (section 7, number 20). All faults and all other actions are
allowed.

For the same session `PublishProofs` proves `AlwaysWithinLimit`, `HeldAlwaysQuiet`,
`AlwaysPublishedOnce`, `ClaimsAlwaysOwned`. The rows alone do not say who is still
going to act on them: a claim may be waiting in a publisher's list, be with the broker and in a posted
`message_published`, or have been given back by a stop while that call is still
posted. The invariant `PublishFits` adds to `SessionFits`

* `Referred`: a publisher that has not come to its end is the controller's, its
  list names no request twice, and no call says that it has ended;
* `Wired`, in a run: one thread at a time, whose calls come after the end of the
  one before it and before its own end, so that a dispatch never meets the calls of an older publisher;
* `Accounted`: what was handed out and is PENDING again (`Back`) exists in stopped runs
  only, and counts towards the limit together with what is out, because a
  late `message_published` may bring it out again; nothing handed out is of a held queue;
  what the broker has and the table does not know as sent is still to be reported,
  and what is still to be sent the broker does not have;
* `Settled`: outside of a stop every claim is in a publisher's list or in a posted
  call, and without a run there is none; `NoneLeft`: when a stop is done, no publisher and no call of one is left.

The property of the limit is inductive only with `Back`, the one of single publication only
with the three possible places of a request. Each theorem names what it assumes
beyond the constants' assumptions:

* `Orderly`: no wait for a thread times out, nobody clicks before the calls of the last run have been
  taken (`Patient`), and there are two slots for publishers, so that a run starts when both are free
  (`RoomToStart`). Without the first or the second
  `HeldIsQuiet` fails (two queues, one image, {stop, hold} with waitTimeout or hurry: a queue is held
  after the stop has given its claim back, then the late `message_published` makes the request SENT), and
  `PublishedOnce` fails once a run may start beside a publisher of the last (three slots, {stop, waitTimeout}: section 7,
  number 21; or {stop, hurry}: the request already sent is claimed and sent again). For the other two properties
  `Orderly` is what the argument uses, and no violation without it is known;
* `OwnSources` for held queues: with a shared folder the counters may be wrong (section
  7, number 6), and a queue is held by its counters;
* `Once` for single publication: no crash and no exit, which publish again what they do not know to have been sent;
* no `connectFailure` for claims: section 7, number 2.

All other actions and faults are in `Allowed` at will. The proof rests on two relations between situations:
`Keeps`, for slots that leave publishers and their calls alone, and `Tidy`, a
situation between two slots of one turn of the GUI thread, which dispatch, completion and stop
lead to a `Tidy` one again.

`EagerProofs`, for any folders, finite sets of images, caps and numbers of threads. With
any choice of actions and faults, `EagerKeepsPromise`: `Spec => KeepsPromise`. The store
in memory, with threads, late confirmations and stops around it, implements the same
`TaskPromise` as the database. `EagerInv` says that a task is in the list of its own
folder (a folder is found deletable by its list, its tasks are deleted by their
folder) and that the answers queued for the GUI thread are outcomes. First each
operation of `TaskStore`, then that the routines of the dispatcher write nothing to
it, then each step. The assumptions are `EagerAssumption` and `SessionAssumption`.

Four safety properties follow, with every action and fault except those a theorem names:

* `StaysWithinCap`: at most `MaxActive` folders are open, if no open folder gets further
  images (`"extend" \notin Allowed`; an extension opens a folder that was done
  without asking the dispatcher). `CapFits` says what the dispatcher's count relies on: a batch holds tasks
  of its own folder only, which is in the store, and a folder in the store has all its images
  there, so that it gains no task once it is finished.
* `NothingTwiceAlways`: nothing is published twice and nothing that waits in a batch
  is with the broker or settled. It takes two invariants. `ThreadsFit`: in a run one publisher is at
  work, it is the one the controller refers to, and no report comes after the
  call of its thread's end. `Ledger`: `Books` (a request in a batch is nowhere
  else, and what is with the broker or answered has left PENDING or its report is on
  its way) and `Separate` (no batch or list names a request twice; what
  a publisher has in hand is with the broker only if just sent).
* `NothingForgottenAlways`: every PENDING task of a run is in a batch, with a publisher
  or in a report (`Complete`, the third part of `Ledger`), if every publisher connects
  (`"connectFailure" \notin Allowed`; otherwise section 7, number 16).
* `PollersTrackAll`: a poll thread that works and is not told to stop tracks every task of the
  store, unless a stop comes before the result queue is announced (`"early" \notin Allowed`; section
  7, number 15). `FollowInv` adds to the ledger `Follows`: one poll thread lives at a time,
  and outside of a run only one that is being stopped (`Polled`); in a run the call
  of its end is the last that is heard of it (`Announced`); the announcement of the queue
  is awaited in a run only.

The last three assume `TwoSlots`. `PubSlots` bounds the threads of the model, not of the
code: while the end of one publishing thread is not told yet the next may start, which takes a
second slot. With one slot the model would withhold starts that the code makes.

`FolderIndexProofs`, for any set of roots, finite set of folders, batch size, limits
and any number of events: `ReadyIsAlwaysClean`, `ClaimedIsAlwaysHeld`,
`CountsAlwaysAgree`, `IndexingAlwaysHasWorker`. The inductive invariant `IndexInv` says for every root
what its rows may be given where the worker stands: no root that is being scanned is
READY; what is PROCESSING is in the worker's batch; the counters agree except
for the root at which the worker has claimed, or read and not counted, something.
None of the three properties is inductive alone: READY is clean because new work is only
enqueued by a commit, and a commit is made in a scan, where the status is another;
this in turn needs that a scan sets INDEXING before it claims. `Attended` adds that a
root shown as INDEXING is not excluded, and that a worker past its look at the scope
has a root that is not: a scan of an excluded root would be left
in INDEXING by the next look. It is preserved if no scope is changed while a thread works
(`"rescopeBusy" \notin Allowed`; otherwise section 7, number 10).

`BrokerClientProofs`, for any batch, retries, prefetch and number of breaks:
`TypeCorrect`, `AnswersAreKept`, `OnceUnlessBroken`. `SafeInv` adds where a message can
be (waiting, ready, given to a consumer, being acknowledged, handed over), that
what a consumer holds goes back when its connection is gone, and how many copies
the attempt in progress can account for.

`StartupProofs`, for any number of files, versions, deeds and crashes: `TypeCorrect`,
`EditsAreKept`, and `StampIsHonest` under the assumption that no crash tears a
file of the version already stamped (`"tearing" \notin Allowed`; without it section 7, number 17).
`SafeInv` says that before a file is truncated its content is a template or in a
backup; `StampInv` says which files must be whole at which point of the start.

Model-checked only:

* `NothingStalls`, `CompletedMeansDone` of `LazySession`: they hold for the actions of their runs, not
  for all (section 7, numbers 3 and 4);
* `ReadyIsCovered` of `FolderIndex`: it holds without failing reads, scope changes under a scan and
  favourites added again, and as long as the disk does not change as `MadeInBatch` says; an attempt to prove
  it led to number 19 of section 7;
* `TypeOK` of `LazySession`: its types are in `SessionFits`; that a slot is free for each new thread is a matter of the bounds;
* liveness, which needs ENABLED.

## 7. Where the code disagrees with what is said of it

Each was found with the modules: the instance named here violates the property
named. They are no runs of the project; to see one, put the instance into a cfg. The quotations are
in `PROJECT.json`. Instances of `LazySession` have `Chunk` 1, `Fallback` 2, `MaxInitial` =
`MaxActive` = 1, `PubSlots` {1, 2}, `PollSlots` {1, 2, 3}, `ScanSlots` {1, 2}; those of
`EagerSession` have `Items <- Single`, `MaxInitial` = `MaxActive` = 1, `PubSlots` {1, 2}, and,
unless said, `PollSlots` {1}; those of `FolderIndex` have `Folders <- MCFlat`, `BatchSize` 1, `MaxTries` 1.

1. An answer handled before `message_published` of its own request is dropped after
   it was acknowledged (`sqlite_task_store.py:267` accepts SENT and RUNNING only);
   the request later times out. `ResultReflected`; one queue, one image, `Allowed` {}.
2. A dispatch between the end of a failed publish thread and its `finished` slot
   forgets the thread (`controller.py:1983`); its claims are not released until a stop
   or restart. `ClaimsHaveOwner`; two queues, one image, {connectFailure}.
3. A folder added while the poller is ending stays unscanned in a session marked
   COMPLETED (`controller.py:757`). `CompletedMeansDone`; two queues, one image, {add}. So does one added while
   the session is paused, if a `queueReady` handled after the stop has started a poller, whose end completes the
   session; {stop}.
4. Deleting a queue during a run clears the sets of open queues (`controller.py:1935`),
   and nothing opens the others again. `NothingStalls`; two queues of two images,
   `MaxGen` 1, {delete}.
5. A poller that fails to connect while the publisher works is not replaced
   (`controller.py:757`); what is out is neither answered nor timed out. `OutIsSettled`
   under `FairSpec`; one queue, one image, `OneWorker`, {timeout, pollFailure}.
6. A queue with rows from a cut scan, populated from its sibling, has its counters
   overwritten (`task_repository.py:370`). `CountersMatchRows`; `MCSharedSourceOf`,
   `MCSharedDisk`, two queues, two images, {stop, move}.
7. A poll loop whose connection is reported closed before an error is noticed reconnects without
   its consumer (`rabbitmq_client.py:220`): no answer arrives any more. In `BrokerClient`,
   `poll.run = "pumping" /\ poll.conn = "open" => poll.consumer` fails after `PollConnect`,
   `PollBreaks`, `Notice`, `PollReconnect`. `AnswersArrive` is about the loops that keep theirs.
8. A new folder whose first reading fails is forgotten when a periodic job gives up
   the generation (`folder_index_repository.py:654`); the root becomes READY.
   `ReadyIsCovered`; `ForgetsBudget`, `PeriodicLimit` 2, {add}.
9. A root that goes offline while folders are being verified (`:922`), or a click on a
   result that cannot be reached (`main_window.py:1219`), deletes cached rows that the
   documents promise to keep.
10. A change of scope during a scan ends in READY with folders missing, in
   READY over EXCLUDED, or in INDEXING without a worker (`:412`).
   `ReadyIsCovered`, `IndexingHasWorker`; {add, rescopeBusy}.
11. A favourite removed and added again while a batch is being read becomes READY with an
   empty index (`:1060`). `ReadyIsCovered`; {add, remove}.
12. A pause between a scan's look at the favourite and its UPDATE is overwritten (`:670`); a merged job
   resumes paused roots; a job that reaches its limit puts INCOMPLETE over PAUSED.
13. Eager mode: a folder that is open and gets further images has a second batch
   that is never dispatched (`controller.py:1873`). `RunEnds`; one folder, {add, extend}.
14. Eager mode: a folder added while the poller is being stopped is published
   and never polled for (`:757`). `RunEnds`; {add, late}.
15. A `queueReady` handled after a stop starts a poller for a session that does not run
   (`:582`); it drops the answers to folders registered later.
   `TrackedCoversKnown`; `PollSlots` {1, 2, 3}, {add, stop, early}.
16. Eager mode: a publisher that cannot connect leaves its folders open and their
   requests PENDING (`:732`). `NothingForgotten`; {connectFailure}. A poller that cannot
   connect leaves the run open, as in number 5.
17. A settings file torn by a crash while the fingerprint is already the bundle's is never
   repaired (`runtime_paths.py:383`). `StampMeansWhole`; `Startup.cfg` with `Allowed` {tearing}.
18. The marker of the installer is removed before anything is renewed
   (`runtime_paths.py:363`); a crash then forgets the request.
19. A folder that is removed and made again between the reading of its parent and its own
   verification in one batch leaves its new children in the index without it; in the next generation a
   child that is missing for a moment is done with before the folder is discovered, and is not queued again
   (`folder_index_repository.py:988`). `ReadyIsCovered`; `Folders <- MCChain`, `InitialDisk <- MCBare`,
   `DefaultDepth`, `BatchSize`, `MaxTries` 2, `PeriodicLimit` 4, `BatchBudget`, {add, remakeBusy}. The run
   `folder_index_cover` leaves exactly this change of the disk out (`"remakeBusy" \notin Allowed`).
20. A queue that is deleted while it is being scanned, and added again while its thread lives, gets the
   images that thread has left and is marked SCANNED (`controller.py:1486`); the earlier ones have no request.
   `ScannedMeansInventoried`; one queue, two images, `MaxGen` 1, {add, delete}. Or, after number 3, the old thread
   goes on in the next session; two queues, two images, `MaxGen` 1, {stop}.

21. A publisher looks at its stop flag once per message (`publish_worker.py:57`), then makes up to
   `max_publish_retries` attempts with sleeps between them; a stop waits 1500 ms and forgets it
   (`controller.py:865-878`). It sends in the paused session: `PausedIsQuiet`; one queue, one image, verdicts without
   readings, {stop, waitTimeout}. Its claim was given back, so a run that is resumed meanwhile claims and
   sends the same request again, beside it: `OnePublisher`, `PublishedOnce`; the same with `PubSlots` {1, 2, 3}.

Also seen in eager mode: a folder whose tasks are all PENDING can be deleted while the
publisher holds its messages, which go out all the same; a run whose folders are all
deleted never ends, since an empty store does not count as terminal.

## 8. Not modelled

The discovery of subfolders, the history of sessions and its pruning, the migration
of the schema; the search itself with its pages and the text index, recent folders;
the mock broker and the client that reads queue statistics, except for what it
reports; a channel closed on an open connection. The values of settings are
constants; parsing, widgets, dialogs, formatting of messages, previews and exports, the updater, the
worker monitor and packaging have no state that the properties speak of. Empty
settings refuse a start in the code; a start in the model has its settings.

## 9. Plan

Written in this order: `FolderOrder`, `TaskTables`, `TaskRepository` with
`TaskPromise` and its proofs, `LazyController`, `LazySession`; `FolderIndexTables`,
`FolderIndex` with proofs, `EagerController`, `EagerSession` with its refinement proof, `Startup` with proofs,
`BrokerClient` with proofs. To come:

1. `FolderDiscovery`: the discovery thread registering queues while sessions are
   completed, reset and resumed; `hurry`; the cap on open queues and pollers of paused sessions
   in lazy mode.
2. `SessionHistory`: archive, prune and current session.
3. Abstract specifications: the lazy session as an implementation of `TaskPromise`
   (so far its tables and the eager session are shown to be); an index that is complete as of the start of its scan.
4. Proofs: `CompletedMeansDone` for the actions of its runs, `ReadyIsCovered` without `"remakeBusy"`.
5. Channels closed on open connections in `BrokerClient`.
