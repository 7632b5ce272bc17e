---------------------------- MODULE FolderIndex ----------------------------
(***************************************************************************)
(* The favourite roots and their search index: FolderIndexRepository, one  *)
(* FolderIndexWorker at a time in a thread of its own, the GUI thread of   *)
(* MainWindow that starts, joins and cancels its jobs, the disk, which     *)
(* changes meanwhile, and the end of the process at any point.  A step of  *)
(* the worker ends where the repository releases its lock, or where a      *)
(* folder has been read, since the GUI thread can come in between there.   *)
(***************************************************************************)
EXTENDS FolderIndexTables

CONSTANTS Roots, NoRoot,
          InitialDisk,   \* what is below each root at first
          BatchSize,     \* DEFAULT_BATCH_SIZE
          PeriodicLimit, \* folders that a periodic job reads
          Allowed,       \* the user's actions and the faults of this instance
          Budget         \* bound: how often each kind of event happens

UserActions == {"add", "remove", "rescope", "rescopeBusy", "refull", "refresh", "pause",
                "pauseAll", "open", "move", "close"}
\* "remakeBusy": the disk may change as MadeInBatch says.
Faults == {"kill", "remakeBusy"}
\* "gesture": an action of the user, or a kill.
Events == {"gesture", "edit", "error", "link"}

ASSUME IndexAssumption ==
  /\ IsFiniteSet(Folders) /\ IsFiniteSet(Roots) /\ NoRoot \notin Roots
  /\ InitialDisk \in [Roots -> SUBSET Folders]
  /\ \A r \in Roots : Top \in InitialDisk[r]
  /\ BatchSize \in Nat \ {0} /\ PeriodicLimit \in Nat \ {0}
  /\ Allowed \subseteq UserActions \cup Faults
  /\ Budget \in [Events -> Nat]

VARIABLES db,       \* the rows of each root
          order,    \* the favourites by column position
          disk,     \* the folders that exist, each with its modification time
          link,     \* whether the root can be reached
          worker,   \* the thread and the worker in it
          job,      \* _pending_folder_index_job
          cancel,   \* a cancellation that the GUI thread is about to make
          shutting, \* _folder_index_shutting_down
          left      \* bound: events that can still happen

vars == <<db, order, disk, link, worker, job, cancel, shutting, left>>
world == <<disk, link>>
gui == <<job, cancel, shutting>>

NoJob == [roots |-> {}, full |-> FALSE, limited |-> FALSE, retry |-> FALSE]
Job(roots, full, limited, retry) ==
  [roots |-> roots, full |-> full, limited |-> limited, retry |-> retry]

\* at: where run() or resume_scan() stands; then: where a preparation returns to;
\* seen: what was read of the favourite; batch, good, bad: folders claimed and
\* not yet read, and what reading them gave; now: their generation is still the
\* one of the root.
NoSight == [status |-> "NONE", pending |-> 0, errors |-> 0, cached |-> 0]
NoWorker == [at |-> "none", job |-> NoJob, root |-> NoRoot,
             then |-> "open", seen |-> NoSight, batch |-> {}, good |-> {}, bad |-> {},
             now |-> TRUE, processed |-> 0, cancelled |-> FALSE]
NewWorker(j) == [NoWorker EXCEPT !.at = "next", !.job = j]

NoCancel == [at |-> FALSE, clear |-> FALSE]

Row == [mtime : Nat, now : BOOLEAN]
WorkRow == [state : {"PENDING", "PROCESSING", "DONE", "ERROR"}, tries : Nat, now : BOOLEAN,
            work : {"DISCOVER", "VERIFY"}]
TablesOK(t) ==
  /\ t.status \in Statuses /\ t.scope \in Scopes /\ t.limit \in Nat
  /\ t.kind \in {"FULL", "INCREMENTAL"} /\ t.online \in BOOLEAN
  /\ DOMAIN t.index \subseteq Folders /\ t.index \in [DOMAIN t.index -> Row]
  /\ DOMAIN t.queue \subseteq Folders /\ t.queue \in [DOMAIN t.queue -> WorkRow]
  /\ t.errs \subseteq Folders \X BOOLEAN
  /\ t.indexed \in Nat /\ t.pending \in Nat /\ t.errors \in Nat

Favourites == {r \in Roots : Known(db[r])}

Init ==
  /\ db = [r \in Roots |-> NoFavourite] /\ order = << >>
  /\ disk = [r \in Roots |-> [f \in InitialDisk[r] |-> 0]]
  /\ link = [r \in Roots |-> TRUE]
  /\ worker = NoWorker /\ job = NoJob /\ cancel = NoCancel
  /\ shutting = FALSE /\ left = Budget

Spend(event) == left[event] > 0 /\ left' = [left EXCEPT ![event] = @ - 1]
Put(r, t) == db' = [db EXCEPT ![r] = t]
IsDirectory(r, f) == link[r] /\ f \in DOMAIN disk[r]

-----------------------------------------------------------------------------
(* The GUI thread. *)

\* Two jobs that wait become one.
Merged(a, b) ==
  LET full == a.full \/ b.full
  IN  Job(a.roots \cup b.roots, full, ~full /\ a.limited /\ b.limited, a.retry \/ b.retry)

\* _start_folder_index_job: there is one thread at a time.
Request(j) ==
  IF shutting \/ j.roots = {} THEN UNCHANGED <<worker, job>>
  ELSE IF worker.at = "none" THEN worker' = NewWorker(j) /\ UNCHANGED job
  ELSE /\ job' = IF job.roots = {} THEN j ELSE Merged(job, j)
       /\ UNCHANGED worker

\* One action of the user; the GUI thread is not in the middle of another.
Clicked(name) == name \in Allowed /\ ~shutting /\ ~cancel.at /\ Spend("gesture")
Gesture(name) == Clicked(name) /\ UNCHANGED <<disk, link, shutting>>

Add(r) ==
  /\ Gesture("add") /\ ~Known(db[r])
  /\ Put(r, Added("DEPTH", link[r])) /\ order' = Append(order, r)
  /\ Request(Job({r}, TRUE, FALSE, FALSE))
  /\ UNCHANGED cancel

\* The rows go with the favourite. What the worker holds of it belongs to no
\* generation that the root will ever have again.
Remove(r) ==
  /\ Gesture("remove") /\ Known(db[r])
  /\ Put(r, NoFavourite) /\ order' = SelectSeq(order, LAMBDA x : x # r)
  /\ worker' = IF worker.root = r THEN [worker EXCEPT !.now = FALSE] ELSE worker
  /\ cancel' = [at |-> TRUE, clear |-> TRUE]
  /\ UNCHANGED job

\* Action "rescope" is a choice of scope while no thread works.
Rescope(r, scope) ==
  /\ Gesture(IF worker.at = "none" THEN "rescope" ELSE "rescopeBusy") /\ Known(db[r])
  /\ Put(r, Rescoped(db[r], scope))
  /\ Request(IF scope = "EXCLUDED" THEN NoJob ELSE Job({r}, FALSE, FALSE, TRUE))
  /\ UNCHANGED <<order, cancel>>

\* "Reindex" of one root and the refresh button for the selected or for all roots.
Refull(S) ==
  /\ Gesture("refull") /\ S \subseteq Favourites
  /\ Request(Job(S, TRUE, FALSE, FALSE))
  /\ UNCHANGED <<db, order, cancel>>

Refresh(r) ==
  /\ Gesture("refresh") /\ Known(db[r]) /\ db[r].scope # "EXCLUDED"
  /\ Request(Job({r}, FALSE, FALSE, TRUE))
  /\ UNCHANGED <<db, order, cancel>>

\* The button is enabled while the table shows INDEXING.
Pause(r) ==
  /\ Gesture("pause") /\ db[r].status = "INDEXING"
  /\ Put(r, Paused(db[r])) /\ cancel' = [at |-> TRUE, clear |-> FALSE]
  /\ UNCHANGED <<order, worker, job>>

Resume(r) ==
  /\ Gesture("pause") /\ db[r].status \in {"PAUSED", "INCOMPLETE", "OFFLINE"}
  /\ db[r].scope # "EXCLUDED"
  /\ Put(r, Resumed(db[r])) /\ Request(Job({r}, FALSE, FALSE, TRUE))
  /\ UNCHANGED <<order, cancel>>

\* The pause button of the search panel is enabled while there is a thread.
PauseAll ==
  /\ Gesture("pauseAll") /\ worker.at # "none"
  /\ db' = [r \in Roots |-> IF db[r].status = "INDEXING" THEN Paused(db[r]) ELSE db[r]]
  /\ cancel' = [at |-> TRUE, clear |-> TRUE]
  /\ UNCHANGED <<order, worker, job>>

\* _cancel_active_folder_index_job, after the transaction of the same slot.
Cancel ==
  /\ cancel.at /\ cancel' = NoCancel
  /\ worker' = IF worker.at = "none" THEN worker ELSE [worker EXCEPT !.cancelled = TRUE]
  /\ job' = IF cancel.clear THEN NoJob ELSE job
  /\ UNCHANGED <<db, order, disk, link, shutting, left>>

OpenResult(r, f) ==
  /\ Gesture("open") /\ f \in Hits(db[r]) /\ ~IsDirectory(r, f)
  /\ Put(r, Missing(db[r], f))
  /\ UNCHANGED <<order, worker, job, cancel>>

Places(i, op) == CASE op = "up" -> IF i = 1 THEN 1 ELSE i - 1
                   [] op = "down" -> IF i = Len(order) THEN i ELSE i + 1
                   [] op = "top" -> 1
                   [] op = "bottom" -> Len(order)
MoveFavourite(i, op) ==
  /\ Gesture("move") /\ Places(i, op) # i
  /\ LET rest == [k \in 1..(Len(order) - 1) |-> order[IF k < i THEN k ELSE k + 1]]
         p == Places(i, op)
     IN  order' = SubSeq(rest, 1, p - 1) \o <<order[i]>> \o SubSeq(rest, p, Len(rest))
  /\ UNCHANGED <<db, worker, job, cancel>>

\* The timer of five minutes and the notification of a change below a root.
Periodic ==
  /\ ~shutting /\ ~cancel.at
  /\ Request(Job(Favourites, FALSE, TRUE, FALSE))
  /\ UNCHANGED <<db, order, disk, link, cancel, shutting, left>>

ThreadFinished ==
  /\ worker.at = "ended" /\ ~cancel.at
  /\ worker' = IF job.roots # {} /\ ~shutting THEN NewWorker(job) ELSE NoWorker
  /\ job' = NoJob
  /\ UNCHANGED <<db, order, disk, link, cancel, shutting, left>>

\* shutdown_folder_navigation waits at most 3 s for the thread.
Close ==
  /\ Clicked("close") /\ shutting' = TRUE /\ job' = NoJob
  /\ worker' = IF worker.at = "none" THEN worker ELSE [worker EXCEPT !.cancelled = TRUE]
  /\ UNCHANGED <<db, order, disk, link, cancel>>

\* The process has ended, closed or killed, and is started again.
Resumable == {r \in Roots : LET t == Recovered(db[r])
                            IN  /\ Known(t) /\ t.scope # "EXCLUDED"
                                /\ t.status # "PAUSED"}
Restart ==
  /\ \/ shutting /\ UNCHANGED left
     \/ ~shutting /\ "kill" \in Allowed /\ Spend("gesture")
  /\ db' = [r \in Roots |-> Recovered(db[r])]
  /\ worker' = IF Resumable = {} THEN NoWorker
                                 ELSE NewWorker(Job(Resumable, FALSE, FALSE, TRUE))
  /\ job' = NoJob /\ cancel' = NoCancel /\ shutting' = FALSE
  /\ UNCHANGED <<order, disk, link>>
-----------------------------------------------------------------------------
(* The worker thread. *)

root == worker.root
rows == db[root]
Unseen == UNCHANGED <<order, disk, link, job, cancel, shutting>>
Go(at) == worker' = [worker EXCEPT !.at = at]
Call(at, then) == worker' = [worker EXCEPT !.at = at, !.then = then]
Step(at) == worker.at = at /\ Unseen

Sight(t, cached) ==
  [status |-> t.status, pending |-> t.pending, errors |-> t.errors, cached |-> cached]

\* An exception leaves run(): the roots that remain are given up.
Fail == Go("ended") /\ UNCHANGED <<db, left>>

NextRoot ==
  /\ Step("next") /\ UNCHANGED <<db, left>>
  /\ IF worker.cancelled \/ worker.job.roots = {} THEN Go("ended")
     ELSE \E r \in worker.job.roots :
            worker' = [worker EXCEPT !.root = r, !.job.roots = @ \ {r}, !.processed = 0,
                                     !.at = IF worker.job.full THEN "lookFull" ELSE "open",
                                     !.then = "open", !.now = TRUE, !.seen = NoSight]

\* prepare_full_scan, up to _set_root_status, and its second transaction.
LookFull ==
  /\ Step("lookFull") /\ UNCHANGED left
  /\ IF ~Known(rows) \/ rows.scope = "EXCLUDED" THEN Go(worker.then) /\ UNCHANGED db
     ELSE /\ Put(root, Connected(rows, link[root]))
          /\ Go(IF link[root] THEN "writeFull" ELSE worker.then)

WriteFull ==
  /\ Step("writeFull")
  /\ IF ~Known(rows) THEN Fail
     ELSE Put(root, PreparedFull(rows)) /\ Go(worker.then) /\ UNCHANGED left

\* prepare_incremental_scan, up to the count of what is cached, and the rest.
LookIncremental ==
  /\ Step("lookIncremental") /\ UNCHANGED left
  /\ IF ~Known(rows) \/ rows.scope = "EXCLUDED" THEN Go(worker.then) /\ UNCHANGED db
     ELSE IF ~link[root] THEN Put(root, Connected(rows, FALSE)) /\ Go(worker.then)
     ELSE IF DOMAIN rows.index = {} THEN Go("lookFull") /\ UNCHANGED db
     ELSE /\ worker' = [worker EXCEPT !.at = "writeIncremental",
                                      !.seen.cached = Cardinality(DOMAIN rows.index)]
          /\ UNCHANGED db

WriteIncremental ==
  /\ Step("writeIncremental") /\ UNCHANGED left /\ Go(worker.then)
  /\ IF Known(rows) THEN Put(root, PreparedIncremental(rows, worker.seen.cached))
                    ELSE UNCHANGED db

\* resume_scan reads the favourite; what it decides later it decides by this.
OpenScan ==
  /\ Step("open") /\ UNCHANGED left
  /\ IF ~Known(rows) \/ rows.scope = "EXCLUDED" THEN Go("next") /\ UNCHANGED db
     ELSE IF ~link[root] THEN Go("next") /\ Put(root, Connected(rows, FALSE))
     ELSE IF rows.status = "PAUSED" /\ ~worker.job.retry THEN Go("next") /\ UNCHANGED db
     ELSE /\ worker' = [worker EXCEPT !.at = "plan", !.seen = Sight(rows, 0)]
          /\ UNCHANGED db

\* Mutant: a queue that only has errors is kept.
NeverExhausted(t, seen) == FALSE
\* Errors are retried, or a generation that only has errors left is given up.
Exhausted(t, seen) == DOMAIN t.queue # {} /\ seen.pending = 0 /\ seen.errors > 0

Plan ==
  /\ Step("plan") /\ UNCHANGED left
  /\ IF worker.job.retry
     THEN LET t == IF Known(rows) THEN Retried(rows) ELSE rows
          IN  /\ Put(root, t)
              /\ worker' = [worker EXCEPT !.at = "choose",
                               !.seen = IF Known(t) THEN Sight(t, 0) ELSE @]
     ELSE /\ UNCHANGED db
          /\ IF Exhausted(rows, worker.seen)
             THEN Call(IF rows.kind = "INCREMENTAL" THEN "lookIncremental" ELSE "lookFull",
                       "choose")
             ELSE Go("choose")

Choose ==
  /\ Step("choose") /\ UNCHANGED <<db, left>>
  /\ IF DOMAIN rows.queue # {} THEN Go("mark")
     ELSE Call(IF worker.seen.status = "READY" THEN "lookIncremental" ELSE "lookFull", "mark")

Mark ==
  /\ Step("mark") /\ Go("claim") /\ UNCHANGED left
  /\ IF Known(rows) THEN Put(root, Started(rows)) ELSE UNCHANGED db

\* The head of the loop: limit, cancellation, next batch.
Room == IF worker.job.limited THEN PeriodicLimit - worker.processed ELSE BatchSize
Claim ==
  /\ Step("claim") /\ UNCHANGED left
  /\ IF Room <= 0 THEN Go("finalize") /\ UNCHANGED db
     ELSE IF worker.cancelled THEN Go("next") /\ Put(root, Interrupted(rows))
     ELSE IF Claimable(rows) = {} THEN Go("finalize") /\ UNCHANGED db
     ELSE \E S \in Batches(rows, IF Room < BatchSize THEN Room ELSE BatchSize) :
            /\ Put(root, Claimed(rows, S))
            /\ worker' = [worker EXCEPT !.at = "inspect", !.now = TRUE, !.good = {}, !.bad = {},
                             !.batch = {[folder |-> f, work |-> rows.queue[f].work] : f \in S}]

Inspected(b, good, bad) ==
  worker' = [worker EXCEPT !.batch = @ \ {b}, !.good = good, !.bad = bad, !.processed = @ + 1,
                           !.at = IF worker.batch = {b} THEN "commit" ELSE "inspect"]

\* The rows of a batch are read by depth.
NextInBatch == {b \in worker.batch : \A c \in worker.batch : Len(b.folder) <= Len(c.folder)}

\* What is below f on the disk now; nothing is read below the depth limit.
Listed(f) == IF Descends(rows, f) THEN ChildrenIn(DOMAIN disk[root], f) ELSE {}
KnownChildren(f) == ChildrenIn(DOMAIN rows.index, f)

\* Mutant: the children that are known are queued, the new ones are not.
VerifiedKnown(f) ==
  IF f \notin DOMAIN rows.index \/ rows.index[f].mtime = disk[root][f] THEN Unchanged(f)
  ELSE Found(f, TRUE, disk[root][f], KnownChildren(f), KnownChildren(f) \ Listed(f))
\* The outcome of reading a folder that is there.
Verified(f) ==
  IF f \notin DOMAIN rows.index \/ rows.index[f].mtime = disk[root][f] THEN Unchanged(f)
  ELSE Found(f, TRUE, disk[root][f], Listed(f) \ KnownChildren(f), KnownChildren(f) \ Listed(f))
Discovered(f) == Found(f, TRUE, disk[root][f], Listed(f), {})

Read(b) ==
  LET f == b.folder
  IN  IF IsDirectory(root, f)
      THEN Inspected(b, worker.good \cup
             {IF b.work = "VERIFY" THEN Verified(f) ELSE Discovered(f)}, worker.bad)
      ELSE IF b.work # "VERIFY" THEN Inspected(b, worker.good, worker.bad \cup {f})
      ELSE Inspected(b, worker.good \cup
             {IF f \in DOMAIN rows.index THEN Found(f, FALSE, 0, {}, {f}) ELSE Unchanged(f)},
             worker.bad)

Inspect ==
  /\ Step("inspect") /\ UNCHANGED left
  /\ IF worker.cancelled
     THEN /\ worker' = [worker EXCEPT !.at = "next", !.batch = {}, !.good = {}, !.bad = {}]
          /\ Put(root, Interrupted(Returned(rows)))
     ELSE /\ UNCHANGED db
          /\ \E b \in NextInBatch :
               IF Known(rows) THEN Read(b) ELSE Inspected(b, worker.good, worker.bad)

\* A folder that is there cannot be read this time.
InspectError ==
  /\ Step("inspect") /\ ~worker.cancelled /\ Known(rows) /\ Spend("error")
  /\ UNCHANGED db
  /\ \E b \in NextInBatch :
       /\ b.work = "DISCOVER" \/ b.folder \in DOMAIN rows.index
       /\ Inspected(b, worker.good, worker.bad \cup {b.folder})

\* Without the favourite a row to write or to queue violates the foreign key.
Commit ==
  /\ Step("commit")
  /\ IF Known(rows)
     THEN /\ Put(root, Committed(rows, worker.good, worker.bad, worker.now))
          /\ worker' = [worker EXCEPT !.at = "claim", !.good = {}, !.bad = {}]
          /\ UNCHANGED left
     ELSE IF Written(worker.good) \cup worker.bad # {} THEN Fail
     ELSE Go("claim") /\ UNCHANGED <<db, left>>

Finalize ==
  /\ Step("finalize") /\ Go("next") /\ UNCHANGED left
  /\ IF Known(rows) THEN Put(root, Finalized(rows)) ELSE UNCHANGED db

Prepare == NextRoot \/ LookFull \/ WriteFull \/ LookIncremental \/ WriteIncremental \/ OpenScan
Scan == Plan \/ Choose \/ Mark \/ Claim \/ Inspect \/ Commit \/ Finalize

-----------------------------------------------------------------------------
(* The disk. *)

Clock == 1 + Budget["edit"] - left["edit"]
Edited == Spend("edit") /\ UNCHANGED <<db, order, link, worker, job, cancel, shutting>>
ParentOf(f) == SubSeq(f, 1, Len(f) - 1)

\* The folder f is missing in what the batch has read of its parent, and has yet to
\* be read itself in the same batch.
MadeInBatch(r, f) ==
  /\ worker.root = r /\ \E b \in worker.batch : b.folder = f
  /\ \E g \in worker.good : f \in g.gone

\* A folder is made, or removed with what is in it; its parent has a new time.
MakeFolder(r, f) ==
  /\ f \notin DOMAIN disk[r] /\ ParentOf(f) \in DOMAIN disk[r]
  /\ "remakeBusy" \in Allowed \/ ~MadeInBatch(r, f)
  /\ Edited
  /\ disk' = [disk EXCEPT ![r] = [g \in DOMAIN @ \cup {f} |->
                                    IF g \in {f, ParentOf(f)} THEN Clock ELSE @[g]]]
RemoveFolder(r, f) ==
  /\ f \in DOMAIN disk[r]
  /\ Edited
  /\ disk' = [disk EXCEPT ![r] = [g \in DOMAIN @ \ Under(f) |->
                                    IF g = ParentOf(f) THEN Clock ELSE @[g]]]

Reconnect(r) ==
  /\ Spend("link") /\ link' = [link EXCEPT ![r] = ~@]
  /\ UNCHANGED <<db, order, disk, worker, job, cancel, shutting>>

-----------------------------------------------------------------------------
User ==
  \/ \E r \in Roots :
       \/ Add(r) \/ Remove(r) \/ Refresh(r) \/ Pause(r) \/ Resume(r)
       \/ \E scope \in Scopes : Rescope(r, scope)
       \/ \E f \in Folders : OpenResult(r, f)
  \/ \E S \in {{r} : r \in Favourites} \cup {Favourites} : Refull(S)
  \/ \E i \in DOMAIN order, op \in {"up", "down", "top", "bottom"} : MoveFavourite(i, op)
  \/ PauseAll \/ Close

Disk ==
  \E r \in Roots :
    \/ Reconnect(r)
    \/ \E f \in Folders \ {Top} : MakeFolder(r, f) \/ RemoveFolder(r, f)

Thread == Prepare \/ Scan
Next == User \/ Cancel \/ Periodic \/ ThreadFinished \/ Restart \/ Thread \/ InspectError \/ Disk

Spec == Init /\ [][Next]_vars

\* The timer goes on, the event loop takes its signals, the thread goes on.
FairSpec == /\ Spec /\ WF_vars(Cancel) /\ WF_vars(Periodic) /\ WF_vars(ThreadFinished)
            /\ WF_vars(Thread) /\ WF_vars(Restart /\ shutting)

-----------------------------------------------------------------------------
\* What the variables hold, the favourites in order being those with rows; no run
\* checks it.
TypeOK ==
  /\ \A r \in Roots : TablesOK(db[r]) /\ DOMAIN disk[r] \subseteq Folders
  /\ \A r \in Roots : Known(db[r]) <=> \E i \in DOMAIN order : order[i] = r
  /\ link \in [Roots -> BOOLEAN] /\ shutting \in BOOLEAN /\ left \in [Events -> Nat]
  /\ worker.job.roots \subseteq Roots /\ job.roots \subseteq Roots

\* A root is READY only with nothing left to do and no unresolved error, whatever
\* the user does between the transactions of a scan.
ReadyIsClean ==
  \A r \in Roots : db[r].status = "READY" => DOMAIN db[r].queue = {} /\ db[r].errs = {}

\* A folder in state PROCESSING is in the hands of the worker. Any other would
\* never be claimed again and would keep its root from READY until a restart.
ClaimedIsHeld ==
  \A r \in Roots : \A f \in Processing(db[r]) :
    /\ worker.root = r /\ worker.at \in {"inspect", "commit"}
    /\ f \in {b.folder : b \in worker.batch} \cup FoldersOf(worker.good) \cup worker.bad

\* The counts, by which resume_scan decides whether a generation is exhausted,
\* agree with the rows when a job begins.
CountsAgree ==
  worker.at \in {"none", "next"} => \A r \in Roots : db[r] = Counted(db[r])

\* A root shown as being indexed is being indexed.
IndexingHasWorker ==
  \A r \in Roots : db[r].status = "INDEXING" =>
    worker.root = r /\ worker.at \notin {"none", "ended"}

\* What an incremental scan relies on when it skips a folder with an unchanged
\* time: in a READY root the folders below it are known. The root itself is known.
\* With batches of two or more it fails once the disk changes as MadeInBatch says,
\* and when a scope is changed under a scan, a favourite added again under the scan of
\* its first life, or a reading fails (README, section 7, numbers 19, 10, 11, 8).
ReadyIsCovered ==
  \A r \in Roots : LET t == db[r] IN t.status = "READY" =>
    /\ Top \in DOMAIN t.index
    /\ \A f \in DOMAIN t.index \cap DOMAIN disk[r] :
         t.index[f].mtime = disk[r][f] /\ Descends(t, f)
           => ChildrenIn(DOMAIN disk[r], f) \subseteq DOMAIN t.index

\* When changes and errors cease, each root is completed, unless it is paused,
\* excluded or cannot be reached.
AtRest(r) ==
  \/ db[r].status \in {"NONE", "READY", "PAUSED"}
  \/ db[r].scope = "EXCLUDED" \/ ~link[r]
IndexSettles == \A r \in Roots : []<>AtRest(r)
=============================================================================
