--------------------------- MODULE TaskRepository ---------------------------
(***************************************************************************)
(* TaskRepository as the rest of the program may drive it: any legal call, *)
(* from any thread, in any order, each call one transaction under the      *)
(* repository lock.  The database can be closed and opened again between   *)
(* any two transactions.                                                   *)
(***************************************************************************)
EXTENDS TaskTables

CONSTANTS MaxGen,      \* bound: deletions and new sessions
          MaxRows,     \* bound: rows of table tasks
          ClaimSizes,  \* the chunk sizes passed to claim_pending
          ScanTargets, \* the scan states passed to set_folder_scan_state
          Verdicts     \* the verdicts the external workers give

ASSUME RepositoryAssumption ==
  /\ MaxGen \in Nat /\ MaxRows \in Nat /\ ClaimSizes \subseteq Nat
  /\ ScanTargets \subseteq ScanStates \ {"NONE"}
  /\ Verdicts \subseteq {"SUCCESS", "FAIL"}

VARIABLE db

Init == db = EmptyTables(0)

RegisterFolder(q) ==
  /\ db.session = "COMPLETED" => db.gen < MaxGen
  /\ db' = Register(PrepareSession(db), q)

SetFolderScanState(q, state) == db' = SetScan(db, q, state)

\* The scan thread of a queue delivers one batch of its folder.
InsertTaskBatch(q, S) ==
  /\ Cardinality(Rows(db)) + Cardinality(S) <= MaxRows
  /\ db' = InsertBatch(db, q, S)

\* The rows a scan cut short has left in a WAITING queue do not matter to it.
PopulateFromSibling(q) ==
  /\ Cardinality(Rows(Populate(db, q))) <= MaxRows
  /\ db' = Populate(db, q)

ClaimPending(F, n) == db' = Claim(db, ClaimBatch(db, F, n))

MarkTaskSent(t) == db' = MarkSent(db, t)
MarkTaskError(t) == db' = MarkError(db, t)
ApplyTaskResult(t, v) == db' = ApplyResult(db, t, v)
MarkRunning == db' = MarkInflightRunning(db)
MarkTimedOut(T) == db' = MarkTimeouts(db, T)
Release == db' = ReleaseClaimed(db)

SetFoldersHeld(S, held) == db' = SetHeld(db, S, held)
ReorderFolders(S, op) == db' = Reorder(db, S, op)
DeletePendingFolders(S) == db.gen < MaxGen /\ db' = Delete(db, S)

SaveRuntimeSettings == db' = SaveSettings(db)
Pause == db' = PauseByUser(db)
Resume == db' = ResumeByUser(db)
Complete == db' = CompleteSession(db)
Clear == db.gen < MaxGen /\ db' = ClearSession(db)
CloseAndReopen == (db.session = "COMPLETED" => db.gen < MaxGen) /\ db' = Reopen(db)

TaskCalls ==
  \/ \E t \in Rows(db) : \/ MarkTaskSent(t)
                         \/ MarkTaskError(t)
                         \/ \E v \in Verdicts : ApplyTaskResult(t, v)
  \/ \E F \in SUBSET Registered(db), n \in ClaimSizes : ClaimPending(F, n)
  \/ \E T \in SUBSET Rows(db) : MarkTimedOut(T)
  \/ MarkRunning
  \/ Release

FolderCalls ==
  \/ \E q \in Queues : \/ RegisterFolder(q)
                       \/ PopulateFromSibling(q)
                       \/ \E s \in ScanTargets : SetFolderScanState(q, s)
                       \/ \E S \in SUBSET ImagesIn(q) : InsertTaskBatch(q, S)
  \/ \E S \in SUBSET Queues : \/ \E h \in BOOLEAN : SetFoldersHeld(S, h)
                              \/ \E op \in Operations : ReorderFolders(S, op)
                              \/ DeletePendingFolders(S)

SessionCalls == \/ SaveRuntimeSettings \/ Pause \/ Resume \/ Complete \/ Clear
                \/ CloseAndReopen

Next == TaskCalls \/ FolderCalls \/ SessionCalls

Spec == Init /\ [][Next]_db

-----------------------------------------------------------------------------
\* The tables, column by column.
TypeOK == TypedTables(db)

\* The position column lists every registered queue once: a reordering, a
\* deletion or a registration never loses or doubles one.
OrderIsComplete == CompleteOrder(db)

\* "Persist task state and aggregate counters" (task_repository.py:33).  After any
\* transactions the counters of CLAIMED and later statuses are the tallies of the
\* rows, and pending_count and total_count never claim a row that is not there.
\* They can miss rows, in one way: populate_folder_from_scanned_sibling sets them
\* (task_repository.py:370), and the queue may have had rows of a scan cut short.
\* No other transaction makes the counters of a queue wrong.
CountersAreHonest ==
  /\ [](\A q \in Queues : NotOverstated(db, q))
  /\ [][\A q \in Queues : (db' # db /\ ~Counted(db', q)) =>
           \/ ~Counted(db, q)
           \/ db' = Populate(db, q) /\ RowsOf(db, q) # {}]_db

\* No row outlives its queue, and an image has one request per queue.
RowsAreOwned == OwnedRows(db)

\* The tables keep the promise of module TaskPromise.  Deletion is decided by
\* the counters alone, so this rests on CountersAreHonest: a deletion that
\* takes a request already handed out with it is no step of TaskPromise.
Promise == INSTANCE TaskPromise WITH
  Requests <- Requests,
  Verdicts <- Terminal,
  waiting  <- RowsIn(db, {"PENDING"}),
  out      <- RowsIn(db, {"CLAIMED", "SENT", "RUNNING"}),
  verdict  <- [t \in RowsIn(db, Terminal) |-> db.tasks[t]]

KeepsPromise == Promise!Spec
=============================================================================
