------------------------ MODULE TaskRepositoryProofs ------------------------
(* Proofs about modules TaskRepository and FolderReorder. *)
EXTENDS TaskRepository, FolderReorder, TaskTablesProofs

(* The inductive invariant and the theorems. *)

\* The tables are sound and their counters claim no row too many.
Good(d) == Sound(d) /\ \A q \in Queues : NotOverstated(d, q)

\* What the tables have kept is good.
LEMMA KeptGood == ASSUME NEW d, NEW m, Good(d), Kept(d, m) PROVE Good(m)
BY DEF Good, Kept, CountsKept

\* Every transaction on tasks keeps the tables.
LEMMA TaskCallsKept ==
  ASSUME Good(db), TaskCalls PROVE Kept(db, db')
<1>0. /\ {"PENDING", "CLAIMED", "SENT", "RUNNING", "SUCCESS", "FAIL", "TIMEOUT", "ERROR"}
           \subseteq Statuses
      /\ Sound(db)
  BY DEF Statuses, Unfinished, Terminal, Good
<1>1. ASSUME NEW t \in Rows(db), MarkTaskSent(t) PROVE Kept(db, db')
  BY <1>0, <1>1, TransitionKept DEF MarkTaskSent, MarkSent
<1>2. ASSUME NEW t \in Rows(db), MarkTaskError(t) PROVE Kept(db, db')
  BY <1>0, <1>2, TransitionKept DEF MarkTaskError, MarkError
<1>3. ASSUME NEW t \in Rows(db), NEW v \in Verdicts, ApplyTaskResult(t, v) PROVE Kept(db, db')
  <2>1. v \in Statuses
    BY <1>0, RepositoryAssumption
  <2> QED
    BY <1>0, <2>1, <1>3, TransitionKept DEF ApplyTaskResult, ApplyResult
<1>4. ASSUME NEW F, NEW n, ClaimPending(F, n) PROVE Kept(db, db')
  <2>1. ClaimBatch(db, F, n) \in SUBSET Rows(db)
    BY DEF ClaimBatch, RowsIn
  <2> QED
    BY <1>0, <1>4, <2>1, MoveKept DEF ClaimPending, Claim
<1>5. ASSUME NEW T, MarkTimedOut(T) PROVE Kept(db, db')
  <2>1. T \cap RowsIn(db, {"SENT", "RUNNING"}) \in SUBSET Rows(db)
    BY DEF RowsIn
  <2> QED
    BY <1>0, <1>5, <2>1, MoveKept DEF MarkTimedOut, MarkTimeouts
<1>6. CASE MarkRunning
  <2>1. RowsIn(db, {"SENT"}) \in SUBSET Rows(db)
    BY DEF RowsIn
  <2> QED
    BY <1>0, <1>6, <2>1, MoveKept DEF MarkRunning, MarkInflightRunning
<1>7. CASE Release
  BY <1>0, <1>7, ReleaseKept DEF Release
<1> QED
  BY <1>1, <1>2, <1>3, <1>4, <1>5, <1>6, <1>7 DEF TaskCalls

\* Every transaction on queues keeps the tables, but for the counters of a queue
\* that takes over the rows of its sibling and has rows already.
LEMMA FolderCallsKept ==
  ASSUME Good(db), FolderCalls
  PROVE  \/ Kept(db, db')
         \/ \E q \in Queues : PopulateFromSibling(q)
<1>0. Sound(db)
  BY DEF Good
<1>1. ASSUME NEW q \in Queues, RegisterFolder(q) PROVE Kept(db, db')
  <2> DEFINE p == PrepareSession(db)
  <2>1. Kept(db, p)
    BY <1>0, NewSessionKept
  <2>2. Kept(p, Register(p, q))
    BY <2>1, RegisterKept DEF Kept
  <2> HIDE DEF p
  <2>3. Kept(db, Register(p, q))
    BY <2>1, <2>2, KeptTwice
  <2> QED
    BY <1>1, <2>3 DEF RegisterFolder, p
<1>3. ASSUME NEW q \in Queues, NEW s \in ScanTargets, SetFolderScanState(q, s) PROVE Kept(db, db')
  BY <1>0, <1>3, RepositoryAssumption, SetScanKept DEF SetFolderScanState
<1>4. ASSUME NEW q \in Queues, NEW S \in SUBSET ImagesIn(q), InsertTaskBatch(q, S) PROVE Kept(db, db')
  <2>1. ImagesIn(q) \subseteq Images
    BY TablesAssumption DEF ImagesIn
  <2>2. S \in SUBSET Images
    BY <2>1
  <2> QED
    BY <1>0, <1>4, <2>2, InsertKept DEF InsertTaskBatch
<1>5. ASSUME NEW S, NEW h \in BOOLEAN, SetFoldersHeld(S, h) PROVE Kept(db, db')
  BY <1>0, <1>5, SetHeldKept DEF SetFoldersHeld
<1>6. ASSUME NEW S, NEW op \in Operations, ReorderFolders(S, op) PROVE Kept(db, db')
  BY <1>0, <1>6, ReorderKept DEF ReorderFolders
<1>7. ASSUME NEW S, DeletePendingFolders(S) PROVE Kept(db, db')
  BY <1>0, <1>7, DeleteKept DEF DeletePendingFolders
<1> QED
  BY <1>1, <1>3, <1>4, <1>5, <1>6, <1>7 DEF FolderCalls

\* Every transaction on the session keeps the tables.
LEMMA SessionCallsKept ==
  ASSUME Good(db), SessionCalls PROVE Kept(db, db')
<1>0. Sound(db)
  BY DEF Good
<1>1. CASE SaveRuntimeSettings
  BY <1>0, <1>1, SaveKept DEF SaveRuntimeSettings
<1>2. CASE Pause
  BY <1>0, <1>2, PauseKept DEF Pause
<1>3. CASE Resume
  BY <1>0, <1>3, ResumeKept DEF Resume
<1>4. CASE Complete
  BY <1>0, <1>4, CompleteKept DEF Complete
<1>5. CASE Clear
  BY <1>0, <1>5, ClearKept DEF Clear
<1>6. CASE CloseAndReopen
  BY <1>0, <1>6, ReopenKept DEF CloseAndReopen
<1> QED
  BY <1>1, <1>2, <1>3, <1>4, <1>5, <1>6 DEF SessionCalls

\* What a transaction does to the counters of each queue.
LEMMA StepKept ==
  ASSUME Good(db), [Next]_db
  PROVE  \/ Kept(db, db')
         \/ \E q \in Queues : PopulateFromSibling(q)
BY TaskCallsKept, FolderCallsKept, SessionCallsKept, KeptSame DEF Next, Good

\* The invariant of TaskRepository, inductive as it stands.
IInv == Good(db)

\* The inductive invariant: after any calls in any order, a queue populated over
\* the rows of a scan cut short included, the tables are typed, every row has its
\* queue, and no counter claims a row that is not there.
THEOREM GoodAlways == Spec => []IInv
<1>1. Init => IInv
  BY EmptySound DEF Init, IInv, Good
<1>2. IInv /\ [Next]_db => IInv'
  <2> SUFFICES ASSUME Good(db), [Next]_db PROVE Good(db')
    BY DEF IInv
  <2>1. ASSUME NEW q \in Queues, PopulateFromSibling(q) PROVE Good(db')
    BY <2>1, PopulateKept DEF PopulateFromSibling, Good
  <2> QED
    BY <2>1, StepKept, KeptGood
<1> QED
  BY <1>1, <1>2, PTL DEF Spec

\* Every column keeps its type (TaskRepository, any transaction).
THEOREM TypeCorrect == Spec => []TypeOK
<1>1. IInv => TypeOK
  BY DEF IInv, Good, Sound, TypeOK
<1> QED
  BY <1>1, GoodAlways, PTL

\* The aggregate counters, for every set of queues and images, every claim size and
\* any transactions in any order: those of CLAIMED and later statuses are the
\* tallies of the rows, the other two never claim a row that is not there, and the
\* counters of a queue become wrong in no way but by populating it from its sibling
\* over rows it has (task_repository.py:370).
THEOREM CountersCorrect == Spec => CountersAreHonest
<1> DEFINE Wrongly == \A q \in Queues : (db' # db /\ ~Counted(db', q)) =>
                        \/ ~Counted(db, q)
                        \/ db' = Populate(db, q) /\ RowsOf(db, q) # {}
<1>1. IInv => \A q \in Queues : NotOverstated(db, q)
  BY DEF IInv, Good
<1>2. IInv /\ [Next]_db => [Wrongly]_db
  <2> SUFFICES ASSUME Good(db), [Next]_db, NEW q \in Queues, Counted(db, q), ~Counted(db', q)
               PROVE  db' = Populate(db, q) /\ RowsOf(db, q) # {}
    BY DEF IInv
  <2>1. PICK p \in Queues : PopulateFromSibling(p)
    BY StepKept DEF Kept, CountsKept
  <2>2. db' = Populate(db, p) /\ Sound(db)
    BY <2>1 DEF PopulateFromSibling, Good
  <2>3. p = q
    BY <2>2, PopulateKept
  <2>4. RowsOf(db, q) # {}
    BY <2>2, <2>3, PopulateKept DEF Kept, CountsKept
  <2> QED
    BY <2>2, <2>3, <2>4
<1> QED
  BY <1>1, <1>2, GoodAlways, PTL DEF Spec, CountersAreHonest

\* The positions list every registered queue once, whatever is registered,
\* reordered or deleted.
THEOREM OrderCorrect == Spec => []OrderIsComplete
<1>1. IInv => OrderIsComplete
  BY DEF IInv, Good, Sound, OrderIsComplete
<1> QED
  BY <1>1, GoodAlways, PTL

\* No row outlives its queue and an image has one request per queue.
THEOREM RowsOwned == Spec => []RowsAreOwned
<1>1. IInv => RowsAreOwned
  BY DEF IInv, Good, Sound, RowsAreOwned
<1> QED
  BY <1>1, GoodAlways, PTL

-----------------------------------------------------------------------------
(* TaskRepository keeps the promise of module TaskPromise. *)

OutStates == {"CLAIMED", "SENT", "RUNNING"}

\* The mapping of KeepsPromise, on any tables.
WaitingRows(d) == RowsIn(d, {"PENDING"})
OutRows(d) == RowsIn(d, OutStates)
VerdictOf(d) == [t \in RowsIn(d, Terminal) |-> d.tasks[t]]

\* What each abstract action says of the tables before and after it.
AcceptStep(d, m) ==
  /\ WaitingRows(d) \subseteq WaitingRows(m) /\ WaitingRows(m) \subseteq Requests
  /\ WaitingRows(m) \cap (OutRows(d) \cup DOMAIN VerdictOf(d)) = {}
  /\ OutRows(m) = OutRows(d) /\ VerdictOf(m) = VerdictOf(d)
HandOutStep(d, m) == \E R \in SUBSET WaitingRows(d) :
  /\ WaitingRows(m) = WaitingRows(d) \ R /\ OutRows(m) = OutRows(d) \cup R
  /\ VerdictOf(m) = VerdictOf(d)
TakeBackStep(d, m) == \E R \in SUBSET OutRows(d) :
  /\ OutRows(m) = OutRows(d) \ R /\ WaitingRows(m) = WaitingRows(d) \cup R
  /\ VerdictOf(m) = VerdictOf(d)
SettleStep(d, m) == \E R \in SUBSET (WaitingRows(d) \cup OutRows(d)), v \in Terminal :
  /\ WaitingRows(m) = WaitingRows(d) \ R /\ OutRows(m) = OutRows(d) \ R
  /\ VerdictOf(m) =
       [r \in DOMAIN VerdictOf(d) \cup R |-> IF r \in R THEN v ELSE VerdictOf(d)[r]]
WithdrawStep(d, m) == \E R \in SUBSET WaitingRows(d) :
  /\ WaitingRows(m) = WaitingRows(d) \ R
  /\ OutRows(m) = OutRows(d) /\ VerdictOf(m) = VerdictOf(d)
ArchiveStep(d, m) == m.tasks = [t \in {} |-> "PENDING"]

PromiseStep(d, m) ==
  \/ AcceptStep(d, m) \/ HandOutStep(d, m) \/ TakeBackStep(d, m)
  \/ SettleStep(d, m) \/ WithdrawStep(d, m) \/ ArchiveStep(d, m)
  \/ m.tasks = d.tasks

\* The statuses of the rows partition them.
LEMMA RowsPartition ==
  ASSUME NEW d, TypedTables(d)
  PROVE  /\ Rows(d) = WaitingRows(d) \cup OutRows(d) \cup RowsIn(d, Terminal)
         /\ WaitingRows(d) \cap OutRows(d) = {}
         /\ WaitingRows(d) \cap RowsIn(d, Terminal) = {}
         /\ OutRows(d) \cap RowsIn(d, Terminal) = {}
BY DEF TypedTables, WaitingRows, OutRows, OutStates, RowsIn, Rows,
       Statuses, Unfinished, Terminal

\* The rows of some statuses after a change of status.
LEMMA MovedRowsIn ==
  ASSUME NEW d, TypedTables(d), NEW T \in SUBSET Rows(d), NEW target, NEW S
  PROVE  RowsIn(Move(d, T, target), S) =
           IF target \in S THEN RowsIn(d, S) \cup T ELSE RowsIn(d, S) \ T
<1> DEFINE m == Move(d, T, target)
<1>1. Rows(m) = Rows(d) /\ m.tasks = MovedTasks(d, T, target)
  BY MoveRows, MoveFields
<1> HIDE DEF m
<1>2. \A t \in Rows(d) : m.tasks[t] = IF t \in T THEN target ELSE d.tasks[t]
  BY <1>1 DEF MovedTasks
<1>3. RowsIn(m, S) = IF target \in S THEN RowsIn(d, S) \cup T ELSE RowsIn(d, S) \ T
  BY <1>1, <1>2 DEF RowsIn
<1> QED
  BY <1>3 DEF m

\* The verdicts after a change of status.
LEMMA MovedVerdicts ==
  ASSUME NEW d, TypedTables(d), NEW T \in SUBSET (Rows(d) \ RowsIn(d, Terminal)),
         NEW target, target \notin Terminal
  PROVE  VerdictOf(Move(d, T, target)) = VerdictOf(d)
<1> DEFINE m == Move(d, T, target)
<1>0. T \in SUBSET Rows(d) /\ RowsIn(d, Terminal) \ T = RowsIn(d, Terminal)
  OBVIOUS
<1>1. RowsIn(m, Terminal) = RowsIn(d, Terminal)
  <2>1. RowsIn(m, Terminal) = RowsIn(d, Terminal) \ T
    BY <1>0, MovedRowsIn
  <2> QED
    BY <1>0, <2>1
<1>2. m.tasks = MovedTasks(d, T, target)
  BY MoveFields
<1> HIDE DEF m
<1>3. \A t \in RowsIn(d, Terminal) : m.tasks[t] = d.tasks[t]
  BY <1>0, <1>2 DEF MovedTasks, RowsIn
<1>4. VerdictOf(m) = VerdictOf(d)
  BY <1>1, <1>3 DEF VerdictOf
<1> QED
  BY <1>4 DEF m

\* A change from PENDING to a status that is out is the step HandOut.
LEMMA MoveHandsOut ==
  ASSUME NEW d, TypedTables(d), NEW target \in OutStates,
         NEW T \in SUBSET (WaitingRows(d) \cup OutRows(d))
  PROVE  HandOutStep(d, Move(d, T, target))
<1> DEFINE m == Move(d, T, target)
           R == T \cap WaitingRows(d)
<1>1. target \notin {"PENDING"} /\ target \notin Terminal
  BY DEF OutStates, Terminal
<1>2. T \in SUBSET (Rows(d) \ RowsIn(d, Terminal)) /\ T \in SUBSET Rows(d)
  BY RowsPartition
<1>3. WaitingRows(m) = WaitingRows(d) \ T /\ OutRows(m) = OutRows(d) \cup T
  BY <1>1, <1>2, MovedRowsIn DEF WaitingRows, OutRows
<1>4. VerdictOf(m) = VerdictOf(d)
  BY <1>1, <1>2, MovedVerdicts
<1>5. WaitingRows(m) = WaitingRows(d) \ R /\ OutRows(m) = OutRows(d) \cup R
  BY <1>3
<1> QED
  BY <1>4, <1>5 DEF HandOutStep

\* A change back to PENDING is the step TakeBack.
LEMMA MoveTakesBack ==
  ASSUME NEW d, TypedTables(d), NEW T \in SUBSET OutRows(d)
  PROVE  TakeBackStep(d, Move(d, T, "PENDING"))
<1> DEFINE m == Move(d, T, "PENDING")
<1>1. "PENDING" \notin OutStates /\ "PENDING" \notin Terminal
  BY DEF OutStates, Terminal
<1>2. T \in SUBSET (Rows(d) \ RowsIn(d, Terminal)) /\ T \in SUBSET Rows(d)
  BY RowsPartition
<1>3. WaitingRows(m) = WaitingRows(d) \cup T /\ OutRows(m) = OutRows(d) \ T
  BY <1>1, <1>2, MovedRowsIn DEF WaitingRows, OutRows
<1>4. VerdictOf(m) = VerdictOf(d)
  BY <1>1, <1>2, MovedVerdicts
<1> QED
  BY <1>3, <1>4 DEF TakeBackStep

\* A change to a terminal status is the step Settle.
LEMMA MoveSettles ==
  ASSUME NEW d, TypedTables(d), NEW target \in Terminal,
         NEW T \in SUBSET (WaitingRows(d) \cup OutRows(d))
  PROVE  SettleStep(d, Move(d, T, target))
<1> DEFINE m == Move(d, T, target)
<1>1. target \notin {"PENDING"} /\ target \notin OutStates
  BY DEF OutStates, Terminal
<1>2. T \in SUBSET (Rows(d) \ RowsIn(d, Terminal)) /\ T \in SUBSET Rows(d)
  BY RowsPartition
<1>3. /\ WaitingRows(m) = WaitingRows(d) \ T /\ OutRows(m) = OutRows(d) \ T
      /\ RowsIn(m, Terminal) = RowsIn(d, Terminal) \cup T
  BY <1>1, <1>2, MovedRowsIn DEF WaitingRows, OutRows
<1>4. m.tasks = MovedTasks(d, T, target)
  BY MoveFields
<1> HIDE DEF m
<1>5. \A t \in RowsIn(m, Terminal) : m.tasks[t] = IF t \in T THEN target ELSE VerdictOf(d)[t]
  BY <1>2, <1>3, <1>4 DEF MovedTasks, RowsIn, VerdictOf
<1>6. VerdictOf(m) = [r \in DOMAIN VerdictOf(d) \cup T |->
                        IF r \in T THEN target ELSE VerdictOf(d)[r]]
  BY <1>3, <1>5 DEF VerdictOf
<1>7. SettleStep(d, m)
  BY <1>3, <1>6 DEF SettleStep
<1> QED
  BY <1>7 DEF m

\* The rows after the transactions that add or remove some.
LEMMA InsertedTasks ==
  ASSUME NEW d, Good(d), NEW q, NEW N
  PROVE  Inserted(d, q, N).tasks = WithRows(d, N)
BY DEF Inserted, Good, Sound, TypedTables, HasColumns

\* The rows after a queue took over those of its sibling.
LEMMA PopulatedTasks ==
  ASSUME NEW d, Good(d), NEW q, NEW N
  PROVE  Populated(d, q, N).tasks = WithRows(d, N)
BY DEF Populated, Good, Sound, TypedTables, HasColumns

\* The rows after a deletion.
LEMMA WithoutTasks ==
  ASSUME NEW d, Good(d), NEW D
  PROVE  WithoutQueues(d, D).tasks = [t \in {u \in Rows(d) : u.queue \notin D} |-> d.tasks[t]]
BY DEF WithoutQueues, Good, Sound, TypedTables, HasColumns

\* New rows in PENDING are accepted requests.
LEMMA RowsAccepted ==
  ASSUME NEW d, Good(d), NEW m, Good(m), NEW N, N \cap Rows(d) = {},
         m.tasks = WithRows(d, N)
  PROVE  AcceptStep(d, m)
<1>1. Rows(m) = Rows(d) \cup N
  BY DEF Rows, WithRows
<1>2. \A t \in Rows(m) : m.tasks[t] = IF t \in N THEN "PENDING" ELSE d.tasks[t]
  BY <1>1 DEF WithRows
<1>3. "PENDING" \notin OutStates /\ "PENDING" \notin Terminal
  BY DEF OutStates, Terminal
<1>4. WaitingRows(m) = WaitingRows(d) \cup N
  BY <1>1, <1>2 DEF WaitingRows, RowsIn
<1>5. OutRows(m) = OutRows(d) /\ RowsIn(m, Terminal) = RowsIn(d, Terminal)
  BY <1>1, <1>2, <1>3 DEF OutRows, RowsIn
<1>6. \A t \in RowsIn(d, Terminal) : m.tasks[t] = d.tasks[t]
  BY <1>1, <1>2 DEF RowsIn
<1>7. VerdictOf(m) = VerdictOf(d)
  BY <1>5, <1>6 DEF VerdictOf
<1>8. WaitingRows(m) \subseteq Requests
  BY DEF Good, Sound, TypedTables, WaitingRows, RowsIn
<1>9. WaitingRows(m) \cap (OutRows(d) \cup DOMAIN VerdictOf(d)) = {}
  <2>1. DOMAIN VerdictOf(d) = RowsIn(d, Terminal)
    BY DEF VerdictOf
  <2>2. TypedTables(m)
    BY DEF Good, Sound
  <2>3. /\ WaitingRows(m) \cap OutRows(m) = {}
        /\ WaitingRows(m) \cap RowsIn(m, Terminal) = {}
    BY <2>2, RowsPartition
  <2> QED
    BY <1>5, <2>1, <2>3
<1> QED
  BY <1>4, <1>5, <1>7, <1>8, <1>9 DEF AcceptStep

\* An inserted batch is the step Accept.
LEMMA InsertAccepts ==
  ASSUME NEW d, Good(d), NEW q \in Queues, NEW S \in SUBSET Images
  PROVE  PromiseStep(d, InsertBatch(d, q, S))
<1> DEFINE N == NewRows(d, q, S)
           m == Inserted(d, q, N)
<1>1. CASE q \notin Registered(d)
  BY <1>1 DEF InsertBatch, PromiseStep
<1>2. CASE q \in Registered(d)
  <2>1. InsertBatch(d, q, S) = m
    BY <1>2 DEF InsertBatch
  <2>2. N \cap Rows(d) = {}
    BY NewRowsFacts DEF Good
  <2>3. m.tasks = WithRows(d, N)
    BY InsertedTasks
  <2>4. Good(m)
    BY <2>1, InsertKept, KeptGood DEF Good
  <2>5. AcceptStep(d, m)
    BY <2>2, <2>3, <2>4, RowsAccepted
  <2> QED
    BY <2>1, <2>5 DEF PromiseStep
<1> QED
  BY <1>1, <1>2

\* A scan state changes no row.
LEMMA SetScanTasks ==
  ASSUME NEW d, Good(d), NEW q, NEW state
  PROVE  SetScan(d, q, state).tasks = d.tasks
BY DEF SetScan, Good, Sound, TypedTables, HasColumns

\* Taking over the rows of a sibling is the step Accept.
LEMMA PopulateAccepts ==
  ASSUME NEW d, Good(d), NEW q \in Queues
  PROVE  PromiseStep(d, Populate(d, q))
<1> DEFINE r == Head(Siblings(d, q))
           S == {t.image : t \in RowsOf(d, r)}
           N == NewRows(d, q, S)
           m == Populated(d, q, N)
<1>1. CASE ~CanPopulate(d, q)
  BY <1>1 DEF Populate, PromiseStep
<1>2. CASE CanPopulate(d, q) /\ d.scan[r] = "EMPTY"
  <2>1. Populate(d, q) = SetScan(d, q, "EMPTY")
    BY <1>2 DEF Populate
  <2> QED
    BY <2>1, SetScanTasks DEF PromiseStep
<1>3. CASE CanPopulate(d, q) /\ d.scan[r] # "EMPTY"
  <2>1. Populate(d, q) = m
    BY <1>3 DEF Populate
  <2>2. S \in SUBSET Images
    BY DEF RowsOf, Good, Sound, TypedTables, Requests
  <2> HIDE DEF S
  <2>3. N \cap Rows(d) = {}
    BY <2>2, NewRowsFacts DEF Good
  <2>4. m.tasks = WithRows(d, N)
    BY PopulatedTasks
  <2>5. Good(m)
    BY <2>1, PopulateKept DEF Good
  <2>6. AcceptStep(d, m)
    BY <2>3, <2>4, <2>5, RowsAccepted
  <2> QED
    BY <2>1, <2>6 DEF PromiseStep
<1> QED
  BY <1>1, <1>2, <1>3

\* The counters of a deletable queue say that no row has left PENDING, and those
\* counters match the rows: nothing that was handed out is deleted.
LEMMA DeletableWaits ==
  ASSUME NEW d, Good(d), NEW q \in Queues, Deletable(d, q)
  PROVE  RowsOf(d, q) \subseteq WaitingRows(d)
<1>1. \A s \in Statuses \ {"PENDING"} :
        d.count[q][s] \in Nat /\ d.count[q][s] = Cardinality(Tally(d, q, s))
  BY TallyFinite DEF Good, Sound, NotOverstated
<1>2. \A s \in Statuses \ {"PENDING"} : d.count[q][s] = 0
  <2> DEFINE cl == d.count[q]["CLAIMED"]
             se == d.count[q]["SENT"]
             ru == d.count[q]["RUNNING"]
             su == d.count[q]["SUCCESS"]
             fa == d.count[q]["FAIL"]
             ti == d.count[q]["TIMEOUT"]
             er == d.count[q]["ERROR"]
             ca == d.count[q]["CANCELLED"]
  <2>1. /\ cl \in Nat /\ se \in Nat /\ ru \in Nat /\ su \in Nat
        /\ fa \in Nat /\ ti \in Nat /\ er \in Nat /\ ca \in Nat
    BY <1>1 DEF Statuses, Unfinished, Terminal
  <2>2. cl + se + ru + (su + fa + ti + er + ca) = 0
    BY DEF Deletable, Completed
  <2> HIDE DEF cl, se, ru, su, fa, ti, er, ca
  <2>3. cl = 0 /\ se = 0 /\ ru = 0 /\ su = 0 /\ fa = 0 /\ ti = 0 /\ er = 0 /\ ca = 0
    BY <2>1, <2>2
  <2> QED
    BY <2>3 DEF Statuses, Unfinished, Terminal, cl, se, ru, su, fa, ti, er, ca
<1>3. \A s \in Statuses \ {"PENDING"} : Tally(d, q, s) = {}
  BY <1>1, <1>2, TallyFinite, FS_EmptySet DEF Good, Sound
<1>4. \A t \in Rows(d) : d.tasks[t] \in Statuses
  BY DEF Good, Sound, TypedTables
<1> QED
  BY <1>3, <1>4 DEF RowsOf, Tally, WaitingRows, RowsIn

\* A deletion is the step Withdraw: the counters show that nothing was out.
LEMMA DeleteWithdraws ==
  ASSUME NEW d, Good(d), NEW S
  PROVE  PromiseStep(d, Delete(d, S))
<1> DEFINE D == {q \in S \cap Registered(d) : Deletable(d, q)}
           R == {t \in Rows(d) : t.queue \in D}
           m == WithoutQueues(d, D)
<1>1. m.tasks = [t \in {u \in Rows(d) : u.queue \notin D} |-> d.tasks[t]]
  BY WithoutTasks
<1>2. R \subseteq WaitingRows(d)
  BY DeletableWaits DEF RowsOf, Registered
<1> HIDE DEF m, D
<1>3. Rows(m) = Rows(d) \ R
  BY <1>1 DEF Rows
<1>4. \A t \in Rows(m) : m.tasks[t] = d.tasks[t]
  BY <1>1, <1>3
<1>5. \A X : RowsIn(m, X) = RowsIn(d, X) \ R
  BY <1>3, <1>4 DEF RowsIn
<1>6. /\ WaitingRows(d) \cap OutRows(d) = {}
      /\ WaitingRows(d) \cap RowsIn(d, Terminal) = {}
  BY RowsPartition DEF Good, Sound
<1>7. WaitingRows(m) = WaitingRows(d) \ R
  BY <1>5 DEF WaitingRows
<1>8. OutRows(m) = OutRows(d) /\ RowsIn(m, Terminal) = RowsIn(d, Terminal)
  BY <1>2, <1>5, <1>6 DEF OutRows
<1>9. VerdictOf(m) = VerdictOf(d)
  BY <1>3, <1>4, <1>8 DEF VerdictOf, RowsIn
<1>10. WithdrawStep(d, m)
  BY <1>2, <1>7, <1>8, <1>9 DEF WithdrawStep
<1> QED
  BY <1>10 DEF Delete, PromiseStep, m, D

\* A guarded transition is a step of the promise.
LEMMA TransitionKeeps ==
  ASSUME NEW d, Good(d), NEW t, NEW target \in OutStates \cup Terminal,
         NEW allowed \in SUBSET Unfinished
  PROVE  PromiseStep(d, Transition(d, t, target, allowed))
<1>1. CASE t \in RowsIn(d, allowed)
  <2>1. {t} \in SUBSET (WaitingRows(d) \cup OutRows(d))
    BY <1>1 DEF RowsIn, WaitingRows, OutRows, OutStates, Unfinished
  <2>2. TypedTables(d)
    BY DEF Good, Sound
  <2>3. Transition(d, t, target, allowed) = Move(d, {t}, target)
    BY <1>1 DEF Transition
  <2> QED
    BY <2>1, <2>2, <2>3, MoveHandsOut, MoveSettles DEF PromiseStep
<1>2. CASE t \notin RowsIn(d, allowed)
  BY <1>2 DEF Transition, PromiseStep
<1> QED
  BY <1>1, <1>2

\* Releasing the claims is a step of the promise.
LEMMA ReleaseKeeps ==
  ASSUME NEW d, Good(d) PROVE PromiseStep(d, ReleaseClaimed(d))
<1>1. RowsIn(d, {"CLAIMED"}) \in SUBSET OutRows(d)
  BY DEF RowsIn, OutRows, OutStates
<1> QED
  BY <1>1, MoveTakesBack DEF Good, Sound, ReleaseClaimed, PromiseStep

\* Empty tables have no row.
LEMMA EmptyTasks == \A g : EmptyTables(g).tasks = [t \in {} |-> "PENDING"]
BY DEF EmptyTables

\* A later change of other columns does not matter to the promise.
LEMMA SameTasksKeep ==
  ASSUME NEW d, NEW m, NEW n, PromiseStep(d, m), n.tasks = m.tasks
  PROVE  PromiseStep(d, n)
<1>1. Rows(n) = Rows(m) /\ \A S : RowsIn(n, S) = RowsIn(m, S)
  BY DEF Rows, RowsIn
<1>2. /\ WaitingRows(n) = WaitingRows(m) /\ OutRows(n) = OutRows(m)
      /\ VerdictOf(n) = VerdictOf(m)
  BY <1>1 DEF WaitingRows, OutRows, VerdictOf
<1> QED
  BY <1>2 DEF PromiseStep, AcceptStep, HandOutStep, TakeBackStep, SettleStep,
              WithdrawStep, ArchiveStep

\* Every transaction on tasks is a step of the promise.
LEMMA TaskCallsKeep ==
  ASSUME Good(db), TaskCalls PROVE PromiseStep(db, db')
<1>0. {"SENT", "RUNNING", "CLAIMED"} \subseteq OutStates
      /\ {"SUCCESS", "FAIL", "TIMEOUT", "ERROR"} \subseteq Terminal
  BY DEF OutStates, Terminal
<1>1. ASSUME NEW t, MarkTaskSent(t) PROVE PromiseStep(db, db')
  <2>1. {"CLAIMED", "PENDING"} \in SUBSET Unfinished
    BY DEF Unfinished
  <2> QED
    BY <1>0, <1>1, <2>1, TransitionKeeps DEF MarkTaskSent, MarkSent
<1>2. ASSUME NEW t, MarkTaskError(t) PROVE PromiseStep(db, db')
  BY <1>0, <1>2, TransitionKeeps DEF MarkTaskError, MarkError
<1>3. ASSUME NEW t, NEW v \in Verdicts, ApplyTaskResult(t, v) PROVE PromiseStep(db, db')
  <2>1. {"SENT", "RUNNING"} \in SUBSET Unfinished
    BY DEF Unfinished
  <2>2. v \in Terminal
    BY <1>0, RepositoryAssumption
  <2> QED
    BY <1>3, <2>1, <2>2, TransitionKeeps DEF ApplyTaskResult, ApplyResult
<1>4. ASSUME NEW F, NEW n, ClaimPending(F, n) PROVE PromiseStep(db, db')
  <2>1. ClaimBatch(db, F, n) \in SUBSET (WaitingRows(db) \cup OutRows(db))
    BY DEF ClaimBatch, WaitingRows
  <2> QED
    BY <1>0, <1>4, <2>1, MoveHandsOut DEF ClaimPending, Claim, Good, Sound, PromiseStep
<1>5. ASSUME NEW T, MarkTimedOut(T) PROVE PromiseStep(db, db')
  <2>1. T \cap RowsIn(db, {"SENT", "RUNNING"}) \in SUBSET (WaitingRows(db) \cup OutRows(db))
    BY DEF OutRows, RowsIn, OutStates
  <2> QED
    BY <1>0, <1>5, <2>1, MoveSettles DEF MarkTimedOut, MarkTimeouts, Good, Sound, PromiseStep
<1>6. CASE MarkRunning
  <2>1. RowsIn(db, {"SENT"}) \in SUBSET (WaitingRows(db) \cup OutRows(db))
    BY DEF OutRows, RowsIn, OutStates
  <2> QED
    BY <1>0, <1>6, <2>1, MoveHandsOut DEF MarkRunning, MarkInflightRunning, Good, Sound, PromiseStep
<1>7. CASE Release
  BY <1>7, ReleaseKeeps DEF Release
<1> QED
  BY <1>1, <1>2, <1>3, <1>4, <1>5, <1>6, <1>7 DEF TaskCalls

\* Every transaction on queues is a step of the promise.
LEMMA FolderCallsKeep ==
  ASSUME Good(db), FolderCalls PROVE PromiseStep(db, db')
<1>1. ASSUME NEW q \in Queues, RegisterFolder(q) PROVE PromiseStep(db, db')
  <2> DEFINE p == PrepareSession(db)
  <2>1. Good(p)
    BY NewSessionKept, KeptGood DEF Good
  <2>2. PromiseStep(db, p)
    BY EmptyTasks DEF PrepareSession, NewSession, PromiseStep, ArchiveStep
  <2> HIDE DEF p
  <2>3. Register(p, q).tasks = p.tasks
    BY <2>1 DEF Register, Good, Sound, TypedTables, HasColumns
  <2> QED
    BY <1>1, <2>2, <2>3, SameTasksKeep DEF RegisterFolder, p
<1>2. ASSUME NEW q \in Queues, PopulateFromSibling(q) PROVE PromiseStep(db, db')
  BY <1>2, PopulateAccepts DEF PopulateFromSibling
<1>3. ASSUME NEW q, NEW s, SetFolderScanState(q, s) PROVE PromiseStep(db, db')
  BY <1>3, SetScanTasks DEF SetFolderScanState, PromiseStep
<1>4. ASSUME NEW q \in Queues, NEW S \in SUBSET ImagesIn(q), InsertTaskBatch(q, S)
      PROVE  PromiseStep(db, db')
  <2>1. ImagesIn(q) \subseteq Images
    BY TablesAssumption DEF ImagesIn
  <2>2. S \in SUBSET Images
    BY <2>1
  <2> QED
    BY <1>4, <2>2, InsertAccepts DEF InsertTaskBatch
<1>5. ASSUME NEW S, NEW h, SetFoldersHeld(S, h) PROVE PromiseStep(db, db')
  <2>1. SetHeld(db, S, h).tasks = db.tasks
    BY DEF SetHeld, Good, Sound, TypedTables, HasColumns
  <2> QED
    BY <1>5, <2>1 DEF SetFoldersHeld, PromiseStep
<1>6. ASSUME NEW S, NEW op, ReorderFolders(S, op) PROVE PromiseStep(db, db')
  <2>1. Reorder(db, S, op).tasks = db.tasks
    BY DEF Reorder, Good, Sound, TypedTables, HasColumns
  <2> QED
    BY <1>6, <2>1 DEF ReorderFolders, PromiseStep
<1>7. ASSUME NEW S, DeletePendingFolders(S) PROVE PromiseStep(db, db')
  BY <1>7, DeleteWithdraws DEF DeletePendingFolders
<1> QED
  BY <1>1, <1>2, <1>3, <1>4, <1>5, <1>6, <1>7 DEF FolderCalls

\* Every transaction on the session is a step of the promise.
LEMMA SessionCallsKeep ==
  ASSUME Good(db), SessionCalls PROVE PromiseStep(db, db')
<1>1. CASE SaveRuntimeSettings \/ Resume \/ Complete
  BY <1>1 DEF SaveRuntimeSettings, Resume, Complete, SaveSettings, ResumeByUser,
              CompleteSession, Good, Sound, TypedTables, HasColumns, PromiseStep
<1>2. CASE Pause
  <2> DEFINE r == ReleaseClaimed(db)
  <2>1. Good(r) /\ PromiseStep(db, r)
    BY ReleaseKept, ReleaseKeeps, KeptGood DEF Good
  <2> HIDE DEF r
  <2>2. [r EXCEPT !.session = "PAUSED_BY_USER", !.resume = TRUE].tasks = r.tasks
    BY <2>1 DEF Good, Sound, TypedTables, HasColumns
  <2> QED
    BY <1>2, <2>1, <2>2, SameTasksKeep DEF Pause, PauseByUser, r
<1>3. CASE Clear
  <2>1. [db EXCEPT !.session = "ACTIVE", !.resume = FALSE].tasks = db.tasks
    BY DEF Good, Sound, TypedTables, HasColumns
  <2> QED
    BY <1>3, <2>1, EmptyTasks DEF Clear, ClearSession, NewSession, PromiseStep, ArchiveStep
<1>4. CASE CloseAndReopen
  <2> DEFINE p == PrepareSession(db)
             r == ReleaseClaimed(p)
  <2>1. Good(p) /\ Good(r) /\ PromiseStep(p, r)
    <3>1. Good(p)
      BY NewSessionKept, KeptGood DEF Good
    <3>2. Good(r) /\ PromiseStep(p, r)
      BY <3>1, ReleaseKept, ReleaseKeeps, KeptGood DEF Good
    <3> QED
      BY <3>1, <3>2
  <2>2. PromiseStep(db, r)
    <3>1. CASE db.session # "COMPLETED"
      BY <2>1, <3>1 DEF PrepareSession
    <3>2. CASE db.session = "COMPLETED"
      <4>1. p.tasks = [t \in {} |-> "PENDING"]
        BY <3>2, EmptyTasks DEF PrepareSession, NewSession
      <4>2. Rows(p) = {}
        BY <4>1 DEF Rows
      <4>3. RowsIn(p, {"CLAIMED"}) = {}
        BY <4>2 DEF RowsIn
      <4>4. r.tasks = MovedTasks(p, {}, "PENDING")
        BY <2>1, <4>3, MoveFields DEF ReleaseClaimed, Good, Sound
      <4>5. r.tasks = [t \in {} |-> "PENDING"]
        BY <4>2, <4>4 DEF MovedTasks
      <4> QED
        BY <4>5 DEF PromiseStep, ArchiveStep
    <3> QED
      BY <3>1, <3>2
  <2> HIDE DEF p, r
  <2>3. RecoverScans(r).tasks = r.tasks
    BY <2>1 DEF RecoverScans, Good, Sound, TypedTables, HasColumns
  <2> QED
    BY <1>4, <2>2, <2>3, SameTasksKeep DEF CloseAndReopen, Reopen, p, r
<1> QED
  BY <1>1, <1>2, <1>3, <1>4 DEF SessionCalls

\* Every transaction is a step of the abstract specification or changes nothing
\* it speaks of: the repository keeps its promise about the requests.
THEOREM RepositoryKeepsPromise == Spec => KeepsPromise
<1>1. Init => Promise!Init
  <2> SUFFICES ASSUME Init PROVE Promise!Init
    OBVIOUS
  <2>1. db.tasks = [t \in {} |-> "PENDING"]
    BY EmptyTasks DEF Init
  <2>2. Rows(db) = {}
    BY <2>1 DEF Rows
  <2>3. \A S : RowsIn(db, S) = {}
    BY <2>2 DEF RowsIn
  <2> QED
    BY <2>3 DEF Promise!Init
<1>2. IInv /\ [Next]_db => [Promise!Next]_Promise!vars
  <2> SUFFICES ASSUME Good(db), [Next]_db PROVE [Promise!Next]_Promise!vars
    BY DEF IInv
  <2>1. PromiseStep(db, db')
    <3>1. CASE Next
      BY <3>1, TaskCallsKeep, FolderCallsKeep, SessionCallsKeep DEF Next
    <3>2. CASE UNCHANGED db
      BY <3>2 DEF PromiseStep
    <3> QED
      BY <3>1, <3>2
  <2>2. CASE AcceptStep(db, db')
    BY <2>2 DEF AcceptStep, WaitingRows, OutRows, OutStates, VerdictOf,
                Promise!Next, Promise!Accept
  <2>3. CASE HandOutStep(db, db')
    BY <2>3 DEF HandOutStep, WaitingRows, OutRows, OutStates, VerdictOf,
                Promise!Next, Promise!HandOut
  <2>4. CASE TakeBackStep(db, db')
    BY <2>4 DEF TakeBackStep, WaitingRows, OutRows, OutStates, VerdictOf,
                Promise!Next, Promise!TakeBack
  <2>5. CASE SettleStep(db, db')
    BY <2>5 DEF SettleStep, WaitingRows, OutRows, OutStates, VerdictOf,
                Promise!Next, Promise!Settle
  <2>6. CASE WithdrawStep(db, db')
    BY <2>6 DEF WithdrawStep, WaitingRows, OutRows, OutStates, VerdictOf,
                Promise!Next, Promise!Withdraw
  <2>7. CASE ArchiveStep(db, db')
    <3>1. Rows(db') = {}
      BY <2>7 DEF ArchiveStep, Rows
    <3>2. \A S : RowsIn(db', S) = {}
      BY <3>1 DEF RowsIn
    <3> QED
      BY <3>2 DEF Promise!Next, Promise!Archive
  <2>8. CASE db'.tasks = db.tasks
    <3>1. Rows(db') = Rows(db) /\ \A S : RowsIn(db', S) = RowsIn(db, S)
      BY <2>8 DEF Rows, RowsIn
    <3> QED
      BY <2>8, <3>1 DEF Promise!vars
  <2> QED
    BY <2>1, <2>2, <2>3, <2>4, <2>5, <2>6, <2>7, <2>8 DEF PromiseStep
<1> QED
  BY <1>1, <1>2, GoodAlways, PTL DEF Spec, KeepsPromise, Promise!Spec

-----------------------------------------------------------------------------
(***************************************************************************)
(* The reordering of the queues by itself, module FolderReorder: what each *)
(* button does to any list of queues, whichever of them are under way.     *)
(***************************************************************************)

\* The lists of all queues are those that have each of them once.
LEMMA ShownLists ==
  \A l : l \in SetToSeqs(Shown) <=> Enumerates(l, Shown)
<1>1. SetToSeqs(Shown) = {f \in [1..Cardinality(Shown) -> Shown] :
        \A i, j \in 1..Cardinality(Shown) : i # j => f[i] # f[j]}
  BY Zenon DEF SetToSeqs
<1>2. IsFiniteSet(Shown)
  BY FolderReorderAssumption
<1>3. Cardinality(Shown) \in Nat
  BY <1>2, FS_CardinalityType
<1>4. ASSUME NEW l, Enumerates(l, Shown) PROVE l \in SetToSeqs(Shown)
  <2>1. Len(l) = Cardinality(Shown)
    BY <1>4, EnumeratesSize
  <2>2. l \in [1..Cardinality(Shown) -> Shown] /\ DOMAIN l = 1..Cardinality(Shown)
    BY <1>4, <2>1 DEF Enumerates
  <2> QED
    BY <1>1, <1>4, <2>2 DEF Enumerates
<1>5. ASSUME NEW l \in SetToSeqs(Shown) PROVE Enumerates(l, Shown)
  <2> DEFINE n == Cardinality(Shown)
  <2>1. /\ l \in [1..n -> Shown] /\ DOMAIN l = 1..n
        /\ \A i, j \in 1..n : l[i] = l[j] => i = j
    BY <1>1
  <2>2. IsFiniteSet(1..n) /\ Cardinality(1..n) = n
    BY <1>3, FS_Interval
  <2>3. l \in Injection(1..n, Shown)
    BY <2>1 DEF Injection, IsInjective
  <2>4. l \in Surjection(1..n, Shown)
    BY <1>2, <2>2, <2>3, FS_Injection
  <2> HIDE DEF n
  <2>5. \A q \in Shown : \E i \in 1..n : l[i] = q
    BY <2>4 DEF Surjection
  <2>6. l \in Seq(Shown)
    BY <1>3, <2>1 DEF n
  <2> QED
    BY <2>1, <2>5, <2>6 DEF Enumerates
<1> QED
  BY <1>4, <1>5

\* The inductive invariant: the list holds every queue once, and is what the last
\* request made of the list before it.
MovesInv ==
  /\ Enumerates(queueOrder, Shown)
  /\ lastMove.from # << >> =>
       /\ lastMove.op \in Operations /\ lastMove.free \subseteq Shown
       /\ lastMove.selected \subseteq lastMove.free
       /\ Enumerates(lastMove.from, Shown)
       /\ queueOrder = Reordered(lastMove.from, lastMove.free, lastMove.selected, lastMove.op)

LEMMA MovesInvHolds == MoveSpec => []MovesInv
<1>1. NoMove.from = << >>
  BY DEF NoMove
<1>2. MoveInit => MovesInv
  BY <1>1, ShownLists DEF MoveInit, MovesInv
<1>3. ASSUME MovesInv, [MoveNext]_moveVars PROVE MovesInv'
  <2>1. ASSUME lastMove' = NoMove, queueOrder' = queueOrder PROVE MovesInv'
    BY <1>1, <1>3, <2>1 DEF MovesInv
  <2>2. ASSUME NEW S \in SUBSET Shown, NEW op \in Operations, MoveQueues(S, op)
        PROVE  MovesInv'
    <3> DEFINE C == Shown \ underWay
    <3>1. /\ queueOrder' = Reordered(queueOrder, C, S, op)
          /\ lastMove' = [op |-> op, selected |-> S \ underWay, free |-> C,
                          from |-> queueOrder]
      BY <2>2, ShownLists, Zenon DEF MoveQueues
    <3>2. /\ lastMove'.op = op /\ lastMove'.selected = S \ underWay /\ lastMove'.free = C
          /\ lastMove'.from = queueOrder
      BY <3>1
    <3>3. S \cap C = (S \ underWay) \cap C /\ S \ underWay \subseteq C /\ C \subseteq Shown
      OBVIOUS
    <3>4. Enumerates(queueOrder, Shown)
      BY <1>3 DEF MovesInv
    <3> HIDE DEF C
    <3>5. Reordered(queueOrder, C, S, op) = Reordered(queueOrder, C, S \ underWay, op)
      BY <3>3, Zenon DEF Reordered
    <3>6. Enumerates(Reordered(queueOrder, C, S, op), Shown)
      BY <3>4, ReorderedEnumerates
    <3> QED
      BY <3>1, <3>2, <3>3, <3>4, <3>5, <3>6 DEF MovesInv
  <2>3. CASE UNCHANGED moveVars
    BY <1>3, <2>3 DEF moveVars, MovesInv
  <2>4. CASE MoveNext
    BY <2>1, <2>2, <2>4, ShownLists DEF MoveNext, PinQueue, FreeQueue
  <2> QED
    BY <1>3, <2>3, <2>4
<1> QED
  BY <1>2, <1>3, PTL DEF MoveSpec

\* What the last request did to each queue.
LEMMA LastMove ==
  ASSUME MovesInv, lastMove.from # << >>
  PROVE  LET l == Only(lastMove.from, lastMove.free)
             m == Permuted(l, lastMove.selected, lastMove.op)
         IN  /\ Carried(lastMove.from, queueOrder, Shown, lastMove.free, l, m)
             /\ Enumerates(l, lastMove.free) /\ Enumerates(m, lastMove.free)
             /\ KindsKept(l, m, lastMove.free, lastMove.selected)
             /\ \A q \in lastMove.selected :
                  AsAsked(l, m, lastMove.free, lastMove.selected, q, lastMove.op)
<1> DEFINE C == lastMove.free
           S == lastMove.selected
           op == lastMove.op
           l == Only(lastMove.from, C)
           m == Permuted(l, S, op)
<1>1. /\ op \in Operations /\ C \in SUBSET Shown /\ S \in SUBSET C /\ S \cap C = S
      /\ Enumerates(lastMove.from, Shown) /\ queueOrder = Reordered(lastMove.from, C, S, op)
  BY DEF MovesInv
<1> HIDE DEF C, S, op
<1>2. /\ Carried(lastMove.from, queueOrder, Shown, C, l, m)
      /\ Enumerates(l, C) /\ Enumerates(m, C)
  BY <1>1, ReorderedPlaces
<1> HIDE DEF l
<1>3. KindsKept(l, m, C, S)
  BY <1>1, <1>2, PermutedGoes
<1>4. \A q \in S : AsAsked(l, m, C, S, q, op)
  BY <1>1, <1>2, GoesAsAsked
<1> QED
  BY <1>2, <1>3, <1>4 DEF l, C, S, op

\* Whatever is moved around it, a queue under way keeps its position, and no queue
\* is lost or doubled: for any number of queues, of which any part is pinned.
THEOREM PinnedAlwaysStay == MoveSpec => []PinnedStay
<1>1. ASSUME MovesInv PROVE PinnedStay
  <2>1. queueOrder \in SetToSeqs(Shown)
    BY <1>1, ShownLists DEF MovesInv
  <2>2. ASSUME lastMove.from # << >>, NEW q \in Shown \ lastMove.free
        PROVE  At(queueOrder, q) = At(lastMove.from, q)
    <3>1. Place(queueOrder, q) = Place(lastMove.from, q)
      BY <1>1, <2>2, LastMove DEF Carried
    <3> QED
      BY <3>1 DEF Place, At
  <2> QED
    BY <2>1, <2>2 DEF PinnedStay
<1> QED
  BY <1>1, MovesInvHolds, PTL

\* The selected queues, and the unselected ones, stay in their own order: swaps of
\* neighbours of different kinds, pass by pass, and the two parts of the list.
THEOREM RelativeOrderAlwaysKept == MoveSpec => []RelativeOrderKept
<1>1. ASSUME MovesInv PROVE RelativeOrderKept
  <2>1. ASSUME lastMove.from # << >>, NEW p \in lastMove.free, NEW q \in lastMove.free,
               p \in lastMove.selected <=> q \in lastMove.selected
        PROVE  At(queueOrder, p) < At(queueOrder, q)
                 <=> At(lastMove.from, p) < At(lastMove.from, q)
    <3>1. Place(queueOrder, p) < Place(queueOrder, q)
            <=> Place(lastMove.from, p) < Place(lastMove.from, q)
      BY <1>1, <2>1, LastMove DEF Carried, KindsKept
    <3> QED
      BY <3>1 DEF Place, At
  <2> QED
    BY <2>1 DEF RelativeOrderKept
<1> QED
  BY <1>1, MovesInvHolds, PTL

\* A selected queue ends where the button says among the queues that may move:
\* one pass of swaps takes it up by one place and no more, or down by one, unless
\* none but selected queues are ahead of it, or behind it.
THEOREM AlwaysMovesAsAsked == MoveSpec => []MovesAsAsked
<1>1. ASSUME MovesInv PROVE MovesAsAsked
  <2>1. ASSUME lastMove.from # << >>, NEW q \in lastMove.selected
        PROVE  AsAsked(lastMove.from, queueOrder, lastMove.free, lastMove.selected, q,
                       lastMove.op)
    <3> DEFINE C == lastMove.free
               S == lastMove.selected
               l == Only(lastMove.from, C)
               m == Permuted(l, S, lastMove.op)
    <3>1. /\ Carried(lastMove.from, queueOrder, Shown, C, l, m) /\ q \in C /\ S \subseteq C
          /\ AsAsked(l, m, C, S, q, lastMove.op)
      BY <1>1, <2>1, LastMove DEF MovesInv
    <3> HIDE DEF C, S, l, m
    <3>2. /\ AheadOf(lastMove.from, q, C) = AheadOf(l, q, C)
          /\ AheadOf(lastMove.from, q, S) = AheadOf(l, q, S)
          /\ AheadOf(queueOrder, q, C) = AheadOf(m, q, C)
      <4>1. {c \in C : Place(lastMove.from, c) < Place(lastMove.from, q)}
              = {c \in C : Place(l, c) < Place(l, q)}
        BY <3>1 DEF Carried
      <4>2. {c \in S : Place(lastMove.from, c) < Place(lastMove.from, q)}
              = {c \in S : Place(l, c) < Place(l, q)}
        BY <3>1 DEF Carried
      <4>3. {c \in C : Place(queueOrder, c) < Place(queueOrder, q)}
              = {c \in C : Place(m, c) < Place(m, q)}
        BY <3>1 DEF Carried
      <4> QED
        BY <4>1, <4>2, <4>3 DEF AheadOf
    <3> QED
      BY <3>1, <3>2 DEF AsAsked, C, S
  <2>2. \A o, q, C : Ahead(o, q, C) = AheadOf(o, q, C)
    BY Zenon DEF Ahead, AheadOf, At, Place, Cardinality, Cardinality
  <2>3. \A S : Cardinality(S) = Cardinality(S)
    BY Zenon DEF Cardinality, Cardinality
  <2> QED
    BY <2>1, <2>2, <2>3 DEF MovesAsAsked, AsAsked
<1> QED
  BY <1>1, MovesInvHolds, PTL
=============================================================================
