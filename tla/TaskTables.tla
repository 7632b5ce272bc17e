----------------------------- MODULE TaskTables -----------------------------
(***************************************************************************)
(* The persistent tables of one session and the transactions on them:      *)
(* src/state/task_repository.py under src/state/sqlite_task_store.py.      *)
(* The tables are one record, so that every transaction is an operator     *)
(* from the record before it to the record after it:                       *)
(*   scan, held, total, count   a row of table folders per queue, with its *)
(*                              aggregate counters (one per TaskStatus)    *)
(*   order                      the queues by column position              *)
(*   tasks                      the rows of table tasks and their status   *)
(*   session, resume            the row of table sessions                  *)
(*   gen                        tells apart the uuid4 request ids given to *)
(*                              the same image of the same queue before    *)
(*                              and after a deletion or a new session      *)
(* A queue is one (source folder, recipe) pair.  The rowid order of the    *)
(* tasks of a queue is the order of their image numbers, the order in      *)
(* which the directory lists them.                                         *)
(***************************************************************************)
EXTENDS FolderOrder, FiniteSetsExt

CONSTANTS Queues,     \* the (source folder, recipe) pairs that can be registered
          Images,     \* image numbers
          SourceOf,   \* the source folder of each queue
          Disk        \* the images of each source folder

ASSUME TablesAssumption ==
  /\ Images \subseteq Nat /\ IsFiniteSet(Images)
  /\ IsFiniteSet(Queues)
  /\ Disk \in [{SourceOf[q] : q \in Queues} -> SUBSET Images]

Unfinished == {"PENDING", "CLAIMED", "SENT", "RUNNING"}
Terminal == {"SUCCESS", "FAIL", "TIMEOUT", "ERROR", "CANCELLED"}
Statuses == Unfinished \cup Terminal
ScanStates == {"NONE", "WAITING", "SCANNING", "SCANNED", "EMPTY", "ERROR"}
SessionStates == {"ACTIVE", "PAUSED_BY_USER", "COMPLETED"}

Requests == [queue : Queues, image : Images, gen : Nat]
ZeroCount == [s \in Statuses |-> 0]

EmptyTables(g) ==
  [scan    |-> [q \in Queues |-> "NONE"],
   held    |-> [q \in Queues |-> FALSE],
   total   |-> [q \in Queues |-> 0],
   count   |-> [q \in Queues |-> ZeroCount],
   order   |-> << >>,
   tasks   |-> [t \in {} |-> "PENDING"],
   session |-> "ACTIVE",
   resume  |-> FALSE,
   gen     |-> g]

Registered(d) == {q \in Queues : d.scan[q] # "NONE"}
Rows(d) == DOMAIN d.tasks
RowsOf(d, q) == {t \in Rows(d) : t.queue = q}
RowsIn(d, S) == {t \in Rows(d) : d.tasks[t] \in S}
ImagesIn(q) == Disk[SourceOf[q]]
Position(d, q) == CHOOSE i \in DOMAIN d.order : d.order[i] = q

-----------------------------------------------------------------------------
(* What the callers read. *)

Completed(d, q) == LET c == d.count[q]
                   IN  c["SUCCESS"] + c["FAIL"] + c["TIMEOUT"] + c["ERROR"] + c["CANCELLED"]

\* Nothing of the queue has left PENDING, by its counters.
Controllable(d, q) ==
  /\ d.total[q] = d.count[q]["PENDING"]
  /\ \A s \in Statuses \ {"PENDING"} : d.count[q][s] = 0

\* Mutant: claimed tasks do not protect their queue.
DeletableWhenClaimed(d, q) ==
  d.count[q]["SENT"] + d.count[q]["RUNNING"] + Completed(d, q) = 0

\* The guard of a deletion: the columns other than pending_count sum to zero.
Deletable(d, q) ==
  LET c == d.count[q]
  IN  /\ c["CLAIMED"] + c["SENT"] + c["RUNNING"] + Completed(d, q) = 0
      /\ d.total[q] = c["PENDING"]

FolderDone(d, q) == d.total[q] > 0 /\ Completed(d, q) = d.total[q]

InState(d, S) == Only(d.order, {q \in Queues : d.scan[q] \in S})
Waiting(d) == InState(d, {"WAITING"})
\* Mutant: the hold mark is not looked at.
ActiveCandidatesHeldToo(d) == InState(d, {"SCANNING", "SCANNED"})

ActiveCandidates(d) ==
  Only(d.order, {q \in Queues : d.scan[q] \in {"SCANNING", "SCANNED"} /\ ~d.held[q]})

Outstanding(d) == Cardinality(RowsIn(d, {"CLAIMED", "SENT", "RUNNING"}))
HasPending(d) == RowsIn(d, {"PENDING", "CLAIMED"}) # {}
HasInflight(d) == RowsIn(d, {"SENT", "RUNNING"}) # {}
HasDispatchable(d) ==
  \E q \in Registered(d) : d.total[q] > Completed(d, q) /\ ~d.held[q]

\* The sum over the queues of one counter (overall_counts).
Overall(d, s) == MapThenSumSet(LAMBDA q : d.count[q][s], Queues)
AllTerminal(d) ==
  /\ MapThenSumSet(LAMBDA q : d.total[q], Queues) > 0
  /\ \A s \in Unfinished : Overall(d, s) = 0
HasResumable(d) ==
  \/ RowsIn(d, Unfinished) # {}
  \/ \E q \in Queues : d.scan[q] \in {"WAITING", "SCANNING"}
ShouldAutoResume(d) == d.session = "ACTIVE" /\ d.resume /\ HasResumable(d)
PausedWork(d) == d.session = "PAUSED_BY_USER" /\ HasResumable(d)
-----------------------------------------------------------------------------
(* What must hold of the tables; the modules that own them check it. *)

Tally(d, q, s) == {t \in Rows(d) : t.queue = q /\ d.tasks[t] = s}

HasColumns(d) ==
  d \in [scan : [Queues -> ScanStates], held : [Queues -> BOOLEAN],
         total : [Queues -> Int], count : [Queues -> [Statuses -> Int]],
         order : {d.order}, tasks : {d.tasks}, session : SessionStates,
         resume : BOOLEAN, gen : Nat]

TypedTables(d) ==
  /\ HasColumns(d)
  /\ Rows(d) \subseteq Requests /\ IsFiniteSet(Rows(d))
  /\ d.tasks \in [Rows(d) -> Statuses]

\* The counters of a queue are the tallies of its rows.
Counted(d, q) ==
  /\ \A s \in Statuses : d.count[q][s] = Cardinality(Tally(d, q, s))
  /\ d.total[q] = Cardinality(RowsOf(d, q))

CountersMatch(d) == \A q \in Queues : Counted(d, q)

\* They may miss rows, as PENDING ones and in total, but never invent one.
NotOverstated(d, q) ==
  /\ \A s \in Statuses \ {"PENDING"} : d.count[q][s] = Cardinality(Tally(d, q, s))
  /\ d.count[q]["PENDING"] <= Cardinality(Tally(d, q, "PENDING"))
  /\ d.total[q] <= Cardinality(RowsOf(d, q))

OwnedRows(d) ==
  \A t \in Rows(d) :
    /\ t.queue \in Registered(d)
    /\ \A u \in Rows(d) : (u.queue = t.queue /\ u.image = t.image) => u = t

CompleteOrder(d) == Enumerates(d.order, Registered(d))

-----------------------------------------------------------------------------
(* Transactions on tasks. *)

\* The rows of T take status target and the counters of their queues follow.
Move(d, T, target) ==
  [d EXCEPT
    !.tasks = [t \in Rows(d) |-> IF t \in T THEN target ELSE d.tasks[t]],
    !.count = [q \in Queues |-> [s \in Statuses |->
                 d.count[q][s]
                 - Cardinality({t \in T : t.queue = q /\ d.tasks[t] = s})
                 + Cardinality({t \in T : t.queue = q /\ s = target})]]]

\* transition_task: refused, changing nothing, unless the row exists and is in
\* one of the allowed statuses.
Transition(d, t, target, allowed) ==
  IF t \in RowsIn(d, allowed) THEN Move(d, {t}, target) ELSE d

\* Mutant: the sent mark is refused to a claimed task.
MarkSentFromPending(d, t) == Transition(d, t, "SENT", {"PENDING"})

MarkSent(d, t) == Transition(d, t, "SENT", {"CLAIMED", "PENDING"})
MarkError(d, t) == Transition(d, t, "ERROR", Unfinished)
ApplyResult(d, t, verdict) == Transition(d, t, verdict, {"SENT", "RUNNING"})
MarkInflightRunning(d) == Move(d, RowsIn(d, {"SENT"}), "RUNNING")
ReleaseClaimed(d) == Move(d, RowsIn(d, {"CLAIMED"}), "PENDING")

\* T: the rows whose sent_at is older than the timeout.
MarkTimeouts(d, T) == Move(d, T \cap RowsIn(d, {"SENT", "RUNNING"}), "TIMEOUT")

\* ORDER BY position, rowid
Before(d, t, u) ==
  IF t.queue = u.queue THEN t.image < u.image
                       ELSE Position(d, t.queue) < Position(d, u.queue)

\* The first limit pending rows of the queues of F that are not held.
ClaimBatch(d, F, limit) ==
  LET ready == {t \in RowsIn(d, {"PENDING"}) : t.queue \in F /\ ~d.held[t.queue]}
  IN  {t \in ready : Cardinality({u \in ready : Before(d, u, t)}) < limit}

\* T in that order.
Listed(d, T) == ByRank(T, [t \in T |-> Cardinality({u \in T : Before(d, u, t)})])

Claim(d, T) == Move(d, T, "CLAIMED")

-----------------------------------------------------------------------------
(* Transactions on queues. *)

\* Mutant: no INSERT OR IGNORE on the descriptor.
RegisterAgain(d, q) == [d EXCEPT !.scan[q] = "WAITING", !.order = Append(@, q)]

\* register_folder_descriptors for one (source, recipe) pair.
Register(d, q) ==
  IF q \in Registered(d) THEN d
  ELSE [d EXCEPT !.scan[q] = "WAITING", !.order = Append(@, q)]

SetScan(d, q, state) ==
  IF q \in Registered(d) THEN [d EXCEPT !.scan[q] = state] ELSE d

Missing(d, q, S) == {i \in S : \A t \in RowsOf(d, q) : t.image # i}
NewRows(d, q, S) == {[queue |-> q, image |-> i, gen |-> d.gen] : i \in Missing(d, q, S)}
WithRows(d, N) == [t \in Rows(d) \cup N |-> IF t \in N THEN "PENDING" ELSE d.tasks[t]]

\* INSERT OR IGNORE of the images S; the counters grow by what was inserted.
Inserted(d, q, N) ==
  [d EXCEPT !.tasks = WithRows(d, N),
            !.total[q] = @ + Cardinality(N),
            !.count[q]["PENDING"] = @ + Cardinality(N)]

\* Mutant: the counters grow by the size of the batch, ignored rows included.
InsertBatchCountingAll(d, q, S) ==
  IF q \in Registered(d)
  THEN [d EXCEPT !.tasks = WithRows(d, NewRows(d, q, S)),
                 !.total[q] = @ + Cardinality(S),
                 !.count[q]["PENDING"] = @ + Cardinality(S)]
  ELSE d

InsertBatch(d, q, S) ==
  IF q \in Registered(d) THEN Inserted(d, q, NewRows(d, q, S)) ELSE d

\* The first inventoried queue of the same source folder, in position order.
Siblings(d, q) ==
  Only(d.order, {r \in Queues \ {q} : /\ SourceOf[r] = SourceOf[q]
                                      /\ d.scan[r] \in {"SCANNED", "EMPTY"}})

CanPopulate(d, q) == d.scan[q] = "WAITING" /\ Siblings(d, q) # << >>

\* populate_folder_from_scanned_sibling: the counters are set, not increased.
Populated(d, q, N) ==
  [d EXCEPT !.tasks = WithRows(d, N),
            !.scan[q] = "SCANNED",
            !.total[q] = Cardinality(N),
            !.count[q]["PENDING"] = Cardinality(N)]

Populate(d, q) ==
  LET r == Head(Siblings(d, q))
  IN  IF ~CanPopulate(d, q) THEN d
      ELSE IF d.scan[r] = "EMPTY" THEN SetScan(d, q, "EMPTY")
      ELSE Populated(d, q, NewRows(d, q, {t.image : t \in RowsOf(d, r)}))

\* set_folders_held: queues under way are blocked and keep their mark.
SetHeld(d, S, held) ==
  [d EXCEPT !.held = [q \in Queues |->
     IF q \in S \cap Registered(d) /\ Controllable(d, q) THEN held ELSE @[q]]]

Reorder(d, S, op) ==
  [d EXCEPT !.order =
     Reordered(@, {q \in Registered(d) : Controllable(d, q)}, S, op)]

\* Mutant: the foreign key does not cascade to the rows.
WithoutCascade(d, D) ==
  [d EXCEPT !.scan  = [q \in Queues |-> IF q \in D THEN "NONE" ELSE @[q]],
            !.total = [q \in Queues |-> IF q \in D THEN 0 ELSE @[q]],
            !.count = [q \in Queues |-> IF q \in D THEN ZeroCount ELSE @[q]],
            !.order = Only(@, Queues \ D),
            !.gen   = @ + 1]

WithoutQueues(d, D) ==
  [d EXCEPT !.scan  = [q \in Queues |-> IF q \in D THEN "NONE" ELSE @[q]],
            !.held  = [q \in Queues |-> IF q \in D THEN FALSE ELSE @[q]],
            !.total = [q \in Queues |-> IF q \in D THEN 0 ELSE @[q]],
            !.count = [q \in Queues |-> IF q \in D THEN ZeroCount ELSE @[q]],
            !.order = Only(@, Queues \ D),
            !.tasks = [t \in {u \in Rows(d) : u.queue \notin D} |-> d.tasks[t]],
            !.gen   = @ + 1]

\* delete_pending_folders: the rows of a deleted queue go with it.
Delete(d, S) ==
  LET D == {q \in S \cap Registered(d) : Deletable(d, q)}
  IN  IF D = {} THEN d ELSE WithoutQueues(d, D)

-----------------------------------------------------------------------------
(* The session row, and opening the database after a shutdown or a crash. *)

SaveSettings(d) == [d EXCEPT !.session = "ACTIVE", !.resume = TRUE]
ResumeByUser(d) == [d EXCEPT !.session = "ACTIVE", !.resume = TRUE]
PauseByUser(d) == [ReleaseClaimed(d) EXCEPT !.session = "PAUSED_BY_USER", !.resume = TRUE]
CompleteSession(d) == [d EXCEPT !.session = "COMPLETED", !.resume = FALSE]

\* Mutant: the old session is archived and none is opened.
ArchivedOnly(d) == [d EXCEPT !.session = "RESET"]

NewSession(d) == EmptyTables(d.gen + 1)

\* Registering into a completed session opens a fresh one.
PrepareSession(d) == IF d.session = "COMPLETED" THEN NewSession(d) ELSE d

\* clear_session: an active session without queues is kept and reset.
ClearSession(d) ==
  IF d.session # "COMPLETED" /\ Registered(d) = {}
  THEN [d EXCEPT !.session = "ACTIVE", !.resume = FALSE]
  ELSE NewSession(d)

\* Mutant: an interrupted scan counts as finished.
RecoverScansDone(d) ==
  [d EXCEPT !.scan = [q \in Queues |-> IF @[q] = "SCANNING" THEN "SCANNED" ELSE @[q]]]

RecoverScans(d) ==
  [d EXCEPT !.scan = [q \in Queues |-> IF @[q] = "SCANNING" THEN "WAITING" ELSE @[q]]]

\* Mutant: claims survive a restart.
ReopenKeepingClaims(d) == RecoverScans(PrepareSession(d))

\* __init__: a completed session is left behind, claims and scans are undone.
Reopen(d) == RecoverScans(ReleaseClaimed(PrepareSession(d)))
=============================================================================
