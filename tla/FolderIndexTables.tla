------------------------- MODULE FolderIndexTables -------------------------
(***************************************************************************)
(* folder_index.sqlite3: the rows that belong to one favourite root, and   *)
(* each transaction of FolderIndexRepository as an operator from rows to   *)
(* rows.  A folder is the sequence of names that leads to it from its      *)
(* root, which is << >>; its length is column depth.  A generation is a    *)
(* fresh uuid4 and is only ever compared with the generation of the root,  *)
(* so a row keeps the answer: now says that the two are equal.             *)
(***************************************************************************)
EXTENDS Naturals, Sequences, FiniteSets

CONSTANTS Folders,    \* every folder that may come to exist below a root
          DefaultDepth, \* depth limit of a new favourite
          MaxTries      \* attempts that "retry errors" gives a folder

Top == << >>
Unlimited == 1000000   \* max_depth is NULL

ASSUME FoldersAssumption ==
  /\ Folders \subseteq Seq(STRING)
  /\ Top \in Folders
  /\ \A f \in Folders : Len(f) < Unlimited
  /\ DefaultDepth \in Nat \ {0}
  /\ MaxTries \in Nat \ {0}

Scopes == {"FULL", "DEPTH", "EXCLUDED"}
Statuses == {"NONE", "EMPTY", "INDEXING", "PAUSED", "INCOMPLETE", "READY",
             "OFFLINE", "EXCLUDED"}

Under(f) == {g \in Folders : Len(f) <= Len(g) /\ SubSeq(g, 1, Len(f)) = f}
ChildrenIn(S, f) == {g \in S : Len(g) = Len(f) + 1 /\ SubSeq(g, 1, Len(f)) = f}
Keep(rows, S) == [f \in S \cap DOMAIN rows |-> rows[f]]

NoRows == [f \in {} |-> f]

\* Status NONE: there is no such favourite.
Favourite(status, scope, limit, online) ==
  [status |-> status, scope |-> scope, limit |-> limit, kind |-> "FULL",
   online |-> online, index |-> NoRows, queue |-> NoRows, errs |-> {},
   indexed |-> 0, pending |-> 0, errors |-> 0]
NoFavourite == Favourite("NONE", "FULL", Unlimited, FALSE)
Known(t) == t.status # "NONE"

LimitOf(scope) == IF scope = "DEPTH" THEN DefaultDepth ELSE Unlimited
Added(scope, online) ==
  Favourite(IF scope = "EXCLUDED" THEN "EXCLUDED" ELSE IF online THEN "EMPTY" ELSE "OFFLINE",
            scope, LimitOf(scope), online)

\* Whether the scan goes below f.
Descends(t, f) == Len(f) < t.limit

Open(t) == {f \in DOMAIN t.queue : t.queue[f].state \in {"PENDING", "PROCESSING"}}
Processing(t) == {f \in DOMAIN t.queue : t.queue[f].state = "PROCESSING"}

Counted(t) == [t EXCEPT !.indexed = Cardinality(DOMAIN t.index),
                        !.pending = Cardinality(Open(t)),
                        !.errors = Cardinality(t.errs)]

Restate(queue, S, state) ==
  [f \in DOMAIN queue |-> IF f \in S THEN [queue[f] EXCEPT !.state = state] ELSE queue[f]]
\* Mutant: claimed folders stay claimed.
ReturnedNothing(t) == t
Returned(t) == [t EXCEPT !.queue = Restate(t.queue, Processing(t), "PENDING")]

-----------------------------------------------------------------------------
(* The user's transactions. *)

Rescoped(t, scope) ==
  [t EXCEPT !.scope = scope, !.limit = LimitOf(scope), !.queue = NoRows, !.errs = {},
            !.pending = 0, !.errors = 0,
            !.status = IF scope = "EXCLUDED" THEN "EXCLUDED" ELSE "INCOMPLETE"]

Paused(t) ==
  Counted(Returned(IF t.scope = "EXCLUDED" THEN t ELSE [t EXCEPT !.status = "PAUSED"]))

Resumed(t) == [t EXCEPT !.status = "INCOMPLETE"]

\* Mutant: the rows go, the counts stay.
MissingUncounted(t, f) ==
  [t EXCEPT !.index = Keep(t.index, Folders \ Under(f)),
            !.status = IF t.scope = "EXCLUDED" THEN @ ELSE "INCOMPLETE"]
\* A search result that was opened and is not there.
Missing(t, f) ==
  Counted([t EXCEPT !.index = Keep(t.index, Folders \ Under(f)),
                    !.status = IF t.scope = "EXCLUDED" THEN @ ELSE "INCOMPLETE"])

\* What search_page finds, all pages together.
Hits(t) == IF t.scope = "EXCLUDED" THEN {} ELSE DOMAIN t.index

\* The database is opened again after the process has ended.
Recovered(t) ==
  Counted(Returned(IF t.status = "INDEXING" THEN [t EXCEPT !.status = "INCOMPLETE"] ELSE t))

-----------------------------------------------------------------------------
(* The transactions of a scan. *)

Connected(t, online) ==
  [t EXCEPT !.online = online,
            !.status = IF ~online /\ t.scope # "EXCLUDED" THEN "OFFLINE"
                       ELSE IF online /\ t.status = "OFFLINE" THEN "INCOMPLETE" ELSE @]

\* A new generation: no row belongs to it yet.
Renewed(t, kind, queue, pending) ==
  [t EXCEPT !.index = [f \in DOMAIN t.index |-> [t.index[f] EXCEPT !.now = FALSE]],
            !.queue = queue, !.errs = {}, !.pending = pending, !.errors = 0,
            !.kind = kind, !.status = "INDEXING", !.online = TRUE]

Work(kind) == [state |-> "PENDING", tries |-> 0, now |-> TRUE, work |-> kind]

PreparedFull(t) == Renewed(t, "FULL", [f \in {Top} |-> Work("DISCOVER")], 1)

\* cached was counted in an earlier transaction.
PreparedIncremental(t, cached) ==
  Renewed(t, "INCREMENTAL", [f \in DOMAIN t.index |-> Work("VERIFY")], cached)

Retried(t) ==
  Counted([t EXCEPT !.queue = Restate(t.queue,
             {f \in DOMAIN t.queue : /\ t.queue[f].state = "ERROR"
                                     /\ t.queue[f].tries < MaxTries}, "PENDING")])

Started(t) == [t EXCEPT !.status = "INDEXING", !.online = TRUE]

\* The next folders of this generation, the shallow ones first.
Claimable(t) == {f \in DOMAIN t.queue : t.queue[f].state = "PENDING" /\ t.queue[f].now}
Batches(t, size) ==
  {S \in SUBSET Claimable(t) :
     /\ Cardinality(S) = IF Cardinality(Claimable(t)) < size
                         THEN Cardinality(Claimable(t)) ELSE size
     /\ \A f \in S, g \in Claimable(t) \ S : Len(f) <= Len(g)}
Claimed(t, S) == [t EXCEPT !.queue = Restate(t.queue, S, "PROCESSING")]

\* What the inspection of a folder found: the row to write (if any), folders to
\* visit, and subtrees that are gone.
Found(f, update, mtime, children, gone) ==
  [folder |-> f, update |-> update, mtime |-> mtime, children |-> children, gone |-> gone]
Unchanged(f) == Found(f, FALSE, 0, {}, {})

Written(good) == {s \in good : s.update}
FoldersOf(good) == {s.folder : s \in good}
RowOf(good, f) == CHOOSE s \in good : s.folder = f

\* A folder that is queued already is not queued again.
Enqueued(queue, children, now) ==
  [f \in DOMAIN queue \cup children |->
     IF f \in DOMAIN queue THEN queue[f] ELSE [Work("DISCOVER") EXCEPT !.now = now]]
Settled(queue, good, bad) ==
  [f \in DOMAIN queue |->
     IF f \in FoldersOf(good) THEN [queue[f] EXCEPT !.state = "DONE"]
     ELSE IF f \in bad THEN [queue[f] EXCEPT !.state = "ERROR", !.tries = @ + 1]
     ELSE queue[f]]
Upserted(index, good, now) ==
  [f \in DOMAIN index \cup FoldersOf(Written(good)) |->
     IF f \in FoldersOf(Written(good)) THEN [mtime |-> RowOf(good, f).mtime, now |-> now]
                                       ELSE index[f]]

\* One batch is written: rows, new work, the states of the batch, errors, subtrees
\* that are gone.
Committed(t, good, bad, now) ==
  LET gone == UNION {Under(g) : g \in UNION {s.gone : s \in good}}
  IN  Counted([t EXCEPT
        !.index = Keep(Upserted(@, good, now), Folders \ gone),
        !.queue = Settled(Enqueued(@, UNION {s.children : s \in good}, now), good, bad),
        !.errs = (@ \ (FoldersOf(good) \X {now})) \cup (bad \X {now})])

Finished(t) ==
  /\ \A f \in Open(t) : ~t.queue[f].now
  /\ \A e \in t.errs : ~e[2]
\* Mutant: what was visited stays in the queue.
FinalizedKeepingQueue(t) ==
  Counted([t EXCEPT !.status = IF Finished(t) THEN "READY" ELSE "INCOMPLETE"])
Finalized(t) ==
  IF Finished(t)
  THEN Counted([t EXCEPT !.status = "READY", !.online = TRUE, !.queue = NoRows, !.errs = {},
                         !.index = IF t.kind = "FULL"
                                   THEN Keep(t.index, {f \in DOMAIN t.index : t.index[f].now})
                                   ELSE @])
  ELSE Counted([t EXCEPT !.status = "INCOMPLETE"])

\* Mutant: only the counts are renewed.
InterruptedUnnoticed(t) == Counted(t)
Interrupted(t) ==
  Counted(IF t.status = "INDEXING" THEN [t EXCEPT !.status = "INCOMPLETE"] ELSE t)
=============================================================================
