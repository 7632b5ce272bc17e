-------------------------- MODULE EagerController --------------------------
(***************************************************************************)
(* TaskStore (src/state/task_store.py) and what TaskController does with   *)
(* it in one turn of the GUI thread when no database is configured (eager  *)
(* mode, src/app/controller.py): operators from the situation before a     *)
(* slot to the situation after it.  A situation s has the fields           *)
(*   db       the tasks and folder groups of TaskStore                     *)
(*   ctl      the controller's scheduling attributes                       *)
(*   pubs, polls   the publish and polling threads, by slot                *)
(*   events   the calls queued for the GUI thread by the workers' signals  *)
(* An image with its recipe is an item of its folder.  A request id is the *)
(* item with the number of clearings before it was registered.             *)
(***************************************************************************)
EXTENDS Lists, Integers, SequencesExt, FiniteSetsExt

CONSTANTS Folders,
          Items,      \* [Folders -> SUBSET Nat]: images times selected recipes
          MaxInitial, \* initial_open_folders
          MaxActive,  \* max_active_open_folders
          PubSlots, PollSlots \* bounds: threads alive or unreported at once

ASSUME EagerAssumption ==
  /\ Items \in [Folders -> SUBSET Nat] /\ \A f \in Folders : IsFiniteSet(Items[f])
  /\ {MaxInitial, MaxActive} \subseteq Nat \ {0} /\ MaxInitial <= MaxActive
  /\ PubSlots \subseteq Nat \ {0} /\ PollSlots \subseteq Nat \ {0}

Done == {"SUCCESS", "FAIL", "TIMEOUT", "ERROR"}
Inflight == {"SENT", "RUNNING"}

EmptyStore(life) == [order  |-> << >>,                    \* _folder_order
                     ids    |-> [f \in Folders |-> << >>], \* task_ids of its group
                     status |-> << >>,                    \* status by request id
                     life   |-> life]                     \* clearings so far

-----------------------------------------------------------------------------
(* TaskStore. *)

Known(d) == DOMAIN d.status
AllIn(d, statuses) == {t \in Known(d) : d.status[t] \in statuses}
SetTo(d, T, status) ==
  [d EXCEPT !.status = [t \in DOMAIN @ |-> IF t \in T THEN status ELSE @[t]]]

\* A folder is in the order only with tasks; its summary is None otherwise.
Grouped(d) == ToSet(d.order)
Finished(d, f) == f \in Grouped(d) /\ \A t \in ToSet(d.ids[f]) : d.status[t] \in Done
\* RUNNING in the summary: some task has left PENDING, some is not done.
InProgress(d, f) ==
  /\ f \in Grouped(d) /\ ~Finished(d, f)
  /\ \E t \in ToSet(d.ids[f]) : d.status[t] # "PENDING"
HalfDone(d, f) ==
  2 * Cardinality(ToSet(d.ids[f]) \cap AllIn(d, Done)) >= Len(d.ids[f])

\* What of a folder is not in its index yet; the order of the new tasks is of no
\* consequence.
Unregistered(d, f, items) ==
  LET index == {t.item : t \in {u \in Known(d) : u.folder = f}}
  IN  {[folder |-> f, item |-> i, life |-> d.life] : i \in items \ index}
RegisterFolder(d, f, items) ==
  LET new == Unregistered(d, f, items)
  IN  IF items = {} THEN d
      ELSE [d EXCEPT !.order = IF f \in ToSet(@) THEN @ ELSE Append(@, f),
                     !.ids[f] = @ \o SetToSeq(new),
                     !.status = [t \in DOMAIN @ \cup new |->
                                   IF t \in new THEN "PENDING" ELSE @[t]]]

\* Mutant: what is already scheduled is offered again.
PendingIdsAgain(d, f, excluded) == Only(d.ids[f], AllIn(d, {"PENDING"}))

\* build_pending_messages_for_folders, for one folder and with an exclusion.
PendingIds(d, f, excluded) == Only(d.ids[f], AllIn(d, {"PENDING"}) \ excluded)

\* build_pending_messages_by_folder.
PendingBatches(d) ==
  LET list == Only(d.order, {f \in Grouped(d) : PendingIds(d, f, {}) # << >>})
  IN  [k \in DOMAIN list |-> [folder |-> list[k], ids |-> PendingIds(d, list[k], {})]]

\* Only folders all of whose tasks are PENDING can be deleted.
Removable(d, S) ==
  {f \in S \cap Grouped(d) : \A t \in ToSet(d.ids[f]) : d.status[t] = "PENDING"}

RemoveFolders(d, S) ==
  LET R == Removable(d, S)
      kept == {t \in Known(d) : t.folder \notin R}
  IN  IF R = {} THEN d
      ELSE [order  |-> Only(d.order, Grouped(d) \ R),
            ids    |-> [f \in Folders |-> IF f \in R THEN << >> ELSE d.ids[f]],
            status |-> [t \in kept |-> d.status[t]],
            life   |-> d.life + 1]

\* Mutant: a late confirmation takes a settled task back.
MarkSentAnyway(d, t) == SetTo(d, {t}, "SENT")

MarkSent(d, t) == SetTo(d, {t} \cap AllIn(d, {"PENDING"}), "SENT")
MarkRunning(d) == SetTo(d, AllIn(d, {"SENT"}), "RUNNING")
MarkError(d, t) == SetTo(d, {t} \ AllIn(d, Done), "ERROR")
ApplyResult(d, t, verdict) == SetTo(d, {t} \ AllIn(d, Done), verdict)
MarkTimeouts(d, T) == SetTo(d, T \cap AllIn(d, Inflight), "TIMEOUT")

AllTerminal(d) == Known(d) # {} /\ Known(d) = AllIn(d, Done)

-----------------------------------------------------------------------------
(* Threads. *)

NoSlot == 0
FreshController ==
  [active    |-> FALSE,  \* _active
   finished  |-> TRUE,   \* _publish_finished
   batches   |-> << >>,  \* _folder_message_batches
   next      |-> 0,      \* _next_folder_batch_index
   opened    |-> {},     \* _opened_folder_paths
   open      |-> {},     \* _active_folder_paths
   scheduled |-> {},     \* _scheduled_request_ids
   pub       |-> NoSlot, \* _publish_thread, _publish_worker
   poll      |-> NoSlot] \* _poll_thread, _poll_worker
NoThread == [run |-> "none", todo |-> << >>, stop |-> FALSE, quit |-> FALSE]
NoPoll == [run |-> "none", tracked |-> {}, stop |-> FALSE, quit |-> FALSE]

Alive(thread) == thread.run \notin {"none", "exited"}
PubRunning(s) == s.ctl.pub # NoSlot /\ Alive(s.pubs[s.ctl.pub])
PollRunning(s) == s.ctl.poll # NoSlot /\ Alive(s.polls[s.ctl.poll])
\* The look at a thread drops the reference to one that has ended.
PubChecked(s) ==
  IF ~PubRunning(s) /\ s.ctl.finished THEN [s EXCEPT !.ctl.pub = NoSlot] ELSE s
PollChecked(s) == IF ~PollRunning(s) THEN [s EXCEPT !.ctl.poll = NoSlot] ELSE s

\* A slot is free again when its thread is gone and nothing refers to it.
Unused(s, threads, held, kinds) ==
  {k \in DOMAIN threads \ {held} :
     /\ ~Alive(threads[k])
     /\ \A i \in DOMAIN s.events : s.events[i].kind \in kinds => s.events[i].of # k}
UnusedPubs(s) ==
  Unused(s, s.pubs, s.ctl.pub, {"queueReady", "pubFinished", "pubThreadFinished"})
UnusedPolls(s) == Unused(s, s.polls, s.ctl.poll, {"pollFinished"})

StartPublisher(s, todo) ==
  LET p == Min(UnusedPubs(s))
  IN  [s EXCEPT !.ctl.pub = p,
                !.pubs[p] = [NoThread EXCEPT !.run = "connecting", !.todo = todo]]
StartPoller(s) ==
  LET w == Min(UnusedPolls(s))
  IN  [s EXCEPT !.ctl.poll = w,
                !.polls[w] = [NoPoll EXCEPT !.run = "connecting", !.tracked = Known(s.db)]]
StopPolling(s) ==
  IF s.ctl.poll = NoSlot THEN s ELSE [s EXCEPT !.polls[s.ctl.poll].stop = TRUE]
Tracking(s, add, drop) ==
  IF s.ctl.poll = NoSlot THEN s
  ELSE [s EXCEPT !.polls[s.ctl.poll].tracked = (@ \cup add) \ drop]

-----------------------------------------------------------------------------
(* The dispatcher: batches 1 .. next have been given to a publisher. *)

Taken(s) == SubSeq(s.ctl.batches, 1, s.ctl.next)
Untaken(s) == SubSeq(s.ctl.batches, s.ctl.next + 1, Len(s.ctl.batches))
FoldersOf(batches) == {batches[k].folder : k \in DOMAIN batches}
IdsOf(batches) == UNION {ToSet(batches[k].ids) : k \in DOMAIN batches}
Remaining(s) == Len(Untaken(s))
\* The ids of all batches in one list.
Joined(batches) ==
  LET upto[k \in 0 .. Len(batches)] ==
        IF k = 0 THEN << >> ELSE upto[k - 1] \o batches[k].ids
  IN  upto[Len(batches)]

\* Both folder sets are rebuilt from the batches and the folders' summaries.
Synchronized(s) ==
  LET all == FoldersOf(s.ctl.batches)
      seen == (FoldersOf(Taken(s)) \cup (s.ctl.opened \cap all)) \cap Grouped(s.db)
      busy == {f \in all : InProgress(s.db, f)}
  IN  [s EXCEPT !.ctl.opened = seen \cup busy,
                !.ctl.open = {f \in seen : ~Finished(s.db, f)} \cup busy]

Slots(s) == Max({0, MaxActive - Cardinality(s.ctl.open)})

Take(s, count) ==
  LET n == Min({count, Remaining(s)})
      S == FoldersOf(SubSeq(Untaken(s), 1, n))
  IN  [s EXCEPT !.ctl.next = @ + n, !.ctl.opened = @ \cup S, !.ctl.open = @ \cup S]

OpenBatches(s, count) ==
  LET n == Min({count, Remaining(s)})
  IN  StartPublisher([Take(s, count) EXCEPT !.ctl.finished = FALSE],
                     Joined(SubSeq(Untaken(s), 1, n)))

Refilled(s) == Cardinality(s.ctl.opened) > Cardinality(s.ctl.open)
HalfWay(s) == MaxInitial < MaxActive /\ \E f \in s.ctl.open : HalfDone(s.db, f)

\* Mutant: a folder that is done does not make room for the next one.
DispatchWithoutRefill(s) ==
  LET r == PubChecked(Synchronized(s))
  IN  IF Remaining(r) = 0 \/ PubRunning(r) \/ Slots(r) = 0 THEN r
      ELSE IF HalfWay(r) THEN OpenBatches(r, 1) ELSE r

\* Mutant: when nothing is open, all that remains is opened.
DispatchEverything(s) ==
  LET r == PubChecked(Synchronized(s))
  IN  IF Remaining(r) = 0 \/ PubRunning(r) \/ Slots(r) = 0 THEN r
      ELSE IF r.ctl.open = {} THEN OpenBatches(r, Remaining(r))
      ELSE IF Refilled(r) THEN OpenBatches(r, Slots(r))
      ELSE IF HalfWay(r) THEN OpenBatches(r, 1) ELSE r

Dispatch(s) ==
  LET r == PubChecked(Synchronized(s))
  IN  IF Remaining(r) = 0 \/ PubRunning(r) \/ Slots(r) = 0 THEN r
      ELSE IF r.ctl.open = {} \/ Refilled(r) THEN OpenBatches(r, Slots(r))
      ELSE IF HalfWay(r) THEN OpenBatches(r, 1)
      ELSE r

\* A new batch goes to the end, or joins the first untaken batch of its folder.
Appended(s, b) ==
  LET at == {k \in DOMAIN s.ctl.batches : k > s.ctl.next /\ s.ctl.batches[k].folder = b.folder}
      longer == [s.ctl.batches EXCEPT ![Min(at)].ids = @ \o b.ids]
  IN  [s EXCEPT !.ctl.batches = IF at = {} THEN Append(@, b) ELSE longer]

Kept(batches, R) == Only(batches, {b \in ToSet(batches) : b.folder \notin R})

\* Mutant: the index stays where it was.
PrunedInPlace(s, R) ==
  [s EXCEPT !.ctl.batches = Kept(@, R), !.ctl.next = Min({@, Len(Kept(s.ctl.batches, R))}),
            !.ctl.opened = @ \ R, !.ctl.open = @ \ R,
            !.ctl.scheduled = {t \in @ : t.folder \notin R}]

Pruned(s, R) ==
  [s EXCEPT !.ctl.batches = Kept(Taken(s), R) \o Kept(Untaken(s), R),
            !.ctl.next = Len(Kept(Taken(s), R)),
            !.ctl.opened = @ \ R, !.ctl.open = @ \ R,
            !.ctl.scheduled = {t \in @ : t.folder \notin R}]

ResetSchedule(s) ==
  [s EXCEPT !.ctl.batches = << >>, !.ctl.next = 0, !.ctl.opened = {}, !.ctl.open = {},
            !.ctl.scheduled = {}]

-----------------------------------------------------------------------------
(* The user's commands. *)

\* Mutant: the poller is not told of what is added while it polls.
AddedUntracked(s, f, items) ==
  LET d == RegisterFolder(s.db, f, items)
      new == PendingIds(d, f, s.ctl.scheduled)
      r == [s EXCEPT !.db = d]
  IN  IF ~s.ctl.active \/ d = s.db \/ new = << >> THEN r
      ELSE Dispatch([Appended(r, [folder |-> f, ids |-> new]) EXCEPT
                       !.ctl.scheduled = @ \cup ToSet(new)])

\* _register_selected_folders for one folder.
Added(s, f, items) ==
  LET d == RegisterFolder(s.db, f, items)
      new == PendingIds(d, f, s.ctl.scheduled)
      r == [s EXCEPT !.db = d]
      scheduled == [Appended(r, [folder |-> f, ids |-> new]) EXCEPT
                      !.ctl.scheduled = @ \cup ToSet(new)]
  IN  IF ~s.ctl.active \/ d = s.db \/ new = << >> THEN r
      ELSE Dispatch(Tracking(scheduled, ToSet(new), {}))

Removed(s, S) ==
  LET R == Removable(s.db, S)
      gone == {t \in Known(s.db) : t.folder \in R}
      r == Tracking(Pruned([s EXCEPT !.db = RemoveFolders(@, S)], R), {}, gone)
  IN  IF R = {} THEN s ELSE IF s.ctl.active THEN Dispatch(r) ELSE r

\* With nothing to send, a start only resumes polling for what is out.
Started(s) ==
  LET groups == PendingBatches(s.db)
      fresh == [ResetSchedule(s) EXCEPT !.ctl.active = TRUE]
  IN  IF groups # << >>
      THEN OpenBatches([fresh EXCEPT !.ctl.batches = groups,
                                     !.ctl.scheduled = IdsOf(groups)], MaxInitial)
      ELSE IF AllIn(s.db, Inflight) # {}
      THEN StartPoller([fresh EXCEPT !.ctl.finished = TRUE])
      ELSE s

\* The end of a poll thread told to quit is seen by nobody.
Quit(thread) == IF thread.run = "done" THEN NoPoll ELSE [thread EXCEPT !.quit = TRUE]

\* _stop_workers asks both threads to stop, waits, and drops everything.
StopAsked(s) ==
  [s EXCEPT !.pubs = [k \in DOMAIN @ |-> IF k = s.ctl.pub
                        THEN [@[k] EXCEPT !.stop = TRUE, !.quit = TRUE] ELSE @[k]],
            !.polls = [k \in DOMAIN @ |-> IF k = s.ctl.poll
                        THEN Quit([@[k] EXCEPT !.stop = TRUE]) ELSE @[k]]]
Stopped(s) ==
  [ResetSchedule(s) EXCEPT !.ctl.pub = NoSlot, !.ctl.poll = NoSlot,
                           !.ctl.active = FALSE, !.ctl.finished = TRUE]

-----------------------------------------------------------------------------
(* The slots the workers' signals reach. *)

OnQueueReady(s) ==
  LET r == PollChecked(s) IN IF PollRunning(r) THEN r ELSE StartPoller(r)

OnPublished(s, t) == [s EXCEPT !.db = MarkSent(@, t)]
OnFailed(s, t) == [s EXCEPT !.db = MarkError(@, t)]
OnResult(s, t, verdict) == [s EXCEPT !.db = ApplyResult(@, t, verdict)]

\* T: the requests that have been out for the whole timeout.
OnPollCycle(s, T) ==
  LET r == Dispatch([s EXCEPT !.db = MarkRunning(@)])
      aged == [r EXCEPT !.db = MarkTimeouts(@, T)]
  IN  IF aged.ctl.finished /\ AllTerminal(aged.db) THEN StopPolling(aged) ELSE aged

\* The finish signal of a replaced worker is ignored, while sender() still names
\* the worker (known); the thread is told to quit.
OnPubFinished(s, p, known) ==
  LET r == [s EXCEPT !.pubs[p].quit = TRUE]
      over == [r EXCEPT !.ctl.finished = TRUE]
  IN  IF known /\ s.ctl.pub # p THEN r
      ELSE IF AllTerminal(s.db) THEN StopPolling(over) ELSE over

OnPubThreadFinished(s, p) ==
  [s EXCEPT !.pubs[p] = NoThread, !.ctl.pub = IF @ = p THEN NoSlot ELSE @]

OnPollFinished(s, w) ==
  [s EXCEPT !.ctl.poll = NoSlot, !.polls[w] = Quit(@),
            !.ctl.active = @ /\ ~s.ctl.finished]
=============================================================================
