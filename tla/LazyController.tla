--------------------------- MODULE LazyController ---------------------------
(***************************************************************************)
(* What TaskController (src/app/controller.py) does in one turn of the GUI *)
(* thread when it runs on the disk-backed store (lazy mode): operators     *)
(* from the situation before a slot to the situation after it.  A          *)
(* situation s has the fields                                              *)
(*   db       the tables, module TaskTables                                *)
(*   ctl      the controller's own attributes                              *)
(*   pubs, polls, scans   the worker threads, by slot                      *)
(*   events   the calls queued for the GUI thread by the workers' signals  *)
(* The threads' own steps and the user are in module LazySession.          *)
(***************************************************************************)
EXTENDS TaskTables

CONSTANTS Chunk,      \* publish_chunk_size
          Fallback,   \* fallback_max_queued_messages
          MaxInitial, \* initial_open_folders
          MaxActive,  \* max_active_open_folders
          PubSlots, PollSlots, ScanSlots \* bounds: threads alive or unreported at once

ASSUME ControllerAssumption ==
  /\ {Chunk, Fallback, MaxInitial, MaxActive} \subseteq Nat \ {0}
  /\ MaxInitial <= MaxActive
  /\ PubSlots \subseteq Nat \ {0} /\ PollSlots \subseteq Nat \ {0}
  /\ ScanSlots \subseteq Nat \ {0}

NoSlot == 0      \* None, for a thread reference
Unknown == -1    \* None, for a broker metric

FreshController ==
  [active    |-> FALSE,                   \* _active
   pubDone   |-> TRUE,                    \* _publish_finished
   preparing |-> FALSE,                   \* _inventory_preparing
   confirmed |-> FALSE,                   \* _preflight_confirmed
   asking    |-> FALSE,                   \* the preflight dialog is open
   opened    |-> {},                      \* _opened_folder_paths
   open      |-> {},                      \* _active_folder_paths
   scanning  |-> [q \in Queues |-> NoSlot], \* _scan_threads
   pub       |-> NoSlot,                  \* _publish_thread, _publish_worker
   poll      |-> NoSlot,                  \* _poll_thread, _poll_worker
   workers   |-> Unknown,                 \* _last_worker_count
   queued    |-> Unknown,                 \* _last_queue_message_count
   retry     |-> FALSE]                   \* a QTimer.singleShot of the retry is due

NoThread == [run |-> "none", todo |-> << >>, stop |-> FALSE, quit |-> FALSE]
NoScan == [run |-> "none", queue |-> NoSlot, todo |-> << >>, found |-> 0,
           stop |-> FALSE, quit |-> FALSE]

Running(thread) == thread.run \notin {"none", "exited"}

\* A slot is free again when its thread is gone and nothing refers to it.
Free(s, threads, held, kinds) ==
  {k \in DOMAIN threads \ held :
     /\ ~Running(threads[k])
     /\ \A i \in DOMAIN s.events :
          s.events[i].kind \in kinds => s.events[i].of # k}
FreePubs(s) ==
  Free(s, s.pubs, {s.ctl.pub}, {"queueReady", "pubFinished", "pubThreadFinished"})
FreePolls(s) == Free(s, s.polls, {s.ctl.poll}, {"pollFinished"})
FreeScans(s) ==
  Free(s, s.scans, Range(s.ctl.scanning),
       {"scanCompleted", "scanStopped", "scanFailed", "scanThreadFinished"})
Lowest(S) == CHOOSE k \in S : \A j \in S : k <= j

Scanning(s) == {q \in Queues : s.ctl.scanning[q] # NoSlot}

-----------------------------------------------------------------------------
(* Threads: references, starting, asking to stop. *)

PubRunning(s) == s.ctl.pub # NoSlot /\ Running(s.pubs[s.ctl.pub])
PollRunning(s) == s.ctl.poll # NoSlot /\ Running(s.polls[s.ctl.poll])

\* The look at a thread drops the reference to one that has ended.
PubChecked(s) == IF ~PubRunning(s) /\ s.ctl.pubDone THEN [s EXCEPT !.ctl.pub = NoSlot] ELSE s
PollChecked(s) == IF ~PollRunning(s) THEN [s EXCEPT !.ctl.poll = NoSlot] ELSE s

StartPublisher(s, todo) ==
  LET p == Lowest(FreePubs(s))
  IN  [s EXCEPT !.ctl.pub = p, !.ctl.pubDone = FALSE,
                !.pubs[p] = [NoThread EXCEPT !.run = "connecting", !.todo = todo]]

StartPoller(s) ==
  LET w == Lowest(FreePolls(s))
  IN  [s EXCEPT !.ctl.poll = w, !.polls[w] = [NoThread EXCEPT !.run = "connecting"]]

EnsurePoller(s) == IF PollRunning(s) THEN s ELSE StartPoller(s)

StopPolling(s) ==
  IF s.ctl.poll = NoSlot THEN s ELSE [s EXCEPT !.polls[s.ctl.poll].stop = TRUE]

StartScan(s, q) ==
  LET k == Lowest(FreeScans(s))
  IN  [s EXCEPT !.ctl.scanning[q] = k,
                !.scans[k] = [NoScan EXCEPT !.run = "scanning", !.queue = q,
                                            !.todo = Ascending(ImagesIn(q))]]

-----------------------------------------------------------------------------
(* Opening queues for publication. *)

\* Nothing limits count to the open slots; the callers do, or do not.
OpenNext(s, count) ==
  LET next == Only(ActiveCandidates(s.db),
                   {q \in Queues \ s.ctl.opened :
                      s.db.total[q] > 0 /\ ~FolderDone(s.db, q)})
      picked == {next[k] : k \in 1..Min({count, Len(next)})}
  IN  [s EXCEPT !.ctl.opened = @ \cup picked, !.ctl.open = @ \cup picked]

OpenSlots(s) == Max({0, MaxActive - Cardinality(s.ctl.open)})

\* Queues that need no more publishing leave; as many others are opened.
Refresh(s) ==
  LET over == {q \in s.ctl.open :
                 \/ s.db.scan[q] \in {"EMPTY", "ERROR"}
                 \/ s.db.scan[q] = "SCANNED" /\ FolderDone(s.db, q)}
      left == [s EXCEPT !.ctl.open = @ \ over]
  IN  OpenNext(left, Min({Cardinality(over), OpenSlots(left)}))

HalfDone(d, q) == d.total[q] > 0 /\ 2 * Completed(d, q) >= d.total[q]

Expand(s) ==
  IF /\ OpenSlots(s) > 0
     /\ \E q \in ToSet(ActiveCandidates(s.db)) : q \notin s.ctl.opened
     /\ \E q \in s.ctl.open : HalfDone(s.db, q)
  THEN OpenNext(s, 1) ELSE s

-----------------------------------------------------------------------------
(* _maybe_dispatch_lazy: publish one bounded chunk, or see that all is done. *)

Watermark(c) ==
  CASE c.workers = Unknown -> Fallback
    [] c.workers = 0       -> Min({Fallback, Chunk})
    [] OTHER               -> Min({Fallback, Max({Chunk, c.workers * Chunk})})

\* Mutant: the limit looks at the length of the request queue only.
CapacityByQueue(s) == Min({Chunk, Watermark(s.ctl) - s.ctl.queued})

Capacity(s) ==
  Min({Chunk, Watermark(s.ctl) - Max({s.ctl.queued, Outstanding(s.db)})})

Deactivated(s) == [s EXCEPT !.ctl.active = FALSE, !.ctl.pubDone = TRUE]

OnlyHeldWork(d) ==
  /\ ~HasInflight(d) /\ ~HasDispatchable(d)
  /\ \E q \in Queues : d.held[q] /\ d.total[q] > Completed(d, q)

\* Nothing was claimed.
NothingToClaim(s) ==
  IF Scanning(s) # {} THEN s
  ELSE IF HasPending(s.db) \/ HasInflight(s.db)
  THEN IF OnlyHeldWork(s.db)
       THEN LET r == PollChecked([Deactivated(s) EXCEPT !.db = PauseByUser(s.db)])
            IN  StopPolling(r)
       ELSE s
  ELSE IF Waiting(s.db) # << >> THEN s
  ELSE LET r == PollChecked([s EXCEPT !.ctl.pubDone = TRUE])
       IN  IF PollRunning(r) THEN StopPolling(r)
           ELSE [Deactivated(r) EXCEPT !.db = CompleteSession(r.db)]

ClaimAndPublish(s) ==
  LET T == ClaimBatch(s.db, s.ctl.open, Capacity(s))
  IN  IF Capacity(s) <= 0 THEN s
      ELSE IF T = {} THEN NothingToClaim(s)
      ELSE StartPublisher([s EXCEPT !.db = Claim(s.db, T)], Listed(s.db, T))

\* Mutant: the publisher under way is not looked at.
DispatchUnchecked(s) ==
  IF ~s.ctl.active \/ s.ctl.preparing THEN s
  ELSE ClaimAndPublish(Expand(Refresh(PubChecked(s))))

Dispatch(s) ==
  IF ~s.ctl.active \/ s.ctl.preparing THEN s
  ELSE IF PubRunning(s) THEN s
  ELSE ClaimAndPublish(Expand(Refresh(PubChecked(s))))

-----------------------------------------------------------------------------
(* _continue_lazy_inventory: scan every waiting queue before publishing.    *)
(* A second round of its loop finds only queues whose source is being       *)
(* scanned, so one round over the waiting queues stands for the loop.       *)

\* Mutant: no queue is opened when the inventory is complete.
PreparedWithoutOpening(s) == Dispatch([s EXCEPT !.ctl.confirmed = TRUE])

Prepared(s) == Dispatch(OpenNext([s EXCEPT !.ctl.confirmed = TRUE], MaxInitial))

\* The loop's body, for the waiting queue q.
Visit(s, q) ==
  IF \/ Cardinality(Scanning(s)) >= MaxActive
     \/ SourceOf[q] \in {SourceOf[r] : r \in Scanning(s)}
  THEN s
  ELSE IF CanPopulate(s.db, q) THEN [s EXCEPT !.db = Populate(s.db, q)]
  ELSE StartScan([s EXCEPT !.db = SetScan(s.db, q, "SCANNING")], q)

Sweep(s) ==
  LET waiting == Waiting(s.db)
      after[i \in 0..Len(waiting)] ==
        IF i = 0 THEN s ELSE Visit(after[i-1], waiting[i])
  IN  after[Len(waiting)]

Inventory(s) ==
  LET swept == Sweep(s)
      ready == [swept EXCEPT !.ctl.preparing = FALSE]
  IN  IF ~s.ctl.preparing \/ ~s.ctl.active THEN s
      ELSE IF Waiting(swept.db) # << >> \/ Scanning(swept) # {} THEN swept
      ELSE IF ~s.ctl.confirmed THEN [ready EXCEPT !.ctl.asking = TRUE]
      ELSE Prepared(ready)

\* The queues deleted while the run is active empty both sets altogether: the
\* eager scheduler's resynchronisation runs over its own, empty, batch list.
Pruned(s, D) ==
  IF s.ctl.active THEN [PubChecked(s) EXCEPT !.ctl.opened = {}, !.ctl.open = {}]
                  ELSE [s EXCEPT !.ctl.opened = @ \ D, !.ctl.open = @ \ D]

UnderWay(s) == s.ctl.open \cup Scanning(s)

-----------------------------------------------------------------------------
(* Starting and stopping a run. *)

ResetSchedule(s) ==
  [s EXCEPT !.ctl.preparing = FALSE, !.ctl.opened = {}, !.ctl.open = {}]

StartSession(s) ==
  LET inflight == HasInflight(s.db)
      r == [ResetSchedule(s) EXCEPT !.db = SaveSettings(s.db),
              !.ctl.confirmed = inflight, !.ctl.active = TRUE, !.ctl.pubDone = TRUE]
      polled == IF inflight THEN EnsurePoller(PollChecked(r)) ELSE r
  IN  IF Registered(s.db) = {} THEN s
      ELSE Inventory([polled EXCEPT !.ctl.preparing = TRUE])

ResumePersisted(s) ==
  IF s.ctl.active \/ ~ShouldAutoResume(s.db) THEN s ELSE StartSession(s)

\* The first half of _stop_workers: scans are asked to stop and waited for.
StopScans(s) ==
  [s EXCEPT !.scans = [k \in DOMAIN @ |->
     IF \E q \in Queues : s.ctl.scanning[q] = k
     THEN [@[k] EXCEPT !.stop = TRUE, !.quit = TRUE] ELSE @[k]]]

\* The end of a poll thread that has run to its end is seen by nobody, so a
\* poll thread told to quit after its run, or to run to its end after that, is
\* gone at once.
Quit(thread) == IF thread.run = "done" THEN NoThread ELSE [thread EXCEPT !.quit = TRUE]

\* The second half: then publisher and poller.
Halted(threads, k, Leave(_)) ==
  IF k = NoSlot THEN threads
  ELSE [threads EXCEPT ![k] = Leave([@ EXCEPT !.stop = TRUE])]

StopMessaging(s) ==
  [s EXCEPT !.ctl.scanning = [q \in Queues |-> NoSlot],
            !.pubs = Halted(@, s.ctl.pub, LAMBDA t : [t EXCEPT !.quit = TRUE]),
            !.polls = Halted(@, s.ctl.poll, Quit)]

\* Mutant: the run stays active.
StoppedStillActive(s) ==
  [ResetSchedule(s) EXCEPT !.ctl.pub = NoSlot, !.ctl.poll = NoSlot,
     !.ctl.pubDone = TRUE, !.db = ReleaseClaimed(s.db)]

\* What follows the waits, whether or not the threads have ended.
Stopped(s) ==
  [ResetSchedule(s) EXCEPT !.ctl.pub = NoSlot, !.ctl.poll = NoSlot,
     !.ctl.active = FALSE, !.ctl.pubDone = TRUE, !.db = ReleaseClaimed(s.db)]

ScansEnded(s) ==
  \A q \in Scanning(s) : ~Running(s.scans[s.ctl.scanning[q]])
MessagingEnded(s) == ~PubRunning(s) /\ ~PollRunning(s)

-----------------------------------------------------------------------------
(* The slots the workers' signals reach. *)

OnQueueReady(s) == EnsurePoller(PollChecked(s))

\* The known length of the request queue is corrected by hand until the next
\* metrics; from Fallback on, its value makes no difference.
OnPublished(s, t) ==
  [s EXCEPT !.db = MarkSent(s.db, t),
            !.ctl.queued = IF @ = Unknown THEN @ ELSE Min({@ + 1, Fallback})]

OnFailed(s, t) == [s EXCEPT !.db = MarkError(s.db, t)]

OnResult(s, t, verdict) ==
  LET d == ApplyResult(s.db, t, verdict)
  IN  IF d = s.db THEN s ELSE Dispatch([s EXCEPT !.db = d])

\* Mutant: nothing ever times out.
OnPollCycleWithoutTimeouts(s, T) == Dispatch([s EXCEPT !.db = MarkInflightRunning(s.db)])

\* T: the requests that have been out for the whole timeout.
OnPollCycle(s, T) ==
  LET r == Dispatch([s EXCEPT !.db = MarkInflightRunning(s.db)])
      aged == [r EXCEPT !.db = MarkTimeouts(r.db, T)]
  IN  IF aged.ctl.pubDone /\ AllTerminal(aged.db) THEN StopPolling(aged) ELSE aged

\* known: sender() still names the worker; it is None once the worker is deleted.
OnPubFinished(s, p, known) ==
  LET r == IF known /\ s.ctl.pub # p THEN s ELSE [s EXCEPT !.ctl.pubDone = TRUE]
  IN  [r EXCEPT !.pubs[p].quit = TRUE]

OnPubThreadFinished(s, p) ==
  LET gone == [s EXCEPT !.pubs[p] = NoThread]
      d == ReleaseClaimed(s.db)
      mine == [gone EXCEPT !.ctl.pub = NoSlot, !.db = d]
  IN  IF s.ctl.pub # p THEN gone
      ELSE IF d # s.db THEN [mine EXCEPT !.ctl.retry = TRUE]
      ELSE Dispatch(mine)

\* Mutant: the session is completed and the run goes on.
OnPollFinishedStillActive(s, w) ==
  LET r == [s EXCEPT !.ctl.poll = NoSlot, !.polls[w] = Quit(@)]
  IN  IF ~s.ctl.pubDone \/ ~AllTerminal(s.db) THEN r
      ELSE [r EXCEPT !.db = CompleteSession(@)]

\* Mutant: the end of the poller is the end of the session.
OnPollFinishedCompleting(s, w) ==
  LET r == [s EXCEPT !.ctl.poll = NoSlot, !.polls[w] = Quit(@)]
  IN  IF ~s.ctl.pubDone THEN r
      ELSE [r EXCEPT !.ctl.active = FALSE, !.db = CompleteSession(@)]

OnPollFinished(s, w) ==
  LET r == [s EXCEPT !.ctl.poll = NoSlot, !.polls[w] = Quit(@)]
  IN  IF ~s.ctl.pubDone THEN r
      ELSE [r EXCEPT !.ctl.active = FALSE,
                     !.db = IF AllTerminal(@) THEN CompleteSession(@) ELSE @]

\* The slot of a scan signal is followed at once by the quit of its thread.
Quitting(s, k) == [s EXCEPT !.scans[k].quit = TRUE]

OnScanCompleted(s, k) ==
  LET q == s.scans[k].queue
      state == IF s.scans[k].found > 0 \/ s.db.total[q] > 0 THEN "SCANNED" ELSE "EMPTY"
      r == Quitting([s EXCEPT !.db = SetScan(s.db, q, state)], k)
  IN  IF s.ctl.preparing THEN r ELSE Dispatch(r)

\* Mutant: a state of its own, unknown to the table, for a scan cut short.
OnScanStoppedAside(s, k) ==
  Quitting([s EXCEPT !.db = SetScan(s.db, s.scans[k].queue, "STOPPED")], k)

OnScanStopped(s, k) ==
  LET q == s.scans[k].queue
  IN  Quitting([s EXCEPT !.db = SetScan(s.db, q, "WAITING"), !.ctl.open = @ \ {q}], k)

OnScanFailed(s, k) ==
  LET q == s.scans[k].queue
      r == Quitting([s EXCEPT !.db = SetScan(s.db, q, "ERROR"), !.ctl.open = @ \ {q}], k)
  IN  IF s.ctl.preparing THEN r ELSE OpenNext(r, OpenSlots(r))

OnScanThreadFinished(s, k) ==
  LET q == s.scans[k].queue
      gone == [s EXCEPT !.scans[k] = NoScan]
  IN  IF s.ctl.scanning[q] # k THEN gone
      ELSE Inventory([gone EXCEPT !.ctl.scanning[q] = NoSlot])

\* _reconcile_finished_scan_threads, from the UI refresh timer.
ReconcileScans(s) ==
  LET stale == {q \in Scanning(s) : ~Running(s.scans[s.ctl.scanning[q]])}
      r == [s EXCEPT !.ctl.scanning =
              [q \in Queues |-> IF q \in stale THEN NoSlot ELSE @[q]]]
  IN  IF s.ctl.active /\ s.ctl.preparing /\ stale # {} THEN Inventory(r) ELSE s

OnMetrics(s, workers, queued) ==
  Dispatch([s EXCEPT !.ctl.workers = workers, !.ctl.queued = queued])

OnRetry(s) == Dispatch([s EXCEPT !.ctl.retry = FALSE])
=============================================================================
