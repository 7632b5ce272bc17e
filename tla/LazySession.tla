---------------------------- MODULE LazySession ----------------------------
(***************************************************************************)
(* A run of the program on the disk-backed store: the GUI thread, which    *)
(* runs one slot of TaskController at a time (module LazyController), the  *)
(* publish, polling and scan threads, the broker with the external image   *)
(* workers behind it, the user, and the faults the code handles.           *)
(* Queued calls reach the GUI thread in the order in which they were       *)
(* posted; a click of the user or a timer can come between any two.        *)
(***************************************************************************)
EXTENDS LazyController, Bags

CONSTANTS Verdicts,  \* what the external workers answer
          Readings,  \* the broker metrics: <<workers, messages>>
          Allowed,   \* the user's actions and the faults of this instance
          MaxGen     \* bound: deletions and new sessions

UserActions == {"add", "stop", "hold", "move", "delete", "reset", "decline", "exit",
                "hurry"}
Faults == {"crash", "waitTimeout", "connectFailure", "publishFailure", "pollFailure",
           "scanFailure", "missedFinish", "redelivery", "timeout"}

ASSUME SessionAssumption ==
  /\ Verdicts \subseteq {"SUCCESS", "FAIL"}
  /\ Readings \subseteq (Nat \cup {Unknown}) \X (Nat \cup {Unknown})
  /\ Allowed \subseteq UserActions \cup Faults
  /\ MaxGen \in Nat

VARIABLES db, ctl, pubs, polls, scans, events,
          mq,    \* bag of requests published and not yet answered to a consumer
          halt   \* how far _stop_workers, which blocks the GUI thread, has come

vars == <<db, ctl, pubs, polls, scans, events, mq, halt>>

Situation == [db |-> db, ctl |-> ctl, pubs |-> pubs, polls |-> polls,
              scans |-> scans, events |-> events]

Become(s) ==
  /\ db' = s.db /\ ctl' = s.ctl /\ events' = s.events
  /\ pubs' = s.pubs /\ polls' = s.polls /\ scans' = s.scans

NotHalted == [at |-> "none", then |-> "none"]
Down == [at |-> "down", then |-> "none"]

Idle(threads, none) == [k \in DOMAIN threads |-> none]

Init ==
  /\ db = EmptyTables(0) /\ ctl = FreshController
  /\ pubs = [k \in PubSlots |-> NoThread] /\ polls = [k \in PollSlots |-> NoThread]
  /\ scans = [k \in ScanSlots |-> NoScan] /\ events = << >>
  /\ mq = EmptyBag /\ halt = NotHalted

\* The GUI thread returns to its event loop; the open dialog has a loop of its own.
GuiTurn(s) == halt = NotHalted /\ Become(s) /\ UNCHANGED <<mq, halt>>
\* Assumption, unless "hurry" is allowed: while no run is active, nobody clicks
\* before the queued calls of the last run have been taken.
Patient == "hurry" \in Allowed \/ ctl.active \/ events = << >>
UserTurn(s) == ~ctl.asking /\ Patient /\ GuiTurn(s)

\* Bound: a run is started when two publish slots are free, the scan threads of
\* earlier runs are gone and at most one of their poll threads is left.
RoomToStart ==
  /\ Cardinality(FreePubs(Situation)) >= 2 /\ FreeScans(Situation) = ScanSlots
  /\ Cardinality(PollSlots \ FreePolls(Situation)) <= 1

\* Bound: the program only ends or pauses while no request is with the broker twice.
ReachedOnce == \A t \in BagToSet(mq) : mq[t] = 1

-----------------------------------------------------------------------------
(* The user. *)

AddFolder(q) ==
  /\ ctl.active => "add" \in Allowed
  /\ db.session = "COMPLETED" => db.gen < MaxGen
  /\ LET d == Register(PrepareSession(db), q)
         s == [Situation EXCEPT !.db = d]
     IN  UserTurn(IF ctl.active /\ d # db
                  THEN Inventory([s EXCEPT !.ctl.preparing = TRUE]) ELSE s)

Start ==
  /\ RoomToStart /\ ~ctl.active
  /\ UserTurn(StartSession(
       IF db.session = "PAUSED_BY_USER" THEN [Situation EXCEPT !.db = ResumeByUser(db)]
                                        ELSE Situation))

HoldFolders(S, held) ==
  /\ "hold" \in Allowed
  /\ LET d == SetHeld(db, S \ UnderWay(Situation), held)
         s == [Situation EXCEPT !.db = d]
     IN  UserTurn(IF d # db /\ ctl.active /\ ~held THEN Dispatch(s) ELSE s)

MoveFolders(S, op) ==
  /\ "move" \in Allowed
  /\ UserTurn([Situation EXCEPT !.db = Reorder(db, S \ UnderWay(Situation), op)])

DeleteFolders(S) ==
  /\ "delete" \in Allowed /\ db.gen < MaxGen
  /\ LET d == Delete(db, S)
     IN  /\ d # db
         /\ UserTurn(Pruned([Situation EXCEPT !.db = d], Registered(db) \ Registered(d)))

\* The answer to the preflight dialog; a refusal stops the workers.
Confirm == ctl.asking /\ GuiTurn(Prepared([Situation EXCEPT !.ctl.asking = FALSE]))

StopBegins(then) ==
  /\ halt = NotHalted
  /\ halt' = [at |-> "scans", then |-> then]
  /\ Become(StopScans([Situation EXCEPT !.ctl.asking = FALSE]))
  /\ UNCHANGED mq

Stop ==
  "stop" \in Allowed /\ ctl.active /\ ~ctl.asking /\ ReachedOnce /\ StopBegins("pause")
Refuse == "decline" \in Allowed /\ ctl.asking /\ StopBegins("decline")
Reset == "reset" \in Allowed /\ db.gen < MaxGen /\ ~ctl.asking /\ Patient /\ StopBegins("reset")
Exit == "exit" \in Allowed /\ ~ctl.asking /\ ReachedOnce /\ StopBegins("exit")

\* Every wait is cut off after 1500 ms.
StopMessagingNext ==
  /\ halt.at = "scans"
  /\ ScansEnded(Situation) \/ "waitTimeout" \in Allowed
  /\ halt' = [halt EXCEPT !.at = "messaging"]
  /\ Become(StopMessaging(Situation)) /\ UNCHANGED mq

\* The process is gone, and its threads and queued calls with it.
Killed(d) ==
  /\ Become([db |-> d, ctl |-> FreshController, events |-> << >>,
             pubs |-> Idle(pubs, NoThread), polls |-> Idle(polls, NoThread),
             scans |-> Idle(scans, NoScan)])
  /\ halt' = Down

StopEnds ==
  /\ halt.at = "messaging"
  /\ MessagingEnded(Situation) \/ "waitTimeout" \in Allowed
  /\ UNCHANGED mq
  /\ LET s == Stopped(Situation)
         d == CASE halt.then = "pause" /\ HasResumable(s.db) -> PauseByUser(s.db)
                [] halt.then = "decline" -> PauseByUser(s.db)
                [] halt.then = "reset"   -> ClearSession(s.db)
                [] OTHER                 -> s.db
     IN  IF halt.then = "exit" THEN Killed(d)
         ELSE Become([s EXCEPT !.db = d]) /\ halt' = NotHalted

Crash ==
  /\ "crash" \in Allowed /\ halt.at # "down" /\ ReachedOnce
  /\ Killed(db) /\ UNCHANGED mq

\* accept: the user's answer when the session was paused.
Restart(accept) ==
  /\ halt = Down /\ halt' = NotHalted /\ UNCHANGED mq
  /\ db.session = "COMPLETED" => db.gen < MaxGen
  /\ LET s == [Situation EXCEPT !.db = Reopen(db)]
     IN  Become(IF s.db.session # "PAUSED_BY_USER" THEN ResumePersisted(s)
                ELSE IF accept THEN ResumePersisted([s EXCEPT !.db = ResumeByUser(s.db)])
                ELSE s)

-----------------------------------------------------------------------------
(* The GUI thread takes the next queued call, or a timer fires. *)

Called(kind) == events # << >> /\ Head(events).kind = kind
Taken == [Situation EXCEPT !.events = Tail(events)]
Arg == Head(events).of

HandleQueueReady == Called("queueReady") /\ GuiTurn(OnQueueReady(Taken))
HandlePublished == Called("published") /\ GuiTurn(OnPublished(Taken, Arg))
HandleFailed == Called("failed") /\ GuiTurn(OnFailed(Taken, Arg))
HandleResult == Called("result") /\ GuiTurn(OnResult(Taken, Arg.task, Arg.verdict))
HandlePollCycle(T) == Called("pollCycle") /\ GuiTurn(OnPollCycle(Taken, T))
HandlePubFinished ==
  Called("pubFinished") /\ \E known \in BOOLEAN : GuiTurn(OnPubFinished(Taken, Arg, known))
HandlePubThreadFinished ==
  Called("pubThreadFinished") /\ GuiTurn(OnPubThreadFinished(Taken, Arg))
HandlePollFinished == Called("pollFinished") /\ GuiTurn(OnPollFinished(Taken, Arg))
HandleScanCompleted == Called("scanCompleted") /\ GuiTurn(OnScanCompleted(Taken, Arg))
HandleScanStopped == Called("scanStopped") /\ GuiTurn(OnScanStopped(Taken, Arg))
HandleScanFailed == Called("scanFailed") /\ GuiTurn(OnScanFailed(Taken, Arg))
HandleScanThreadFinished ==
  Called("scanThreadFinished") /\ GuiTurn(OnScanThreadFinished(Taken, Arg))

InFlight == RowsIn(db, {"SENT", "RUNNING"})
AgedSets == IF "timeout" \in Allowed THEN SUBSET InFlight ELSE {{}}

HandleCall ==
  \/ HandleQueueReady \/ HandlePublished \/ HandleFailed \/ HandleResult
  \/ \E T \in AgedSets : HandlePollCycle(T)
  \/ HandlePubFinished \/ HandlePubThreadFinished \/ HandlePollFinished
  \/ HandleScanCompleted \/ HandleScanStopped \/ HandleScanFailed
  \/ HandleScanThreadFinished

\* The metrics thread always runs; its readings reach the GUI at any time.
Metrics(r) == GuiTurn(OnMetrics(Situation, r[1], r[2]))
RetryTimer == ctl.retry /\ GuiTurn(OnRetry(Situation))
RefreshTimer == GuiTurn(ReconcileScans(Situation))

-----------------------------------------------------------------------------
(* The worker threads.  A signal is emitted by queueing its slot. *)

Emit(calls) == events' = events \o calls
Call(kind, of) == [kind |-> kind, of |-> of]

PubStep(p, run, calls) ==
  /\ pubs' = [pubs EXCEPT ![p].run = run] /\ Emit(calls)
  /\ UNCHANGED <<db, ctl, polls, scans, mq, halt>>

\* Connect and declare the result queue.
PubConnect(p) ==
  pubs[p].run = "connecting" /\ PubStep(p, "sending", <<Call("queueReady", p)>>)
PubConnectFails(p) ==
  /\ "connectFailure" \in Allowed /\ pubs[p].run = "connecting"
  /\ PubStep(p, "done", <<Call("pubFinished", p)>>)

\* The stop flag is read once per request, before the first attempt to send it.
PubLook(p) ==
  /\ pubs[p].run = "sending" /\ pubs[p].todo # << >> /\ ~pubs[p].stop
  /\ PubStep(p, "trying", << >>)

\* One of the attempts reaches the broker, then the signal is emitted.
PubSend(p) ==
  /\ pubs[p].run = "trying"
  /\ mq' = mq (+) SetToBag({Head(pubs[p].todo)})
  /\ pubs' = [pubs EXCEPT ![p].run = "sent"]
  /\ UNCHANGED <<db, ctl, polls, scans, events, halt>>

PubNext(p, kind) ==
  /\ pubs' = [pubs EXCEPT ![p].run = "sending", ![p].todo = Tail(@)]
  /\ Emit(<<Call(kind, Head(pubs[p].todo))>>)
  /\ UNCHANGED <<db, ctl, polls, scans, mq, halt>>

PubEmit(p) == pubs[p].run = "sent" /\ PubNext(p, "published")

\* All attempts failed.
PubFails(p) ==
  /\ "publishFailure" \in Allowed /\ pubs[p].run = "trying"
  /\ PubNext(p, "failed")

PubEnd(p) ==
  /\ pubs[p].run = "sending" /\ (pubs[p].todo = << >> \/ pubs[p].stop)
  /\ PubStep(p, "done", <<Call("pubFinished", p)>>)

PubExit(p) ==
  /\ pubs[p].run = "done" /\ pubs[p].quit
  /\ PubStep(p, "exited", <<Call("pubThreadFinished", p)>>)

PollStep(w, run, calls) ==
  /\ polls' = [polls EXCEPT ![w] =
       LET t == [@ EXCEPT !.run = run] IN IF t.quit THEN Quit(t) ELSE t]
  /\ Emit(calls)
  /\ UNCHANGED <<db, ctl, pubs, scans, mq, halt>>

PollConnect(w) == polls[w].run = "connecting" /\ PollStep(w, "consuming", << >>)
PollConnectFails(w) ==
  /\ "pollFailure" \in Allowed /\ polls[w].run = "connecting"
  /\ PollStep(w, "done", <<Call("pollFinished", w)>>)

\* An external worker has answered request t; the answer is acknowledged.  A
\* lost acknowledgement leaves it with the broker, to be delivered again; bound:
\* only while no answer is queued.
PollDeliver(w, t, v) ==
  /\ polls[w].run = "consuming"
  /\ Emit(<<Call("result", [task |-> t, verdict |-> v])>>)
  /\ \/ mq' = mq (-) SetToBag({t})
     \/ /\ "redelivery" \in Allowed
        /\ \A i \in DOMAIN events : events[i].kind # "result"
        /\ UNCHANGED mq
  /\ UNCHANGED <<db, ctl, pubs, polls, scans, halt>>

\* Bound: one unhandled tick at a time.
PollTick(w) ==
  /\ polls[w].run = "consuming"
  /\ \A i \in DOMAIN events : events[i].kind # "pollCycle"
  /\ PollStep(w, "consuming", <<Call("pollCycle", w)>>)

PollEnd(w) ==
  /\ polls[w].run = "consuming" /\ polls[w].stop
  /\ PollStep(w, "done", <<Call("pollFinished", w)>>)

\* One batch of images is written by the scan thread itself.
ScanBatch(k) ==
  /\ scans[k].run = "scanning" /\ scans[k].todo # << >>
  /\ LET q == scans[k].queue
         i == Head(scans[k].todo)
         inserted == q \in Registered(db) /\ i \in Missing(db, q, {i})
     IN  /\ db' = InsertBatch(db, q, {i})
         /\ scans' = [scans EXCEPT ![k].todo = Tail(@),
                                   ![k].found = @ + (IF inserted THEN 1 ELSE 0)]
  /\ UNCHANGED <<ctl, pubs, polls, events, mq, halt>>

ScanStep(k, run, calls) ==
  /\ scans' = [scans EXCEPT ![k].run = run] /\ Emit(calls)
  /\ UNCHANGED <<db, ctl, pubs, polls, mq, halt>>

ScanCompletes(k) ==
  /\ scans[k].run = "scanning" /\ scans[k].todo = << >> /\ ~scans[k].stop
  /\ ScanStep(k, "done", <<Call("scanCompleted", k)>>)

ScanStops(k) ==
  /\ scans[k].run = "scanning" /\ scans[k].stop
  /\ ScanStep(k, "done", <<Call("scanStopped", k)>>)

ScanFails(k) ==
  /\ "scanFailure" \in Allowed /\ scans[k].run = "scanning"
  /\ ScanStep(k, "done", <<Call("scanFailed", k)>>)

ScanExit(k) ==
  /\ scans[k].run = "done" /\ scans[k].quit
  /\ \/ ScanStep(k, "exited", <<Call("scanThreadFinished", k)>>)
     \/ "missedFinish" \in Allowed /\ ScanStep(k, "exited", << >>)

PubRuns(p) == \/ PubConnect(p) \/ PubConnectFails(p) \/ PubLook(p) \/ PubSend(p)
              \/ PubEmit(p) \/ PubFails(p) \/ PubEnd(p) \/ PubExit(p)
PollStarts(w) == PollConnect(w) \/ PollConnectFails(w)
ScanRuns(k) == \/ ScanBatch(k) \/ ScanCompletes(k) \/ ScanStops(k)
               \/ ScanFails(k) \/ ScanExit(k)

-----------------------------------------------------------------------------
Next ==
  \/ \E q \in Queues : AddFolder(q)
  \/ \E S \in SUBSET Registered(db) \ {{}} :
       \/ \E held \in BOOLEAN : HoldFolders(S, held)
       \/ \E op \in Operations : MoveFolders(S, op)
       \/ DeleteFolders(S)
  \/ Start \/ Confirm \/ Stop \/ Refuse \/ Reset \/ Exit
  \/ StopMessagingNext \/ StopEnds
  \/ Crash \/ \E accept \in BOOLEAN : Restart(accept)
  \/ HandleCall
  \/ \E r \in Readings : Metrics(r)
  \/ RetryTimer \/ RefreshTimer
  \/ \E p \in PubSlots : PubRuns(p)
  \/ \E w \in PollSlots : \/ PollStarts(w) \/ PollTick(w) \/ PollEnd(w)
                          \/ \E t \in BagToSet(mq), v \in Verdicts : PollDeliver(w, t, v)
  \/ \E k \in ScanSlots : ScanRuns(k)

Spec == Init /\ [][Next]_vars

(***************************************************************************)
(* Fairness: the event loop of the GUI thread goes on taking calls and     *)
(* timers, every thread goes on with its own loop, the metrics thread goes *)
(* on reading, and the user answers the dialog.  An answer of an external  *)
(* worker is never assumed: a request without one ages, and some poll      *)
(* cycle finds everything that is out too old.  Where an action runs the   *)
(* dispatcher, weak fairness is written out with the state predicate that  *)
(* its ENABLED is equal to, which TLC evaluates much faster.               *)
(***************************************************************************)
TakesCall == halt = NotHalted /\ events # << >> /\ events' = Tail(events)
Due(after) == halt = NotHalted /\ after # Situation

EventLoop ==
  /\ WF_events(TakesCall)
  /\ <>[]ctl.retry => []<><<RetryTimer>>_vars
  /\ <>[]Due(ReconcileScans(Situation)) => []<><<RefreshTimer>>_vars
  /\ <>[](\E r \in Readings : Due(OnMetrics(Situation, r[1], r[2])))
       => []<><<\E r \in Readings : Metrics(r)>>_vars
  /\ <>[]ctl.asking => []<><<Confirm>>_vars

Threads ==
  /\ \A p \in PubSlots : WF_vars(PubRuns(p))
  /\ \A w \in PollSlots : WF_vars(PollStarts(w)) /\ WF_vars(PollTick(w)) /\ WF_vars(PollEnd(w))
  /\ \A k \in ScanSlots : WF_vars(ScanRuns(k))

RequestsAge ==
  []<>(Called("pollCycle") /\ InFlight # {})
    => []<><<InFlight # {} /\ HandlePollCycle(InFlight)>>_vars

FairSpec == Spec /\ EventLoop /\ Threads /\ RequestsAge

-----------------------------------------------------------------------------
(* Properties. *)

Controllers ==
  [active : BOOLEAN, pubDone : BOOLEAN, preparing : BOOLEAN, confirmed : BOOLEAN,
   asking : BOOLEAN, opened : SUBSET Queues, open : SUBSET Queues,
   scanning : [Queues -> ScanSlots \cup {NoSlot}], pub : PubSlots \cup {NoSlot},
   poll : PollSlots \cup {NoSlot}, workers : Nat \cup {Unknown},
   queued : Nat \cup {Unknown}, retry : BOOLEAN]

ThreadRecords(runs) == [run : runs, todo : Seq(Requests), stop : BOOLEAN, quit : BOOLEAN]
PubThreads ==
  {t \in ThreadRecords({"none", "connecting", "sending", "trying", "sent", "done", "exited"}) :
     t.run \in {"trying", "sent"} => t.todo # << >>}
PollThreads == ThreadRecords({"none", "connecting", "consuming", "done"})
ScanThreads ==
  [run : {"none", "scanning", "done", "exited"}, queue : Queues \cup {NoSlot},
   todo : Seq(Images), found : Nat, stop : BOOLEAN, quit : BOOLEAN]

Calls ==
  [kind : {"queueReady", "pubFinished", "pubThreadFinished"}, of : PubSlots]
  \cup [kind : {"published", "failed"}, of : Requests]
  \cup [kind : {"result"}, of : [task : Requests, verdict : Verdicts]]
  \cup [kind : {"pollCycle", "pollFinished"}, of : PollSlots]
  \cup [kind : {"scanCompleted", "scanStopped", "scanFailed", "scanThreadFinished"},
        of : ScanSlots]

\* Every variable has its type.
TypeOK ==
  /\ TypedTables(db) /\ ctl \in Controllers
  /\ pubs \in [PubSlots -> PubThreads] /\ polls \in [PollSlots -> PollThreads]
  /\ scans \in [ScanSlots -> ScanThreads] /\ events \in Seq(Calls)
  /\ BagToSet(mq) \subseteq Requests
  /\ halt \in [at : {"none", "scans", "messaging", "down"},
               then : {"none", "pause", "decline", "reset", "exit"}]

\* The thread sends, or will unless it is told to stop; once it has looked at the
\* stop flag it makes its attempts to send the request in hand, told so or not.
Publishing(p) ==
  \/ pubs[p].run \in {"connecting", "sending", "sent"} /\ ~pubs[p].stop
  \/ pubs[p].run = "trying"
Resting == halt = NotHalted

\* Whatever calls the dispatcher, a result, a poll cycle, a metric, a timer or the
\* end of another publisher, two publish threads never send at the same time.
OnePublisher == \A p, r \in PubSlots : Publishing(p) /\ Publishing(r) => p = r

\* A crash may come at any moment of a run, and the next start resumes the run by
\* itself (README.md:75): so a run is active only while its session is stored as
\* one to be resumed.  A late signal of a thread of an earlier run must not
\* complete or pause the session under it.
ActiveIsResumable == ctl.active => db.session = "ACTIVE" /\ db.resume

\* When the user has paused the session (README.md:76), nothing of it is on its
\* way out: no run, no claim, no publisher that would still send.  Signals of the
\* run that was stopped are still to be handled.
PausedIsQuiet ==
  Resting /\ db.session = "PAUSED_BY_USER" =>
    /\ ~ctl.active /\ RowsIn(db, {"CLAIMED"}) = {}
    /\ \A p \in PubSlots : ~Publishing(p)

\* A claim is given back by the end of the thread it was made for
\* (_on_publish_thread_finished), by a stop or by a restart.  So outside of a
\* stop there are claims only while the controller refers to a publisher.
ClaimsHaveOwner == Resting /\ RowsIn(db, {"CLAIMED"}) # {} => ctl.pub # NoSlot

\* A completed session is history: a later registration opens a new one and
\* nothing of the old one is ever sent.  So none of its requests is unsettled and
\* none of its queues is still to be scanned.
CompletedMeansDone ==
  db.session = "COMPLETED" =>
    RowsIn(db, Unfinished) = {} /\ InState(db, {"WAITING", "SCANNING"}) = << >>

\* "CLAIMED/SENT/RUNNING" stay below fallback_max_queued_messages whether or not
\* the broker can be asked (docs/mq_message_and_config_spec.md:200).
WithinLimit == Outstanding(db) <= Fallback

\* A held queue sends nothing until it is released (README.md:79): it is not open
\* for publication, and none of its requests is out.
HeldIsQuiet ==
  \A q \in Queues : db.held[q] =>
     /\ q \notin ctl.open
     /\ RowsOf(db, q) \cap RowsIn(db, {"CLAIMED", "SENT", "RUNNING"}) = {}

\* Stopping, pausing and resuming a run never sends a request to the broker a
\* second time: the stop waits for the publisher and gives its claims back, and the
\* signal of a request sent meanwhile, which comes after that, turns the request
\* from PENDING to SENT before the user can resume the run.
PublishedOnce == \A t \in BagToSet(mq) : mq[t] = 1

\* When an active run is at rest, all signals handled, nobody publishing, nothing
\* with the broker, then pending requests of an inventoried queue that is not held
\* are in an open queue: only then can the next timer or metric publish them.
NothingStalls ==
  /\ Resting /\ ctl.active /\ ~ctl.preparing /\ ~ctl.retry /\ ~ctl.asking
  /\ events = << >> /\ \A p \in PubSlots : ~Running(pubs[p])
  /\ ~HasInflight(db)
  => \A t \in RowsIn(db, {"PENDING"}) :
       db.scan[t.queue] = "SCANNED" /\ ~db.held[t.queue] => ctl.open # {}

\* A queue is SCANNED only with a request for every image of its folder, also
\* when an earlier scan of it was cut by a stop or a crash after some batches.
ScannedMeansInventoried ==
  \A q \in Queues : db.scan[q] = "SCANNED" => {t.image : t \in RowsOf(db, q)} = ImagesIn(q)

\* "Persist task state and aggregate counters" (task_repository.py:33): after any
\* crash and rescan the counters of a queue are the tallies of its rows.
CountersMatchRows == CountersMatch(db)

\* The result of a tracked request is reflected in its state when it is handled
\* (docs/mq_message_and_config_spec.md:400); the message is acknowledged by then,
\* so what the handler drops is gone. Does not hold (README, section 7).
ResultReflected ==
  [][Called("result") /\ events' = Tail(events) /\ Arg.task \in Rows(db)
       => db'.tasks[Arg.task] \in Terminal]_vars

\* An active run ends: whatever fails to publish, goes unanswered or loses the
\* finish signal of its scan, every request is settled and the session completed.
RunEnds ==
  ctl.active ~> /\ ~ctl.active /\ db.session = "COMPLETED"
                /\ RowsIn(db, Unfinished) = {}

\* A request that is out is answered or times out
\* (docs/mq_message_and_config_spec.md:193). Does not hold (README, section 7).
OutIsSettled == InFlight # {} ~> InFlight = {}
=============================================================================
