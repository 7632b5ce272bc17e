---------------------------- MODULE EagerSession ----------------------------
(***************************************************************************)
(* A run of the program without a database: the GUI thread, which runs one *)
(* slot of TaskController at a time (module EagerController), the publish  *)
(* and polling threads, the broker with the external image workers behind  *)
(* it, and the user.  Queued calls reach the GUI thread in the order in    *)
(* which they were posted; a click can come between any two.               *)
(***************************************************************************)
EXTENDS EagerController

CONSTANTS Verdicts, \* what the external workers answer
          Allowed,  \* the user's actions and the faults of this instance
          MaxLife   \* bound: deletions and resets

UserActions == {"add", "extend", "late", "delete", "stop", "early", "reset"}
Faults == {"connectFailure", "publishFailure", "pollFailure"}

ASSUME SessionAssumption ==
  /\ Verdicts \subseteq {"SUCCESS", "FAIL"}
  /\ Allowed \subseteq UserActions \cup Faults
  /\ MaxLife \in Nat

VARIABLES db, ctl, pubs, polls, events,
          mq,   \* bag of requests published and not yet answered to a consumer
          halt  \* why _stop_workers is blocking the GUI thread, or "none"

vars == <<db, ctl, pubs, polls, events, mq, halt>>

Situation == [db |-> db, ctl |-> ctl, pubs |-> pubs, polls |-> polls, events |-> events]
Become(s) == db' = s.db /\ ctl' = s.ctl /\ pubs' = s.pubs /\ polls' = s.polls
             /\ events' = s.events

Init ==
  /\ db = EmptyStore(0) /\ ctl = FreshController /\ events = << >>
  /\ pubs = [p \in PubSlots |-> NoThread] /\ polls = [w \in PollSlots |-> NoPoll]
  /\ mq = EmptyBag /\ halt = "none"

GuiTurn(s) == halt = "none" /\ Become(s) /\ UNCHANGED <<mq, halt>>

\* Assumption: while no run is active, nobody clicks before the queued calls of
\* the last run have been taken.
UserTurn(s) == (ctl.active \/ events = << >>) /\ GuiTurn(s)

-----------------------------------------------------------------------------
(* The user. *)

\* "late": also while the poller has been told to end, all tasks being done.
Ending == ctl.poll # NoSlot /\ polls[ctl.poll].stop

\* "extend": the folder may have gained images since it was registered, or be
\* registered with another recipe.
AddFolder(f, items) ==
  /\ ctl.active => "add" \in Allowed /\ ("late" \in Allowed \/ ~Ending)
  /\ "extend" \in Allowed \/ items = Items[f]
  /\ UserTurn(Added(Situation, f, items))

DeleteFolders(S) ==
  "delete" \in Allowed /\ db.life < MaxLife /\ UserTurn(Removed(Situation, S))

\* Bound: at most one poll thread of an earlier run is left.
Start ==
  /\ ~ctl.active /\ UnusedPubs(Situation) = PubSlots
  /\ UnusedPolls(Situation) # {} /\ Cardinality(PollSlots \ UnusedPolls(Situation)) <= 1
  /\ UserTurn(Started(Situation))

\* "early": also while the announcement of the result queue is still to come.
QueueAwaited == \/ \E p \in PubSlots : pubs[p].run = "connecting"
                \/ \E i \in DOMAIN events : events[i].kind = "queueReady"
StopBegins(why) ==
  /\ "early" \in Allowed \/ ~QueueAwaited
  /\ halt = "none" /\ halt' = why /\ Become(StopAsked(Situation)) /\ UNCHANGED mq
Stop == "stop" \in Allowed /\ ctl.active /\ StopBegins("stop")
Reset == "reset" \in Allowed /\ db.life < MaxLife /\ StopBegins("reset")

\* The waits of 1500 ms are taken to be long enough.
StopEnds ==
  /\ halt # "none" /\ halt' = "none" /\ UNCHANGED mq
  /\ ~PubRunning(Situation) /\ ~PollRunning(Situation)
  /\ LET s == Stopped(Situation)
     IN  Become(IF halt = "reset" THEN [s EXCEPT !.db = EmptyStore(db.life + 1)] ELSE s)

-----------------------------------------------------------------------------
(* The GUI thread takes the next queued call. *)

Called(kind) == events # << >> /\ Head(events).kind = kind
Next1 == [Situation EXCEPT !.events = Tail(events)]
Arg == Head(events).of

HandleQueueReady == Called("queueReady") /\ GuiTurn(OnQueueReady(Next1))
HandlePublished == Called("published") /\ GuiTurn(OnPublished(Next1, Arg))
HandleFailed == Called("failed") /\ GuiTurn(OnFailed(Next1, Arg))
HandleResult == Called("result") /\ GuiTurn(OnResult(Next1, Arg.task, Arg.verdict))
HandlePollCycle(T) == Called("pollCycle") /\ GuiTurn(OnPollCycle(Next1, T))
HandlePubFinished ==
  Called("pubFinished") /\ \E known \in BOOLEAN : GuiTurn(OnPubFinished(Next1, Arg, known))
HandlePubThreadFinished ==
  Called("pubThreadFinished") /\ GuiTurn(OnPubThreadFinished(Next1, Arg))
HandlePollFinished == Called("pollFinished") /\ GuiTurn(OnPollFinished(Next1, Arg))

Out == AllIn(db, Inflight)
HandleCall ==
  \/ HandleQueueReady \/ HandlePublished \/ HandleFailed \/ HandleResult
  \/ \E T \in SUBSET Out : HandlePollCycle(T)
  \/ HandlePubFinished \/ HandlePubThreadFinished \/ HandlePollFinished

-----------------------------------------------------------------------------
(* The worker threads.  A signal is emitted by queueing its slot. *)

Call(kind, of) == [kind |-> kind, of |-> of]
PubStep(p, thread, calls) ==
  /\ pubs' = [pubs EXCEPT ![p] = thread] /\ events' = events \o calls
  /\ UNCHANGED <<db, ctl, polls, halt>>
PubAt(p, run) == [pubs[p] EXCEPT !.run = run]

PubConnect(p) ==
  /\ pubs[p].run = "connecting" /\ UNCHANGED mq
  /\ \/ PubStep(p, PubAt(p, "sending"), <<Call("queueReady", p)>>)
     \/ /\ "connectFailure" \in Allowed
        /\ PubStep(p, PubAt(p, "done"), <<Call("pubFinished", p)>>)

\* The request reaches the broker; then the signal is emitted.
PubSend(p) ==
  /\ pubs[p].run = "sending" /\ pubs[p].todo # << >> /\ ~pubs[p].stop
  /\ mq' = mq (+) SetToBag({Head(pubs[p].todo)})
  /\ PubStep(p, PubAt(p, "sent"), << >>)

\* Of the request in hand: it is with the broker, or all attempts failed.
PubReport(p) ==
  /\ UNCHANGED mq
  /\ \E kind \in {"published", "failed"} :
       /\ IF kind = "published" THEN pubs[p].run = "sent"
          ELSE /\ "publishFailure" \in Allowed /\ pubs[p].run = "sending"
               /\ pubs[p].todo # << >> /\ ~pubs[p].stop
       /\ PubStep(p, [PubAt(p, "sending") EXCEPT !.todo = Tail(@)],
                  <<Call(kind, Head(pubs[p].todo))>>)

PubEnd(p) ==
  /\ pubs[p].run = "sending" /\ (pubs[p].todo = << >> \/ pubs[p].stop) /\ UNCHANGED mq
  /\ PubStep(p, PubAt(p, "done"), <<Call("pubFinished", p)>>)
PubExit(p) ==
  /\ pubs[p].run = "done" /\ pubs[p].quit /\ UNCHANGED mq
  /\ PubStep(p, PubAt(p, "exited"), <<Call("pubThreadFinished", p)>>)

PubRuns(p) == PubConnect(p) \/ PubSend(p) \/ PubReport(p) \/ PubEnd(p) \/ PubExit(p)

PollStep(w, run, calls) ==
  /\ polls' = [polls EXCEPT ![w] =
       LET t == [@ EXCEPT !.run = run] IN IF t.quit THEN Quit(t) ELSE t]
  /\ events' = events \o calls /\ UNCHANGED <<db, ctl, pubs, halt>>

PollConnect(w) ==
  /\ polls[w].run = "connecting" /\ UNCHANGED mq
  /\ \/ PollStep(w, "consuming", << >>)
     \/ "pollFailure" \in Allowed /\ PollStep(w, "done", <<Call("pollFinished", w)>>)

\* The answer to request t is acknowledged; it is passed on if t is tracked.
PollDeliver(w, t, v) ==
  /\ polls[w].run = "consuming" /\ mq' = mq (-) SetToBag({t})
  /\ PollStep(w, "consuming",
       IF t \in polls[w].tracked
       THEN <<Call("result", [task |-> t, verdict |-> v])>> ELSE << >>)

\* Bound: one unhandled tick at a time.
PollTick(w) ==
  /\ polls[w].run = "consuming" /\ UNCHANGED mq
  /\ \A i \in DOMAIN events : events[i].kind # "pollCycle"
  /\ PollStep(w, "consuming", <<Call("pollCycle", w)>>)
PollEnd(w) ==
  /\ polls[w].run = "consuming" /\ polls[w].stop /\ UNCHANGED mq
  /\ PollStep(w, "done", <<Call("pollFinished", w)>>)

-----------------------------------------------------------------------------
Next ==
  \/ \E f \in Folders : \E items \in SUBSET Items[f] : AddFolder(f, items)
  \/ \E S \in SUBSET Grouped(db) \ {{}} : DeleteFolders(S)
  \/ Start \/ Stop \/ Reset \/ StopEnds
  \/ HandleCall
  \/ \E p \in PubSlots : PubRuns(p)
  \/ \E w \in PollSlots : \/ PollConnect(w) \/ PollTick(w) \/ PollEnd(w)
                          \/ \E t \in BagToSet(mq), v \in Verdicts : PollDeliver(w, t, v)

Spec == Init /\ [][Next]_vars

(***************************************************************************)
(* Fairness: the event loop goes on taking calls and every thread goes on  *)
(* with its own loop.  An answer of an external worker is never assumed: a *)
(* request without one ages, and some poll cycle finds all that is out too *)
(* old.                                                                    *)
(***************************************************************************)
TakesCall == halt = "none" /\ events # << >> /\ events' = Tail(events)
RequestsAge ==
  []<>(Called("pollCycle") /\ Out # {}) => []<><<Out # {} /\ HandlePollCycle(Out)>>_vars

FairSpec ==
  /\ Spec /\ WF_events(TakesCall) /\ WF_vars(StopEnds) /\ RequestsAge
  /\ \A p \in PubSlots : WF_vars(PubRuns(p))
  /\ \A w \in PollSlots :
       WF_vars(PollConnect(w)) /\ WF_vars(PollTick(w)) /\ WF_vars(PollEnd(w))

-----------------------------------------------------------------------------
(* Properties. *)

\* What the variables hold; no run checks it.
TypeOK ==
  /\ DOMAIN db.status = UNION {ToSet(db.ids[f]) : f \in Grouped(db)}
  /\ \A t \in Known(db) :
       /\ t.item \in Items[t.folder] /\ t.life <= db.life
       /\ db.status[t] \in Done \cup Inflight \cup {"PENDING"}
  /\ \A f \in Folders : f \in Grouped(db) <=> db.ids[f] # << >>
  /\ {ctl.active, ctl.finished} \subseteq BOOLEAN
  /\ ctl.next \in 0 .. Len(ctl.batches)
  /\ ctl.opened \cup ctl.open \cup FoldersOf(ctl.batches) \subseteq Folders
  /\ \A p \in PubSlots : pubs[p].run \in {"none", "connecting", "sending", "sent", "done", "exited"}
  /\ \A w \in PollSlots : polls[w].run \in {"none", "connecting", "consuming", "done"}
  /\ halt \in {"none", "stop", "reset"}

\* A published request is never published again, whatever is added, deleted,
\* stopped and started in between: none that is out, done or with the broker is
\* in a batch still to be taken, or twice with the broker.
NothingTwice ==
  /\ \A t \in BagToSet(mq) : mq[t] = 1
  /\ \A t \in IdsOf(Untaken(Situation)) :
       t \in Known(db) => db.status[t] = "PENDING" /\ ~BagIn(t, mq)

\* The store in memory keeps the promise of module TaskPromise, as the database
\* does: a task that is done keeps its outcome, whatever the publisher's thread
\* reports of it later, and a deletion takes waiting tasks alone. Folders are
\* found deletable by their lists of ids, and tasks deleted by their folder.
Requests == [folder : Folders, item : Nat, life : Nat]
Promise == INSTANCE TaskPromise WITH
  Verdicts <- Done,
  waiting  <- AllIn(db, {"PENDING"}),
  out      <- AllIn(db, Inflight),
  verdict  <- [t \in AllIn(db, Done) |-> db.status[t]]
KeepsPromise == Promise!Spec

\* The folders opened in this run and not yet done are never more than
\* max_active_open_folders ("동시 active cap", controller.py:341), whatever is
\* deleted from or added to the batches while they are being sent.
WithinCap ==
  Cardinality({f \in FoldersOf(Taken(Situation)) \cap Grouped(db) : ~Finished(db, f)})
    <= MaxActive

\* While a run is active, every PENDING task is on its way: in a batch still to be
\* taken, in the hands of the publisher, or its report is queued.
InHand == UNION {ToSet(pubs[p].todo) : p \in {q \in PubSlots : ~pubs[q].stop}}
Reported == {events[i].of : i \in {j \in DOMAIN events : events[j].kind \in {"published", "failed"}}}
NothingForgotten ==
  ctl.active /\ halt = "none" =>
    AllIn(db, {"PENDING"}) \subseteq IdsOf(Untaken(Situation)) \cup InHand \cup Reported

\* A consumer acknowledges and drops the answer to a request it does not track:
\* so every poll thread tracks all tasks of the store while it consumes.
TrackedCoversKnown ==
  \A w \in PollSlots :
    polls[w].run \in {"connecting", "consuming"} /\ ~polls[w].stop =>
      Known(db) \subseteq polls[w].tracked

\* A run ends, answers or not, unless everything in it is deleted.
RunEnds == ctl.active ~> ~ctl.active \/ Known(db) = {}
=============================================================================
